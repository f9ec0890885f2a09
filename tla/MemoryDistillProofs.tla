------------------------- MODULE MemoryDistillProofs -------------------------
(***************************************************************************)
(* MemoryDistill for any memories, clusterings, limits and events.         *)
(***************************************************************************)
EXTENDS MemoryDistill, TLAPS, FiniteSetTheorems, WellFoundedInduction

-----------------------------------------------------------------------------
(* Names.                                                                  *)

LEMMA Least ==
  ASSUME NEW S \in SUBSET Nat, S # {}
  PROVE  Min(S) \in S /\ \A n \in S : Min(S) <= n
<1> DEFINE Less == {ss \in Nat \X Nat : ss[1] < ss[2]}
<1>1. OpToRel(<, Nat) = Less
  BY Zenon DEF OpToRel
<1>2. PICK m \in S : \A n \in S : ~(<<n, m>> \in Less)
  <2>1. IsWellFoundedOn(Less, Nat)
    BY <1>1, NatLessThanWellFounded
  <2> HIDE DEF Less
  <2> QED BY <2>1, WFMin
<1>3. \A n \in S : m <= n
  <2> SUFFICES ASSUME NEW n \in S, n < m PROVE FALSE
    BY SMT
  <2>1. <<n, m>> \in Nat \X Nat /\ <<n, m>>[1] = n /\ <<n, m>>[2] = m
    OBVIOUS
  <2>2. <<n, m>> \in Less
    BY <2>1, Zenon
  <2> QED BY <1>2, <2>2
<1> QED BY <1>3 DEF Min

LEMMA NumbersOnly == Mem \subseteq Nat
BY DistillAssumption

-----------------------------------------------------------------------------
(* Clusters.  Each takes the least member of what is left, so what is said *)
(* of all sets follows by the least number of memories it is false for.    *)

N        == Len(Kind)
Above(i) == {m \in Mem : N - i < m}
Group(S) == {Min(S)} \cup {n \in S : {Min(S), n} \in Alike}
Grow(f, S) ==
  IF S = {} THEN <<>>
  ELSE (IF Group(S) = {Min(S)} THEN <<>> ELSE <<Group(S)>>) \o f[S \ Group(S)]

LEMMA Memories == N \in Nat /\ Mem = 1..N /\ Above(0) = {} /\ Above(N) = Mem
<1>1. N \in Nat /\ Mem = 1..N
  BY DistillAssumption DEF N
<1> QED BY <1>1 DEF Above

LEMMA Groups ==
  ASSUME NEW S \in SUBSET Mem, S # {}
  PROVE  /\ Min(S) \in Group(S) /\ Group(S) \in SUBSET S /\ Group(S) # {}
         /\ \A i \in Nat : S \subseteq Above(i + 1) => S \ Group(S) \subseteq Above(i)
<1>1. S \in SUBSET Nat /\ Min(S) \in S /\ \A n \in S : Min(S) <= n
  BY NumbersOnly, Least
<1>2. Min(S) \in Group(S) /\ Group(S) \in SUBSET S
  BY <1>1 DEF Group
<1>3. ASSUME NEW i \in Nat, S \subseteq Above(i + 1), NEW n \in S \ Group(S)
      PROVE  n \in Above(i)
  <2>1. n \in Nat /\ Min(S) \in Nat /\ Min(S) <= n /\ Min(S) # n /\ n \in Mem
    BY <1>1, <1>2, <1>3
  <2>2. N - (i + 1) < Min(S)
    BY <1>1, <1>3 DEF Above
  <2> QED BY <2>1, <2>2, Memories DEF Above
<1> QED BY <1>2, <1>3

\* What holds of 0 and of i + 1 where it holds of i holds of every number.
LEMMA LeastFails ==
  ASSUME NEW F \in SUBSET Nat, F # {}, 0 \notin F
  PROVE  \E i \in Nat : i \notin F /\ i + 1 \in F
<1> DEFINE k == Min(F)
<1>1. k \in F /\ \A n \in F : k <= n
  BY Least
<1>2. k \in Nat /\ k # 0
  BY <1>1
<1> HIDE DEF k
<1>3. k - 1 \in Nat /\ k - 1 \notin F /\ (k - 1) + 1 \in F
  BY <1>1, <1>2
<1> QED BY <1>3

\* A function that clusters the sets above i.
Clustered(i, f) == f = [S \in SUBSET Above(i) |-> Grow(f, S)]

LEMMA OneMore ==
  ASSUME NEW i \in Nat, NEW f, Clustered(i, f)
  PROVE  \E g : Clustered(i + 1, g)
<1> DEFINE g == [S \in SUBSET Above(i + 1) |-> IF S \in SUBSET Above(i) THEN f[S] ELSE Grow(f, S)]
<1>1. Above(i) \subseteq Above(i + 1) /\ Above(i + 1) \subseteq Mem
  BY Memories DEF Above
<1>2. /\ g = [S \in SUBSET Above(i + 1) |-> g[S]]
      /\ \A S \in SUBSET Above(i + 1) : g[S] = IF S \in SUBSET Above(i) THEN f[S] ELSE Grow(f, S)
  OBVIOUS
<1>3. \A S \in SUBSET Above(i) : f[S] = Grow(f, S)
  BY DEF Clustered
<1> HIDE DEF g
<1>4. ASSUME NEW S \in SUBSET Above(i + 1)
      PROVE  g[S] = Grow(g, S)
  <2>1. CASE S = {}
    <3>1. Grow(f, S) = <<>> /\ Grow(g, S) = <<>>
      BY <2>1 DEF Grow
    <3>2. S \in SUBSET Above(i)
      BY <2>1
    <3> QED BY <1>2, <1>3, <3>1, <3>2
  <2>2. CASE S # {}
    <3>1. S \ Group(S) \in SUBSET Above(i) /\ S \ Group(S) \in SUBSET Above(i + 1)
      BY <1>1, <2>2, Groups
    <3>2. g[S \ Group(S)] = f[S \ Group(S)]
      BY <1>2, <3>1
    <3>3. Grow(g, S) = Grow(f, S)
      BY <3>2 DEF Grow
    <3> QED BY <1>2, <1>3, <3>3
  <2> QED BY <2>1, <2>2
<1>5. Clustered(i + 1, g)
  BY <1>2, <1>4 DEF Clustered
<1> QED BY <1>5

LEMMA ClustersAre == \A S \in SUBSET Mem : Clusters[S] = Grow(Clusters, S)
<1>1. \E f : Clustered(N, f)
  <2> DEFINE F == {i \in Nat : ~\E f : Clustered(i, f)}
  <2>1. 0 \notin F
    <3>1. Clustered(0, [S \in SUBSET Above(0) |-> <<>>])
      BY Memories DEF Clustered, Grow
    <3> QED BY <3>1
  <2>2. \A i \in Nat : i \notin F => i + 1 \notin F
    BY OneMore
  <2>3. N \in Nat
    BY Memories
  <2>4. F \in SUBSET Nat
    OBVIOUS
  <2>5. N \notin F => \E f : Clustered(N, f)
    BY <2>3
  <2> HIDE DEF F
  <2> QED BY <2>1, <2>2, <2>3, <2>4, <2>5, LeastFails
<1> DEFINE C == CHOOSE f : Clustered(N, f)
<1>2. Clustered(N, C)
  BY <1>1
<1>3. Clusters = C
  BY Memories, Zenon DEF Clusters, Clustered, Grow, Group
<1> HIDE DEF C
<1> QED BY <1>2, <1>3, Memories DEF Clustered

LEMMA WiderSeq ==
  ASSUME NEW A, NEW B, A \subseteq B, NEW w \in Seq(A)
  PROVE  w \in Seq(B) /\ \A i \in DOMAIN w : w[i] \in A
OBVIOUS

\* The members of w are parts of S, none empty, no two with a common member.
Sound(S, w) ==
  /\ w \in Seq((SUBSET S) \ {{}})
  /\ \A i, k \in DOMAIN w : i # k => w[i] \cap w[k] = {}

LEMMA SoundParts ==
  ASSUME NEW S, NEW w, Sound(S, w)
  PROVE  \A i \in DOMAIN w : w[i] \subseteq S /\ w[i] # {}
<1>1. \A i \in DOMAIN w : w[i] \in (SUBSET S) \ {{}}
  BY DEF Sound
<1> QED BY <1>1

LEMMA WiderSound ==
  ASSUME NEW S, NEW T, S \subseteq T, NEW w, Sound(S, w)
  PROVE  Sound(T, w)
<1>1. (SUBSET S) \ {{}} \subseteq (SUBSET T) \ {{}}
  OBVIOUS
<1> QED BY <1>1, WiderSeq DEF Sound

LEMMA SoundGrows ==
  ASSUME NEW S, NEW c \in SUBSET S, c # {}, NEW w, Sound(S \ c, w)
  PROVE  Sound(S, <<c>> \o w)
<1> DEFINE A == (SUBSET S) \ {{}}
           v == <<c>> \o w
<1>1. Sound(S, w) /\ w \in Seq(A) /\ c \in A /\ <<c>> \in Seq(A)
  BY WiderSound DEF Sound
<1>2. /\ v \in Seq(A) /\ v[1] = c
      /\ \A i \in DOMAIN v : i \in Nat /\ (i # 1 => i - 1 \in DOMAIN w /\ v[i] = w[i - 1])
  <2> HIDE DEF A
  <2> QED BY <1>1
<1>3. \A i \in DOMAIN w : w[i] \cap c = {}
  BY SoundParts
<1> HIDE DEF v
<1>4. ASSUME NEW i \in DOMAIN v, NEW k \in DOMAIN v, i # k
      PROVE  v[i] \cap v[k] = {}
  <2>1. CASE i = 1
    BY <1>2, <1>3, <1>4, <2>1
  <2>2. CASE k = 1
    BY <1>2, <1>3, <1>4, <2>2
  <2>3. CASE i # 1 /\ k # 1
    <3>1. i - 1 # k - 1
      BY <1>2, <1>4
    <3> QED BY <1>1, <1>2, <2>3, <3>1 DEF Sound
  <2> QED BY <2>1, <2>2, <2>3
<1>5. Sound(S, v)
  BY <1>2, <1>4 DEF Sound
<1> QED BY <1>5 DEF v

LEMMA ClustersSound == \A S \in SUBSET Mem : Sound(S, Clusters[S])
<1> DEFINE F == {i \in Nat : ~\A S \in SUBSET Above(i) : Sound(S, Clusters[S])}
<1>empty. Sound({}, <<>>)
  BY DEF Sound
<1>1. 0 \notin F
  <2>1. Clusters[{}] = <<>>
    BY ClustersAre DEF Grow
  <2> QED BY <1>empty, <2>1, Memories
<1>2. ASSUME NEW i \in Nat, i \notin F
      PROVE  i + 1 \notin F
  <2> SUFFICES ASSUME NEW S \in SUBSET Above(i + 1)
               PROVE  Sound(S, Clusters[S])
    OBVIOUS
  <2>1. S \in SUBSET Mem
    BY DEF Above
  <2>2. CASE S = {}
    <3>1. Clusters[S] = <<>>
      BY <2>1, <2>2, ClustersAre DEF Grow
    <3> QED BY <1>empty, <2>2, <3>1
  <2>3. CASE S # {}
    <3> DEFINE c == Group(S)
               w == Clusters[S \ c]
    <3>1. c \in SUBSET S /\ c # {} /\ S \ c \in SUBSET Above(i)
      BY <2>1, <2>3, Groups
    <3>2. Sound(S \ c, w)
      BY <1>2, <3>1
    <3>3. Clusters[S] = (IF c = {Min(S)} THEN <<>> ELSE <<c>>) \o w
      BY <2>1, <2>3, ClustersAre DEF Grow
    <3> HIDE DEF c, w
    <3>4. CASE c = {Min(S)}
      <4>1. Clusters[S] = w
        BY <3>2, <3>3, <3>4 DEF Sound
      <4>2. Sound(S, w)
        BY <3>2, WiderSound
      <4> QED BY <4>1, <4>2
    <3>5. CASE c # {Min(S)}
      BY <3>1, <3>2, <3>3, <3>5, SoundGrows
    <3> QED BY <3>4, <3>5
  <2> QED BY <2>2, <2>3
<1>3. N \in Nat /\ Above(N) = Mem
  BY Memories
<1>4. F \in SUBSET Nat /\ (N \notin F => \A S \in SUBSET Mem : Sound(S, Clusters[S]))
  BY <1>3
<1> HIDE DEF F
<1> QED BY <1>1, <1>2, <1>3, <1>4, LeastFails

-----------------------------------------------------------------------------
(* Ranks, and what is made of them: batches, and what a model is shown.    *)

UpTo(T, h)  == {n \in T : n <= h}
Below(T, h) == {n \in T : n < h}

LEMMA Ordered ==
  ASSUME NEW T \in SUBSET Mem
  PROVE  \A a, b \in T : a \in Nat /\ (a <= b <=> a < b \/ a = b) /\ (a <= b <=> ~(b < a))
<1>1. \A a \in T : a \in Nat
  BY NumbersOnly
<1> QED BY <1>1

LEMMA OnlyLeast ==
  ASSUME NEW T \in SUBSET Mem, NEW l \in T, \A n \in T : l <= n
  PROVE  \A n \in T : n <= l <=> n = l
<1>1. \A n \in T : n \in Nat
  BY NumbersOnly
<1> QED BY <1>1

LEMMA NextAbove ==
  ASSUME NEW T \in SUBSET Mem, NEW h \in T, NEW l \in T, h < l, \A n \in T : n > h => l <= n
  PROVE  ~(l <= h) /\ \A n \in T : n <= l <=> (n <= h \/ n = l)
<1>1. \A n \in T : n \in Nat
  BY NumbersOnly
<1> QED BY <1>1

LEMMA FinitePart ==
  ASSUME NEW S \in SUBSET Mem
  PROVE  IsFiniteSet(S) /\ Cardinality(S) \in Nat
<1>1. IsFiniteSet(Mem)
  BY Memories, FS_Interval
<1>2. IsFiniteSet(S)
  BY <1>1, FS_Subset
<1> QED BY <1>2, FS_CardinalityType

LEMMA UpToIsOneMore ==
  ASSUME NEW T \in SUBSET Mem, NEW h \in T
  PROVE  Cardinality(UpTo(T, h)) = Cardinality(Below(T, h)) + 1
<1>1. UpTo(T, h) = Below(T, h) \cup {h} /\ h \notin Below(T, h)
  <2>1. \A n \in T : (n <= h <=> n < h \/ n = h) /\ ~(h < h)
    BY Ordered
  <2> QED BY <2>1 DEF UpTo, Below
<1>2. IsFiniteSet(Below(T, h))
  BY FinitePart DEF Below
<1> QED BY <1>1, <1>2, FS_AddElement

\* The members of a set have the ranks from 1 to their number.
LEMMA Ranked ==
  ASSUME NEW T \in SUBSET Mem, NEW r \in 1..Cardinality(T)
  PROVE  \E h \in T : Cardinality(UpTo(T, h)) = r
<1> DEFINE Has(i) == \E h \in T : Cardinality(UpTo(T, h)) = i + 1
           F      == {i \in Nat : i + 1 <= Cardinality(T) /\ ~Has(i)}
<1>finite. IsFiniteSet(T) /\ Cardinality(T) \in Nat /\ T \in SUBSET Nat
  BY FinitePart, NumbersOnly
<1>1. 0 \notin F
  <2> SUFFICES ASSUME 1 <= Cardinality(T) PROVE Has(0)
    OBVIOUS
  <2>1. T # {}
    BY FS_EmptySet
  <2>2. Min(T) \in T /\ UpTo(T, Min(T)) = {Min(T)}
    <3>1. Min(T) \in T /\ \A n \in T : Min(T) <= n
      BY <1>finite, <2>1, Least
    <3>2. \A n \in T : n <= Min(T) <=> n = Min(T)
      BY <3>1, OnlyLeast
    <3> QED BY <3>1, <3>2 DEF UpTo
  <2>3. Cardinality({Min(T)}) = 1
    BY FS_Singleton
  <2> QED BY <2>2, <2>3
<1>2. ASSUME NEW i \in Nat, i \notin F, (i + 1) + 1 <= Cardinality(T)
      PROVE  Has(i + 1)
  <2>1. PICK h \in T : Cardinality(UpTo(T, h)) = i + 1
    BY <1>2, <1>finite
  <2> DEFINE R == {n \in T : n > h}
  <2>2. R \in SUBSET Nat /\ (R = {} => UpTo(T, h) = T)
    <3>1. \A n \in T : n \in Nat /\ (n <= h \/ n > h)
      BY <1>finite
    <3> QED BY <3>1 DEF UpTo
  <2>3. R # {}
    BY <1>2, <1>finite, <2>1, <2>2
  <2>4. Min(R) \in R /\ \A n \in R : Min(R) <= n
    BY <2>2, <2>3, Least
  <2>5. UpTo(T, Min(R)) = UpTo(T, h) \cup {Min(R)} /\ Min(R) \notin UpTo(T, h) /\ Min(R) \in T
    <3>1. Min(R) \in T /\ h < Min(R) /\ \A n \in T : n > h => Min(R) <= n
      <4>1. Min(R) \in T /\ Min(R) > h
        BY <2>4
      <4>2. \A n \in T : n > h => Min(R) <= n
        BY <2>4
      <4>3. Min(R) > h => h < Min(R)
        OBVIOUS
      <4> QED BY <4>1, <4>2, <4>3
    <3> HIDE DEF R
    <3>2. ~(Min(R) <= h) /\ \A n \in T : n <= Min(R) <=> (n <= h \/ n = Min(R))
      BY <3>1, NextAbove
    <3> QED BY <3>1, <3>2 DEF UpTo
  <2>6. IsFiniteSet(UpTo(T, h))
    BY FinitePart DEF UpTo
  <2> HIDE DEF R
  <2>7. Cardinality(UpTo(T, Min(R))) = (i + 1) + 1
    BY <2>1, <2>5, <2>6, FS_AddElement
  <2> QED BY <2>5, <2>7
<1>3. r - 1 \in Nat /\ (r - 1) + 1 = r /\ r <= Cardinality(T)
  BY <1>finite
<1> HIDE DEF Has
<1>4. F = {}
  <2>1. F \in SUBSET Nat
    OBVIOUS
  <2>2. \A i \in Nat : i \notin F => i + 1 \notin F
    BY <1>2
  <2> HIDE DEF F
  <2> QED BY <1>1, <2>1, <2>2, LeastFails
<1>5. Has(r - 1)
  BY <1>3, <1>4
<1> QED BY <1>3, <1>5 DEF Has

\* Batches are parts of what is cut, none empty: each has its head.
LEMMA BatchesSound == \A S \in SUBSET Mem : Sound(S, Batches(S))
<1> SUFFICES ASSUME NEW S \in SUBSET Mem PROVE Sound(S, Batches(S))
  OBVIOUS
<1> DEFINE k    == Cardinality(Heads(S))
           B(i) == {m \in S : Cardinality(UpTo(Heads(S), m)) = i}
<1>1. Heads(S) \in SUBSET Mem /\ Heads(S) \in SUBSET S /\ k \in Nat
  <2>1. Heads(S) \in SUBSET Mem /\ Heads(S) \in SUBSET S
    BY DEF Heads
  <2> QED BY <2>1, FinitePart
<1>2. Batches(S) = [i \in 1..k |-> B(i)]
  BY DEF Batches, UpTo
<1>3. \A i \in 1..k : B(i) \in (SUBSET S) \ {{}}
  <2> SUFFICES ASSUME NEW i \in 1..k PROVE B(i) # {}
    OBVIOUS
  <2>1. PICK h \in Heads(S) : Cardinality(UpTo(Heads(S), h)) = i
    BY <1>1, Ranked
  <2> QED BY <1>1, <2>1
<1>4. \A i, j \in 1..k : i # j => B(i) \cap B(j) = {}
  OBVIOUS
<1> HIDE DEF k, B
<1>5. Batches(S) \in Seq((SUBSET S) \ {{}}) /\ DOMAIN Batches(S) = 1..k
  BY <1>1, <1>2, <1>3
<1>6. \A i, j \in DOMAIN Batches(S) : i # j => Batches(S)[i] \cap Batches(S)[j] = {}
  BY <1>2, <1>4, <1>5
<1> QED BY <1>5, <1>6 DEF Sound

\* A summary is made of members of its cluster: of each, or of as many as the
\* fallback takes.
LEMMA Read ==
  ASSUME NEW c \in SUBSET Mem, NEW r \in Readings(c)
  PROVE  r \in SUBSET c /\ \A m \in c : m \in r \/ Cardinality(r) >= TopReads
<1>finite. /\ IsFiniteSet(c) /\ Cardinality(c) \in Nat /\ r \in SUBSET c
           /\ IsFiniteSet(r) /\ Cardinality(r) \in Nat
           /\ TopReads \in Nat \ {0} /\ ModelReads \in Nat /\ TopReads <= ModelReads
  <2>1. r \in SUBSET c /\ r \in SUBSET Mem
    BY DEF Readings
  <2> QED BY <2>1, FinitePart, DistillAssumption
<1>1. CASE Cardinality(r) = Upon(c, TopReads)
  <2>1. CASE Cardinality(c) < TopReads
    <3>1. r = c
      BY <1>1, <1>finite, <2>1, FS_Subset DEF Upon
    <3> QED BY <1>finite, <3>1
  <2>2. CASE ~(Cardinality(c) < TopReads)
    BY <1>1, <1>finite, <2>2 DEF Upon
  <2> QED BY <2>1, <2>2
<1>2. CASE r = {m \in c : Cardinality(Below(c, m)) < ModelReads}
  <2> SUFFICES ASSUME NEW m \in c, m \notin r PROVE Cardinality(r) >= TopReads
    BY <1>finite
  <2>1. ModelReads <= Cardinality(c)
    <3>1. Below(c, m) \in SUBSET c /\ Cardinality(Below(c, m)) \in Nat
      BY FinitePart DEF Below
    <3>2. Cardinality(Below(c, m)) <= Cardinality(c)
      BY <1>finite, <3>1, FS_Subset
    <3>3. ~(Cardinality(Below(c, m)) < ModelReads)
      BY <1>2
    <3> QED BY <1>finite, <3>1, <3>2, <3>3
  <2>2. ModelReads \in 1..Cardinality(c)
    BY <1>finite, <2>1
  <2>3. PICK h \in c : Cardinality(UpTo(c, h)) = ModelReads
    BY <2>2, Ranked
  <2>4. UpTo(c, h) \in SUBSET r
    <3> SUFFICES ASSUME NEW n \in UpTo(c, h) PROVE n \in r
      OBVIOUS
    <3>1. n \in c /\ UpTo(c, n) \in SUBSET UpTo(c, h)
      <4>1. n \in c /\ n <= h
        BY DEF UpTo
      <4>2. \A k \in c : k <= n => k <= h
        <5>1. h \in Nat /\ \A k \in c : k \in Nat
          BY NumbersOnly
        <5> QED BY <4>1, <5>1
      <4> QED BY <4>1, <4>2 DEF UpTo
    <3>2. IsFiniteSet(UpTo(c, h)) /\ Cardinality(UpTo(c, n)) <= Cardinality(UpTo(c, h))
      <4>1. IsFiniteSet(UpTo(c, h))
        BY FinitePart DEF UpTo
      <4> QED BY <3>1, <4>1, FS_Subset
    <3>3. Cardinality(UpTo(c, n)) = Cardinality(Below(c, n)) + 1 /\ Cardinality(Below(c, n)) \in Nat
      <4>1. Below(c, n) \in SUBSET Mem
        BY DEF Below
      <4> QED BY <3>1, <4>1, UpToIsOneMore, FinitePart
    <3> QED BY <1>2, <1>finite, <2>3, <3>1, <3>2, <3>3
  <2>5. Cardinality(UpTo(c, h)) <= Cardinality(r)
    BY <1>finite, <2>4, FS_Subset
  <2> QED BY <1>finite, <2>3, <2>5
<1>3. \/ r = {m \in c : Cardinality(Below(c, m)) < ModelReads}
      \/ Cardinality(r) = Upon(c, TopReads)
  BY DEF Readings, Below
<1> QED BY <1>1, <1>2, <1>3, <1>finite

\* What a phase works through are groups of what it was given, none empty and no
\* two with a common member: a memory that a cluster has taken is skipped.
LEMMA WorkSound ==
  ASSUME NEW phase \in 0..3, NEW S \in SUBSET Mem
  PROVE  Sound(S, Work(phase, S))
<1>1. CASE phase = 0 /\ Clusters[S \ Blind] = <<>>
  BY <1>1, BatchesSound DEF Work
<1>2. CASE ~(phase = 0 /\ Clusters[S \ Blind] = <<>>)
  <2> DEFINE w == Clusters[S \ Blind]
  <2>1. Work(phase, S) = Upto(w, MaxClusters)
    BY <1>2 DEF Work
  <2>2. Sound(S \ Blind, w)
    BY ClustersSound
  <2>3. Sound(S, w)
    BY <2>2, WiderSound
  <2> HIDE DEF w
  <2> DEFINE k == IF Len(w) < MaxClusters THEN Len(w) ELSE MaxClusters
             v == SubSeq(w, 1, k)
             A == (SUBSET S) \ {{}}
  <2>4. w \in Seq(A) /\ k \in Nat /\ k <= Len(w)
    BY <2>3, DistillAssumption DEF Sound
  <2>5. v \in Seq(A) /\ \A i \in DOMAIN v : i \in DOMAIN w /\ v[i] = w[i]
    <3> HIDE DEF A, k
    <3> QED BY <2>4
  <2>6. Upto(w, MaxClusters) = v
    BY DEF Upto
  <2> HIDE DEF v, k
  <2> QED BY <2>1, <2>3, <2>5, <2>6 DEF Sound
<1> QED BY <1>1, <1>2

\* A cluster has a summary to go into; the weekly job's are its own.
LEMMA RefNamed ==
  ASSUME NEW phase \in 0..3, NEW c \in SUBSET Mem, c # {}
  PROVE  RefName(phase, c) \in Name /\ (RefName(phase, c)[1] = "weekly-ref" <=> phase = 3)
<1> DEFINE d == IF c \ Dated # {} THEN c \ Dated ELSE c
<1>1. d \in SUBSET Nat /\ d # {} /\ d \subseteq Mem
  BY NumbersOnly
<1>2. Min(d) \in Mem
  BY <1>1, Least
<1>3. Label[Min(d)] \in Range(Label)
  BY <1>2, DistillAssumption DEF Range
<1>4. Prefix(phase) \in {"semantic", "ref", "weekly-ref"} /\ (Prefix(phase) = "weekly-ref" <=> phase = 3)
  BY DEF Prefix
<1>5. RefName(phase, c) = <<Prefix(phase), Label[Min(d)]>>
  BY DEF RefName
<1> HIDE DEF d
<1> QED BY <1>3, <1>4, <1>5 DEF Name

-----------------------------------------------------------------------------
(* Types.                                                                  *)

Versions == 1..(Budget["people"] + 1)
Tags     == SUBSET {"consolidated", "kept"}
Seen     == UNION {[S -> [version : Versions, tags : Tags]] : S \in SUBSET Mem}
JobState ==
  [ pc : {"idle", "lookup", "write", "mark"}, phase : 0..3, seen : Seen, ahead : SUBSET Mem,
    todo : Seq((SUBSET Mem) \ {{}}), found : BOOLEAN, marks : SUBSET Mem ]

\* A job is in one of its phases, has read what it works through, and marks only
\* members of the cluster it is at.
AtCluster(j, r) ==
  /\ r.pc # "idle" => (r.phase = 3 <=> j = "week")
  /\ r.ahead \subseteq DOMAIN r.seen
  /\ \A i \in DOMAIN r.todo : r.todo[i] \subseteq DOMAIN r.seen
  /\ r.pc \in {"write", "mark"} => r.todo # <<>>
  /\ r.marks # {} => r.pc = "mark" /\ r.marks \subseteq r.todo[1]

Typed ==
  /\ version \in [Mem -> Versions] /\ tags \in [Mem -> Tags] /\ active \subseteq Mem
  /\ summary \in [Name -> SUBSET Text]
  /\ job \in [Job -> JobState] /\ spent \in [Event -> Nat]
  /\ \A k \in Event : spent[k] <= Budget[k]
  /\ \A m \in Mem : version[m] <= spent["people"] + 1
  /\ \A j \in Job : AtCluster(j, job[j])

LEMMA TypedIsType == Typed => TypeOK
<1> SUFFICES ASSUME Typed PROVE TypeOK
  OBVIOUS
<1>1. \A j \in Job :
        /\ job[j].pc \in {"idle", "lookup", "write", "mark"} /\ job[j].phase \in 0..3
        /\ \A i \in DOMAIN job[j].todo : job[j].todo[i] \subseteq DOMAIN job[j].seen
  BY DEF Typed, AtCluster, JobState
<1>2. \A j \in Job : job[j].marks \subseteq DOMAIN job[j].seen
  <2> SUFFICES ASSUME NEW j \in Job, job[j].marks # {}
               PROVE  job[j].marks \subseteq DOMAIN job[j].seen
    OBVIOUS
  <2>1. /\ job[j] \in JobState /\ job[j].todo # <<>> /\ job[j].marks \subseteq job[j].todo[1]
    BY DEF Typed, AtCluster
  <2>2. 1 \in DOMAIN job[j].todo
    BY <2>1 DEF JobState
  <2> QED BY <1>1, <2>1, <2>2
<1> QED BY <1>1, <1>2 DEF Typed, TypeOK, Versions, Tags

LEMMA IdleTyped == Idle \in JobState /\ DOMAIN Idle.seen = {} /\ DOMAIN Idle.todo = {}
<1>1. <<>> \in [{} -> [version : Versions, tags : Tags]]
  OBVIOUS
<1>2. <<>> \in Seen
  BY <1>1 DEF Seen
<1>3. <<>> \in Seq((SUBSET Mem) \ {{}})
  OBVIOUS
<1> QED BY <1>2, <1>3 DEF Idle, JobState

LEMMA SnapshotTyped ==
  ASSUME Typed, NEW S \in SUBSET Mem
  PROVE  /\ Snapshot(S) \in Seen /\ DOMAIN Snapshot(S) = S
         /\ \A m \in S : Snapshot(S)[m].version = version[m]
BY DEF Typed, Snapshot, Seen

LEMMA FetchedAreMem ==
  ASSUME Typed, NEW phase
  PROVE  Fetched(phase) \in SUBSET Mem
BY DEF Fetched, Eligible, Typed

LEMMA InitTyped == Init => Typed
<1> SUFFICES ASSUME Init PROVE Typed
  OBVIOUS
<1>1. 1 \in Versions /\ Budget["people"] \in Nat /\ Budget["fail"] \in Nat
  BY DistillAssumption DEF Versions, Event
<1>2. \A j \in Job : job[j] = Idle /\ AtCluster(j, job[j])
  BY IdleTyped DEF Init, AtCluster, Idle
<1> QED BY <1>1, <1>2, IdleTyped DEF Init, Typed, Tags, Absent, Event

\* Job j becomes r, the other one stays.
Became(j, r) == job' = [k \in Job |-> IF k = j THEN r ELSE job[k]]

LEMMA JobMoves ==
  ASSUME Typed, NEW j \in Job, NEW r \in JobState, AtCluster(j, r), Became(j, r)
  PROVE  /\ job' \in [Job -> JobState] /\ \A k \in Job : AtCluster(k, job'[k])
         /\ job'[j] = r /\ \A k \in Job : k # j => job'[k] = job[k]
BY DEF Typed, Became

\* Job j is at the start of a phase that works through S.
Entered(j, phase, seen, ahead, S) ==
  \E r \in JobState :
    /\ AtCluster(j, r) /\ Became(j, r)
    /\ r.pc = "lookup" /\ r.phase = phase /\ r.seen = seen /\ r.ahead = ahead
    /\ r.todo = Work(phase, S) /\ r.marks = {}

LEMMA EnterMoves ==
  ASSUME Typed, NEW j \in Job, NEW phase \in 0..3, phase = 3 <=> j = "week",
         NEW seen \in Seen, NEW ahead \in SUBSET DOMAIN seen, NEW S \in SUBSET Mem,
         S \subseteq DOMAIN seen, Enter(j, phase, seen, ahead, Work(phase, S))
  PROVE  Entered(j, phase, seen, ahead, S)
<1> DEFINE r == [Idle EXCEPT !.pc = "lookup", !.phase = phase, !.seen = seen,
                             !.ahead = ahead, !.todo = Work(phase, S)]
<1>1. Work(phase, S) \in Seq((SUBSET S) \ {{}})
  BY WorkSound DEF Sound
<1>2. Work(phase, S) \in Seq((SUBSET Mem) \ {{}})
      /\ \A i \in DOMAIN Work(phase, S) : Work(phase, S)[i] \subseteq S
  <2>1. (SUBSET S) \ {{}} \subseteq (SUBSET Mem) \ {{}}
    OBVIOUS
  <2>2. \A i \in DOMAIN Work(phase, S) : Work(phase, S)[i] \in (SUBSET S) \ {{}}
    BY <1>1, WiderSeq
  <2>3. Work(phase, S) \in Seq((SUBSET Mem) \ {{}})
    BY <1>1, <2>1, WiderSeq
  <2> QED BY <2>2, <2>3
<1>3. ahead \in SUBSET Mem
  BY DEF Seen
<1>4. r \in JobState
  BY <1>2, <1>3, IdleTyped DEF JobState
<1>5. /\ r.pc = "lookup" /\ r.phase = phase /\ r.seen = seen /\ r.ahead = ahead
      /\ r.todo = Work(phase, S) /\ r.marks = {}
  BY DEF Idle
<1>6. job' = [job EXCEPT ![j] = r]
  BY DEF Enter
<1> HIDE DEF r
<1>7. AtCluster(j, r)
  BY <1>2, <1>5 DEF AtCluster
<1>8. Became(j, r)
  BY <1>6 DEF Typed, Became
<1> QED BY <1>4, <1>5, <1>7, <1>8 DEF Entered

\* What a new phase of the night works through was not consolidated when it was
\* fetched, and no two clusters share a member, with each other or with what is
\* kept for phase 1.
Fresh(r) ==
  /\ \A i, k \in DOMAIN r.todo : i # k => r.todo[i] \cap r.todo[k] = {}
  /\ \A i \in DOMAIN r.todo : \A m \in r.todo[i] :
       /\ m \notin r.ahead
       /\ "consolidated" \notin tags[m] \/ m \in job["night"].ahead
  /\ \A m \in r.ahead : "consolidated" \notin tags[m]

\* What is read in a phase is read now, or was when the night began.
ReadNow(j, r) ==
  \A m \in DOMAIN r.seen :
    \/ r.seen[m].version = version[m]
    \/ m \in DOMAIN job[j].seen /\ r.seen[m] = job[j].seen[m]

\* Job j is at the start of a phase, or at its end.
Begun(j) ==
  \E r \in JobState :
    /\ AtCluster(j, r) /\ Became(j, r)
    /\ r.pc \in {"idle", "lookup"} /\ r.marks = {}
    /\ ReadNow(j, r) /\ (j = "night" => Fresh(r))

LEMMA PhaseMoves ==
  ASSUME Typed, NEW j \in Job, Start(j) \/ NextPhase(j)
  PROVE  Begun(j)
<1>typed. job[j] \in JobState /\ AtCluster(j, job[j])
  BY DEF Typed
<1>enter. ASSUME NEW phase \in 0..3, phase = 3 <=> j = "week",
                 NEW seen \in Seen, NEW ahead \in SUBSET DOMAIN seen, NEW S \in SUBSET Mem,
                 S \subseteq DOMAIN seen, Enter(j, phase, seen, ahead, Work(phase, S)),
                 \A m \in DOMAIN seen : seen[m].version = version[m] \/ seen = job[j].seen,
                 j = "night" => \A m \in S : /\ m \notin ahead
                                             /\ "consolidated" \notin tags[m] \/ m \in job["night"].ahead,
                 j = "night" => \A m \in ahead : "consolidated" \notin tags[m]
          PROVE  Begun(j)
  <2>1. PICK r \in JobState :
           /\ AtCluster(j, r) /\ Became(j, r)
           /\ r.pc = "lookup" /\ r.phase = phase /\ r.seen = seen /\ r.ahead = ahead
           /\ r.todo = Work(phase, S) /\ r.marks = {}
    <3>1. Entered(j, phase, seen, ahead, S)
      BY <1>enter, EnterMoves
    <3> QED BY <3>1 DEF Entered
  <2>2. /\ \A i \in DOMAIN r.todo : r.todo[i] \subseteq S
        /\ \A i, k \in DOMAIN r.todo : i # k => r.todo[i] \cap r.todo[k] = {}
    <3>1. Sound(S, r.todo)
      BY <2>1, WorkSound
    <3> QED BY <3>1, SoundParts DEF Sound
  <2>3. j = "night" => Fresh(r)
    BY <1>enter, <2>1, <2>2 DEF Fresh
  <2>4. ReadNow(j, r)
    BY <1>enter, <2>1 DEF ReadNow
  <2> QED BY <2>1, <2>3, <2>4 DEF Begun
<1>taken. \A m \in Fetched(0) \cup Fetched(1) \cup Fetched(2) : "consolidated" \notin tags[m]
  BY DEF Fetched, Eligible
<1>apart. Fetched(0) \cap Fetched(1) = {}
  BY DEF Fetched, Eligible, Frequent
<1>1. CASE Start(j) /\ j = "night"
  <2> DEFINE S == Fetched(0)
             ahead == Fetched(1)
             seen == Snapshot(S \cup ahead)
  <2>1. S \in SUBSET Mem /\ ahead \in SUBSET Mem
    BY FetchedAreMem
  <2>2. seen \in Seen /\ DOMAIN seen = S \cup ahead /\ \A m \in S \cup ahead : seen[m].version = version[m]
    BY <2>1, SnapshotTyped
  <2>3. Enter(j, 0, seen, ahead, Work(0, S)) /\ 0 \in 0..3 /\ (0 = 3 <=> j = "week")
    BY <1>1 DEF Start
  <2>4. /\ \A m \in S : m \notin ahead /\ "consolidated" \notin tags[m]
        /\ \A m \in ahead : "consolidated" \notin tags[m]
    BY <1>taken, <1>apart
  <2>5. ahead \in SUBSET DOMAIN seen /\ S \subseteq DOMAIN seen
    BY <2>2
  <2> HIDE DEF seen, S, ahead
  <2> QED BY <1>enter, <2>1, <2>2, <2>3, <2>4, <2>5
<1>2. CASE Start(j) /\ j = "week"
  <2> DEFINE S == Fetched(3)
             seen == Snapshot(S)
  <2>1. S \in SUBSET Mem
    BY FetchedAreMem
  <2>2. seen \in Seen /\ DOMAIN seen = S /\ \A m \in S : seen[m].version = version[m]
    BY <2>1, SnapshotTyped
  <2>3. Enter(j, 3, seen, {}, Work(3, S)) /\ 3 \in 0..3 /\ (3 = 3 <=> j = "week") /\ j # "night"
    BY <1>2 DEF Start
  <2>4. {} \in SUBSET DOMAIN seen /\ S \subseteq DOMAIN seen
    BY <2>2
  <2> HIDE DEF seen, S
  <2> QED BY <1>enter, <2>1, <2>2, <2>3, <2>4
<1>3. CASE NextPhase(j) /\ job[j].phase = 0
  <2>1. job[j].pc = "lookup" /\ Enter(j, 1, job[j].seen, {}, Work(1, job[j].ahead))
    BY <1>3 DEF NextPhase
  <2>2. /\ job[j].seen \in Seen /\ job[j].ahead \in SUBSET Mem
        /\ job[j].ahead \subseteq DOMAIN job[j].seen /\ j = "night"
        /\ {} \in SUBSET DOMAIN job[j].seen
    BY <1>typed, <1>3, <2>1 DEF JobState, AtCluster, Job
  <2>3. 1 \in 0..3 /\ (1 = 3 <=> j = "week")
    BY <2>2
  <2> QED BY <1>enter, <2>1, <2>2, <2>3
<1>4. CASE NextPhase(j) /\ job[j].phase = 1
  <2> DEFINE S == Fetched(2)
             seen == Snapshot(S)
  <2>1. S \in SUBSET Mem
    BY FetchedAreMem
  <2>2. seen \in Seen /\ DOMAIN seen = S /\ \A m \in S : seen[m].version = version[m]
    BY <2>1, SnapshotTyped
  <2>3. Enter(j, 2, seen, {}, Work(2, S)) /\ 2 \in 0..3 /\ (2 = 3 <=> j = "week")
    BY <1>4, <1>typed DEF NextPhase, AtCluster
  <2>4. {} \in SUBSET DOMAIN seen /\ S \subseteq DOMAIN seen
    BY <2>2
  <2>5. /\ \A m \in S : m \notin {} /\ "consolidated" \notin tags[m]
        /\ \A m \in {} : "consolidated" \notin tags[m]
    BY <1>taken
  <2>6. \A m \in DOMAIN seen : seen[m].version = version[m] \/ seen = job[j].seen
    BY <2>2
  <2> HIDE DEF seen, S
  <2> QED BY <1>enter, <2>1, <2>2, <2>3, <2>4, <2>5, <2>6
<1>5. CASE NextPhase(j) /\ job[j].phase \notin {0, 1}
  <2>1. job' = [job EXCEPT ![j] = Idle]
    BY <1>5 DEF NextPhase
  <2>2. Became(j, Idle)
    BY <2>1 DEF Became, Typed
  <2>3. AtCluster(j, Idle) /\ ReadNow(j, Idle) /\ Fresh(Idle) /\ Idle.pc = "idle" /\ Idle.marks = {}
    BY IdleTyped DEF AtCluster, ReadNow, Fresh, Idle
  <2> QED BY <2>2, <2>3, IdleTyped DEF Begun
<1> QED BY <1>1, <1>2, <1>3, <1>4, <1>5 DEF Job

LEMMA LookupMoves ==
  ASSUME Typed, NEW j \in Job, Lookup(j)
  PROVE  \E r \in JobState :
           /\ AtCluster(j, r) /\ Became(j, r)
           /\ r = [job[j] EXCEPT !.pc = "write", !.found = summary[Target(j)] # Absent]
<1> DEFINE r == [job[j] EXCEPT !.pc = "write", !.found = summary[Target(j)] # Absent]
<1>1. job[j] \in JobState /\ AtCluster(j, job[j]) /\ job[j].pc = "lookup" /\ job[j].todo # <<>>
  BY DEF Typed, Lookup
<1>2. r \in JobState
  BY <1>1 DEF JobState
<1>3. AtCluster(j, r)
  BY <1>1 DEF AtCluster, JobState
<1>4. Became(j, r)
  BY DEF Typed, Lookup, Became, JobState
<1> QED BY <1>2, <1>3, <1>4

LEMMA SkipMoves ==
  ASSUME Typed, NEW j \in Job, Skip(j), job[j].pc \in {"write", "mark"}
  PROVE  \E r \in JobState :
           /\ AtCluster(j, r) /\ Became(j, r)
           /\ r = [job[j] EXCEPT !.pc = "lookup", !.todo = Tail(@), !.marks = {}]
<1> DEFINE r == [job[j] EXCEPT !.pc = "lookup", !.todo = Tail(@), !.marks = {}]
<1>1. job[j] \in JobState /\ AtCluster(j, job[j]) /\ job[j].todo # <<>>
  BY DEF Typed, AtCluster
<1>2. job[j].todo \in Seq((SUBSET Mem) \ {{}})
  BY <1>1 DEF JobState
<1>3. /\ Tail(job[j].todo) \in Seq((SUBSET Mem) \ {{}})
      /\ \A i \in DOMAIN Tail(job[j].todo) :
           i + 1 \in DOMAIN job[j].todo /\ Tail(job[j].todo)[i] = job[j].todo[i + 1]
  BY <1>1, <1>2
<1>4. r \in JobState
  BY <1>1, <1>3 DEF JobState
<1>5. AtCluster(j, r)
  BY <1>1, <1>3 DEF AtCluster, JobState
<1>6. Became(j, r)
  BY DEF Typed, Skip, Became, JobState
<1> QED BY <1>4, <1>5, <1>6

\* Job j writes the summary of its cluster.
Summarises(j) ==
  \E r \in Readings(job[j].todo[1]) : summary' = [summary EXCEPT ![Target(j)] = Texts(j, r)]

LEMMA AtWrite ==
  ASSUME Typed, NEW j \in Job, job[j].pc \in {"write", "mark"} \/ job[j].todo # <<>>
  PROVE  /\ job[j].todo[1] \in SUBSET Mem /\ job[j].todo[1] # {} /\ 1 \in DOMAIN job[j].todo
         /\ job[j].todo[1] \subseteq DOMAIN job[j].seen
         /\ Target(j) \in Name
         /\ job[j].pc # "idle" => (Target(j)[1] = "weekly-ref" <=> j = "week")
<1>1. job[j] \in JobState /\ AtCluster(j, job[j]) /\ job[j].todo # <<>>
  BY DEF Typed, AtCluster
<1>2. job[j].todo \in Seq((SUBSET Mem) \ {{}}) /\ job[j].phase \in 0..3
  BY <1>1 DEF JobState
<1>3. 1 \in DOMAIN job[j].todo /\ job[j].todo[1] \in SUBSET Mem /\ job[j].todo[1] # {}
  <2>1. 1 \in DOMAIN job[j].todo /\ job[j].todo[1] \in (SUBSET Mem) \ {{}}
    BY <1>1, <1>2
  <2> QED BY <2>1
<1>4. Target(j) \in Name
  BY <1>2, <1>3, RefNamed DEF Target
<1>5. Target(j)[1] = "weekly-ref" <=> job[j].phase = 3
  BY <1>2, <1>3, RefNamed DEF Target
<1>6. job[j].todo[1] \subseteq DOMAIN job[j].seen /\ (job[j].pc # "idle" => (job[j].phase = 3 <=> j = "week"))
  BY <1>1, <1>3 DEF AtCluster
<1> QED BY <1>3, <1>4, <1>5, <1>6

LEMMA WriteMoves ==
  ASSUME Typed, NEW j \in Job, job[j].pc = "write",
         job' = [job EXCEPT ![j].pc = "mark", ![j].marks = job[j].todo[1]]
  PROVE  \E r \in JobState :
           /\ AtCluster(j, r) /\ Became(j, r)
           /\ r = [job[j] EXCEPT !.pc = "mark", !.marks = job[j].todo[1]]
<1> DEFINE r == [job[j] EXCEPT !.pc = "mark", !.marks = job[j].todo[1]]
<1>1. job[j] \in JobState /\ AtCluster(j, job[j]) /\ job[j].todo # <<>>
  BY DEF Typed, AtCluster
<1>2. job[j].todo[1] \in SUBSET Mem
  BY AtWrite
<1>3. r \in JobState
  BY <1>1, <1>2 DEF JobState
<1>4. AtCluster(j, r)
  BY <1>1 DEF AtCluster, JobState
<1>5. Became(j, r)
  BY DEF Typed, Became, JobState
<1> QED BY <1>3, <1>4, <1>5

LEMMA MarkMoves ==
  ASSUME Typed, NEW j \in Job, NEW m, job[j].pc = "mark", job' = [job EXCEPT ![j].marks = @ \ {m}]
  PROVE  \E r \in JobState :
           /\ AtCluster(j, r) /\ Became(j, r)
           /\ r = [job[j] EXCEPT !.marks = @ \ {m}]
<1> DEFINE r == [job[j] EXCEPT !.marks = @ \ {m}]
<1>1. job[j] \in JobState /\ AtCluster(j, job[j])
  BY DEF Typed
<1>2. r \in JobState
  BY <1>1 DEF JobState
<1>3. AtCluster(j, r)
  BY <1>1 DEF AtCluster, JobState
<1>4. Became(j, r)
  BY DEF Typed, Became, JobState
<1> QED BY <1>2, <1>3, <1>4

LEMMA Spent ==
  ASSUME Typed, NEW k \in Event, Spend(k)
  PROVE  /\ spent' \in [Event -> Nat] /\ \A i \in Event : spent'[i] <= Budget[i]
         /\ spent'[k] = spent[k] + 1 /\ \A i \in Event : i # k => spent'[i] = spent[i]
<1>1. spent \in [Event -> Nat] /\ Budget \in [Event -> Nat] /\ \A i \in Event : spent[i] <= Budget[i]
  BY DistillAssumption DEF Typed
<1>2. spent[k] < Budget[k] /\ spent' = [spent EXCEPT ![k] = spent[k] + 1]
  BY DEF Spend
<1>3. spent[k] \in Nat /\ Budget[k] \in Nat
  BY <1>1
<1>4. spent[k] + 1 <= Budget[k] /\ spent[k] + 1 \in Nat
  BY <1>2, <1>3
<1>5. spent'[k] = spent[k] + 1 /\ \A i \in Event : i # k => spent'[i] = spent[i]
  BY <1>1, <1>2
<1> QED BY <1>1, <1>2, <1>4, <1>5

\* Which steps a job takes, and what they leave alone.
LEMMA JobTyped ==
  ASSUME Typed, NEW j \in Job, JobStep(j) \/ Crash(j)
  PROVE  Typed'
<1>same. ASSUME NEW r \in JobState, AtCluster(j, r), Became(j, r), UNCHANGED <<version, active>>,
                tags' \in [Mem -> Tags], summary' \in [Name -> SUBSET Text],
                UNCHANGED spent \/ Spend("fail")
         PROVE  Typed'
  <2>1. job' \in [Job -> JobState] /\ \A k \in Job : AtCluster(k, job'[k])
    BY <1>same, JobMoves
  <2>2. /\ spent' \in [Event -> Nat] /\ \A i \in Event : spent'[i] <= Budget[i]
        /\ spent'["people"] = spent["people"]
    BY <1>same, Spent DEF Typed, Event
  <2> QED BY <1>same, <2>1, <2>2 DEF Typed, AtCluster
<1>typed. /\ job[j] \in JobState /\ AtCluster(j, job[j])
          /\ tags \in [Mem -> Tags] /\ summary \in [Name -> SUBSET Text]
  BY DEF Typed
<1>1. CASE Start(j) \/ NextPhase(j)
  <2>1. UNCHANGED <<version, tags, active, summary, spent>>
    BY <1>1 DEF Start, NextPhase
  <2> QED BY <1>1, <1>same, <1>typed, <2>1, PhaseMoves DEF Begun
<1>3. CASE Lookup(j)
  BY <1>3, <1>same, <1>typed, LookupMoves DEF Lookup
<1>4. CASE Write(j)
  <2>1. job[j].pc = "write" /\ UNCHANGED <<version, tags, active>>
    BY <1>4 DEF Write
  <2>2. UNCHANGED spent \/ Spend("fail")
    BY <1>4 DEF Write
  <2>3. \E r \in JobState : AtCluster(j, r) /\ Became(j, r)
    <3>1. Skip(j) \/ job' = [job EXCEPT ![j].pc = "mark", ![j].marks = job[j].todo[1]]
      BY <1>4 DEF Write
    <3> QED BY <2>1, <3>1, SkipMoves, WriteMoves
  <2>4. summary' \in [Name -> SUBSET Text]
    <3>1. CASE summary' = summary
      BY <1>typed, <3>1
    <3>2. CASE Summarises(j)
      <4>1. PICK r \in Readings(job[j].todo[1]) : summary' = [summary EXCEPT ![Target(j)] = Texts(j, r)]
        BY <3>2 DEF Summarises
      <4>2. r \in SUBSET job[j].todo[1]
        BY DEF Readings
      <4>3. Texts(j, r) \subseteq Text
        BY <1>typed, <2>1, <4>2, AtWrite DEF Texts, Text, JobState, Seen, Versions
      <4> QED BY <1>typed, <4>1, <4>3
    <3> QED BY <1>4, <3>1, <3>2 DEF Write, Summarises
  <2> QED BY <1>same, <1>typed, <2>1, <2>2, <2>3, <2>4
<1>5. CASE Mark(j)
  <2>1. job[j].pc = "mark" /\ UNCHANGED <<version, active, summary>>
    BY <1>5 DEF Mark
  <2>2. UNCHANGED spent \/ Spend("fail")
    BY <1>5 DEF Mark
  <2>3. \E r \in JobState : AtCluster(j, r) /\ Became(j, r)
    <3>1. Skip(j) \/ \E m : job' = [job EXCEPT ![j].marks = @ \ {m}]
      BY <1>5 DEF Mark
    <3> QED BY <2>1, <3>1, SkipMoves, MarkMoves
  <2>4. tags' \in [Mem -> Tags]
    <3>1. \/ tags' = tags
          \/ \E m \in job[j].marks : tags' = [tags EXCEPT ![m] = job[j].seen[m].tags \cup {"consolidated"}]
      <4>1. job[j].marks # {} => Min(job[j].marks) \in job[j].marks
        BY <1>typed, NumbersOnly, Least DEF JobState
      <4> DEFINE m == Min(job[j].marks)
      <4>2. \/ tags' = tags
            \/ job[j].marks # {} /\ tags' = [tags EXCEPT ![m] = job[j].seen[m].tags \cup {"consolidated"}]
        BY <1>5 DEF Mark
      <4> HIDE DEF m
      <4> QED BY <4>1, <4>2 DEF m
    <3>2. \A m \in job[j].marks : job[j].seen[m].tags \in Tags
      <4>1. job[j].marks \subseteq DOMAIN job[j].seen
        BY <1>typed, <2>1, AtWrite DEF AtCluster
      <4> QED BY <1>typed, <4>1 DEF JobState, Seen
    <3> QED BY <1>typed, <3>1, <3>2 DEF Tags
  <2> QED BY <1>same, <1>typed, <2>1, <2>2, <2>3, <2>4
<1>6. CASE Crash(j)
  <2>1. Became(j, Idle) /\ AtCluster(j, Idle)
    <3>1. job' = [job EXCEPT ![j] = Idle] /\ job \in [Job -> JobState]
      BY <1>6 DEF Crash, Typed
    <3>2. Became(j, Idle)
      BY <3>1 DEF Became
    <3> QED BY <3>2, IdleTyped DEF AtCluster, Idle
  <2> QED BY <1>6, <1>same, <1>typed, <2>1, IdleTyped DEF Crash
<1> QED BY <1>1, <1>3, <1>4, <1>5, <1>6 DEF JobStep

LEMMA PeopleTyped ==
  ASSUME Typed, People
  PROVE  Typed'
<1>1. Spend("people") /\ job' = job
  BY DEF People, Edit, Keep, Retire, Touch
<1>2. /\ spent' \in [Event -> Nat] /\ \A k \in Event : spent'[k] <= Budget[k]
      /\ spent'["people"] = spent["people"] + 1
  BY <1>1, Spent DEF Event
<1>3. version' \in [Mem -> Versions] /\ \A m \in Mem : version'[m] <= spent'["people"] + 1
  <2>1. version' = version \/ \E m \in Mem : version' = [version EXCEPT ![m] = @ + 1]
    BY DEF People, Edit, Keep, Retire, Touch
  <2>2. Budget["people"] \in Nat /\ spent["people"] \in Nat /\ spent'["people"] <= Budget["people"]
    BY <1>2, DistillAssumption DEF Event, Typed
  <2> QED BY <1>2, <2>1, <2>2 DEF Typed, Versions
<1>4. tags' \in [Mem -> Tags] /\ active' \subseteq Mem
  BY DEF People, Edit, Keep, Retire, Touch, Typed, Tags
<1>5. summary' \in [Name -> SUBSET Text]
  <2>1. summary' = summary \/ \E n \in Name : summary' = [summary EXCEPT ![n] =
                                                 IF @ = Absent THEN {<<1, 1>>} ELSE Absent]
    BY DEF People, Edit, Keep, Retire, Touch
  <2>2. \A n \in Name : <<1, 1>> \in Text
    BY DistillAssumption DEF Name, Text, Range, Event
  <2> QED BY <2>1, <2>2 DEF Typed, Absent
<1> QED BY <1>1, <1>2, <1>3, <1>4, <1>5 DEF Typed, AtCluster

\* The tables keep their types; a job marks only members of the cluster it is at.
THEOREM TypeCorrect == Spec => []TypeOK
<1>1. Typed /\ [Next]_vars => Typed'
  <2> SUFFICES ASSUME Typed, [Next]_vars PROVE Typed'
    OBVIOUS
  <2>1. CASE UNCHANGED vars
    BY <2>1 DEF vars, Typed, AtCluster
  <2> QED BY <2>1, JobTyped, PeopleTyped DEF Next
<1> QED BY <1>1, InitTyped, TypedIsType, PTL DEF Spec

-----------------------------------------------------------------------------
(* What is marked is in the summary.                                       *)

\* The summary job j writes to is one of its cluster.
OfCluster(j) == \E r \in Readings(job[j].todo[1]) : summary[Target(j)] = Texts(j, r)

\* Between looking a summary up and marking the last member, nobody but the job
\* touches the summary: the two jobs' names differ.
Held(j) ==
  /\ job[j].pc = "write" /\ job[j].found => summary[Target(j)] # Absent
  /\ job[j].pc = "mark" => OfCluster(j)

Written == Typed /\ (spent["people"] = 0 => \A j \in Job : Held(j))

LEMMA OtherStays ==
  ASSUME Typed, NEW j \in Job, JobStep(j) \/ Crash(j), NEW k \in Job, k # j
  PROVE  job'[k] = job[k]
<1>1. CASE Start(j) \/ NextPhase(j)
  BY <1>1, PhaseMoves DEF Begun, Became
<1>2. CASE Lookup(j) \/ Write(j) \/ Mark(j) \/ Crash(j)
  <2>1. job \in [Job -> JobState]
    BY DEF Typed
  <2>2. CASE Lookup(j) \/ Crash(j)
    BY <2>1, <2>2 DEF Lookup, Crash
  <2>3. CASE Write(j) \/ Mark(j)
    <3>1. \/ Skip(j) \/ \E m : job' = [job EXCEPT ![j].marks = @ \ {m}]
          \/ job' = [job EXCEPT ![j].pc = "mark", ![j].marks = job[j].todo[1]]
      BY <2>3 DEF Write, Mark
    <3> QED BY <2>1, <3>1 DEF Skip
  <2> QED BY <1>2, <2>2, <2>3
<1> QED BY <1>1, <1>2 DEF JobStep

LEMMA SummaryMoves ==
  ASSUME Typed, NEW j \in Job, JobStep(j) \/ Crash(j)
  PROVE  \/ summary' = summary
         \/ /\ job[j].pc = "write" /\ job'[j].pc = "mark"
            /\ Summarises(j)
<1>1. CASE Start(j) \/ NextPhase(j) \/ Lookup(j) \/ Mark(j) \/ Crash(j)
  BY <1>1 DEF Start, NextPhase, Lookup, Mark, Crash
<1>2. CASE Write(j)
  <2>1. summary' = summary \/ (Summarises(j) /\ job' = [job EXCEPT ![j].pc = "mark", ![j].marks = job[j].todo[1]])
    BY <1>2 DEF Write, Summarises
  <2> QED BY <1>2, <2>1 DEF Write, Typed, JobState
<1> QED BY <1>1, <1>2 DEF JobStep

LEMMA OtherHeld ==
  ASSUME Typed, NEW j \in Job, JobStep(j) \/ Crash(j), NEW k \in Job, k # j, Held(k)
  PROVE  Held(k)'
<1>1. job'[k] = job[k]
  BY OtherStays
<1>2. Target(k)' = Target(k)
  BY <1>1 DEF Target
<1>3. CASE job[k].pc \notin {"write", "mark"}
  BY <1>1, <1>3 DEF Held
<1>4. CASE job[k].pc \in {"write", "mark"}
  <2>1. summary'[Target(k)] = summary[Target(k)]
    <3>1. CASE summary' = summary
      BY <3>1
    <3>2. CASE job[j].pc = "write" /\ Summarises(j)
      <4>1. Target(j)[1] = "weekly-ref" <=> j = "week"
        BY <3>2, AtWrite
      <4>2. Target(k)[1] = "weekly-ref" <=> k = "week"
        BY <1>4, AtWrite
      <4>3. Target(j) # Target(k)
        BY <4>1, <4>2 DEF Job
      <4>4. Target(k) \in Name /\ summary \in [Name -> SUBSET Text]
        BY <1>4, AtWrite DEF Typed
      <4> QED BY <3>2, <4>3, <4>4 DEF Summarises
    <3> QED BY <3>1, <3>2, SummaryMoves
  <2>2. OfCluster(k) => OfCluster(k)'
    BY <1>1, <1>2, <2>1 DEF OfCluster, Texts
  <2> QED BY <1>1, <1>2, <2>1, <2>2 DEF Held
<1> QED BY <1>3, <1>4

LEMMA OwnHeld ==
  ASSUME Typed, NEW j \in Job, JobStep(j) \/ Crash(j), Held(j)
  PROVE  Held(j)'
<1>typed. job[j] \in JobState /\ AtCluster(j, job[j]) /\ job \in [Job -> JobState]
  BY DEF Typed
<1>quiet. ASSUME job'[j].pc \notin {"write", "mark"}
          PROVE  Held(j)'
  BY <1>quiet DEF Held
<1>skip. Skip(j) => job'[j].pc = "lookup"
  BY <1>typed DEF Skip, JobState
<1>1. CASE Start(j) \/ NextPhase(j)
  BY <1>1, <1>quiet, PhaseMoves DEF Begun, Became
<1>2. CASE Crash(j)
  BY <1>2, <1>quiet, <1>typed DEF Crash, Idle
<1>3. CASE Lookup(j)
  <2>1. /\ job[j].pc = "lookup" /\ summary' = summary
        /\ job' = [job EXCEPT ![j].pc = "write", ![j].found = summary[Target(j)] # Absent]
    BY <1>3 DEF Lookup
  <2>2. job'[j] = [job[j] EXCEPT !.pc = "write", !.found = summary[Target(j)] # Absent]
    BY <1>3, LookupMoves DEF Became
  <2>4. job'[j].todo = job[j].todo /\ job'[j].phase = job[j].phase /\ job'[j].pc = "write"
        /\ job'[j].found = (summary[Target(j)] # Absent)
    BY <1>typed, <2>2 DEF JobState
  <2>5. Target(j)' = Target(j)
    BY <2>4 DEF Target
  <2> QED BY <2>1, <2>4, <2>5 DEF Held, Absent
<1>4. CASE Write(j)
  <2>1. CASE Skip(j)
    BY <2>1, <1>skip, <1>quiet
  <2>2. CASE ~Skip(j)
    <3>1. /\ job[j].pc = "write"
          /\ job' = [job EXCEPT ![j].pc = "mark", ![j].marks = job[j].todo[1]]
          /\ (job[j].found /\ summary[Target(j)] = Absent) \/ Summarises(j)
      BY <1>4, <2>2 DEF Write, Summarises
    <3>2. PICK r \in Readings(job[j].todo[1]) : summary' = [summary EXCEPT ![Target(j)] = Texts(j, r)]
      BY <3>1 DEF Held, Summarises
    <3>3. job'[j] = [job[j] EXCEPT !.pc = "mark", !.marks = job[j].todo[1]]
      BY <3>1, WriteMoves DEF Became
    <3>4. /\ job'[j].pc = "mark" /\ job'[j].marks = job[j].todo[1]
          /\ job'[j].todo = job[j].todo /\ job'[j].phase = job[j].phase /\ job'[j].seen = job[j].seen
      BY <1>typed, <3>3 DEF JobState
    <3>5. Target(j)' = Target(j) /\ Target(j) \in Name
      BY <3>1, <3>4, AtWrite DEF Target
    <3>6. summary'[Target(j)'] = Texts(j, r)
      BY <3>2, <3>5 DEF Typed
    <3>7. OfCluster(j)'
      BY <3>4, <3>5, <3>6 DEF OfCluster, Texts
    <3> QED BY <3>4, <3>7 DEF Held
  <2> QED BY <2>1, <2>2
<1>5. CASE Mark(j)
  <2>1. CASE Skip(j)
    BY <2>1, <1>skip, <1>quiet
  <2>2. CASE ~Skip(j)
    <3>1. PICK m : job' = [job EXCEPT ![j].marks = @ \ {m}]
      BY <1>5, <2>2 DEF Mark
    <3>2. job[j].pc = "mark" /\ summary' = summary
      BY <1>5 DEF Mark
    <3>3. job'[j] = [job[j] EXCEPT !.marks = @ \ {m}]
      BY <3>1, <3>2, MarkMoves DEF Became
    <3>4. /\ job'[j].marks = job[j].marks \ {m} /\ job'[j].seen = job[j].seen /\ job'[j].pc = "mark"
          /\ job'[j].todo = job[j].todo /\ job'[j].phase = job[j].phase
      BY <1>typed, <3>2, <3>3 DEF JobState
    <3>5. Target(j)' = Target(j)
      BY <3>4 DEF Target
    <3>6. OfCluster(j) => OfCluster(j)'
      BY <3>2, <3>4, <3>5 DEF OfCluster, Texts
    <3> QED BY <3>2, <3>4, <3>6 DEF Held
  <2> QED BY <2>1, <2>2
<1> QED BY <1>1, <1>2, <1>3, <1>4, <1>5 DEF JobStep

LEMMA WrittenIsKept == Written /\ [Next]_vars => Written'
<1> SUFFICES ASSUME Written, [Next]_vars PROVE Written'
  OBVIOUS
<1>typed. Typed /\ Typed'
  <2>1. CASE UNCHANGED vars
    BY <2>1 DEF vars, Written, Typed, AtCluster
  <2> QED BY <2>1, JobTyped, PeopleTyped DEF Written, Next
<1>1. CASE UNCHANGED vars
  <2>1. \A j \in Job : Held(j) => Held(j)'
    BY <1>1 DEF vars, Held, OfCluster, Texts, Target
  <2> QED BY <1>1, <1>typed, <2>1 DEF vars, Written
<1>2. CASE People
  <2>1. Spend("people")
    BY <1>2 DEF People, Edit, Keep, Retire, Touch
  <2>2. spent'["people"] # 0
    BY <1>typed, <2>1, Spent DEF Typed, Event
  <2> QED BY <1>typed, <2>2 DEF Written
<1>3. ASSUME NEW j \in Job, JobStep(j) \/ Crash(j)
      PROVE  Written'
  <2>1. spent'["people"] = spent["people"]
    <3>1. UNCHANGED spent \/ Spend("fail")
      BY <1>3 DEF JobStep, Start, NextPhase, Lookup, Write, Mark, Crash
    <3> QED BY <1>typed, <3>1, Spent DEF Event
  <2>2. ASSUME spent["people"] = 0, NEW k \in Job
        PROVE  Held(k)'
    BY <1>3, <1>typed, <2>2, OwnHeld, OtherHeld DEF Written
  <2> QED BY <1>typed, <2>1, <2>2 DEF Written
<1> QED BY <1>1, <1>2, <1>3 DEF Next

LEMMA InitWritten == Init => Written
<1> SUFFICES ASSUME Init PROVE Written
  OBVIOUS
<1>1. \A j \in Job : job[j] = Idle
  BY DEF Init
<1> QED BY <1>1, InitTyped DEF Written, Held, Idle

\* A job marks a memory only when it has written the summary of the memory's
\* cluster from what it read, with the memory's own text or as many others as the
\* fallback takes, if nobody has deleted or replaced that since.
THEOREM MarkedWasWrittenHolds == Spec => MarkedWasWritten
<1> DEFINE Stands(j, m) ==
             /\ summary[Target(j)] = Texts(j, Distilled(j))
             /\ m \in Distilled(j) \/ Cardinality(Distilled(j)) >= TopReads
<1>1. ASSUME Written, spent["people"] = 0, NEW j \in Job, NEW m \in job[j].marks
      PROVE  Stands(j, m)
  <2>1. /\ job[j].pc = "mark" /\ m \in job[j].todo[1] /\ job[j].todo[1] \in SUBSET Mem
    <3>1. job[j].pc = "mark" /\ m \in job[j].todo[1]
      BY <1>1 DEF Written, Typed, AtCluster
    <3> QED BY <1>1, <3>1, AtWrite DEF Written
  <2>2. PICK r \in Readings(job[j].todo[1]) : summary[Target(j)] = Texts(j, r)
    BY <1>1, <2>1 DEF Written, Held, OfCluster
  <2>3. r \in SUBSET job[j].todo[1] /\ (m \in r \/ Cardinality(r) >= TopReads)
    BY <2>1, Read
  <2>4. Distilled(j) = r
    BY <2>2, <2>3 DEF Distilled, Texts
  <2> QED BY <2>2, <2>3, <2>4
<1>2. Written => (\A j \in Job : \A m \in job[j].marks :
        ("consolidated" \in tags'[m] /\ "consolidated" \notin tags[m] /\ spent["people"] = 0)
          => Stands(j, m))
  BY <1>1
<1> QED BY <1>2, InitWritten, WrittenIsKept, PTL DEF Spec, MarkedWasWritten

-----------------------------------------------------------------------------
(* Where nothing fails, a text goes into one summary only.                 *)

Calm  == \A k \in Event : spent[k] = 0
Night == job["night"]

\* The nightly summary n holds memory m as it was at first; some of them does.
In(m, n)   == n[1] # "weekly-ref" /\ <<m, 1>> \in summary[n]
Covered(m) == \E n \in Name : In(m, n)

\* Nothing read is newer than what people have written.
ReadBefore ==
  \A j \in Job : \A m \in DOMAIN job[j].seen : job[j].seen[m].version <= spent["people"] + 1

\* What is in a summary is marked, or about to be; what a night has still to
\* work through is in none, and in one cluster only.
Apart ==
  /\ \A m \in Mem, n \in Name, k \in Name : In(m, n) /\ In(m, k) => n = k
  /\ \A m \in Mem : Covered(m) => "consolidated" \in tags[m] \/ m \in Night.marks
  /\ \A i \in DOMAIN Night.todo : \A m \in Night.todo[i] :
       /\ m \notin Night.ahead
       /\ i > 1 \/ Night.pc # "mark" => ~Covered(m)
  /\ \A i, k \in DOMAIN Night.todo : i # k => Night.todo[i] \cap Night.todo[k] = {}
  /\ \A m \in Night.ahead : ~Covered(m)

Once == Typed /\ ReadBefore /\ (Calm => Apart)

LEMMA ReadBeforeIsKept ==
  ASSUME Typed, ReadBefore, [Next]_vars
  PROVE  ReadBefore'
<1>typed. /\ version \in [Mem -> Versions] /\ spent \in [Event -> Nat]
          /\ \A m \in Mem : version[m] <= spent["people"] + 1
          /\ \A j \in Job : DOMAIN job[j].seen \subseteq Mem
          /\ \A j \in Job : \A m \in DOMAIN job[j].seen : job[j].seen[m].version \in Versions
          /\ job \in [Job -> JobState]
  <2>1. \A r \in JobState : /\ DOMAIN r.seen \subseteq Mem
                            /\ \A m \in DOMAIN r.seen : r.seen[m].version \in Versions
    BY DEF JobState, Seen
  <2>2. /\ version \in [Mem -> Versions] /\ spent \in [Event -> Nat]
        /\ \A m \in Mem : version[m] <= spent["people"] + 1
        /\ \A j \in Job : job[j] \in JobState
        /\ job \in [Job -> JobState]
    BY DEF Typed
  <2> QED BY <2>1, <2>2
<1>1. CASE UNCHANGED vars
  BY <1>1 DEF vars, ReadBefore
<1>2. CASE People
  <2>1. Spend("people") /\ job' = job
    BY <1>2 DEF People, Edit, Keep, Retire, Touch
  <2>2. spent'["people"] = spent["people"] + 1
    BY <2>1, Spent DEF Event
  <2>3. spent["people"] \in Nat /\ Budget["people"] \in Nat
    BY <1>typed, DistillAssumption DEF Event
  <2>4. \A j \in Job : \A m \in DOMAIN job[j].seen : job[j].seen[m].version \in Nat
    BY <1>typed, <2>3 DEF Versions
  <2> QED BY <2>1, <2>2, <2>3, <2>4 DEF ReadBefore
<1>3. ASSUME NEW j \in Job, JobStep(j) \/ Crash(j)
      PROVE  ReadBefore'
  <2>1. spent'["people"] = spent["people"]
    <3>1. UNCHANGED spent \/ Spend("fail")
      BY <1>3 DEF JobStep, Start, NextPhase, Lookup, Write, Mark, Crash
    <3> QED BY <3>1, Spent DEF Event
  <2>2. \A m \in DOMAIN job'[j].seen : job'[j].seen[m].version <= spent["people"] + 1
    <3>1. CASE Start(j) \/ NextPhase(j)
      <4>1. PICK r \in JobState : Became(j, r) /\ ReadNow(j, r)
        BY <3>1, PhaseMoves DEF Begun
      <4>2. job'[j] = r /\ DOMAIN r.seen \subseteq Mem
        BY <4>1 DEF Became, JobState, Seen
      <4> QED BY <1>typed, <4>1, <4>2 DEF ReadNow, ReadBefore
    <3>2. CASE Lookup(j) \/ Write(j) \/ Mark(j)
      <4>1. job'[j].seen = job[j].seen
        BY <1>typed, <3>2 DEF Lookup, Write, Mark, Skip, JobState
      <4> QED BY <4>1 DEF ReadBefore
    <3>3. CASE Crash(j)
      <4>1. job'[j] = Idle
        BY <1>typed, <3>3 DEF Crash
      <4> QED BY <4>1, IdleTyped
    <3> QED BY <1>3, <3>1, <3>2, <3>3 DEF JobStep
  <2>3. \A k \in Job : k # j => job'[k] = job[k]
    BY <1>3, OtherStays
  <2> QED BY <2>1, <2>2, <2>3 DEF ReadBefore
<1> QED BY <1>1, <1>2, <1>3 DEF Next

\* Where nothing fails and nobody interferes, everything read is as it was at first.
LEMMA FirstTexts ==
  ASSUME Typed, ReadBefore, Calm
  PROVE  /\ \A m \in Mem : version[m] = 1
         /\ \A j \in Job : \A m \in DOMAIN job[j].seen : job[j].seen[m].version = 1
<1>1. spent["people"] = 0
  BY DEF Calm, Event
<1>2. \A v \in Versions : v <= 0 + 1 => v = 1
  BY DistillAssumption DEF Versions, Event
<1>3. \A j \in Job : \A m \in DOMAIN job[j].seen : job[j].seen[m].version \in Versions
  BY DEF Typed, JobState, Seen
<1>4. \A m \in Mem : version[m] \in Versions
  BY DEF Typed
<1> QED BY <1>1, <1>2, <1>3, <1>4 DEF Typed, ReadBefore

\* Marks stay; a member is marked or left to be marked.
LEMMA TagsMove ==
  ASSUME Typed, NEW j \in Job, JobStep(j), spent' = spent
  PROVE  /\ \A m \in Mem : "consolidated" \in tags[m] => "consolidated" \in tags'[m]
         /\ job[j].pc = "mark" =>
              \A m \in job[j].marks : "consolidated" \in tags'[m] \/ m \in job'[j].marks
<1>typed. /\ job \in [Job -> JobState] /\ tags \in [Mem -> Tags] /\ spent \in [Event -> Nat]
          /\ AtCluster(j, job[j]) /\ job[j] \in JobState
  BY DEF Typed
<1>1. CASE job[j].pc # "mark"
  BY <1>1 DEF JobStep, Start, NextPhase, Lookup, Write, Mark
<1>2. CASE job[j].pc = "mark"
  <2>1. Mark(j)
    BY <1>2 DEF JobStep, Start, NextPhase, Lookup, Write
  <2>2. CASE job[j].marks = {}
    BY <2>1, <2>2 DEF Mark
  <2>3. CASE job[j].marks # {}
    <3> DEFINE m == Min(job[j].marks)
    <3>1. m \in job[j].marks /\ m \in Mem
      BY <1>typed, <2>3, NumbersOnly, Least DEF JobState
    <3>2. ~Spend("fail")
      BY <1>typed, Spent DEF Event
    <3>3. /\ job' = [job EXCEPT ![j].marks = @ \ {m}]
          /\ tags' = [tags EXCEPT ![m] = job[j].seen[m].tags \cup {"consolidated"}]
      BY <2>1, <2>3, <3>2 DEF Mark
    <3>4. job'[j].marks = job[j].marks \ {m}
      BY <1>typed, <3>3 DEF JobState
    <3>5. "consolidated" \in tags'[m] /\ \A k \in Mem : k # m => tags'[k] = tags[k]
      BY <1>typed, <3>1, <3>3
    <3> HIDE DEF m
    <3> QED BY <3>4, <3>5
  <2> QED BY <2>2, <2>3
<1> QED BY <1>1, <1>2

\* A text comes into a nightly summary only when the night writes the cluster it is at.
LEMMA InMoves ==
  ASSUME Typed, ReadBefore, Calm, NEW j \in Job, JobStep(j), NEW m \in Mem, NEW n \in Name,
         In(m, n)'
  PROVE  \/ In(m, n)
         \/ /\ j = "night" /\ job[j].pc = "write" /\ job'[j].pc = "mark"
            /\ n = Target(j) /\ m \in job[j].todo[1]
<1>1. CASE summary' = summary
  BY <1>1 DEF In
<1>2. CASE job[j].pc = "write" /\ job'[j].pc = "mark" /\ Summarises(j)
  <2>r. PICK r \in Readings(job[j].todo[1]) : summary' = [summary EXCEPT ![Target(j)] = Texts(j, r)]
    BY <1>2 DEF Summarises
  <2>1. Target(j)[1] = "weekly-ref" <=> j = "week"
    BY <1>2, AtWrite
  <2>2. CASE n # Target(j)
    <3>1. summary'[n] = summary[n]
      BY <2>r, <2>2 DEF Typed
    <3> QED BY <3>1 DEF In
  <2>3. CASE n = Target(j)
    <3>1. summary'[n] = Texts(j, r)
      BY <2>r, <2>3 DEF Typed
    <3>2. m \in job[j].todo[1]
      BY <3>1 DEF In, Texts, Readings
    <3> QED BY <1>2, <2>1, <2>3, <3>2 DEF In, Job
  <2> QED BY <2>2, <2>3
<1> QED BY <1>1, <1>2, SummaryMoves

LEMMA WeekKeepsApart ==
  ASSUME Typed, ReadBefore, Calm, Apart, JobStep("week"), spent' = spent
  PROVE  Apart'
<1>1. Night' = Night
  BY OtherStays DEF Night, Job
<1>2. \A m \in Mem, n \in Name : In(m, n)' => In(m, n)
  BY InMoves DEF Job
<1>3. \A m \in Mem : Covered(m)' => Covered(m)
  BY <1>2 DEF Covered
<1>4. \A m \in Mem : "consolidated" \in tags[m] => "consolidated" \in tags'[m]
  BY TagsMove DEF Job
<1>5. Night \in JobState
  BY DEF Typed, Night, Job
<1>6. /\ Night.ahead \subseteq Mem
      /\ \A i \in DOMAIN Night.todo : Night.todo[i] \subseteq Mem
  <2>1. Night.todo \in Seq((SUBSET Mem) \ {{}}) /\ Night.ahead \in SUBSET Mem
    BY <1>5 DEF JobState
  <2> QED BY <2>1, WiderSeq
<1> QED BY <1>1, <1>2, <1>3, <1>4, <1>6 DEF Apart

LEMMA NightKeepsApart ==
  ASSUME Typed, ReadBefore, Calm, Apart, JobStep("night"), spent' = spent
  PROVE  Apart'
<1>typed. /\ Night \in JobState /\ AtCluster("night", Night) /\ "night" \in Job
          /\ job \in [Job -> JobState]
  BY DEF Typed, Night, Job
<1>parts. /\ Night.ahead \subseteq Mem /\ Night.marks \subseteq Mem
          /\ Night.todo \in Seq((SUBSET Mem) \ {{}})
          /\ \A i \in DOMAIN Night.todo : Night.todo[i] \subseteq Mem
  <2>1. Night.todo \in Seq((SUBSET Mem) \ {{}}) /\ Night.ahead \in SUBSET Mem /\ Night.marks \in SUBSET Mem
    BY <1>typed DEF JobState
  <2> QED BY <2>1, WiderSeq
<1>tags. /\ \A m \in Mem : "consolidated" \in tags[m] => "consolidated" \in tags'[m]
         /\ Night.pc = "mark" => \A m \in Night.marks : "consolidated" \in tags'[m] \/ m \in Night'.marks
         /\ Night.pc # "mark" => Night.marks = {}
  BY <1>typed, TagsMove DEF Night, AtCluster
\* Nothing is written: what the night has still to work through must be apart.
<1>still. ASSUME ~(Night.pc = "write" /\ Night'.pc = "mark"),
                 \A i \in DOMAIN Night'.todo : \A m \in Night'.todo[i] :
                   m \in Mem /\ m \notin Night'.ahead /\ (i > 1 \/ Night'.pc # "mark" => ~Covered(m)),
                 \A i, k \in DOMAIN Night'.todo : i # k => Night'.todo[i] \cap Night'.todo[k] = {},
                 \A m \in Night'.ahead : m \in Mem /\ ~Covered(m)
          PROVE  Apart'
  <2>1. \A m \in Mem, n \in Name : In(m, n)' => In(m, n)
    BY <1>still, <1>typed, InMoves DEF Night
  <2>2. \A m \in Mem : Covered(m)' => Covered(m)
    BY <2>1 DEF Covered
  <2>3. \A m \in Mem : Covered(m)' => "consolidated" \in tags'[m] \/ m \in Night'.marks
    BY <1>tags, <2>2 DEF Apart
  <2> QED BY <1>still, <2>1, <2>2, <2>3 DEF Apart
\* The night leaves the cluster it is at.
<1>skip. ASSUME Skip("night"), Night.pc \in {"write", "mark"}
         PROVE  Apart'
  <2>1. /\ Night'.pc = "lookup" /\ Night'.todo = Tail(Night.todo) /\ Night'.ahead = Night.ahead
        /\ Night.todo # <<>>
    BY <1>typed, <1>skip DEF Skip, Night, JobState, AtCluster
  <2>2. \A i \in DOMAIN Tail(Night.todo) :
          /\ i + 1 \in DOMAIN Night.todo /\ Tail(Night.todo)[i] = Night.todo[i + 1]
          /\ i \in Nat /\ i + 1 > 1
    BY <1>parts, <2>1
  <2>3. \A i \in DOMAIN Night'.todo : \A m \in Night'.todo[i] :
          m \in Mem /\ m \notin Night'.ahead /\ (i > 1 \/ Night'.pc # "mark" => ~Covered(m))
    BY <1>parts, <2>1, <2>2 DEF Apart
  <2>4. \A i, k \in DOMAIN Night'.todo : i # k => Night'.todo[i] \cap Night'.todo[k] = {}
    <3> SUFFICES ASSUME NEW i \in DOMAIN Night'.todo, NEW k \in DOMAIN Night'.todo, i # k
                 PROVE  Night'.todo[i] \cap Night'.todo[k] = {}
      OBVIOUS
    <3>1. i + 1 # k + 1 /\ i + 1 \in DOMAIN Night.todo /\ k + 1 \in DOMAIN Night.todo
      BY <2>1, <2>2
    <3>2. Night.todo[i + 1] \cap Night.todo[k + 1] = {}
      BY <3>1 DEF Apart
    <3> QED BY <2>1, <2>2, <3>2
  <2>5. \A m \in Night'.ahead : m \in Mem /\ ~Covered(m)
    BY <1>parts, <2>1 DEF Apart
  <2> QED BY <1>still, <2>1, <2>3, <2>4, <2>5
<1>1. CASE Start("night") \/ NextPhase("night")
  <2>1. PICK r \in JobState : Became("night", r) /\ r.pc \in {"idle", "lookup"} /\ Fresh(r)
    BY <1>1, <1>typed, PhaseMoves DEF Begun
  <2>2. Night' = r
    BY <1>typed, <2>1 DEF Became, Night
  <2>3. r.ahead \subseteq Mem /\ \A i \in DOMAIN r.todo : r.todo[i] \subseteq Mem
    <3>1. r.todo \in Seq((SUBSET Mem) \ {{}}) /\ r.ahead \in SUBSET Mem
      BY DEF JobState
    <3> QED BY <3>1, WiderSeq
  <2>4. Night.pc \in {"idle", "lookup"}
    BY <1>1 DEF Start, NextPhase, Night
  <2>5. \A m \in Mem : Covered(m) => "consolidated" \in tags[m]
    BY <1>tags, <2>4 DEF Apart
  <2>6. \A i \in DOMAIN r.todo : \A m \in r.todo[i] : m \in Mem /\ m \notin r.ahead /\ ~Covered(m)
    BY <2>1, <2>3, <2>5 DEF Fresh, Apart, Night
  <2>7. \A m \in r.ahead : m \in Mem /\ ~Covered(m)
    BY <2>1, <2>3, <2>5 DEF Fresh
  <2>8. \A i, k \in DOMAIN r.todo : i # k => r.todo[i] \cap r.todo[k] = {}
    BY <2>1 DEF Fresh
  <2> QED BY <1>still, <2>2, <2>4, <2>6, <2>7, <2>8
<1>2. CASE Lookup("night")
  <2>1. /\ Night.pc = "lookup" /\ Night'.pc = "write" /\ Night'.todo = Night.todo
        /\ Night'.ahead = Night.ahead
    BY <1>2, <1>typed DEF Lookup, Night, JobState
  <2>2. \A i \in DOMAIN Night'.todo : \A m \in Night'.todo[i] :
          m \in Mem /\ m \notin Night'.ahead /\ ~Covered(m)
    BY <1>parts, <2>1 DEF Apart
  <2>3. \A m \in Night'.ahead : m \in Mem /\ ~Covered(m)
    BY <1>parts, <2>1 DEF Apart
  <2>4. \A i, k \in DOMAIN Night'.todo : i # k => Night'.todo[i] \cap Night'.todo[k] = {}
    BY <2>1 DEF Apart
  <2> QED BY <1>still, <2>1, <2>2, <2>3, <2>4
<1>3. CASE Write("night")
  <2>1. CASE Skip("night")
    BY <1>3, <1>skip, <2>1 DEF Write, Night
  <2>2. CASE ~Skip("night")
    <3>1. /\ Night.pc = "write"
          /\ job' = [job EXCEPT !["night"].pc = "mark", !["night"].marks = Night.todo[1]]
      BY <1>3, <2>2 DEF Write, Night
    <3>2. /\ Night'.pc = "mark" /\ Night'.marks = Night.todo[1] /\ Night'.todo = Night.todo
          /\ Night'.ahead = Night.ahead /\ Night.todo # <<>> /\ 1 \in DOMAIN Night.todo
      <4>1. Night' = [Night EXCEPT !.pc = "mark", !.marks = Night.todo[1]]
        BY <3>1, <1>typed, WriteMoves DEF Night, Became
      <4>2. 1 \in DOMAIN Night.todo
        BY <3>1, <1>typed, AtWrite DEF Night
      <4> QED BY <1>typed, <4>1, <4>2 DEF JobState
    <3>3. \A m \in Mem, n \in Name : In(m, n)' => In(m, n) \/ (n = Target("night") /\ m \in Night.todo[1])
      BY <1>typed, InMoves DEF Night
    <3>4. \A m \in Mem : Covered(m)' => Covered(m) \/ m \in Night.todo[1]
      BY <3>3 DEF Covered
    <3>5. \A m \in Night.todo[1] : ~Covered(m)
      BY <3>1, <3>2 DEF Apart
    <3>6. \A m \in Mem, n \in Name, k \in Name : In(m, n)' /\ In(m, k)' => n = k
      BY <3>3, <3>5 DEF Apart, Covered
    <3>7. \A m \in Mem : Covered(m)' => "consolidated" \in tags'[m] \/ m \in Night'.marks
      BY <1>tags, <3>1, <3>2, <3>4 DEF Apart
    <3>8. \A i \in DOMAIN Night'.todo : \A m \in Night'.todo[i] :
            /\ m \notin Night'.ahead
            /\ i > 1 \/ Night'.pc # "mark" => ~Covered(m)'
      <4> SUFFICES ASSUME NEW i \in DOMAIN Night.todo, NEW m \in Night.todo[i]
                   PROVE  m \notin Night.ahead /\ (i > 1 => ~Covered(m)')
        BY <3>2
      <4>1. m \in Mem /\ m \notin Night.ahead /\ ~Covered(m)
        BY <1>parts, <3>1 DEF Apart
      <4>2. i > 1 => i # 1
        BY <1>parts
      <4>3. i # 1 => m \notin Night.todo[1]
        BY <3>2 DEF Apart
      <4> QED BY <3>4, <4>1, <4>2, <4>3
    <3>9. \A m \in Night'.ahead : ~Covered(m)'
      <4> SUFFICES ASSUME NEW m \in Night.ahead PROVE ~Covered(m)'
        BY <3>2
      <4>1. m \in Mem /\ ~Covered(m) /\ m \notin Night.todo[1]
        BY <1>parts, <3>2 DEF Apart
      <4> QED BY <3>4, <4>1
    <3>10. \A i, k \in DOMAIN Night'.todo : i # k => Night'.todo[i] \cap Night'.todo[k] = {}
      BY <3>2 DEF Apart
    <3> QED BY <3>6, <3>7, <3>8, <3>9, <3>10 DEF Apart
  <2> QED BY <2>1, <2>2
<1>4. CASE Mark("night")
  <2>1. CASE Skip("night")
    BY <1>4, <1>skip, <2>1 DEF Mark, Night
  <2>2. CASE ~Skip("night")
    <3>1. /\ Night.pc = "mark" /\ Night'.pc = "mark" /\ Night'.todo = Night.todo
          /\ Night'.ahead = Night.ahead
      BY <1>4, <1>typed, <2>2 DEF Mark, Night, JobState
    <3>2. \A i \in DOMAIN Night'.todo : \A m \in Night'.todo[i] :
            m \in Mem /\ m \notin Night'.ahead /\ (i > 1 \/ Night'.pc # "mark" => ~Covered(m))
      BY <1>parts, <3>1 DEF Apart
    <3>3. \A m \in Night'.ahead : m \in Mem /\ ~Covered(m)
      BY <1>parts, <3>1 DEF Apart
    <3>4. \A i, k \in DOMAIN Night'.todo : i # k => Night'.todo[i] \cap Night'.todo[k] = {}
      BY <3>1 DEF Apart
    <3> QED BY <1>still, <3>1, <3>2, <3>3, <3>4
  <2> QED BY <2>1, <2>2
<1> QED BY <1>1, <1>2, <1>3, <1>4 DEF JobStep

LEMMA OnceIsKept == Once /\ [Next]_vars => Once'
<1> SUFFICES ASSUME Once, [Next]_vars PROVE Once'
  OBVIOUS
<1>typed. Typed /\ ReadBefore
  BY DEF Once
<1>1. Typed'
  <2>1. CASE UNCHANGED vars
    BY <1>typed, <2>1 DEF vars, Typed, AtCluster
  <2> QED BY <1>typed, <2>1, JobTyped, PeopleTyped DEF Next
<1>2. ReadBefore'
  BY <1>typed, ReadBeforeIsKept
<1>3. ASSUME Calm' PROVE Apart'
  <2>1. CASE UNCHANGED vars
    <3>1. Calm /\ Apart
      BY <1>3, <2>1 DEF Once, Calm, vars
    <3> QED BY <2>1, <3>1 DEF Apart, vars, In, Covered, Night
  <2>2. CASE Next
    <3>1. \A k \in Event : ~Spend(k)
      BY <1>3, <1>typed, Spent DEF Calm, Typed
    <3>2. PICK j \in Job : JobStep(j)
      BY <2>2, <3>1 DEF Next, People, Edit, Keep, Retire, Touch, Crash, Event
    <3>3. spent' = spent
      BY <3>1, <3>2 DEF JobStep, Start, NextPhase, Lookup, Write, Mark, Event
    <3>4. Calm /\ Apart
      BY <1>3, <3>3 DEF Once, Calm
    <3> QED BY <1>typed, <3>2, <3>3, <3>4, WeekKeepsApart, NightKeepsApart DEF Job
  <2> QED BY <2>1, <2>2
<1> QED BY <1>1, <1>2, <1>3 DEF Once

LEMMA InitOnce == Init => Once
<1> SUFFICES ASSUME Init PROVE Once
  OBVIOUS
<1>1. \A j \in Job : job[j] = Idle
  BY DEF Init
<1>2. ReadBefore
  BY <1>1, IdleTyped DEF ReadBefore
<1>3. \A m \in Mem : ~Covered(m)
  BY DEF Covered, In, Init, Absent
<1>4. DOMAIN Night.todo = {} /\ Night.ahead = {}
  BY <1>1, IdleTyped DEF Night, Job, Idle
<1>5. Apart
  BY <1>3, <1>4 DEF Apart, Covered
<1> QED BY <1>2, <1>5, InitTyped DEF Once

LEMMA OnceIsDistilled == Once => DistilledOnce
<1> SUFFICES ASSUME Once, spent = [k \in Event |-> 0], NEW m \in Mem
             PROVE  Cardinality({n \in Name : n[1] # "weekly-ref" /\ summary[n] # Absent
                                               /\ <<m, version[m]>> \in summary[n]}) <= 1
  BY DEF DistilledOnce
<1>1. Calm /\ Apart /\ version[m] = 1
  BY FirstTexts DEF Once, Calm
<1> DEFINE Of == {n \in Name : n[1] # "weekly-ref" /\ summary[n] # Absent
                               /\ <<m, version[m]>> \in summary[n]}
<1>2. \A n \in Of, k \in Of : n = k
  BY <1>1 DEF Apart, In
<1> HIDE DEF Of
<1>3. Cardinality(Of) <= 1
  <2>1. CASE Of = {}
    BY <2>1, FS_EmptySet
  <2>2. CASE Of # {}
    <3>1. PICK n \in Of : Of = {n}
      BY <1>2, <2>2
    <3>2. Cardinality({n}) = 1
      BY FS_Singleton
    <3> QED BY <3>1, <3>2
  <2> QED BY <2>1, <2>2
<1> QED BY <1>3 DEF Of

\* Where every call succeeds and nobody interferes, no text of a memory is put
\* into two summaries by the nights, whichever phases the memory falls into.
THEOREM DistilledOnceHolds == Spec => []DistilledOnce
BY InitOnce, OnceIsKept, OnceIsDistilled, PTL DEF Spec
=============================================================================
