---------------------------- MODULE SearchProofs ----------------------------
(***************************************************************************)
(* Proofs about Search, for every list of chunks, all scores, each method  *)
(* and every limit.                                                        *)
(*                                                                         *)
(* First the rankings: sorted gives every chunk the place of its rank, and *)
(* what both rankings put first has the larger sum of reciprocals.  Then   *)
(* the loop, of which only the order of the chunks has to be known.        *)
(***************************************************************************)
EXTENDS Search, FiniteSetTheorems, TLAPS

\* The chunks that come before chunk i.
Above(score, i) == {j \in DOMAIN score : Outranks(score, j, i)}

\* Of two chunks, the one that outranks the other has the smaller rank.
LEMMA RankLess ==
  ASSUME NEW n \in Nat, NEW score \in [1 .. n -> Int],
         NEW i \in 1 .. n, NEW j \in 1 .. n, Outranks(score, i, j)
  PROVE  Rank(score, i) < Rank(score, j)
<1>1. IsFiniteSet(1 .. n)
  BY FS_Interval
<1>2. /\ Above(score, i) \in SUBSET (1 .. n) /\ Above(score, j) \in SUBSET (1 .. n)
      /\ Above(score, i) \subseteq Above(score, j)
      /\ i \in Above(score, j) /\ i \notin Above(score, i)
  BY DEF Above, Outranks
<1>3. /\ IsFiniteSet(Above(score, i)) /\ IsFiniteSet(Above(score, j))
      /\ Cardinality(Above(score, i)) \in Nat /\ Cardinality(Above(score, j)) \in Nat
  BY <1>1, <1>2, FS_Subset, FS_CardinalityType
<1>4. Cardinality(Above(score, i)) # Cardinality(Above(score, j))
      /\ Cardinality(Above(score, i)) <= Cardinality(Above(score, j))
  BY <1>2, <1>3, FS_Subset
<1> QED BY <1>3, <1>4 DEF Rank, Above

\* Ranks are 1 .. n, each taken once.
LEMMA RankBounds ==
  ASSUME NEW n \in Nat, NEW score \in [1 .. n -> Int], NEW i \in 1 .. n
  PROVE  Rank(score, i) \in 1 .. n
<1>1. IsFiniteSet(1 .. n) /\ Cardinality(1 .. n) = n
  BY FS_Interval
<1>2. Above(score, i) \in SUBSET (1 .. n) /\ i \notin Above(score, i)
  BY DEF Above, Outranks
<1>3. /\ Cardinality(Above(score, i)) \in Nat
      /\ Cardinality(Above(score, i)) <= n /\ Cardinality(Above(score, i)) # n
  BY <1>1, <1>2, FS_Subset, FS_CardinalityType
<1>4. Rank(score, i) = 1 + Cardinality(Above(score, i))
  BY DEF Rank, Above
<1> QED BY <1>3, <1>4

LEMMA RanksDiffer ==
  ASSUME NEW n \in Nat, NEW score \in [1 .. n -> Int],
         NEW i \in 1 .. n, NEW j \in 1 .. n, Rank(score, i) = Rank(score, j)
  PROVE  i = j
<1>1. i = j \/ Outranks(score, i, j) \/ Outranks(score, j, i)
  BY DEF Outranks
<1>2. Rank(score, i) \in Int /\ Rank(score, j) \in Int
  BY RankBounds
<1> QED BY <1>1, <1>2, RankLess

\* A function on the places of a list is a list.
LEMMA PlacesAreSeq ==
  ASSUME NEW n \in Nat, NEW S, NEW f \in [1 .. n -> S]
  PROVE  f \in Seq(S) /\ Len(f) = n
OBVIOUS

\* sorted returns every chunk once, at the place its rank says.
LEMMA SortedByRank ==
  ASSUME NEW n \in Nat, NEW score \in [1 .. n -> Int]
  PROVE  /\ Sorted(score) \in [1 .. n -> 1 .. n]
         /\ \A place \in 1 .. n : Rank(score, Sorted(score)[place]) = place
         /\ \A i \in 1 .. n : Sorted(score)[Rank(score, i)] = i
<1> DEFINE rank == [i \in 1 .. n |-> Rank(score, i)]
<1>1. IsFiniteSet(1 .. n)
  BY FS_Interval
<1>0. /\ \A i \in 1 .. n : Rank(score, i) \in 1 .. n
      /\ \A i, j \in 1 .. n : Rank(score, i) = Rank(score, j) => i = j
  BY RankBounds, RanksDiffer
<1>2. rank \in Injection(1 .. n, 1 .. n)
  BY <1>0 DEF Injection, IsInjective
<1>3. rank \in Surjection(1 .. n, 1 .. n)
  BY <1>1, <1>2, FS_Injection
<1>4. \A place \in 1 .. n : \E i \in 1 .. n : Rank(score, i) = place
  BY <1>3 DEF Surjection
<1>5. DOMAIN score = 1 .. n
  OBVIOUS
<1>6. \A place \in 1 .. n :
        Sorted(score)[place] \in 1 .. n /\ Rank(score, Sorted(score)[place]) = place
  BY <1>4, <1>5 DEF Sorted
<1>7. Sorted(score) \in [1 .. n -> 1 .. n]
  BY <1>5, <1>6 DEF Sorted
<1>8. \A i \in 1 .. n : Sorted(score)[Rank(score, i)] = i
  BY <1>0, <1>6
<1> QED BY <1>6, <1>7, <1>8
----------------------------------------------------------------------------
\* Fractions p / q, compared by cross multiplication.
LEMMA ProductsGrow ==
  ASSUME NEW a \in Int, NEW b \in Int, NEW c \in Int, c > 0
  PROVE  a > b <=> a * c > b * c
OBVIOUS

LEMMA FractionsTransitive ==
  ASSUME NEW p \in Nat, NEW q \in Nat \ {0}, NEW r \in Nat, NEW s \in Nat \ {0},
         NEW t \in Nat, NEW u \in Nat \ {0},
         p * s > r * q, r * u > t * s
  PROVE  p * u > t * q
<1>1. (p * s) * u > (r * q) * u /\ (r * u) * q > (t * s) * q
  BY ProductsGrow
<1>2. (r * q) * u = (r * u) * q /\ (p * s) * u = (p * u) * s /\ (t * s) * q = (t * q) * s
  OBVIOUS
<1>3. (p * u) * s > (t * q) * s
  BY <1>1, <1>2
<1> QED BY <1>3, ProductsGrow

\* 1/a + 1/b > 1/c + 1/d for smaller a and b.
LEMMA ReciprocalsFall ==
  ASSUME NEW a \in Nat \ {0}, NEW b \in Nat \ {0}, NEW c \in Nat \ {0}, NEW d \in Nat \ {0},
         a < c, b < d
  PROVE  (a + b) * (c * d) > (c + d) * (a * b)
<1>1. d * (a * c) > b * (a * c) /\ c * (b * d) > a * (b * d)
  BY ProductsGrow
<1>2. /\ (a + b) * (c * d) = d * (a * c) + c * (b * d)
      /\ (c + d) * (a * b) = b * (a * c) + a * (b * d)
  OBVIOUS
<1> QED BY <1>1, <1>2

\* The score of a chunk is 1/x + 1/y, which is Parts / Whole.
Parts(d, l, i) == (RankOffset + Rank(d, i)) + (RankOffset + Rank(l, i))
Whole(d, l, i) == (RankOffset + Rank(d, i)) * (RankOffset + Rank(l, i))
More(d, l, i, j) == Parts(d, l, i) * Whole(d, l, j) > Parts(d, l, j) * Whole(d, l, i)

LEMMA OffsetRanks ==
  ASSUME NEW n \in Nat, NEW r \in 1 .. n
  PROVE  /\ RankOffset + r \in Nat \ {0}
         /\ \A s \in 1 .. n : r < s => RankOffset + r < RankOffset + s
BY OffsetIsNatural

LEMMA FractionTypes ==
  ASSUME NEW n \in Nat, NEW d \in [1 .. n -> Int], NEW l \in [1 .. n -> Int],
         NEW i \in 1 .. n
  PROVE  Parts(d, l, i) \in Nat /\ Whole(d, l, i) \in Nat \ {0}
<1> DEFINE x == RankOffset + Rank(d, i)
           y == RankOffset + Rank(l, i)
<1>1. x \in Nat \ {0} /\ y \in Nat \ {0}
  <2>1. Rank(d, i) \in 1 .. n /\ Rank(l, i) \in 1 .. n
    BY RankBounds
  <2> QED BY <2>1, OffsetRanks
<1> HIDE DEF x, y
<1>2. x + y \in Nat /\ x * y \in Nat \ {0}
  BY <1>1
<1> QED BY <1>2 DEF Parts, Whole, x, y

\* More is a strict order that both rankings together decide.
LEMMA MoreIsOrder ==
  ASSUME NEW n \in Nat, NEW d \in [1 .. n -> Int], NEW l \in [1 .. n -> Int],
         NEW i \in 1 .. n, NEW j \in 1 .. n
  PROVE  /\ ~More(d, l, i, i)
         /\ \A k \in 1 .. n : More(d, l, k, i) /\ More(d, l, i, j) => More(d, l, k, j)
         /\ Outranks(d, i, j) /\ Outranks(l, i, j) => More(d, l, i, j)
<1>1. \A k \in 1 .. n : Parts(d, l, k) \in Nat /\ Whole(d, l, k) \in Nat \ {0}
  BY FractionTypes
<1>2. ~More(d, l, i, i)
  BY <1>1 DEF More
<1>3. ASSUME NEW k \in 1 .. n, More(d, l, k, i), More(d, l, i, j) PROVE More(d, l, k, j)
  BY <1>1, <1>3, FractionsTransitive DEF More
<1>4. ASSUME Outranks(d, i, j), Outranks(l, i, j) PROVE More(d, l, i, j)
  <2> DEFINE a == RankOffset + Rank(d, i)
             b == RankOffset + Rank(l, i)
             c == RankOffset + Rank(d, j)
             e == RankOffset + Rank(l, j)
  <2>1. /\ Rank(d, i) \in 1 .. n /\ Rank(d, j) \in 1 .. n /\ Rank(d, i) < Rank(d, j)
        /\ Rank(l, i) \in 1 .. n /\ Rank(l, j) \in 1 .. n /\ Rank(l, i) < Rank(l, j)
    BY <1>4, RankBounds, RankLess
  <2>2. /\ a \in Nat \ {0} /\ b \in Nat \ {0} /\ c \in Nat \ {0} /\ e \in Nat \ {0}
        /\ a < c /\ b < e
    BY <2>1, OffsetRanks
  <2> HIDE DEF a, b, c, e
  <2>3. (a + b) * (c * e) > (c + e) * (a * b)
    BY <2>2, ReciprocalsFall
  <2> QED BY <2>3 DEF More, Parts, Whole, a, b, c, e
<1> QED BY <1>2, <1>3, <1>4

LEMMA FusedCounts ==
  ASSUME NEW n \in Nat, NEW d \in [1 .. n -> Int], NEW l \in [1 .. n -> Int]
  PROVE  /\ Fused(d, l) \in [1 .. n -> Int]
         /\ \A i \in 1 .. n : Fused(d, l)[i] = -Cardinality({j \in 1 .. n : More(d, l, j, i)})
<1> DEFINE x(i) == RankOffset + Rank(d, i)
           y(i) == RankOffset + Rank(l, i)
<1>1. DOMAIN d = 1 .. n
  OBVIOUS
<1>2. ASSUME NEW i \in 1 .. n
      PROVE  {j \in 1 .. n : (x(j) + y(j)) * x(i) * y(i) > (x(i) + y(i)) * x(j) * y(j)}
               = {j \in 1 .. n : More(d, l, j, i)}
  <2>1. ASSUME NEW j \in 1 .. n
        PROVE  (x(j) + y(j)) * x(i) * y(i) > (x(i) + y(i)) * x(j) * y(j) <=> More(d, l, j, i)
    <3>1. x(i) \in Int /\ y(i) \in Int /\ x(j) \in Int /\ y(j) \in Int
      <4>1. /\ Rank(d, i) \in 1 .. n /\ Rank(l, i) \in 1 .. n
            /\ Rank(d, j) \in 1 .. n /\ Rank(l, j) \in 1 .. n
        BY RankBounds
      <4>2. \A r \in 1 .. n : RankOffset + r \in Int
        BY OffsetRanks
      <4> QED BY <4>1, <4>2
    <3> DEFINE xi == x(i)
               yi == y(i)
               xj == x(j)
               yj == y(j)
    <3>2. More(d, l, j, i) <=> (xj + yj) * (xi * yi) > (xi + yi) * (xj * yj)
      BY DEF More, Parts, Whole
    <3> HIDE DEF xi, yi, xj, yj
    <3>3. xi \in Int /\ yi \in Int /\ xj \in Int /\ yj \in Int
      BY <3>1 DEF xi, yi, xj, yj
    <3>4. /\ (xj + yj) * xi * yi = (xj + yj) * (xi * yi)
          /\ (xi + yi) * xj * yj = (xi + yi) * (xj * yj)
      BY <3>3
    <3> QED BY <3>2, <3>4 DEF xi, yi, xj, yj
  <2> QED BY <2>1
<1>3. IsFiniteSet(1 .. n)
  BY FS_Interval
<1>4. \A i \in 1 .. n : Cardinality({j \in 1 .. n : More(d, l, j, i)}) \in Nat
  BY <1>3, FS_Subset, FS_CardinalityType
<1>5. Fused(d, l) = [i \in 1 .. n |->
        -Cardinality({j \in 1 .. n :
           (x(j) + y(j)) * x(i) * y(i) > (x(i) + y(i)) * x(j) * y(j)})]
  BY <1>1 DEF Fused
<1> HIDE DEF x, y
<1>6. Fused(d, l) = [i \in 1 .. n |-> -Cardinality({j \in 1 .. n : More(d, l, j, i)})]
  BY <1>2, <1>5
<1> QED BY <1>4, <1>6

\* What both rankings put first, the fused ranking puts first.
LEMMA FusedAgrees ==
  ASSUME NEW n \in Nat, NEW d \in [1 .. n -> Int], NEW l \in [1 .. n -> Int],
         NEW i \in 1 .. n, NEW j \in 1 .. n, Outranks(d, i, j), Outranks(l, i, j)
  PROVE  Outranks(Fused(d, l), i, j)
<1> DEFINE larger(k) == {m \in 1 .. n : More(d, l, m, k)}
<1>1. IsFiniteSet(1 .. n)
  BY FS_Interval
<1>2. /\ larger(i) \in SUBSET (1 .. n) /\ larger(j) \in SUBSET (1 .. n)
      /\ larger(i) \subseteq larger(j) /\ i \in larger(j) /\ i \notin larger(i)
  BY MoreIsOrder
<1>3. /\ IsFiniteSet(larger(i)) /\ IsFiniteSet(larger(j))
      /\ Cardinality(larger(i)) \in Nat /\ Cardinality(larger(j)) \in Nat
  BY <1>1, <1>2, FS_Subset, FS_CardinalityType
<1>4. Fused(d, l)[i] = -Cardinality(larger(i)) /\ Fused(d, l)[j] = -Cardinality(larger(j))
  BY FusedCounts
<1> HIDE DEF larger
<1>5. Cardinality(larger(i)) # Cardinality(larger(j))
      /\ Cardinality(larger(i)) <= Cardinality(larger(j))
  BY <1>2, <1>3, FS_Subset
<1> QED BY <1>3, <1>4, <1>5 DEF Outranks
----------------------------------------------------------------------------
\* No file appears twice, and there are never more than limit entries.
OneEntryPerFile ==
  /\ \A d, e \in 1 .. Len(evidence) :
       listed[evidence[d]] = listed[evidence[e]] => d = e
  /\ Len(evidence) <= limit

LoopTypeOK ==
  /\ listed \in Seq(Nat)
  /\ dense \in [1 .. Len(listed) -> Int] /\ lexical \in [1 .. Len(listed) -> Int]
  /\ method \in Methods
  /\ ranked \in Seq(1 .. Len(listed))
  /\ evidence \in Seq(1 .. Len(listed))
  /\ limit \in Nat \ {0}
  /\ turn \in Nat \ {0}
  /\ searching \in BOOLEAN

\* seen holds the paths of the evidence, and every chunk passed so far has a
\* path in it.
SeenIsShown ==
  /\ \A p \in seen : \E e \in 1 .. Len(evidence) : listed[evidence[e]] = p
  /\ \A e \in 1 .. Len(evidence) : listed[evidence[e]] \in seen

PassedIsSeen == \A k \in 1 .. Len(ranked) : k < turn => listed[ranked[k]] \in seen

EveryChunkRanked ==
  \A i \in 1 .. Len(listed) : \E k \in 1 .. Len(ranked) : ranked[k] = i

\* ranked is in the order of the method: of two chunks, one that dominates the
\* other is taken earlier.
RankedByScore ==
  \A k, j \in 1 .. Len(ranked) : Dominates(ranked[k], ranked[j]) => k < j

\* When a chunk was shown, every chunk taken before it had a path shown before.
ShownAt(e, k) ==
  /\ ranked[k] = evidence[e]
  /\ \A j \in 1 .. k - 1 : \E d \in 1 .. e - 1 : listed[evidence[d]] = listed[ranked[j]]

ShownInOrder == \A e \in 1 .. Len(evidence) : \E k \in 1 .. Len(ranked) : ShownAt(e, k)

LoopEnd == IF searching THEN Len(evidence) < limit
                        ELSE Len(evidence) = limit \/ turn > Len(ranked)

LoopInv ==
  /\ LoopTypeOK
  /\ SeenIsShown
  /\ PassedIsSeen
  /\ EveryChunkRanked
  /\ RankedByScore
  /\ ShownInOrder
  /\ LoopEnd
  /\ OneEntryPerFile

----------------------------------------------------------------------------
\* The order the loop goes through: some score that agrees with the method.
Prefers(d, l, m, i, j) ==
  CASE m = "dense"   -> Outranks(d, i, j)
    [] m = "lexical" -> Outranks(l, i, j)
    [] m = "hybrid"  -> Outranks(d, i, j) /\ Outranks(l, i, j)

LEMMA OrderOfMethod ==
  ASSUME NEW n \in Nat, NEW d \in [1 .. n -> Int], NEW l \in [1 .. n -> Int],
         NEW m \in Methods
  PROVE  \E score \in [1 .. n -> Int] :
           /\ Ordered(d, l, m) = Sorted(score)
           /\ \A i, j \in 1 .. n : Prefers(d, l, m, i, j) => Outranks(score, i, j)
<1>1. CASE m = "dense"
  BY <1>1 DEF Ordered, Prefers
<1>2. CASE m = "lexical"
  BY <1>2 DEF Ordered, Prefers
<1>3. CASE m = "hybrid"
  <2>1. Fused(d, l) \in [1 .. n -> Int] /\ Ordered(d, l, m) = Sorted(Fused(d, l))
    BY <1>3, FusedCounts DEF Ordered
  <2>2. \A i, j \in 1 .. n :
          Outranks(d, i, j) /\ Outranks(l, i, j) => Outranks(Fused(d, l), i, j)
    BY FusedAgrees
  <2>3. \A i, j : Prefers(d, l, m, i, j) => Outranks(d, i, j) /\ Outranks(l, i, j)
    BY <1>3 DEF Prefers
  <2> QED BY <2>1, <2>2, <2>3
<1> QED BY <1>1, <1>2, <1>3 DEF Methods

LEMMA SearchInitHasInv == SearchInit => LoopInv
<1> SUFFICES ASSUME SearchInit PROVE LoopInv
  OBVIOUS
<1> DEFINE n == Len(listed)
<1>1. n \in Nat /\ dense \in [1 .. n -> Int] /\ lexical \in [1 .. n -> Int]
      /\ method \in Methods
  BY DEF SearchInit
<1>2. PICK score \in [1 .. n -> Int] :
        /\ ranked = Sorted(score)
        /\ \A i, j \in 1 .. n : Dominates(i, j) => Outranks(score, i, j)
  <2> HIDE DEF n
  <2>1. PICK score \in [1 .. n -> Int] :
          /\ Ordered(dense, lexical, method) = Sorted(score)
          /\ \A i, j \in 1 .. n :
               Prefers(dense, lexical, method, i, j) => Outranks(score, i, j)
    BY <1>1, OrderOfMethod
  <2>2. \A i, j : Dominates(i, j) <=> Prefers(dense, lexical, method, i, j)
    BY DEF Dominates, Prefers
  <2> QED BY <2>1, <2>2 DEF SearchInit
<1>3. /\ ranked \in [1 .. n -> 1 .. n]
      /\ \A k \in 1 .. n : Rank(score, ranked[k]) = k
      /\ \A i \in 1 .. n : ranked[Rank(score, i)] = i
  BY <1>1, <1>2, SortedByRank
<1>4. ranked \in Seq(1 .. n) /\ Len(ranked) = n
  <2>1. n \in Nat /\ ranked \in [1 .. n -> 1 .. n]
    BY <1>1, <1>3
  <2> HIDE DEF n
  <2> QED BY <2>1, PlacesAreSeq
<1>5. \A i \in 1 .. n : Rank(score, i) \in 1 .. n
  BY <1>1, <1>2, RankBounds
<1>6. EveryChunkRanked
  BY <1>3, <1>4, <1>5 DEF EveryChunkRanked
<1>7. RankedByScore
  <2> SUFFICES ASSUME NEW k \in 1 .. n, NEW j \in 1 .. n, Dominates(ranked[k], ranked[j])
               PROVE  k < j
    BY <1>4 DEF RankedByScore
  <2>1. Outranks(score, ranked[k], ranked[j]) /\ ranked[k] \in 1 .. n /\ ranked[j] \in 1 .. n
    BY <1>2, <1>3
  <2>2. Rank(score, ranked[k]) < Rank(score, ranked[j])
    BY <1>1, <2>1, RankLess
  <2> QED BY <1>3, <2>2
<1>8. LoopTypeOK
  BY <1>4 DEF SearchInit, LoopTypeOK
<1>9. SeenIsShown /\ PassedIsSeen /\ LoopEnd /\ OneEntryPerFile /\ ShownInOrder
  BY <1>4 DEF SearchInit, SeenIsShown, PassedIsSeen, LoopEnd, OneEntryPerFile, ShownInOrder
<1> QED BY <1>6, <1>7, <1>8, <1>9 DEF LoopInv

LEMMA OrderKept ==
  ASSUME ShownInOrder, listed' = listed, ranked' = ranked, evidence' = evidence
  PROVE  ShownInOrder'
<1>1. ASSUME NEW e, NEW k, ShownAt(e, k) PROVE ShownAt(e, k)'
  BY <1>1 DEF ShownAt
<1> QED BY <1>1 DEF ShownInOrder

LEMMA RankedKept ==
  ASSUME RankedByScore, UNCHANGED <<dense, lexical, method, ranked>>
  PROVE  RankedByScore'
<1> SUFFICES ASSUME NEW k \in 1 .. Len(ranked), NEW j \in 1 .. Len(ranked),
                    Dominates(ranked[k], ranked[j])'
             PROVE  k < j
  BY DEF RankedByScore
<1>1. Dominates(ranked[k], ranked[j])
  <2>1. dense' = dense /\ lexical' = lexical /\ method' = method /\ ranked' = ranked
    OBVIOUS
  <2> QED BY <2>1, Zenon DEF Dominates, Outranks
<1> QED BY <1>1 DEF RankedByScore

LEMMA SkipKeepsInv ==
  ASSUME LoopInv, SkipSeen
  PROVE  LoopInv'
<1>1. /\ UNCHANGED <<listed, dense, lexical, method, limit, ranked, seen, evidence, searching>>
      /\ turn' = turn + 1 /\ searching /\ listed[ranked[turn]] \in seen
  BY DEF SkipSeen, Path
<1>2. LoopTypeOK' /\ EveryChunkRanked' /\ SeenIsShown' /\ OneEntryPerFile' /\ LoopEnd'
  BY <1>1 DEF LoopInv, LoopTypeOK, EveryChunkRanked, SeenIsShown, OneEntryPerFile, LoopEnd
<1>3. PassedIsSeen'
  <2>1. turn \in Nat /\ Len(ranked) \in Nat
    BY DEF LoopInv, LoopTypeOK
  <2> QED BY <1>1, <2>1 DEF LoopInv, PassedIsSeen
<1>4. RankedByScore'
  BY <1>1, RankedKept DEF LoopInv
<1>5. ShownInOrder'
  BY <1>1, OrderKept DEF LoopInv
<1> QED
  BY <1>2, <1>3, <1>4, <1>5 DEF LoopInv

LEMMA ShowKeepsInv ==
  ASSUME LoopInv, Show
  PROVE  LoopInv'
<1> DEFINE shown == ranked[turn]
           n == Len(evidence)
<1>1. /\ UNCHANGED <<listed, dense, lexical, method, limit, ranked>>
      /\ searching /\ turn <= Len(ranked) /\ turn' = turn + 1
      /\ listed[shown] \notin seen
      /\ seen' = seen \cup {listed[shown]}
      /\ evidence' = Append(evidence, shown)
      /\ searching' = (Len(evidence') < limit)
  BY DEF Show, Path
<1>2. shown \in 1 .. Len(listed)
  BY <1>1 DEF LoopInv, LoopTypeOK
<1>3. n \in Nat /\ evidence \in Seq(1 .. Len(listed))
  BY DEF LoopInv, LoopTypeOK
<1> HIDE DEF shown
<1>4. /\ evidence' \in Seq(1 .. Len(listed))
      /\ Len(evidence') = n + 1
      /\ evidence'[n + 1] = shown
      /\ \A e \in 1 .. n : evidence'[e] = evidence[e]
  BY <1>1, <1>2, <1>3
<1> HIDE DEF n
<1>5. n = Len(evidence)
  BY DEF n
<1>6. LoopTypeOK'
  <2>1. searching' \in BOOLEAN
    BY <1>1
  <2> QED
    BY <1>1, <1>4, <2>1 DEF LoopInv, LoopTypeOK
<1>7. SeenIsShown'
  <2>1. ASSUME NEW p \in seen'
        PROVE  \E e \in 1 .. Len(evidence') : listed[evidence'[e]] = p
    <3>1. CASE p = listed[shown]
      <4>1. n + 1 \in 1 .. Len(evidence') /\ listed[evidence'[n + 1]] = p
        BY <3>1, <1>3, <1>4
      <4> QED BY <4>1
    <3>2. CASE p \in seen
      <4>1. PICK e \in 1 .. n : listed[evidence[e]] = p
        BY <3>2, <1>5 DEF LoopInv, SeenIsShown
      <4> QED
        BY <4>1, <1>3, <1>4
    <3> QED
      BY <2>1, <1>1, <3>1, <3>2
  <2>2. ASSUME NEW e \in 1 .. Len(evidence')
        PROVE  listed[evidence'[e]] \in seen'
    <3>1. CASE e = n + 1
      BY <3>1, <1>1, <1>4
    <3>2. CASE e \in 1 .. n
      BY <3>2, <1>1, <1>4, <1>5 DEF LoopInv, SeenIsShown
    <3> QED
      BY <3>1, <3>2, <1>3, <1>4
  <2> QED
    BY <2>1, <2>2, <1>1 DEF SeenIsShown
<1>8. PassedIsSeen'
  <2> SUFFICES ASSUME NEW k \in 1 .. Len(ranked), k < turn + 1
               PROVE  listed[ranked[k]] \in seen'
    BY <1>1 DEF PassedIsSeen
  <2>1. CASE k = turn
    BY <2>1, <1>1 DEF shown
  <2>2. CASE k < turn
    BY <2>2, <1>1 DEF LoopInv, PassedIsSeen
  <2> QED
    BY <2>1, <2>2 DEF LoopInv, LoopTypeOK
<1>9. EveryChunkRanked'
  BY <1>1 DEF LoopInv, EveryChunkRanked
<1>10. n < limit
  BY <1>1, <1>5 DEF LoopInv, LoopEnd
<1>11. LoopEnd'
  <2>1. limit \in Nat
    BY DEF LoopInv, LoopTypeOK
  <2>2. searching' <=> n + 1 < limit
    BY <1>1, <1>4
  <2> QED
    BY <2>1, <2>2, <1>1, <1>3, <1>4, <1>10 DEF LoopEnd
<1>12. OneEntryPerFile'
  <2>1. ASSUME NEW e \in 1 .. n
        PROVE  listed[evidence[e]] # listed[shown]
    BY <1>1, <1>5 DEF LoopInv, SeenIsShown
  <2>2. ASSUME NEW d \in 1 .. n + 1, NEW e \in 1 .. n + 1,
               listed[evidence'[d]] = listed[evidence'[e]]
        PROVE  d = e
    <3>1. CASE d \in 1 .. n /\ e \in 1 .. n
      BY <3>1, <2>2, <1>4, <1>5 DEF LoopInv, OneEntryPerFile
    <3>2. CASE d = n + 1 /\ e \in 1 .. n
      BY <3>2, <2>1, <2>2, <1>4
    <3>3. CASE d \in 1 .. n /\ e = n + 1
      BY <3>3, <2>1, <2>2, <1>4
    <3> QED
      BY <3>1, <3>2, <3>3, <1>3
  <2>3. n + 1 <= limit
    BY <1>3, <1>10 DEF LoopInv, LoopTypeOK
  <2> QED
    BY <2>2, <2>3, <1>1, <1>4 DEF OneEntryPerFile
<1>13. RankedByScore'
  BY <1>1, RankedKept DEF LoopInv
<1>14. ShownInOrder'
  <2>0. Len(evidence') = n + 1 /\ ranked' = ranked /\ listed' = listed
    BY <1>1, <1>4
  <2> SUFFICES ASSUME NEW e \in 1 .. n + 1
               PROVE  \E k \in 1 .. Len(ranked) : ShownAt(e, k)'
    BY <2>0 DEF ShownInOrder
  <2>1. CASE e \in 1 .. n
    <3>1. PICK k \in 1 .. Len(ranked) : ShownAt(e, k)
      BY <2>1, <1>5 DEF LoopInv, ShownInOrder
    <3>2. \A d \in 1 .. e : evidence'[d] = evidence[d]
      <4>1. \A d \in 1 .. e : d \in 1 .. n
        BY <2>1, <1>3
      <4> QED BY <4>1, <1>4
    <3>3. e \in 1 .. e /\ \A d \in 1 .. e - 1 : d \in 1 .. e
      BY <2>1
    <3>4. ShownAt(e, k)'
      BY <2>0, <3>1, <3>2, <3>3 DEF ShownAt
    <3> QED BY <3>4
  <2>2. CASE e = n + 1
    <3>0. turn \in 1 .. Len(ranked)
      BY <1>1 DEF LoopInv, LoopTypeOK
    <3> PICK k \in 1 .. Len(ranked) : k = turn
      BY <3>0
    <3>1. ranked[k] = evidence'[e]
      BY <2>2, <1>1, <1>4 DEF shown
    <3>2. ASSUME NEW j \in 1 .. k - 1
          PROVE  \E d \in 1 .. n : listed[evidence'[d]] = listed[ranked[j]]
      <4>0. j \in 1 .. Len(ranked) /\ j < turn
        BY <3>0
      <4>1. listed[ranked[j]] \in seen
        BY <4>0 DEF LoopInv, PassedIsSeen
      <4>2. PICK d \in 1 .. n : listed[evidence[d]] = listed[ranked[j]]
        BY <4>1, <1>5 DEF LoopInv, SeenIsShown
      <4> QED BY <4>2, <1>4
    <3>3. e - 1 = n
      BY <2>2, <1>3
    <3>4. ShownAt(e, k)'
      BY <2>0, <3>1, <3>2, <3>3 DEF ShownAt
    <3> QED BY <3>4
  <2> QED BY <2>1, <2>2, <1>3
<1> QED
  BY <1>6, <1>7, <1>8, <1>9, <1>11, <1>12, <1>13, <1>14 DEF LoopInv

LEMMA SearchStepKeepsInv ==
  ASSUME LoopInv, [SearchNext]_searchVars
  PROVE  LoopInv'
<1>1. CASE SkipSeen
  BY <1>1, SkipKeepsInv
<1>2. CASE Show
  BY <1>2, ShowKeepsInv
<1>3. CASE Exhausted \/ UNCHANGED searchVars
  <2>1. /\ UNCHANGED <<listed, dense, lexical, method, limit, ranked, turn, seen, evidence>>
        /\ searching' = searching \/ (searching' = FALSE /\ turn > Len(ranked))
    BY <1>3 DEF Exhausted, searchVars
  <2>2. LoopTypeOK' /\ EveryChunkRanked'
    BY <2>1 DEF LoopInv, LoopTypeOK, EveryChunkRanked
  <2>3. SeenIsShown' /\ PassedIsSeen' /\ OneEntryPerFile'
    BY <2>1 DEF LoopInv, SeenIsShown, PassedIsSeen, OneEntryPerFile
  <2>5. LoopEnd' /\ ShownInOrder'
    BY <2>1, OrderKept DEF LoopInv, LoopEnd
  <2>4. RankedByScore'
    BY <2>1, RankedKept DEF LoopInv
  <2> QED BY <2>2, <2>3, <2>4, <2>5 DEF LoopInv
<1> QED
  BY <1>1, <1>2, <1>3 DEF SearchNext

LEMMA LoopInvariance == SearchSpec => []LoopInv
<1>1. LoopInv /\ [SearchNext]_searchVars => LoopInv'
  BY SearchStepKeepsInv
<1> QED
  BY SearchInitHasInv, <1>1, PTL DEF SearchSpec

LEMMA InvShowsFiles == LoopInv => NoFileCrowdedOut
<1> SUFFICES ASSUME LoopInv, SearchDone, Len(evidence) < limit,
                    NEW i \in 1 .. Len(listed)
             PROVE  \E e \in 1 .. Len(evidence) : listed[evidence[e]] = listed[i]
  BY DEF NoFileCrowdedOut
<1>1. turn > Len(ranked)
  BY DEF LoopInv, LoopTypeOK, LoopEnd, SearchDone
<1>2. PICK k \in 1 .. Len(ranked) : ranked[k] = i
  BY DEF LoopInv, EveryChunkRanked
<1>3. k < turn
  BY <1>1, <1>2 DEF LoopInv, LoopTypeOK
<1>4. listed[i] \in seen
  BY <1>2, <1>3 DEF LoopInv, PassedIsSeen
<1> QED
  BY <1>4 DEF LoopInv, SeenIsShown

\* Whatever the ranking, an answer with room left shows every file that has a
\* chunk in the searched revision.
THEOREM EveryFileShown == SearchSpec => []NoFileCrowdedOut
BY LoopInvariance, InvShowsFiles, PTL

\* No file takes two places in an answer, and no answer exceeds its limit.
THEOREM FilesShownOnce == SearchSpec => []OneEntryPerFile
<1>1. LoopInv => OneEntryPerFile
  BY DEF LoopInv
<1> QED
  BY LoopInvariance, <1>1, PTL
----------------------------------------------------------------------------
LEMMA InvShowsBetter == LoopInv => BetterChunkShownFirst
<1> SUFFICES ASSUME LoopInv, NEW e \in 1 .. Len(evidence), NEW i \in 1 .. Len(listed),
                    Dominates(i, evidence[e])
             PROVE  \E d \in 1 .. e - 1 : listed[evidence[d]] = listed[i]
  BY DEF BetterChunkShownFirst
<1>1. PICK k \in 1 .. Len(ranked) :
        /\ ranked[k] = evidence[e]
        /\ \A j \in 1 .. k - 1 : \E d \in 1 .. e - 1 : listed[evidence[d]] = listed[ranked[j]]
  BY DEF LoopInv, ShownInOrder, ShownAt
<1>2. PICK j \in 1 .. Len(ranked) : ranked[j] = i
  BY DEF LoopInv, EveryChunkRanked
<1>3. j < k
  BY <1>1, <1>2 DEF LoopInv, RankedByScore
<1>4. j \in 1 .. k - 1
  BY <1>3
<1> QED BY <1>1, <1>2, <1>4

\* Whatever the scores and the method: no chunk is shown while the path of a
\* chunk that ranks above it, or in a hybrid search above it in both rankings,
\* has not been shown before.
THEOREM BetterFirst == SearchSpec => []BetterChunkShownFirst
BY LoopInvariance, InvShowsBetter, PTL
=============================================================================
