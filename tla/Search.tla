------------------------------- MODULE Search -------------------------------
(***************************************************************************)
(* IndexingService.search: the chunks of a revision are ranked by two      *)
(* scores, the rankings are fused, and the evidence is the best chunk of   *)
(* each file, up to a limit.                                               *)
(*                                                                         *)
(* A chunk is its position in the list the query returns; scores are small *)
(* numbers, since only their order matters.                                *)
(***************************************************************************)
EXTENDS Integers, Sequences, FiniteSets

CONSTANT RankOffset  \* 60 in search

ASSUME OffsetIsNatural == RankOffset \in Nat

Methods == {"dense", "lexical", "hybrid"}

VARIABLES
  listed,    \* the path of each chunk, in the order of the query
  dense,     \* cosine similarity of each chunk with the query
  lexical,   \* lexical score of each chunk
  method,    \* the retrieval method
  limit,     \* top_k, or the default
  ranked,    \* the chunks in the order the loop takes them
  turn,      \* position of the loop in ranked
  seen,      \* seen_paths
  evidence,  \* the chunks shown, in order
  searching  \* the loop is running

searchVars ==
  <<listed, dense, lexical, method, limit, ranked, turn, seen, evidence, searching>>

\* sorted(..., reverse=True) is stable: equal scores keep the query's order.
Outranks(score, i, j) == score[i] > score[j] \/ (score[i] = score[j] /\ i < j)

Rank(score, i) ==
  1 + Cardinality({j \in DOMAIN score : Outranks(score, j, i)})

\* Slip: reverse=True is forgotten.
SlipSorted(score) ==
  [place \in DOMAIN score |->
     CHOOSE i \in DOMAIN score : Rank(score, i) = Len(score) + 1 - place]

Sorted(score) ==
  [place \in DOMAIN score |-> CHOOSE i \in DOMAIN score : Rank(score, i) = place]

\* Reciprocal rank fusion: a chunk's score is 1/(60 + rank) summed over both
\* rankings.  Its place by that fraction, compared by cross multiplication,
\* is represented by minus the number of chunks with a larger one.
Fused(d, l) ==
  LET x(i) == RankOffset + Rank(d, i)
      y(i) == RankOffset + Rank(l, i)
      larger(i, j) == (x(i) + y(i)) * x(j) * y(j) > (x(j) + y(j)) * x(i) * y(i)
  IN  [i \in DOMAIN d |-> -Cardinality({j \in DOMAIN d : larger(j, i)})]

Ordered(d, l, m) ==
  CASE m = "dense"   -> Sorted(d)
    [] m = "lexical" -> Sorted(l)
    [] m = "hybrid"  -> Sorted(Fused(d, l))

\* _cosine_similarity and _lexical_score give the scores d and l.
BeginSearch(paths, d, l, m, k) ==
  /\ listed' = paths
  /\ dense' = d /\ lexical' = l /\ method' = m /\ limit' = k
  /\ ranked' = Ordered(d, l, m)
  /\ turn' = 1 /\ seen' = {} /\ evidence' = <<>>
  /\ searching' = TRUE

Path(turnNumber) == listed[ranked[turnNumber]]

SkipSeen ==
  /\ searching /\ turn <= Len(ranked)
  /\ Path(turn) \in seen
  /\ turn' = turn + 1
  /\ UNCHANGED <<listed, dense, lexical, method, limit, ranked, seen, evidence, searching>>

Show ==
  /\ searching /\ turn <= Len(ranked)
  /\ Path(turn) \notin seen
  /\ seen' = seen \cup {Path(turn)}
  /\ evidence' = Append(evidence, ranked[turn])
  /\ turn' = turn + 1
  /\ searching' = (Len(evidence') < limit)
  /\ UNCHANGED <<listed, dense, lexical, method, limit, ranked>>

\* Slip: the loop stops at the first chunk of a path already seen.
SlipExhausted ==
  /\ searching
  /\ IF turn > Len(ranked) THEN TRUE ELSE Path(turn) \in seen
  /\ searching' = FALSE
  /\ UNCHANGED <<listed, dense, lexical, method, limit, ranked, turn, seen, evidence>>

Exhausted ==
  /\ searching /\ turn > Len(ranked)
  /\ searching' = FALSE
  /\ UNCHANGED <<listed, dense, lexical, method, limit, ranked, turn, seen, evidence>>

SearchNext == SkipSeen \/ Show \/ Exhausted

\* A search on its own, of any chunks with any scores.
SearchInit ==
  /\ listed \in Seq(Nat)
  /\ dense \in [1 .. Len(listed) -> Int] /\ lexical \in [1 .. Len(listed) -> Int]
  /\ method \in Methods /\ limit \in Nat \ {0}
  /\ ranked = Ordered(dense, lexical, method)
  /\ turn = 1 /\ seen = {} /\ evidence = <<>> /\ searching = TRUE

SearchSpec == SearchInit /\ [][SearchNext]_searchVars
----------------------------------------------------------------------------
(* Properties.                                                             *)

SearchDone == ~searching

\* The evidence is cut off by the limit only: an answer with room left shows
\* every file that has a chunk, however many chunks its better files have.
NoFileCrowdedOut ==
  SearchDone /\ Len(evidence) < limit =>
    \A i \in 1 .. Len(listed) :
      \E e \in 1 .. Len(evidence) : listed[evidence[e]] = listed[i]

\* A chunk that both rankings put ahead of what is shown for a path, or of a
\* path that is shown, is not passed over: its own path is shown by a chunk
\* at least as good, and no later.
Dominates(i, j) ==
  CASE method = "dense"   -> Outranks(dense, i, j)
    [] method = "lexical" -> Outranks(lexical, i, j)
    [] method = "hybrid"  -> Outranks(dense, i, j) /\ Outranks(lexical, i, j)

BetterChunkShownFirst ==
  \A e \in 1 .. Len(evidence) :
    \A i \in 1 .. Len(listed) :
      Dominates(i, evidence[e]) =>
        \E d \in 1 .. e - 1 : listed[evidence[d]] = listed[i]
=============================================================================
