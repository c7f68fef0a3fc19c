----------------------------- MODULE MCIndexing -----------------------------
(* Symmetry for the TLC runs of Indexing.                                  *)
EXTENDS Indexing, TLC

Symmetry ==
  Permutations(Requests) \cup Permutations(Workers) \cup Permutations(Commits)

=============================================================================
