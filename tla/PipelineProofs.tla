--------------------------- MODULE PipelineProofs ----------------------------
(***************************************************************************)
(* Proofs about Embedding, for every number of drafts, batch size and      *)
(* number of attempts; and about Pipeline, where they meet what is known   *)
(* of the scan, of the chunks and of the search: for all checkouts, files, *)
(* settings and scores.                                                    *)
(***************************************************************************)
EXTENDS Pipeline, AcquisitionProofs, ChunkingProofs, SearchProofs

\* The cursor never passes the last draft, and an answer that would do so
\* fails the job instead of being cut off.
CursorInRange == cursor <= wanted

\* While every answer is whole, the cursor is at the end of the texts that
\* were answered, and each draft before it has its own vector.
CursorFollowsTexts ==
  whole => /\ cursor = sent
           /\ \A i \in 1 .. wanted : i <= cursor => vector[i] = i

DoneAtEnd == embedding = "done" => sent >= wanted

EmbedInv ==
  /\ EmbedTypeOK
  /\ CursorInRange
  /\ sent <= wanted
  /\ CursorFollowsTexts
  /\ DoneAtEnd

\* A batch is never empty and never leaves the list of texts.
LEMMA BatchFits ==
  ASSUME EmbedInv, Running
  PROVE  BatchLen \in Nat /\ BatchLen >= 1 /\ sent + BatchLen <= wanted
BY EmbeddingLimits DEF EmbedInv, EmbedTypeOK, Running, BatchLen, Least

LEMMA AnswerKeepsInv ==
  ASSUME EmbedInv, NEW count \in 1 .. BatchSize + 1, Answer(count)
  PROVE  EmbedInv'
<1>1. Running /\ UNCHANGED <<wanted, embedding>>
  BY DEF Answer
<1>2. BatchLen \in Nat /\ BatchLen >= 1 /\ sent + BatchLen <= wanted
  BY <1>1, BatchFits
<1>3. count \in Nat /\ count >= 1
  BY EmbeddingLimits
<1>4. AnswerLen(count) \in Nat /\ AnswerLen(count) >= 1
  BY <1>2, <1>3 DEF AnswerLen
<1>5. \A k \in Nat : Answered(count, k) \in Nat
  BY <1>2, <1>3 DEF Answered, Stray, EmbedInv, EmbedTypeOK
<1>6. /\ cursor' = cursor + AnswerLen(count)
      /\ vector' = [i \in 1 .. wanted |->
           IF cursor < i /\ i <= cursor + AnswerLen(count)
             THEN Answered(count, i - cursor) ELSE vector[i]]
  BY DEF Answer, Assign
<1>7. cursor' \in Nat /\ cursor' <= wanted
  BY <1>4, <1>6 DEF Answer, EmbedInv, EmbedTypeOK
<1>8. vector' \in [1 .. wanted -> Nat]
  <2>1. ASSUME NEW i \in 1 .. wanted, cursor < i
        PROVE  i - cursor \in Nat
    BY <2>1 DEF EmbedInv, EmbedTypeOK
  <2>2. ASSUME NEW i \in 1 .. wanted
        PROVE  (IF cursor < i /\ i <= cursor + AnswerLen(count)
                  THEN Answered(count, i - cursor) ELSE vector[i]) \in Nat
    BY <1>5, <2>1 DEF EmbedInv, EmbedTypeOK
  <2> QED
    BY <1>6, <2>2
<1>9. sent' = sent + BatchLen /\ sent' \in Nat /\ sent' <= wanted /\ failures' = 0
  BY <1>2 DEF Answer, EmbedInv, EmbedTypeOK
<1>10. EmbedTypeOK'
  <2>1. whole' \in BOOLEAN
    BY DEF Answer
  <2>2. failures' \in 0 .. Attempts
    BY <1>9, EmbeddingLimits
  <2> QED
    BY <1>1, <1>7, <1>8, <1>9, <2>1, <2>2 DEF EmbedInv, EmbedTypeOK
<1>11. CursorFollowsTexts'
  <2> SUFFICES ASSUME whole'
               PROVE  /\ cursor' = sent'
                      /\ \A i \in 1 .. wanted : i <= cursor' => vector'[i] = i
    BY <1>1 DEF CursorFollowsTexts
  <2>1. whole /\ count = BatchLen
    BY DEF Answer
  <2>2. cursor = sent /\ AnswerLen(count) = BatchLen
    BY <2>1, <1>2 DEF EmbedInv, CursorFollowsTexts, AnswerLen
  <2>3. cursor' = sent'
    BY <1>6, <1>9, <2>2
  <2>4. ASSUME NEW i \in 1 .. wanted, i <= cursor'
        PROVE  vector'[i] = i
    <3>1. CASE i <= cursor
      <4>1. vector'[i] = vector[i]
        BY <1>6, <3>1 DEF EmbedInv, EmbedTypeOK
      <4> QED
        BY <4>1, <3>1, <2>1 DEF EmbedInv, CursorFollowsTexts
    <3>2. CASE cursor < i
      <4>1. i <= cursor + AnswerLen(count)
        BY <1>6, <2>4
      <4>2. vector'[i] = Answered(count, i - cursor)
        BY <1>6, <4>1, <3>2
      <4>3. i - cursor \in 1 .. BatchLen
        BY <2>2, <3>2, <4>1, <1>2 DEF EmbedInv, EmbedTypeOK
      <4>4. Answered(count, i - cursor) = sent + (i - cursor)
        BY <2>1, <4>3, <1>2 DEF Answered
      <4> QED
        BY <4>2, <4>4, <2>2 DEF EmbedInv, EmbedTypeOK
    <3> QED
      BY <3>1, <3>2 DEF EmbedInv, EmbedTypeOK
  <2> QED
    BY <2>3, <2>4
<1>12. DoneAtEnd'
  BY <1>1 DEF Running, DoneAtEnd
<1> QED
  BY <1>1, <1>7, <1>9, <1>10, <1>11, <1>12 DEF EmbedInv, CursorInRange

\* Steps that end the job or only count an attempt leave the vectors alone.
LEMMA QuietStepKeepsInv ==
  ASSUME EmbedInv, UNCHANGED <<wanted, vector, sent, cursor, whole>>,
         failures' \in 0 .. Attempts,
         embedding' \in {"running", "done", "failed"}, DoneAtEnd'
  PROVE  EmbedInv'
BY DEF EmbedInv, EmbedTypeOK, CursorInRange, CursorFollowsTexts

LEMMA EmbedStepKeepsInv ==
  ASSUME EmbedInv, [EmbedNext]_embedVars
  PROVE  EmbedInv'
<1>1. CASE \E count \in 1 .. BatchSize + 1 : Answer(count)
  BY <1>1, AnswerKeepsInv
<1>2. CASE \E count \in 1 .. BatchSize + 1 : AnswerOverflows(count)
  <2>1. /\ UNCHANGED <<wanted, vector, sent, cursor, failures, whole>>
        /\ embedding' = "failed"
    BY <1>2 DEF AnswerOverflows
  <2>2. failures' \in 0 .. Attempts /\ DoneAtEnd'
    BY <2>1 DEF EmbedInv, EmbedTypeOK, DoneAtEnd
  <2> QED
    BY <2>1, <2>2, QuietStepKeepsInv
<1>3. CASE AttemptFails
  <2>1. /\ UNCHANGED <<wanted, vector, sent, cursor, whole>>
        /\ embedding' \in {"running", "failed"}
    BY <1>3 DEF AttemptFails
  <2>2. failures' \in 0 .. Attempts
    BY <1>3, EmbeddingLimits DEF AttemptFails, EmbedInv, EmbedTypeOK
  <2>3. DoneAtEnd'
    BY <2>1 DEF DoneAtEnd
  <2> QED
    BY <2>1, <2>2, <2>3, QuietStepKeepsInv
<1>4. CASE Refused
  <2>1. /\ UNCHANGED <<wanted, vector, sent, cursor, failures, whole>>
        /\ embedding' = "failed"
    BY <1>4 DEF Refused
  <2>2. failures' \in 0 .. Attempts /\ DoneAtEnd'
    BY <2>1 DEF EmbedInv, EmbedTypeOK, DoneAtEnd
  <2> QED
    BY <2>1, <2>2, QuietStepKeepsInv
<1>5. CASE Finish
  <2>1. /\ UNCHANGED <<wanted, vector, sent, cursor, failures, whole>>
        /\ embedding' = "done" /\ sent >= wanted
    BY <1>5 DEF Finish
  <2>2. failures' \in 0 .. Attempts /\ DoneAtEnd'
    BY <2>1 DEF EmbedInv, EmbedTypeOK, DoneAtEnd
  <2> QED
    BY <2>1, <2>2, QuietStepKeepsInv
<1>6. CASE UNCHANGED embedVars
  BY <1>6 DEF embedVars, EmbedInv, EmbedTypeOK, CursorInRange, CursorFollowsTexts, DoneAtEnd
<1> QED
  BY <1>1, <1>2, <1>3, <1>4, <1>5, <1>6 DEF EmbedNext

LEMMA EmbedInitHasInv == EmbedInit => EmbedInv
BY EmbeddingLimits
   DEF EmbedInit, EmbedInv, EmbedTypeOK, CursorInRange, CursorFollowsTexts, DoneAtEnd

LEMMA EmbedInvariance == EmbedSpec => []EmbedInv
<1>1. EmbedInv /\ [EmbedNext]_embedVars => EmbedInv'
  BY EmbedStepKeepsInv
<1> QED
  BY EmbedInitHasInv, <1>1, PTL DEF EmbedSpec

LEMMA InvMatchesTexts == EmbedInv => VectorsMatchTexts
BY DEF EmbedInv, EmbedTypeOK, CursorInRange, CursorFollowsTexts, DoneAtEnd, VectorsMatchTexts

\* Every chunk of an index that was built from whole answers has the vector of
\* its own text, for every number of texts, batch size and pattern of retries.
THEOREM OwnVectors == EmbedSpec => []VectorsMatchTexts
BY EmbedInvariance, InvMatchesTexts, PTL

\* No answer of the provider, however long, moves the cursor of
\* index_repository past the last draft.
THEOREM CursorStaysInRange == EmbedSpec => []CursorInRange
<1>1. EmbedInv => CursorInRange
  BY DEF EmbedInv
<1> QED
  BY EmbedInvariance, <1>1, PTL
----------------------------------------------------------------------------
(* The pipeline: the invariants of its stages, what a stage finds when it  *)
(* begins, and how paths travel from the checkout to the evidence.         *)

\* Variables of PipelineTypeOK that the invariants of the stages do not bound.
StageTypeOK ==
  /\ stage \in {"acquiring", "chunking", "embedding", "stored", "searching", "failed"}
  /\ ref \in Refs \cup {"none"} /\ kills <= MaxKills
  /\ start \in Nat /\ at <= Len(corpus) + 1

\* Between two symbols nothing is left of the text that was cut.
NothingToCut == ~cutting /\ parts = <<>> => source = <<>>

\* Every draft was made of a file, and every file up to the current one has
\* one.
DraftsOfFiles ==
  /\ \A d \in 1 .. Len(drafts) : \E f \in 1 .. Len(corpus) : drafts[d].path = corpus[f].path
  /\ \A f \in 1 .. Len(corpus) :
       f < at => \E d \in 1 .. Len(drafts) : drafts[d].path = corpus[f].path

CorpusIsHarmless ==
  /\ \A f \in 1 .. Len(corpus) : corpus[f].path \in HarmlessPaths
  /\ \A p \in HarmlessPaths : \E f \in 1 .. Len(corpus) : corpus[f].path = p

\* A search sees chunks of the index, and one without a filter all of them.
ListingOfDrafts ==
  /\ \A c \in 1 .. Len(listed) : \E d \in 1 .. Len(drafts) : listed[c] = drafts[d].path
  /\ Len(listed) = Len(drafts) =>
       \A d \in 1 .. Len(drafts) : \E c \in 1 .. Len(listed) : listed[c] = drafts[d].path

ChunkedBy(s) == s \in {"embedding", "stored", "searching"}

PipelineInv ==
  /\ JobInv /\ ChunkInv /\ EmbedInv /\ LoopInv
  /\ StageTypeOK
  /\ NothingToCut
  /\ DraftsOfFiles
  /\ stage = "acquiring" => ChunkInit
  /\ stage # "acquiring" => CorpusIsHarmless
  /\ stage # "searching" => NoSearch
  /\ ChunkedBy(stage) => Chunked
  /\ ListingOfDrafts

\* Ascending lists every element of a finite set of numbers once.
LEMMA AscendingLists ==
  ASSUME NEW S \in SUBSET Nat, IsFiniteSet(S)
  PROVE  /\ Cardinality(S) \in Nat
         /\ Ascending(S) \in [1 .. Cardinality(S) -> S]
         /\ \A p \in S : \E place \in 1 .. Cardinality(S) : Ascending(S)[place] = p
<1> DEFINE n == Cardinality(S)
           upTo(p) == {q \in S : q <= p}
           place == [p \in S |-> Cardinality(upTo(p))]
<1>1. n \in Nat /\ IsFiniteSet(1 .. n) /\ Cardinality(1 .. n) = n
  <2>1. Cardinality(S) \in Nat
    BY FS_CardinalityType
  <2> QED BY <2>1, FS_Interval
<1>2. ASSUME NEW p \in S
      PROVE  /\ IsFiniteSet(upTo(p)) /\ Cardinality(upTo(p)) \in Nat
             /\ Cardinality(upTo(p)) \in 1 .. n
  <2>1. upTo(p) \in SUBSET S /\ p \in upTo(p)
    OBVIOUS
  <2> HIDE DEF upTo
  <2>2. IsFiniteSet(upTo(p)) /\ Cardinality(upTo(p)) \in Nat /\ Cardinality(upTo(p)) <= n
    BY <2>1, FS_Subset, FS_CardinalityType
  <2>3. Cardinality(upTo(p)) # 0
    BY <2>1, <2>2, FS_EmptySet
  <2> QED BY <1>1, <2>2, <2>3
<1>3. ASSUME NEW p \in S, NEW q \in S, p < q PROVE place[p] # place[q]
  <2>1. upTo(p) \in SUBSET upTo(q) /\ upTo(p) # upTo(q)
    <3>1. \A r \in S : r <= p => r <= q
      BY <1>3
    <3>2. q \in upTo(q) /\ q \notin upTo(p)
      BY <1>3
    <3> QED BY <3>1, <3>2
  <2> HIDE DEF upTo
  <2>2. Cardinality(upTo(p)) # Cardinality(upTo(q))
    BY <1>2, <2>1, FS_Subset
  <2> QED BY <2>2
<1>4. \A p, q \in S : place[p] = place[q] => p = q
  <2> HIDE DEF place
  <2>1. \A p, q \in S : p = q \/ p < q \/ q < p
    OBVIOUS
  <2> QED BY <1>3, <2>1
<1>5. place \in Injection(S, 1 .. n)
  BY <1>2, <1>4 DEF Injection, IsInjective
<1>6. \A k \in 1 .. n : \E p \in S : Cardinality(upTo(p)) = k
  <2>1. place \in Surjection(S, 1 .. n)
    <3> HIDE DEF place
    <3> QED BY <1>1, <1>5, FS_Injection
  <2> QED BY <2>1 DEF Surjection
<1>7. ASSUME NEW k \in 1 .. n
      PROVE  Ascending(S)[k] \in S /\ place[Ascending(S)[k]] = k
  <2>1. Ascending(S)[k] = CHOOSE p \in S : Cardinality(upTo(p)) = k
    BY DEF Ascending
  <2> QED BY <1>6, <2>1
<1>8. Ascending(S) \in [1 .. n -> S]
  BY <1>7 DEF Ascending
<1>9. \A p \in S : place[p] \in 1 .. n /\ Ascending(S)[place[p]] = p
  <2>1. \A p \in S : place[p] \in 1 .. n
    BY <1>2
  <2> HIDE DEF place
  <2> QED BY <1>4, <1>7, <2>1
<1> QED BY <1>1, <1>8, <1>9

\* The paths a search of everything should show are finitely many numbers.
LEMMA HarmlessPathsFinite ==
  ASSUME JobTypeOK
  PROVE  /\ IsFiniteSet(HarmlessPaths) /\ HarmlessPaths \in SUBSET Nat
         /\ \A p \in HarmlessPaths : p \in DOMAIN Document /\ Document[p] \in Documents
<1> DEFINE H == {g \in Walkable : Harmless(g)}
           pathOf == [f \in H |-> f.path]
<1>1. IsFiniteSet(H) /\ H \in SUBSET checkout
  <2>1. H \in SUBSET checkout
    BY DEF Walkable
  <2> QED BY <2>1, CheckoutIsFileSet, TallyIsNatural
<1>2. pathOf \in Surjection(H, HarmlessPaths)
  BY DEF HarmlessPaths, Surjection
<1>3. IsFiniteSet(HarmlessPaths)
  <2> HIDE DEF H, pathOf
  <2> QED BY <1>1, <1>2, FS_Surjection
<1>4. checkout = {} \/ checkout \in Checkouts
  BY DEF JobTypeOK
<1>5. \A f \in H : f.path \in Nat /\ f.path \in DOMAIN Document /\ Document[f.path] \in Documents
  BY <1>1, <1>4, CheckoutsAreFileSets, DocumentsAreParsed
<1> QED BY <1>3, <1>5 DEF HarmlessPaths

LEMMA AcceptedAreHarmless ==
  ASSUME JobInv, outcome = "succeeded"
  PROVE  AcceptedPaths = Ascending(HarmlessPaths)
<1>1. {r.path : r \in {s \in rows : s.excluded = "none"}}
        = {f.path : f \in {g \in checkout : Harmless(g)}}
  BY InvSelects DEF ScanSelects
<1>2. {g \in checkout : Harmless(g)} = {g \in Walkable : Harmless(g)}
  BY DEF Walkable, Harmless
<1> QED BY <1>1, <1>2 DEF AcceptedPaths, HarmlessPaths

LEMMA HarmlessKept == checkout' = checkout => HarmlessPaths' = HarmlessPaths
BY DEF HarmlessPaths, Walkable, Harmless

\* What a stage leaves alone keeps its invariant.
LEMMA JobAtRest == JobInv /\ UNCHANGED acquireVars => JobInv'
BY AcquireStep

LEMMA ChunksAtRest == ChunkInv /\ UNCHANGED <<splitVars, chunkVars>> => ChunkInv'
BY ChunkStepKeepsInv

LEMMA VectorsAtRest == EmbedInv /\ UNCHANGED embedVars => EmbedInv'
BY EmbedStepKeepsInv

LEMMA LoopAtRest == LoopInv /\ UNCHANGED searchVars => LoopInv'
BY SearchStepKeepsInv

LEMMA NoVectors == NoEmbedding => EmbedInv
<1> SUFFICES ASSUME NoEmbedding PROVE EmbedInv
  OBVIOUS
<1>1. vector \in [1 .. wanted -> Nat]
  BY DEF NoEmbedding
<1>2. failures \in 0 .. Attempts
  BY EmbeddingLimits DEF NoEmbedding
<1> QED BY <1>1, <1>2 DEF NoEmbedding, EmbedInv, EmbedTypeOK, CursorInRange,
                          CursorFollowsTexts, DoneAtEnd

LEMMA NoLoop == NoSearch => LoopInv
<1> SUFFICES ASSUME NoSearch PROVE LoopInv
  OBVIOUS
<1>1. Len(listed) = 0 /\ Len(ranked) = 0 /\ Len(evidence) = 0
  BY DEF NoSearch
<1>2. /\ listed \in Seq(Nat) /\ ranked \in Seq(1 .. Len(listed))
      /\ evidence \in Seq(1 .. Len(listed))
  BY DEF NoSearch
<1>3. dense \in [1 .. Len(listed) -> Int] /\ lexical \in [1 .. Len(listed) -> Int]
  BY <1>1 DEF NoSearch
<1>4. LoopTypeOK
  <2>1. 1 \in Nat \ {0}
    OBVIOUS
  <2>2. limit \in Nat \ {0} /\ turn \in Nat \ {0} /\ method \in Methods /\ searching \in BOOLEAN
    BY <2>1 DEF NoSearch, Methods
  <2> QED BY <1>2, <1>3, <2>2 DEF LoopTypeOK
<1> QED BY <1>1, <1>4 DEF NoSearch, LoopInv, SeenIsShown, PassedIsSeen, EveryChunkRanked,
           RankedByScore, ShownInOrder, LoopEnd, OneEntryPerFile

LEMMA PipelineInitHasInv == PipelineInit => PipelineInv
<1> SUFFICES ASSUME PipelineInit PROVE PipelineInv
  OBVIOUS
<1>1. JobInv
  BY StartHasInv DEF PipelineInit
<1>2. ChunkInit
  BY DEF PipelineInit, ChunkInit
<1>3. ChunkInv /\ EmbedInv /\ LoopInv
  BY <1>2, ChunkInitHasInv, NoVectors, NoLoop DEF PipelineInit
<1>4. StageTypeOK
  BY AcquisitionLimits DEF PipelineInit, StartJob, StageTypeOK
<1>5. NothingToCut /\ DraftsOfFiles /\ ListingOfDrafts
  BY DEF PipelineInit, NoSearch, NothingToCut, DraftsOfFiles, ListingOfDrafts
<1> QED BY <1>1, <1>2, <1>3, <1>4, <1>5 DEF PipelineInit, PipelineInv, ChunkedBy
----------------------------------------------------------------------------
\* While the files, their chunks and the list of the search stay the same, so
\* do the paths in them.
LEMMA PathsAtRest ==
  ASSUME UNCHANGED <<corpus, at, drafts, listed>>, checkout' = checkout
  PROVE  /\ DraftsOfFiles => DraftsOfFiles'
         /\ CorpusIsHarmless => CorpusIsHarmless'
         /\ ListingOfDrafts => ListingOfDrafts'
BY HarmlessKept DEF DraftsOfFiles, CorpusIsHarmless, ListingOfDrafts

LEMMA AcquireKeeps == PipelineInv /\ Acquire => PipelineInv'
<1> SUFFICES ASSUME PipelineInv, Acquire PROVE PipelineInv'
  OBVIOUS
<1>1. /\ stage = "acquiring" /\ stage' = "acquiring" /\ AcquireNext
      /\ UNCHANGED <<splitVars, chunkVars>> /\ UNCHANGED embedVars /\ UNCHANGED searchVars
  BY DEF Acquire
<1>2. /\ UNCHANGED <<source, start, parts, cutting, corpus, at, symbols, next, drafts>>
      /\ UNCHANGED <<listed, dense, lexical, method, limit, ranked, turn, seen, evidence,
                     searching>>
  BY <1>1 DEF splitVars, chunkVars, searchVars
<1>3. JobInv' /\ ChunkInv' /\ EmbedInv' /\ LoopInv'
  BY <1>1, AcquireStep, ChunksAtRest, VectorsAtRest, LoopAtRest DEF PipelineInv
<1>4. ref' = ref /\ kills' <= MaxKills
  <2>1. kills \in Nat /\ MaxKills \in Nat /\ kills <= MaxKills
    BY AcquisitionLimits DEF PipelineInv, StageTypeOK, JobInv, JobTypeOK
  <2>2. ref' = ref /\ (kills' = kills \/ (kills < MaxKills /\ kills' = kills + 1))
    <3>1. CASE Killed
      BY <3>1 DEF Killed
    <3>2. CASE CommandSucceeds
      BY <3>2 DEF CommandSucceeds
    <3>3. CASE (\E code \in GitCodes : CommandFails(code)) \/ CommandRaises
      BY <3>3 DEF CommandFails, CommandRaises
    <3>4. CASE \E f \in checkout : Visit(f)
      BY <3>4 DEF Visit
    <3>5. CASE WalkEnds \/ ScanRaises \/ RemoveWorkspace \/ RemoveFails
      BY <3>5 DEF WalkEnds, ScanRaises, RemoveWorkspace, RemoveFails
    <3> QED BY <1>1, <3>1, <3>2, <3>3, <3>4, <3>5 DEF AcquireNext
  <2> QED BY <2>1, <2>2
<1>5. StageTypeOK'
  BY <1>1, <1>2, <1>4 DEF PipelineInv, StageTypeOK
<1>6. NothingToCut' /\ DraftsOfFiles' /\ ListingOfDrafts' /\ ChunkInit' /\ NoSearch'
  BY <1>1, <1>2 DEF PipelineInv, NothingToCut, DraftsOfFiles, ListingOfDrafts, ChunkInit,
                    NoSearch
<1> QED BY <1>1, <1>3, <1>5, <1>6 DEF PipelineInv, ChunkedBy

LEMMA StartIndexingKeeps == PipelineInv /\ StartIndexing => PipelineInv'
<1> SUFFICES ASSUME PipelineInv, StartIndexing PROVE PipelineInv'
  OBVIOUS
<1>1. /\ stage = "acquiring" /\ stage' = "chunking" /\ outcome = "succeeded" /\ Acquired
      /\ ref' = "none" /\ leftovers' = 0 /\ kills' = 0
      /\ UNCHANGED <<commands, workspace, checkout, visited, rows, counts, acquiring, outcome>>
      /\ UNCHANGED <<at, symbols, next, drafts>> /\ UNCHANGED splitVars
      /\ UNCHANGED embedVars /\ UNCHANGED searchVars
  BY DEF StartIndexing
<1>2. /\ UNCHANGED <<source, start, parts, cutting>>
      /\ UNCHANGED <<listed, dense, lexical, method, limit, ranked, turn, seen, evidence,
                     searching>>
  BY <1>1 DEF splitVars, searchVars
<1>3. ChunkInit /\ JobInv
  BY <1>1 DEF PipelineInv
<1> DEFINE n == Cardinality(HarmlessPaths)
           path == Ascending(HarmlessPaths)
<1>4. /\ n \in Nat /\ path \in [1 .. n -> HarmlessPaths]
      /\ \A p \in HarmlessPaths : \E f \in 1 .. n : path[f] = p
  BY <1>3, HarmlessPathsFinite, AscendingLists DEF JobInv
<1> HIDE DEF n, path
<1>5. corpus' = [f \in 1 .. n |-> [path |-> path[f], doc |-> Document[path[f]]]]
  <2>1. AcceptedPaths = path
    BY <1>1, <1>3, AcceptedAreHarmless DEF path
  <2> QED BY <1>4, <2>1 DEF StartIndexing
<1>6. \A f \in 1 .. n : path[f] \in Nat /\ Document[path[f]] \in Documents
  BY <1>3, <1>4, HarmlessPathsFinite DEF JobInv
<1>7. corpus' \in Seq(Files) /\ Len(corpus') = n /\ \A f \in 1 .. n : corpus'[f].path = path[f]
  <2>1. \A f \in 1 .. n : [path |-> path[f], doc |-> Document[path[f]]] \in Files
    BY <1>6 DEF Files
  <2> QED BY <1>4, <1>5, <2>1
<1>8. ChunkInit'
  BY <1>1, <1>2, <1>3, <1>7 DEF ChunkInit, Files
<1>9. ChunkInv'
  <2>1. ChunkInit' => ChunkInv'
    BY ChunkInitHasInv, PTL
  <2> QED BY <1>8, <2>1
<1>10. JobInv'
  <2>1. WalkedSoFar' /\ Verdict' /\ Walkable' = Walkable
    BY <1>1, <1>3, WalkKept
  <2>2. JobTypeOK' /\ Directories' /\ OutcomeInTime' /\ NothingScanned'
    BY <1>1, <1>3, <2>1 DEF JobInv, JobTypeOK, Directories, OutcomeInTime, NothingScanned,
                            Acquired
  <2> QED BY <2>1, <2>2 DEF JobInv
<1>11. EmbedInv' /\ LoopInv'
  BY <1>1, VectorsAtRest, LoopAtRest DEF PipelineInv
<1>12. StageTypeOK'
  <2>1. at' = 1 /\ start' = 0
    BY <1>8 DEF ChunkInit
  <2>2. at' <= Len(corpus') + 1
    BY <1>4, <1>7, <2>1
  <2> QED BY <1>1, <2>1, <2>2, AcquisitionLimits DEF StageTypeOK
<1>13. NothingToCut' /\ DraftsOfFiles' /\ NoSearch' /\ ListingOfDrafts'
  <2>1. NoSearch' /\ NothingToCut'
    BY <1>1, <1>2 DEF PipelineInv, NoSearch, NothingToCut
  <2>2. at' = 1 /\ drafts' = <<>> /\ listed' = <<>>
    BY <1>8, <2>1 DEF ChunkInit, NoSearch
  <2>3. DraftsOfFiles' /\ ListingOfDrafts'
    BY <2>2 DEF DraftsOfFiles, ListingOfDrafts
  <2> QED BY <2>1, <2>3
<1>14. CorpusIsHarmless'
  <2>1. HarmlessPaths' = HarmlessPaths
    BY <1>1, HarmlessKept
  <2> QED BY <1>4, <1>7, <2>1 DEF CorpusIsHarmless
<1> QED BY <1>1, <1>9, <1>10, <1>11, <1>12, <1>13, <1>14 DEF PipelineInv, ChunkedBy

\* Drafts of the current file are drafts of a file, and when its last ones
\* have been kept, it has some.
LEMMA MoreDrafts ==
  ASSUME DraftsOfFiles, ChunkTypeOK, at <= Len(corpus), corpus' = corpus,
         NEW es \in Seq(Drafts), Len(es) > 0, drafts' = drafts \o es,
         \A k \in 1 .. Len(es) : es[k].path = Current.path,
         at' = at \/ at' = at + 1
  PROVE  DraftsOfFiles'
<1> DEFINE m == Len(drafts)
           n == Len(es)
<1>1. /\ m \in Nat /\ n \in Nat /\ n > 0 /\ Len(drafts') = m + n
      /\ \A d \in 1 .. m : drafts'[d] = drafts[d]
      /\ \A k \in 1 .. n : drafts'[m + k] = es[k]
      /\ at \in 1 .. Len(corpus) /\ Len(corpus) \in Nat
  BY DEF ChunkTypeOK
<1> HIDE DEF m, n
<1>2. ASSUME NEW d \in 1 .. m + n
      PROVE  \E f \in 1 .. Len(corpus) : drafts'[d].path = corpus[f].path
  <2>1. CASE d \in 1 .. m
    <3>1. drafts'[d] = drafts[d] /\ d \in 1 .. Len(drafts)
      BY <1>1, <2>1 DEF m
    <3> QED BY <3>1 DEF DraftsOfFiles
  <2>2. CASE d \notin 1 .. m
    <3>1. PICK k \in 1 .. n : d = m + k
      <4>1. d - m \in 1 .. n /\ d = m + (d - m)
        BY <1>1, <2>2
      <4> QED BY <4>1
    <3>2. drafts'[d].path = corpus[at].path
      BY <1>1, <3>1 DEF n, Current
    <3> QED BY <1>1, <3>2
  <2> QED BY <2>1, <2>2
<1>3. ASSUME NEW f \in 1 .. Len(corpus), f < at'
      PROVE  \E d \in 1 .. m + n : drafts'[d].path = corpus[f].path
  <2>1. CASE f < at
    <3>1. PICK d \in 1 .. m : drafts[d].path = corpus[f].path
      BY <2>1 DEF DraftsOfFiles, m
    <3>2. d \in 1 .. m + n /\ drafts'[d] = drafts[d]
      BY <1>1, <3>1
    <3> QED BY <3>1, <3>2
  <2>2. CASE ~ f < at
    <3>1. f = at
      BY <1>1, <1>3, <2>2
    <3>2. 1 \in 1 .. n /\ m + 1 \in 1 .. m + n
      BY <1>1
    <3>3. drafts'[m + 1].path = corpus[f].path
      BY <1>1, <3>1, <3>2 DEF n, Current
    <3> QED BY <3>2, <3>3
  <2> QED BY <2>1, <2>2
<1>4. Len(drafts') = m + n /\ corpus' = corpus
  BY <1>1
<1>5. \A d \in 1 .. Len(drafts') : \E f \in 1 .. Len(corpus') :
        drafts'[d].path = corpus'[f].path
  BY <1>2, <1>4
<1>6. \A f \in 1 .. Len(corpus') :
        f < at' => \E d \in 1 .. Len(drafts') : drafts'[d].path = corpus'[f].path
  BY <1>3, <1>4
<1> QED BY <1>5, <1>6 DEF DraftsOfFiles

LEMMA ChunkStepDrafts ==
  ASSUME ChunkInv, DraftsOfFiles, NothingToCut, ChunkNext, start \in Nat, at <= Len(corpus) + 1
  PROVE  /\ DraftsOfFiles' /\ NothingToCut' /\ corpus' = corpus
         /\ start' \in Nat /\ at' <= Len(corpus') + 1
<1>1. ChunkTypeOK /\ ChunkInv' /\ Splitting /\ Splitting'
  <2>1. ChunkInv'
    BY ChunkStepKeepsInv
  <2> QED BY <2>1 DEF ChunkInv
<1>2. CASE TakeSymbol \/ Cut
  <2>1. UNCHANGED <<corpus, at, symbols, next, drafts>>
    BY <1>2 DEF TakeSymbol, Cut, chunkVars
  <2>2. DraftsOfFiles'
    BY <2>1 DEF DraftsOfFiles
  <2>3. cutting' = TRUE \/ parts' # <<>>
    <3>1. CASE TakeSymbol
      BY <3>1 DEF TakeSymbol, BeginSplit
    <3>2. CASE Cut
      <4>1. CutPart /\ SplitInv
        BY <1>1, <3>2 DEF Cut, CutPart, Splitting
      <4>2. parts' = Append(parts, [first |-> start + 1, last |-> PartEnd])
        BY <4>1 DEF CutPart
      <4>3. parts \in Seq(Part)
        BY <4>1 DEF SplitInv, SplitTypeOK
      <4>4. Len(parts') = Len(parts) + 1
        BY <4>2, <4>3
      <4> QED BY <4>3, <4>4
    <3> QED BY <1>2, <3>1, <3>2
  <2>4. NothingToCut'
    BY <2>3 DEF NothingToCut
  <2>5. SplitInv'
    BY <1>1, <2>3 DEF Splitting
  <2>6. start' \in Nat
    BY <2>5 DEF SplitInv, SplitTypeOK
  <2> QED BY <2>1, <2>2, <2>4, <2>6
<1>3. CASE KeepParts
  <2> DEFINE es == PartDrafts(FileSymbols[next])
  <2>1. /\ ~cutting /\ parts # <<>> /\ start' = start
        /\ source' = <<>> /\ drafts' = drafts \o es
        /\ corpus' = corpus /\ (at' = at \/ at' = at + 1)
    BY <1>3 DEF KeepParts, EndFile
  <2>2. SplitInv /\ at <= Len(corpus)
    BY <1>1, <2>1 DEF Splitting
  <2>3. es \in Seq(Drafts)
    BY <2>1, PartsHoldSymbol
  <2>4. parts \in Seq(Part) /\ Len(parts) > 0
    BY <2>1, <2>2 DEF SplitInv, SplitTypeOK
  <2>5. Len(es) = Len(parts) /\ \A k \in 1 .. Len(es) : es[k].path = Current.path
    BY <2>4 DEF PartDrafts, Draft
  <2> HIDE DEF es
  <2>6. DraftsOfFiles'
    BY <1>1, <2>1, <2>2, <2>3, <2>4, <2>5, MoreDrafts
  <2>7. at' <= Len(corpus') + 1
    BY <1>1, <2>1, <2>2 DEF ChunkTypeOK
  <2> QED BY <2>1, <2>6, <2>7 DEF NothingToCut
<1>4. CASE TakeWholeFile
  <2> DEFINE draft == WholeFileDraft
             es == <<draft>>
  <2>1. /\ at <= Len(corpus) /\ drafts' = Append(drafts, draft) /\ corpus' = corpus
        /\ at' = at + 1
        /\ UNCHANGED <<source, start, parts, cutting>>
    BY <1>4 DEF TakeWholeFile, EndFile, splitVars
  <2>2. draft \in Drafts
    <3>1. Current \in Files
      BY <1>1, <2>1, CurrentIsTyped
    <3>2. NoParent \in Seq(Names)
      BY DEF NoParent
    <3> QED BY <3>1, <3>2 DEF WholeFileDraft, ChunkId, Drafts, Files, Documents
  <2>3. es \in Seq(Drafts) /\ Len(es) > 0 /\ \A k \in 1 .. Len(es) : es[k].path = Current.path
    <3>1. draft.path = Current.path
      BY DEF WholeFileDraft
    <3> HIDE DEF draft
    <3> QED BY <2>2, <3>1
  <2>4. drafts' = drafts \o es
    <3> HIDE DEF draft
    <3> QED BY <1>1, <2>1, <2>2 DEF ChunkTypeOK
  <2> HIDE DEF es
  <2>5. DraftsOfFiles'
    BY <1>1, <2>1, <2>3, <2>4, MoreDrafts
  <2>6. at' <= Len(corpus') + 1
    BY <1>1, <2>1 DEF ChunkTypeOK
  <2> QED BY <2>1, <2>5, <2>6 DEF NothingToCut
<1> QED BY <1>2, <1>3, <1>4 DEF ChunkNext

LEMMA ChunkKeeps == PipelineInv /\ Chunk => PipelineInv'
<1> SUFFICES ASSUME PipelineInv, Chunk PROVE PipelineInv'
  OBVIOUS
<1>1. /\ stage = "chunking" /\ stage' = "chunking" /\ ChunkNext
      /\ UNCHANGED acquireVars /\ UNCHANGED embedVars /\ UNCHANGED searchVars
  BY DEF Chunk
<1>2. /\ ref' = ref /\ kills' = kills /\ checkout' = checkout
      /\ UNCHANGED <<listed, dense, lexical, method, limit, ranked, turn, seen, evidence,
                     searching>>
  BY <1>1 DEF acquireVars, searchVars
<1>3. JobInv' /\ ChunkInv' /\ EmbedInv' /\ LoopInv'
  BY <1>1, JobAtRest, ChunkStepKeepsInv, VectorsAtRest, LoopAtRest DEF PipelineInv
<1>4. /\ DraftsOfFiles' /\ NothingToCut' /\ corpus' = corpus
      /\ start' \in Nat /\ at' <= Len(corpus') + 1
  BY <1>1, ChunkStepDrafts DEF PipelineInv, StageTypeOK
<1>5. StageTypeOK'
  BY <1>1, <1>2, <1>4 DEF PipelineInv, StageTypeOK
<1>6. CorpusIsHarmless'
  BY <1>1, <1>2, <1>4, HarmlessKept DEF PipelineInv, CorpusIsHarmless
<1>7. NoSearch'
  BY <1>1, <1>2 DEF PipelineInv, NoSearch
<1>8. ListingOfDrafts'
  BY <1>7 DEF NoSearch, ListingOfDrafts
<1> QED BY <1>1, <1>3, <1>4, <1>5, <1>6, <1>7, <1>8 DEF PipelineInv, ChunkedBy

\* Embedding and the INSERT leave the drafts alone.
LEMMA IndexedKeeps ==
  ASSUME PipelineInv, UNCHANGED <<acquireVars, splitVars, chunkVars, searchVars>>, EmbedInv',
         stage \in {"chunking", "embedding"}, stage' \in {"embedding", "stored", "failed"},
         Chunked
  PROVE  PipelineInv'
<1>1. /\ ref' = ref /\ kills' = kills /\ checkout' = checkout
      /\ UNCHANGED <<source, start, parts, cutting, corpus, at, symbols, next, drafts>>
      /\ UNCHANGED <<listed, dense, lexical, method, limit, ranked, turn, seen, evidence,
                     searching>>
  BY DEF acquireVars, splitVars, chunkVars, searchVars
<1>2. JobInv' /\ ChunkInv' /\ LoopInv'
  BY JobAtRest, ChunksAtRest, LoopAtRest DEF PipelineInv
<1>3. DraftsOfFiles' /\ CorpusIsHarmless' /\ ListingOfDrafts'
  BY <1>1, PathsAtRest DEF PipelineInv
<1>4. StageTypeOK' /\ NothingToCut' /\ NoSearch' /\ Chunked'
  BY <1>1 DEF PipelineInv, StageTypeOK, NothingToCut, NoSearch, Chunked
<1> QED BY <1>2, <1>3, <1>4 DEF PipelineInv

LEMMA IndexSteps ==
  PipelineInv /\ (StartEmbedding \/ Embed \/ EmbeddingFails \/ Store) => PipelineInv'
<1> SUFFICES ASSUME PipelineInv, StartEmbedding \/ Embed \/ EmbeddingFails \/ Store
             PROVE  PipelineInv'
  OBVIOUS
<1>1. /\ UNCHANGED <<acquireVars, splitVars, chunkVars, searchVars>>
      /\ stage \in {"chunking", "embedding"} /\ stage' \in {"embedding", "stored", "failed"}
      /\ Chunked
  BY DEF PipelineInv, ChunkedBy, StartEmbedding, Embed, EmbeddingFails, Store
<1>2. EmbedInv'
  <2>1. CASE StartEmbedding
    <3>1. PICK n \in 0 .. Len(drafts) : BeginEmbedding(n)
      BY <2>1 DEF StartEmbedding
    <3>2. EmbedInit'
      BY <3>1 DEF BeginEmbedding, EmbedInit
    <3>3. EmbedInit' => EmbedInv'
      BY EmbedInitHasInv, PTL
    <3> QED BY <3>2, <3>3
  <2>2. CASE Embed
    BY <2>2, EmbedStepKeepsInv DEF PipelineInv, Embed
  <2>3. CASE EmbeddingFails
    BY <2>3, VectorsAtRest DEF PipelineInv, EmbeddingFails
  <2>4. CASE Store
    <3>1. NoEmbedding'
      BY <2>4 DEF Store, ForgetVectors, NoEmbedding
    <3>2. NoEmbedding' => EmbedInv'
      BY NoVectors, PTL
    <3> QED BY <3>1, <3>2
  <2> QED BY <2>1, <2>2, <2>3, <2>4
<1> QED BY <1>1, <1>2, IndexedKeeps

\* The chunks of the selected files are listed by their paths, and all chunks
\* if as many are listed as there are.
LEMMA ListingHolds ==
  ASSUME drafts \in Seq(Drafts), NEW selected
  PROVE  /\ Listing(selected) \in Seq(Nat)
         /\ \A c \in 1 .. Len(Listing(selected)) : \E d \in 1 .. Len(drafts) :
              Listing(selected)[c] = drafts[d].path
         /\ Len(Listing(selected)) = Len(drafts) =>
              \A d \in 1 .. Len(drafts) : \E c \in 1 .. Len(Listing(selected)) :
                Listing(selected)[c] = drafts[d].path
<1> DEFINE S == {i \in DOMAIN drafts : drafts[i].path \in selected}
           m == Cardinality(S)
           kept == Ascending(S)
<1>1. /\ Len(drafts) \in Nat /\ DOMAIN drafts = 1 .. Len(drafts)
      /\ \A d \in 1 .. Len(drafts) : drafts[d].path \in Nat
  <2>1. /\ Len(drafts) \in Nat /\ DOMAIN drafts = 1 .. Len(drafts)
        /\ \A d \in 1 .. Len(drafts) : drafts[d] \in Drafts
    OBVIOUS
  <2>2. \A draft \in Drafts : draft.path \in Nat
    BY DEF Drafts
  <2> QED BY <2>1, <2>2
<1>2. IsFiniteSet(1 .. Len(drafts)) /\ Cardinality(1 .. Len(drafts)) = Len(drafts)
  BY <1>1, FS_Interval
<1>3. S \in SUBSET (1 .. Len(drafts)) /\ S \in SUBSET Nat
  BY <1>1
<1>4. Listing(selected) = [c \in DOMAIN kept |-> drafts[kept[c]].path]
  BY DEF Listing
<1> HIDE DEF S
<1>5. IsFiniteSet(S) /\ (m = Len(drafts) => S = 1 .. Len(drafts))
  BY <1>2, <1>3, FS_Subset
<1>6. /\ m \in Nat /\ kept \in [1 .. m -> S]
      /\ \A i \in S : \E c \in 1 .. m : kept[c] = i
  BY <1>3, <1>5, AscendingLists
<1> HIDE DEF m, kept
<1>7. /\ Listing(selected) \in [1 .. m -> Nat]
      /\ \A c \in 1 .. m : kept[c] \in 1 .. Len(drafts)
                           /\ Listing(selected)[c] = drafts[kept[c]].path
  BY <1>1, <1>3, <1>4, <1>6
<1>8. Listing(selected) \in Seq(Nat) /\ Len(Listing(selected)) = m
  BY <1>6, <1>7
<1>9. ASSUME m = Len(drafts), NEW d \in 1 .. Len(drafts)
      PROVE  \E c \in 1 .. m : Listing(selected)[c] = drafts[d].path
  <2>1. d \in S
    BY <1>5, <1>9
  <2>2. PICK c \in 1 .. m : kept[c] = d
    BY <1>6, <2>1
  <2> QED BY <1>7, <2>2
<1> QED BY <1>7, <1>8, <1>9

LEMMA StartSearchKeeps == PipelineInv /\ StartSearch => PipelineInv'
<1> SUFFICES ASSUME PipelineInv, StartSearch PROVE PipelineInv'
  OBVIOUS
<1>1. /\ stage = "stored" /\ stage' = "searching"
      /\ UNCHANGED acquireVars /\ UNCHANGED <<splitVars, chunkVars>> /\ UNCHANGED embedVars
  BY DEF StartSearch
<1>2. /\ ref' = ref /\ kills' = kills /\ checkout' = checkout
      /\ UNCHANGED <<source, start, parts, cutting, corpus, at, symbols, next, drafts>>
  BY <1>1 DEF acquireVars, splitVars, chunkVars
<1>3. JobInv' /\ ChunkInv' /\ EmbedInv'
  BY <1>1, JobAtRest, ChunksAtRest, VectorsAtRest DEF PipelineInv
<1>4. PICK selected \in SUBSET {drafts[i].path : i \in DOMAIN drafts}, m \in Methods,
           k \in 1 .. MaxTopK :
        \E d, l \in [DOMAIN Listing(selected) -> 0 .. MaxScore] :
          BeginSearch(Listing(selected), d, l, m, k)
  BY DEF StartSearch
<1>5. PICK d \in [DOMAIN Listing(selected) -> 0 .. MaxScore],
           l \in [DOMAIN Listing(selected) -> 0 .. MaxScore] :
        BeginSearch(Listing(selected), d, l, m, k)
  BY <1>4
<1>6. drafts \in Seq(Drafts)
  BY DEF PipelineInv, ChunkInv, ChunkTypeOK
<1>7. Listing(selected) \in Seq(Nat) /\ listed' = Listing(selected)
  BY <1>5, <1>6, ListingHolds DEF BeginSearch
<1>8. SearchInit'
  <2>1. /\ dense' = d /\ lexical' = l /\ method' = m /\ limit' = k
        /\ ranked' = Ordered(d, l, m)
        /\ turn' = 1 /\ seen' = {} /\ evidence' = <<>> /\ searching' = TRUE
    BY <1>5 DEF BeginSearch
  <2>2. /\ DOMAIN Listing(selected) = 1 .. Len(Listing(selected))
        /\ \A x \in 0 .. MaxScore : x \in Int
    BY <1>7
  <2>3. d \in [1 .. Len(Listing(selected)) -> Int] /\ l \in [1 .. Len(Listing(selected)) -> Int]
    BY <2>2
  <2>4. k \in Nat \ {0}
    OBVIOUS
  <2> QED BY <1>7, <2>1, <2>3, <2>4 DEF SearchInit
<1>9. LoopInv'
  <2>1. SearchInit' => LoopInv'
    BY SearchInitHasInv, PTL
  <2> QED BY <1>8, <2>1
<1>10. ListingOfDrafts'
  <2> DEFINE chunks == Listing(selected)
  <2>1. listed' = chunks /\ drafts' = drafts
    BY <1>2, <1>7
  <2>2. /\ \A c \in 1 .. Len(chunks) : \E i \in 1 .. Len(drafts) : chunks[c] = drafts[i].path
        /\ Len(chunks) = Len(drafts) =>
             \A i \in 1 .. Len(drafts) : \E c \in 1 .. Len(chunks) : chunks[c] = drafts[i].path
    BY <1>6, ListingHolds
  <2> HIDE DEF chunks
  <2> QED BY <2>1, <2>2 DEF ListingOfDrafts
<1>11. DraftsOfFiles' /\ CorpusIsHarmless'
  <2>1. DraftsOfFiles'
    BY <1>2 DEF PipelineInv, DraftsOfFiles
  <2>2. CorpusIsHarmless'
    BY <1>1, <1>2, HarmlessKept DEF PipelineInv, CorpusIsHarmless
  <2> QED BY <2>1, <2>2
<1>12. StageTypeOK' /\ NothingToCut' /\ Chunked'
  BY <1>1, <1>2 DEF PipelineInv, ChunkedBy, StageTypeOK, NothingToCut, Chunked
<1> QED BY <1>1, <1>3, <1>9, <1>10, <1>11, <1>12 DEF PipelineInv

LEMMA SearchKeeps == PipelineInv /\ Search => PipelineInv'
<1> SUFFICES ASSUME PipelineInv, Search PROVE PipelineInv'
  OBVIOUS
<1>1. /\ stage = "searching" /\ stage' = "searching" /\ SearchNext
      /\ UNCHANGED acquireVars /\ UNCHANGED <<splitVars, chunkVars>> /\ UNCHANGED embedVars
  BY DEF Search
<1>2. /\ ref' = ref /\ kills' = kills /\ checkout' = checkout /\ listed' = listed
      /\ UNCHANGED <<source, start, parts, cutting, corpus, at, symbols, next, drafts>>
  BY <1>1 DEF acquireVars, splitVars, chunkVars, SearchNext, SkipSeen, Show, Exhausted
<1>3. JobInv' /\ ChunkInv' /\ EmbedInv' /\ LoopInv'
  BY <1>1, JobAtRest, ChunksAtRest, VectorsAtRest, SearchStepKeepsInv DEF PipelineInv
<1>4. DraftsOfFiles' /\ CorpusIsHarmless' /\ ListingOfDrafts'
  BY <1>1, <1>2, PathsAtRest DEF PipelineInv
<1>5. StageTypeOK' /\ NothingToCut' /\ Chunked'
  BY <1>1, <1>2 DEF PipelineInv, ChunkedBy, StageTypeOK, NothingToCut, Chunked
<1> QED BY <1>1, <1>3, <1>4, <1>5 DEF PipelineInv

LEMMA PipelineAtRest == PipelineInv /\ UNCHANGED pipelineVars => PipelineInv'
<1> SUFFICES ASSUME PipelineInv, UNCHANGED pipelineVars PROVE PipelineInv'
  OBVIOUS
<1>1. /\ UNCHANGED acquireVars /\ UNCHANGED <<splitVars, chunkVars>> /\ UNCHANGED embedVars
      /\ UNCHANGED searchVars /\ stage' = stage
  BY DEF pipelineVars
<1>2. /\ ref' = ref /\ kills' = kills /\ checkout' = checkout
      /\ UNCHANGED <<source, start, parts, cutting, corpus, at, symbols, next, drafts>>
      /\ UNCHANGED <<listed, dense, lexical, method, limit, ranked, turn, seen, evidence,
                     searching>>
  BY <1>1 DEF acquireVars, splitVars, chunkVars, searchVars
<1>3. JobInv' /\ ChunkInv' /\ EmbedInv' /\ LoopInv'
  BY <1>1, JobAtRest, ChunksAtRest, VectorsAtRest, LoopAtRest DEF PipelineInv
<1>4. /\ DraftsOfFiles' /\ ListingOfDrafts' /\ (CorpusIsHarmless => CorpusIsHarmless')
  BY <1>2, PathsAtRest DEF PipelineInv
<1>5. /\ StageTypeOK' /\ NothingToCut' /\ (Chunked => Chunked') /\ (NoSearch => NoSearch')
      /\ (ChunkInit => ChunkInit')
  BY <1>1, <1>2 DEF PipelineInv, StageTypeOK, NothingToCut, Chunked, NoSearch, ChunkInit
<1> QED BY <1>1, <1>3, <1>4, <1>5 DEF PipelineInv

LEMMA PipelineInvariance == PipelineSpec => []PipelineInv
<1>1. PipelineInv /\ [PipelineNext]_pipelineVars => PipelineInv'
  BY AcquireKeeps, StartIndexingKeeps, ChunkKeeps, IndexSteps, StartSearchKeeps, SearchKeeps,
     PipelineAtRest DEF PipelineNext, Job
<1> QED BY <1>1, PipelineInitHasInv, PTL DEF PipelineSpec
----------------------------------------------------------------------------
LEMMA InvIsTyped == PipelineInv => PipelineTypeOK
<1> SUFFICES ASSUME PipelineInv PROVE PipelineTypeOK
  OBVIOUS
<1>1. JobTypeOK /\ ChunkTypeOK /\ EmbedTypeOK /\ LoopTypeOK /\ StageTypeOK
  BY DEF PipelineInv, JobInv, ChunkInv, EmbedInv, LoopInv
<1>2. kills \in 0 .. MaxKills
  <2>1. kills \in Nat /\ kills <= MaxKills /\ MaxKills \in Nat
    BY <1>1, AcquisitionLimits DEF JobTypeOK, StageTypeOK
  <2> QED BY <2>1
<1>3. at \in 1 .. Len(corpus) + 1
  <2>1. at \in Nat \ {0} /\ at <= Len(corpus) + 1 /\ Len(corpus) \in Nat
    BY <1>1 DEF ChunkTypeOK, StageTypeOK
  <2> QED BY <2>1
<1>4. turn \in Nat /\ limit \in Nat \ {0} /\ searching \in BOOLEAN
  BY <1>1 DEF LoopTypeOK
<1> QED BY <1>1, <1>2, <1>3, <1>4 DEF JobTypeOK, ChunkTypeOK, StageTypeOK, PipelineTypeOK

\* Types of all stages, for every checkout, all documents and all settings: no
\* loop leaves its list, whichever stage ends in whichever way.
THEOREM PipelineTyped == PipelineSpec => []PipelineTypeOK
BY PipelineInvariance, InvIsTyped, PTL

LEMMA InvCutsEverything == PipelineInv => NoLineSkipped
<1> SUFFICES ASSUME PipelineInv, ~cutting PROVE NoLineSkipped
  BY DEF NoLineSkipped
<1>1. CASE parts = <<>>
  <2>1. source = <<>>
    BY <1>1 DEF PipelineInv, NothingToCut
  <2> QED BY <2>1 DEF NoLineSkipped
<1>2. CASE parts # <<>>
  BY <1>2 DEF PipelineInv, ChunkInv, Splitting, SplitInv, Covered, NoLineSkipped
<1> QED BY <1>1, <1>2

\* What the stages promise on their own, they promise when one starts with what
\* another has left: nothing that ingestion, chunking or embedding leaves
\* behind breaks the stage that follows, and no later stage undoes an earlier.
StagePromises ==
  /\ NoWorkspaceLeft /\ OrderDoesNotDecide /\ ScanSelects
  /\ NoLineSkipped /\ NoTextLost /\ MembersFindTheirClass
  /\ VectorsMatchTexts
  /\ NoFileCrowdedOut /\ BetterChunkShownFirst

\* From the clone to the answer of a search, each stage keeps its promises.
THEOREM StagesKeepPromises == PipelineSpec => []StagePromises
<1>1. PipelineInv => StagePromises
  BY InvRemovesClones, InvDecides, InvSelects, InvCutsEverything, InvKeepsText,
     InvFindsClasses, InvMatchesTexts, InvShowsFiles, InvShowsBetter
     DEF PipelineInv, StagePromises
<1> QED BY PipelineInvariance, <1>1, PTL

\* Every chunk a search lists is of a harmless file.
LEMMA ListedAreHarmless ==
  ASSUME PipelineInv, stage = "searching", NEW c \in 1 .. Len(listed)
  PROVE  listed[c] \in HarmlessPaths
<1>1. PICK d \in 1 .. Len(drafts) : listed[c] = drafts[d].path
  BY DEF PipelineInv, ListingOfDrafts
<1>2. PICK f \in 1 .. Len(corpus) : drafts[d].path = corpus[f].path
  BY DEF PipelineInv, DraftsOfFiles
<1> QED BY <1>1, <1>2 DEF PipelineInv, CorpusIsHarmless

LEMMA InvShowsHarmless == PipelineInv => OnlyHarmlessShown
<1> SUFFICES ASSUME PipelineInv, NEW e \in 1 .. Len(evidence)
             PROVE  listed[evidence[e]] \in HarmlessPaths
  BY DEF OnlyHarmlessShown
<1>1. evidence[e] \in 1 .. Len(listed)
  BY DEF PipelineInv, LoopInv, LoopTypeOK
<1>2. stage = "searching"
  BY DEF PipelineInv, NoSearch
<1> QED BY <1>1, <1>2, ListedAreHarmless

\* Whatever the scores and the filters, nothing of a file that the scan
\* excluded, or never reached, is quoted: search relies on the rows of the
\* scan through the chunks alone.
THEOREM OnlyHarmlessFiles == PipelineSpec => []OnlyHarmlessShown
BY PipelineInvariance, InvShowsHarmless, PTL

\* When all chunks are listed, every harmless file has one among them.
LEMMA HarmlessAreListed ==
  ASSUME PipelineInv, stage = "searching", Len(listed) = Len(drafts), NEW p \in HarmlessPaths
  PROVE  \E c \in 1 .. Len(listed) : listed[c] = p
<1>1. PICK f \in 1 .. Len(corpus) : corpus[f].path = p
  BY DEF PipelineInv, CorpusIsHarmless
<1>2. f < at
  BY DEF PipelineInv, ChunkedBy, Chunked, ChunkInv, ChunkTypeOK
<1>3. PICK d \in 1 .. Len(drafts) : drafts[d].path = p
  BY <1>1, <1>2 DEF PipelineInv, DraftsOfFiles
<1> QED BY <1>3 DEF PipelineInv, ListingOfDrafts

LEMMA InvFindsFiles == PipelineInv => EveryFileSearchable
<1> DEFINE n == Len(evidence)
           shown == {listed[evidence[e]] : e \in 1 .. n}
           path == [e \in 1 .. n |-> listed[evidence[e]]]
<1> SUFFICES ASSUME PipelineInv, stage = "searching", SearchDone, Len(listed) = Len(drafts),
                    limit >= Cardinality(HarmlessPaths)
             PROVE  shown = HarmlessPaths
  BY DEF EveryFileSearchable
<1>1. shown \in SUBSET HarmlessPaths
  BY InvShowsHarmless DEF OnlyHarmlessShown
<1>2. IsFiniteSet(HarmlessPaths) /\ Cardinality(HarmlessPaths) \in Nat
  BY HarmlessPathsFinite, FS_CardinalityType DEF PipelineInv, JobInv
<1>3. n \in Nat /\ limit \in Nat
  BY DEF PipelineInv, LoopInv, LoopTypeOK
<1>4. CASE n < limit
  <2>1. NoFileCrowdedOut
    BY InvShowsFiles DEF PipelineInv
  <2>2. ASSUME NEW p \in HarmlessPaths PROVE p \in shown
    <3>1. PICK c \in 1 .. Len(listed) : listed[c] = p
      BY HarmlessAreListed
    <3> QED BY <1>4, <2>1, <3>1 DEF NoFileCrowdedOut
  <2> QED BY <1>1, <2>2
<1>5. CASE ~ n < limit
  <2>1. path \in Injection(1 .. n, HarmlessPaths)
    <3>1. \A d, e \in 1 .. n : path[d] = path[e] => d = e
      BY DEF PipelineInv, LoopInv, OneEntryPerFile
    <3>2. path \in [1 .. n -> HarmlessPaths]
      BY <1>1
    <3> HIDE DEF path
    <3> QED BY <3>1, <3>2 DEF Injection, IsInjective
  <2>2. Cardinality(1 .. n) = n
    <3> HIDE DEF n
    <3>1. 1 \in Int /\ n \in Int /\ ~ 1 > n + 1 /\ n - 1 + 1 = n /\ (1 > n => n = 0)
      BY <1>3
    <3>2. Cardinality(1 .. n) = IF 1 > n THEN 0 ELSE n - 1 + 1
      BY <3>1, FS_Interval
    <3> QED BY <3>1, <3>2
  <2>3. path \in Surjection(1 .. n, HarmlessPaths)
    <3> HIDE DEF path, n
    <3>1. /\ Cardinality(1 .. n) <= Cardinality(HarmlessPaths)
          /\ Cardinality(1 .. n) = Cardinality(HarmlessPaths)
               <=> path \in Surjection(1 .. n, HarmlessPaths)
      BY <1>2, <2>1, FS_Injection
    <3>2. n >= Cardinality(HarmlessPaths)
      BY <1>2, <1>3, <1>5
    <3> QED BY <1>2, <1>3, <2>2, <3>1, <3>2
  <2>4. \A p \in HarmlessPaths : p \in shown
    BY <2>3 DEF Surjection
  <2> QED BY <1>1, <2>4
<1> QED BY <1>4, <1>5

\* For every checkout that is accepted and every content of its files, an
\* unfiltered search with room for all of them shows exactly the files the scan
\* had nothing against: whatever the walk's order, the parsers, the limits of
\* the parts, the batches, the scores and the method.
THEOREM EveryFileFound == PipelineSpec => []EveryFileSearchable
BY PipelineInvariance, InvFindsFiles, PTL
=============================================================================
