------------------------------ MODULE Pipeline ------------------------------
(***************************************************************************)
(* From a clone to search results: the ingestion job (Acquisition), the    *)
(* index job (Chunking, then Embedding, then the INSERT of the chunks) and *)
(* searches of the index, one stage after the other.                       *)
(*                                                                         *)
(* What a stage kept for itself is forgotten when the next one begins.     *)
(***************************************************************************)
EXTENDS Acquisition, Chunking, Embedding, Search

CONSTANTS
  Document,  \* the contents of the file at each path
  MaxScore,  \* bound: scores are 0 .. MaxScore
  MaxTopK    \* bound: top_k is 1 .. MaxTopK

ASSUME DocumentsAreParsed ==
  \A files \in Checkouts : \A f \in files :
    f.path \in DOMAIN Document /\ Document[f.path] \in Documents

VARIABLE stage

pipelineVars ==
  <<acquireVars, splitVars, chunkVars, embedVars, searchVars, stage>>

NoEmbedding ==
  /\ wanted = 0 /\ vector = <<>> /\ sent = 0 /\ cursor = 0 /\ failures = 0
  /\ whole = TRUE /\ embedding = "done"

ForgetVectors ==
  /\ wanted' = 0 /\ vector' = <<>> /\ sent' = 0 /\ cursor' = 0 /\ failures' = 0
  /\ whole' = TRUE /\ embedding' = "done"

NoSearch ==
  /\ listed = <<>> /\ dense = <<>> /\ lexical = <<>> /\ ranked = <<>>
  /\ method = "hybrid" /\ limit = 1 /\ turn = 1
  /\ seen = {} /\ evidence = <<>> /\ searching = FALSE

PipelineInit ==
  /\ StartJob
  /\ source = <<>> /\ start = 0 /\ parts = <<>> /\ cutting = FALSE
  /\ corpus = <<>> /\ at = 1 /\ symbols = <<>> /\ next = 1 /\ drafts = <<>>
  /\ NoEmbedding
  /\ NoSearch
  /\ stage = "acquiring"

Acquire ==
  /\ stage = "acquiring"
  /\ AcquireNext
  /\ UNCHANGED <<splitVars, chunkVars, embedVars, searchVars, stage>>

\* The elements of a set of numbers, in ascending order.
Ascending(S) ==
  [place \in 1 .. Cardinality(S) |->
     CHOOSE p \in S : Cardinality({q \in S : q <= p}) = place]

\* Slip: the status of a file is not asked for.
SlipAcceptedPaths == Ascending({r.path : r \in rows})

\* accepted_for_revision: the accepted files in the order of their paths.
AcceptedPaths == Ascending({r.path : r \in {s \in rows : s.excluded = "none"}})

\* The revision has been ingested, and an index run is started for it.
StartIndexing ==
  /\ stage = "acquiring"
  /\ Acquired /\ outcome = "succeeded"
  /\ corpus' = [f \in DOMAIN AcceptedPaths |->
                  [path |-> AcceptedPaths[f], doc |-> Document[AcceptedPaths[f]]]]
  /\ stage' = "chunking"
  /\ ref' = "none" /\ leftovers' = 0 /\ kills' = 0
  /\ UNCHANGED <<commands, workspace, checkout, visited, rows, counts, acquiring, outcome>>
  /\ UNCHANGED <<at, symbols, next, drafts, splitVars, embedVars, searchVars>>

Chunk ==
  /\ stage = "chunking"
  /\ ChunkNext
  /\ UNCHANGED <<acquireVars, embedVars, searchVars, stage>>

\* Drafts whose key the latest ready snapshot has keep its vector; n do not.
StartEmbedding ==
  /\ stage = "chunking" /\ Chunked
  /\ \E n \in 0 .. Len(drafts) : BeginEmbedding(n)
  /\ stage' = "embedding"
  /\ UNCHANGED <<acquireVars, splitVars, chunkVars, searchVars>>

Embed ==
  /\ stage = "embedding"
  /\ EmbedNext
  /\ UNCHANGED <<acquireVars, splitVars, chunkVars, searchVars, stage>>

\* A provider that gave up fails the job like any other exception.
EmbeddingFails ==
  /\ stage = "embedding" /\ embedding = "failed"
  /\ stage' = "failed"
  /\ UNCHANGED <<acquireVars, splitVars, chunkVars, embedVars, searchVars>>

\* add_all and the commit: all chunks or none.
Store ==
  /\ stage = "embedding" /\ embedding = "done"
  /\ stage' = IF IdsCollide THEN "failed" ELSE "stored"
  /\ ForgetVectors
  /\ UNCHANGED <<acquireVars, splitVars, chunkVars, searchVars>>

\* The paths of the chunks of the selected files, in the order of the query.
Listing(selected) ==
  LET kept == Ascending({i \in DOMAIN drafts : drafts[i].path \in selected})
  IN  [c \in DOMAIN kept |-> drafts[kept[c]].path]

\* A search of the files that path_prefix and language select.
StartSearch ==
  /\ stage = "stored"
  /\ \E selected \in SUBSET {drafts[i].path : i \in DOMAIN drafts},
        m \in Methods, k \in 1 .. MaxTopK :
       LET chunks == Listing(selected)
       IN  \E d, l \in [DOMAIN chunks -> 0 .. MaxScore] : BeginSearch(chunks, d, l, m, k)
  /\ stage' = "searching"
  /\ UNCHANGED <<acquireVars, splitVars, chunkVars, embedVars>>

Search ==
  /\ stage = "searching"
  /\ SearchNext
  /\ UNCHANGED <<acquireVars, splitVars, chunkVars, embedVars, stage>>

Job == Acquire \/ Chunk \/ StartEmbedding \/ Embed \/ EmbeddingFails \/ Store \/ Search

PipelineNext == Job \/ StartIndexing \/ StartSearch

\* A job that has begun goes on; no one has to index or to search.
PipelineSpec == PipelineInit /\ [][PipelineNext]_pipelineVars /\ WF_pipelineVars(Job)
----------------------------------------------------------------------------
(* Properties.                                                             *)

PipelineTypeOK ==
  /\ ref \in Refs \cup {"none"} /\ acquiring \in {"git", "scan", "removing", "ended"}
  /\ outcome \in Outcomes /\ workspace \in BOOLEAN
  /\ leftovers \in Nat /\ kills \in 0 .. MaxKills
  /\ stage \in {"acquiring", "chunking", "embedding", "stored", "searching", "failed"}
  /\ cutting \in BOOLEAN /\ start \in Nat /\ at \in 1 .. Len(corpus) + 1
  /\ EmbedTypeOK
  /\ turn \in Nat /\ limit \in Nat \ {0} /\ searching \in BOOLEAN

\* Every job ends: a message is delivered until some delivery has recorded an
\* outcome, retries to the provider are bounded, and no loop over files,
\* parts, batches or chunks spins, whatever the limits are.
JobOver ==
  CASE stage = "acquiring" -> Acquired /\ outcome # "none"
    [] stage = "searching" -> SearchDone
    [] OTHER               -> stage \in {"stored", "failed"}

JobsEnd == []<>JobOver

\* What a search shows was walked and met no objection of the scan: a file
\* that was excluded when the repository was scanned is never quoted.
HarmlessPaths == {f.path : f \in {g \in Walkable : Harmless(g)}}

OnlyHarmlessShown ==
  \A e \in 1 .. Len(evidence) : listed[evidence[e]] \in HarmlessPaths

\* A search of the whole index with room for every file shows every harmless
\* file of the checkout: none is lost in the scan, in parsing, in chunking or
\* in the INSERT, or the index is not there at all.
EveryFileSearchable ==
  stage = "searching" /\ SearchDone
    /\ Len(listed) = Len(drafts) /\ limit >= Cardinality(HarmlessPaths)
  => {listed[evidence[e]] : e \in 1 .. Len(evidence)} = HarmlessPaths

\* "Safe fallback parsing for unsupported or broken files so indexing continues
\* with partial data": whatever the files hold, an index job only fails when
\* the embedding provider does.
IndexingContinues == stage = "failed" => embedding = "failed"
=============================================================================
