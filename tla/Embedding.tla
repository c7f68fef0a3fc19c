------------------------------ MODULE Embedding ------------------------------
(***************************************************************************)
(* How index_repository gives every chunk draft a vector: vectors of the   *)
(* previous snapshot are reused by key, the other texts are sent in        *)
(* batches, and the vectors that come back are assigned in order through   *)
(* one cursor.  The provider is OllamaEmbeddingProvider with its retries;  *)
(* DeterministicEmbeddingProvider is the case in which every answer is     *)
(* whole at the first attempt.                                             *)
(*                                                                         *)
(* A vector is represented by the draft whose text it was computed from.   *)
(***************************************************************************)
EXTENDS Naturals, FiniteSets

CONSTANTS
  BatchSize,  \* CODEPILOT_INDEXING_EMBEDDING_BATCH_SIZE
  Attempts    \* 4 in _embed_batch

ASSUME EmbeddingLimits == BatchSize \in Nat \ {0} /\ Attempts \in Nat \ {0}

VARIABLES
  wanted,   \* number of drafts whose text has to be embedded
  vector,   \* for each of them, whose vector it has; 0 is the zero vector
  sent,     \* texts in the batches answered so far
  cursor,   \* index of the draft that gets the next vector
  failures, \* failed attempts at the current batch
  whole,    \* every answer had one vector per text
  embedding \* "running", "done" or "failed"

embedVars == <<wanted, vector, sent, cursor, failures, whole, embedding>>

Least(a, b) == IF a < b THEN a ELSE b

\* The texts of the current batch are sent + 1 .. sent + BatchLen.
BatchLen == Least(BatchSize, wanted - sent)

\* Whose vector is the k-th of an answer of count vectors.  One vector for
\* several texts is repeated for each; a vector too many belongs to no text.
Stray == 0
Answered(count, k) ==
  IF count = 1 THEN sent + 1 ELSE IF k <= BatchLen THEN sent + k ELSE Stray

AnswerLen(count) == IF count = 1 THEN BatchLen ELSE count

\* Slip: the cursor starts over in each batch.
SlipAssign(count) ==
  /\ vector' = [i \in 1 .. wanted |->
       IF i <= AnswerLen(count) THEN Answered(count, i) ELSE vector[i]]
  /\ cursor' = cursor + AnswerLen(count)

Assign(count) ==
  /\ vector' = [i \in 1 .. wanted |->
       IF cursor < i /\ i <= cursor + AnswerLen(count)
         THEN Answered(count, i - cursor) ELSE vector[i]]
  /\ cursor' = cursor + AnswerLen(count)

Running == embedding = "running" /\ sent < wanted

\* An answer with count vectors of the right dimension.  The code checks
\* neither that the count fits the batch nor that the cursor stays in range:
\* an answer too long for the last drafts raises IndexError.
Answer(count) ==
  /\ Running
  /\ count \in 1 .. BatchSize + 1
  /\ cursor + AnswerLen(count) <= wanted
  /\ Assign(count)
  /\ sent' = sent + BatchLen
  /\ failures' = 0
  /\ whole' = (whole /\ count = BatchLen)
  /\ UNCHANGED <<wanted, embedding>>

AnswerOverflows(count) ==
  /\ Running
  /\ count \in 1 .. BatchSize + 1
  /\ cursor + AnswerLen(count) > wanted
  /\ embedding' = "failed"
  /\ UNCHANGED <<wanted, vector, sent, cursor, failures, whole>>

\* Slip: the loop does not stop after the last attempt.
SlipAttemptFails ==
  /\ Running
  /\ failures' = failures + 1
  /\ UNCHANGED <<wanted, vector, sent, cursor, whole, embedding>>

\* A timeout, a network error or a status worth retrying: wait and send the
\* batch again; the last attempt raises RuntimeError.
AttemptFails ==
  /\ Running
  /\ failures < Attempts
  /\ failures' = failures + 1
  /\ embedding' = IF failures' = Attempts THEN "failed" ELSE "running"
  /\ UNCHANGED <<wanted, vector, sent, cursor, whole>>

\* A permanent status (400, 401, 403, 404, 422), an answer of another shape or
\* dimension, or an exception that is not caught: no further attempt.
Refused ==
  /\ Running
  /\ embedding' = "failed"
  /\ UNCHANGED <<wanted, vector, sent, cursor, failures, whole>>

\* Drafts no vector was assigned to keep the zero vector.
Finish ==
  /\ embedding = "running"
  /\ sent >= wanted
  /\ embedding' = "done"
  /\ UNCHANGED <<wanted, vector, sent, cursor, failures, whole>>

EmbedNext ==
  \/ \E count \in 1 .. BatchSize + 1 : Answer(count) \/ AnswerOverflows(count)
  \/ AttemptFails \/ Refused \/ Finish

\* embeddings_to_compute holds the texts of the drafts whose key the previous
\* snapshot does not have; n of them.
BeginEmbedding(n) ==
  /\ wanted' = n
  /\ vector' = [i \in 1 .. n |-> 0]
  /\ sent' = 0 /\ cursor' = 0 /\ failures' = 0
  /\ whole' = TRUE
  /\ embedding' = "running"

EmbedInit ==
  /\ wanted \in Nat
  /\ vector = [i \in 1 .. wanted |-> 0]
  /\ sent = 0 /\ cursor = 0 /\ failures = 0
  /\ whole = TRUE
  /\ embedding = "running"

EmbedSpec == EmbedInit /\ [][EmbedNext]_embedVars
----------------------------------------------------------------------------
(* Properties.                                                             *)

EmbedTypeOK ==
  /\ wanted \in Nat /\ sent \in Nat /\ cursor \in Nat
  /\ vector \in [1 .. wanted -> Nat]
  /\ failures \in 0 .. Attempts
  /\ whole \in BOOLEAN
  /\ embedding \in {"running", "done", "failed"}

\* As long as every answer has one vector per text, the index stores for each
\* chunk the vector of its own text, however the texts fall into batches and
\* however often a batch was sent again.
VectorsMatchTexts ==
  whole /\ embedding = "done" => \A i \in 1 .. wanted : vector[i] = i

=============================================================================
