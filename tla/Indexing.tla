------------------------------ MODULE Indexing ------------------------------
(***************************************************************************)
(* What ingestion, indexing and cleanup do to the revisions, the files,    *)
(* the index snapshot and the chunks of one repository.                    *)
(*                                                                         *)
(* A request creates at most one run and one message, named after it.  A   *)
(* job is one delivery of a message to a worker; a message is delivered    *)
(* again after a crash or when its visibility timeout passes, so a job may *)
(* meet the rows its run has already written.                              *)
(*                                                                         *)
(* Sessions run at READ COMMITTED and keep the rows they loaded.  A job    *)
(* that has the lock of the repository's row shows nothing until it        *)
(* commits, and whoever else wants to write waits for it: taking the lock, *)
(* working and committing is one step.                                     *)
(*                                                                         *)
(* No worker registers the task that the index endpoint sends (the run     *)
(* unregistered_task of RepositoryLifecycle).  This module says what the   *)
(* task does once it is started, as the tests start it.                    *)
(*                                                                         *)
(* Every revision has an accepted file that yields a chunk.  An operator   *)
(* named Slip... is a plausible defect of the definition after it; it is   *)
(* used only to see that a property would notice the defect.               *)
(***************************************************************************)
EXTENDS Naturals, FiniteSets

CONSTANTS
  Requests,      \* API requests; also the runs and messages they create
  Workers,       \* worker processes
  Commits,       \* commits of the remote repository; also its revisions
  None,          \* neither a request nor a commit
  MaxInFlight,   \* bound: requests between their SELECTs and their commit
  MaxDeliveries  \* bound: how often one message is delivered

ASSUME NoneIsNoName == None \notin Requests \cup Commits
ASSUME BoundsAreNatural == MaxInFlight \in Nat /\ MaxDeliveries \in Nat

VARIABLES
  repo,       \* the committed row of the repository
  files,      \* per revision, how often its files have been replaced
  snapshot,   \* the revisions that have a ready snapshot
  chunks,     \* per revision, the files its chunks were made from; 0: no chunks
  req,        \* the API handlers
  run,        \* the committed status of each run
  delivered,  \* how often each message has been delivered
  job         \* what each worker is doing

vars == <<repo, files, snapshot, chunks, req, run, delivered, job>>
----------------------------------------------------------------------------
States == {"absent", "queued", "ready_for_indexing", "ready", "failed", "deleting", "deleted"}

\* ALLOWED_STATE_TRANSITIONS, for the targets that are asked for.
AllowedFrom(target) ==
  CASE target = "queued" -> {"ready", "failed"}
    [] target = "cloning" -> {"queued"}
    [] target = "indexing" -> {"ready_for_indexing", "ready"}
    [] target = "deleting" -> States \ {"absent", "deleting", "deleted"}

NoRepo == [status |-> "absent", latest |-> None, indexed |-> None, deleted |-> FALSE]
NoRequest == [op |-> "none", pc |-> "new", saw |-> NoRepo]
Idle == [of |-> None, pc |-> "idle", saw |-> NoRepo]

\* A flush writes the columns in which the session's row differs from the
\* row it loaded, and leaves the others as they are by now.
Flush(saw, row) ==
  [status |-> IF row.status = saw.status THEN repo.status ELSE row.status,
   latest |-> IF row.latest = saw.latest THEN repo.latest ELSE row.latest,
   indexed |-> IF row.indexed = saw.indexed THEN repo.indexed ELSE row.indexed,
   deleted |-> repo.deleted \/ row.deleted]

Active(op) == {q \in Requests : run[q] = "queued" /\ req[q].op = op}
InFlight == {q \in Requests : req[q].pc = "loaded"}

Init ==
  /\ repo = NoRepo
  /\ files = [c \in Commits |-> 0]
  /\ snapshot = {}
  /\ chunks = [c \in Commits |-> 0]
  /\ req = [q \in Requests |-> NoRequest]
  /\ run = [q \in Requests |-> "none"]
  /\ delivered = [q \in Requests |-> 0]
  /\ job = [w \in Workers |-> Idle]
----------------------------------------------------------------------------
(* The API.                                                                *)

\* The first create; RepositoryLifecycle has the others.
Create(q) ==
  /\ req[q].pc = "new"
  /\ repo.status = "absent"
  /\ repo' = [repo EXCEPT !.status = "queued"]
  /\ req' = [req EXCEPT ![q] = [@ EXCEPT !.op = "ingest", !.pc = "committed"]]
  /\ run' = [run EXCEPT ![q] = "queued"]
  /\ UNCHANGED <<files, snapshot, chunks, delivered, job>>

Load(q, op) ==
  /\ req[q].pc = "new"
  /\ Cardinality(InFlight) < MaxInFlight
  /\ repo.status # "absent" /\ ~repo.deleted
  /\ \/ op = "ingest" /\ repo.status \in AllowedFrom("queued") /\ Active("ingest") = {}
     \/ op = "index" /\ repo.latest # None /\ Active("index") = {}
     \/ op = "delete" /\ repo.status \in AllowedFrom("deleting")
  /\ req' = [req EXCEPT ![q] = [op |-> op, pc |-> "loaded", saw |-> repo]]
  /\ UNCHANGED <<repo, files, snapshot, chunks, run, delivered, job>>

\* The session forgets the row it loaded.
EndSession(q, pc) == req' = [req EXCEPT ![q] = [@ EXCEPT !.pc = pc, !.saw = NoRepo]]

CommitSync(q) ==
  /\ req[q].pc = "loaded" /\ req[q].op = "ingest"
  /\ repo' = Flush(req[q].saw, [req[q].saw EXCEPT !.status = "queued"])
  /\ run' = [run EXCEPT ![q] = "queued"]
  /\ EndSession(q, "committed")
  /\ UNCHANGED <<files, snapshot, chunks, delivered, job>>

CommitIndex(q) ==
  /\ req[q].pc = "loaded" /\ req[q].op = "index"
  /\ run' = [run EXCEPT ![q] = "queued"]
  /\ EndSession(q, "committed")
  /\ UNCHANGED <<repo, files, snapshot, chunks, delivered, job>>

CommitDelete(q) ==
  /\ req[q].pc = "loaded" /\ req[q].op = "delete"
  /\ repo' = Flush(req[q].saw, [req[q].saw EXCEPT !.status = "deleting", !.deleted = TRUE])
  /\ EndSession(q, "committed")
  /\ UNCHANGED <<files, snapshot, chunks, run, delivered, job>>
\* A refusal, a statement_timeout, the death of the API process.
Abort(q) ==
  /\ req[q].pc = "loaded"
  /\ EndSession(q, "aborted")
  /\ UNCHANGED <<repo, files, snapshot, chunks, run, delivered, job>>
----------------------------------------------------------------------------
(* The jobs.                                                               *)

\* Slip: the message is sent before the commit.
SlipStart(w, q) ==
  /\ job[w].pc = "idle"
  /\ req[q].pc = "loaded"
  /\ delivered[q] < MaxDeliveries
  /\ delivered' = [delivered EXCEPT ![q] = @ + 1]
  /\ job' = [job EXCEPT ![w] = [of |-> q, pc |-> "started", saw |-> repo]]
  /\ UNCHANGED <<repo, files, snapshot, chunks, req, run>>

\* A message is delivered; the session loads the repository and the run.
Start(w, q) ==
  /\ job[w].pc = "idle"
  /\ req[q].pc = "committed"
  /\ delivered[q] < MaxDeliveries
  /\ delivered' = [delivered EXCEPT ![q] = @ + 1]
  /\ job' = [job EXCEPT ![w] = [of |-> q, pc |-> "started", saw |-> repo]]
  /\ UNCHANGED <<repo, files, snapshot, chunks, req, run>>

Op(w) == req[job[w].of].op

\* Slip: the number of the next event is computed without a flush.
SlipRunUnlocked(w) == TRUE

\* The flush before next_sequence takes the lock of the run's row; an
\* indexing job then looks at the snapshots.
RunUnlocked(w) ==
  \A v \in Workers \ {w} : job[v].pc \in {"reuse", "build"} => job[v].of # job[w].of

Settle(w, status) ==
  /\ run' = [run EXCEPT ![job[w].of] = status]
  /\ job' = [job EXCEPT ![w] = Idle]
  /\ UNCHANGED <<req, delivered>>

\* Slip: the chunks of the replaced files stay.
SlipIngest(w, c) ==
  /\ job[w].pc = "started" /\ Op(w) = "ingest"
  /\ job[w].saw.status \in AllowedFrom("cloning")
  /\ files' = [files EXCEPT ![c] = @ + 1]
  /\ repo' = Flush(job[w].saw, [job[w].saw EXCEPT !.latest = c, !.status = "ready_for_indexing"])
  /\ Settle(w, "succeeded")
  /\ UNCHANGED <<snapshot, chunks>>

\* The remote is at commit c.  A revision that exists is used again; its
\* files are deleted, their chunks with them, and inserted anew.
Ingest(w, c) ==
  /\ job[w].pc = "started" /\ Op(w) = "ingest"
  /\ job[w].saw.status \in AllowedFrom("cloning")
  /\ files' = [files EXCEPT ![c] = @ + 1]
  /\ chunks' = [chunks EXCEPT ![c] = 0]
  /\ repo' = Flush(job[w].saw, [job[w].saw EXCEPT !.latest = c, !.status = "ready_for_indexing"])
  /\ Settle(w, "succeeded")
  /\ UNCHANGED snapshot

\* Clone or scan fails.
IngestFails(w) ==
  /\ job[w].pc = "started" /\ Op(w) = "ingest"
  /\ job[w].saw.status \in AllowedFrom("cloning")
  /\ repo' = Flush(job[w].saw, [job[w].saw EXCEPT !.status = "failed"])
  /\ Settle(w, "failed")
  /\ UNCHANGED <<files, snapshot, chunks>>

\* Slip: any snapshot of the repository will do.
SlipConsult(w) ==
  /\ job[w].pc = "started" /\ Op(w) = "index"
  /\ RunUnlocked(w)
  /\ \/ /\ snapshot # {}
        /\ job' = [job EXCEPT ![w].pc = "reuse"]
     \/ /\ snapshot = {}
        /\ job[w].saw.status \in AllowedFrom("indexing")
        /\ job' = [job EXCEPT ![w].pc = "build"]
  /\ UNCHANGED <<repo, files, snapshot, chunks, req, run, delivered>>

\* index_repository looks for a ready snapshot of the revision it loaded.
Consult(w) ==
  /\ job[w].pc = "started" /\ Op(w) = "index"
  /\ RunUnlocked(w)
  /\ job[w].saw.latest # None
  /\ \/ /\ job[w].saw.latest \in snapshot
        /\ job' = [job EXCEPT ![w].pc = "reuse"]
     \/ /\ job[w].saw.latest \notin snapshot
        /\ job[w].saw.status \in AllowedFrom("indexing")
        /\ job' = [job EXCEPT ![w].pc = "build"]
  /\ UNCHANGED <<repo, files, snapshot, chunks, req, run, delivered>>

\* The early return: no transition is checked.
Reuse(w) ==
  /\ job[w].pc = "reuse"
  /\ repo' = Flush(job[w].saw, [job[w].saw EXCEPT !.status = "ready", !.indexed = job[w].saw.latest])
  /\ Settle(w, "succeeded")
  /\ UNCHANGED <<files, snapshot, chunks>>

\* The snapshot is inserted unless the revision has got one, the previous
\* one is looked up (with two, the query for one row fails), and the chunks
\* of all files are written.  status has been flushed as indexing before.
Build(w) ==
  LET c == job[w].saw.latest IN
  /\ job[w].pc = "build"
  /\ c \notin snapshot
  /\ ~\E a, b \in snapshot : a # b
  /\ snapshot' = snapshot \cup {c}
  /\ chunks' = [chunks EXCEPT ![c] = files[c]]
  /\ repo' = [Flush(job[w].saw, [job[w].saw EXCEPT !.indexed = c]) EXCEPT !.status = "ready"]
  /\ Settle(w, "succeeded")
  /\ UNCHANGED files

\* Slip: the chunks are deleted, the snapshots stay.
SlipCleanUp(w) ==
  /\ job[w].pc = "started" /\ Op(w) = "delete"
  /\ repo' = IF job[w].saw.status = "deleting"
               THEN Flush(job[w].saw, [job[w].saw EXCEPT !.status = "deleted"])
               ELSE repo
  /\ chunks' = [c \in Commits |-> 0]
  /\ job' = [job EXCEPT ![w] = Idle]
  /\ UNCHANGED <<files, snapshot, req, run, delivered>>

\* The cleanup job: the status if it was deleting, then chunks and snapshots.
CleanUp(w) ==
  /\ job[w].pc = "started" /\ Op(w) = "delete"
  /\ repo' = IF job[w].saw.status = "deleting"
               THEN Flush(job[w].saw, [job[w].saw EXCEPT !.status = "deleted"])
               ELSE repo
  /\ snapshot' = {}
  /\ chunks' = [c \in Commits |-> 0]
  /\ job' = [job EXCEPT ![w] = Idle]
  /\ UNCHANGED <<files, req, run, delivered>>

\* A refused transition, an IntegrityError, MultipleResultsFound, an error of
\* the embedding provider, the death of the worker: rolled back.
Raise(w) ==
  /\ job[w].pc # "idle"
  /\ job' = [job EXCEPT ![w] = Idle]
  /\ UNCHANGED <<repo, files, snapshot, chunks, req, run, delivered>>

Next ==
  \/ \E q \in Requests :
       \/ Create(q)
       \/ \E op \in {"ingest", "index", "delete"} : Load(q, op)
       \/ CommitSync(q) \/ CommitIndex(q) \/ CommitDelete(q)
       \/ Abort(q)
  \/ \E w \in Workers :
       \/ \E q \in Requests : Start(w, q)
       \/ \E c \in Commits : Ingest(w, c)
       \/ IngestFails(w)
       \/ Consult(w) \/ Reuse(w) \/ Build(w)
       \/ CleanUp(w)
       \/ Raise(w)

Spec == Init /\ [][Next]_vars
----------------------------------------------------------------------------
RepoRow == [status : States, latest : Commits \cup {None}, indexed : Commits \cup {None},
            deleted : BOOLEAN]

RequestState ==
  [op : {"none", "ingest", "index", "delete"},
   pc : {"new", "loaded", "committed", "aborted"}, saw : RepoRow]
JobState ==
  [of : Requests \cup {None}, pc : {"idle", "started", "reuse", "build"}, saw : RepoRow]

\* Rows, handlers and jobs keep the shape the code gives them; a job works
\* for a request that has committed, and on a revision once it has chosen.
TypeOK ==
  /\ repo \in RepoRow
  /\ files \in [Commits -> Nat]
  /\ snapshot \subseteq Commits
  /\ chunks \in [Commits -> Nat]
  /\ req \in [Requests -> RequestState]
  /\ run \in [Requests -> {"none", "queued", "succeeded", "failed"}]
  /\ delivered \in [Requests -> Nat]
  /\ job \in [Workers -> JobState]
  /\ \A w \in Workers :
       /\ job[w].pc # "idle" => job[w].of \in Requests /\ req[job[w].of].pc = "committed"
       /\ job[w].pc \in {"reuse", "build"} => job[w].saw.latest \in Commits

\* Search never shows code that is gone: the chunks of a revision were made
\* from the files it has now, and belong to its snapshot.
ChunksFollowFiles ==
  \A c \in Commits : chunks[c] # 0 => chunks[c] = files[c] /\ c \in snapshot

\* What the repository calls its latest revision has files, and what it
\* calls indexed has a snapshot until the deletion removes it, although jobs
\* work on rows they loaded long ago.
IndexedHasSnapshot ==
  /\ repo.latest # None => files[repo.latest] # 0
  /\ repo.indexed # None /\ ~repo.deleted => repo.indexed \in snapshot
  /\ repo.status = "ready" => repo.indexed # None

\* While the repository is called deleted nothing of its index is left,
\* although jobs that loaded its row before the deletion may still commit.
DeletedHasNoIndex ==
  repo.status = "deleted" => snapshot = {} /\ \A c \in Commits : chunks[c] = 0

\* A job that is building when its revision gets a snapshot has lost to the
\* run of another request, never to a second delivery of its own message:
\* two jobs that both found no snapshot belong to two runs, and what rolls the
\* slower one back has been carried out.
LostToAnotherRun ==
  \A w \in Workers :
    job[w].pc = "build" /\ job[w].saw.latest \in snapshot =>
      \E q \in Requests \ {job[w].of} : req[q].op = "index" /\ run[q] = "succeeded"

\* "builds durable index snapshots": the code of a repository that is ready
\* can be searched.
ReadyIsSearchable ==
  repo.status = "ready" /\ ~repo.deleted => chunks[repo.indexed] # 0
=============================================================================
