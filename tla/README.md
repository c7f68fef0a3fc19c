# A verification project for the software engineering assistant

TLA+ models of the backend's stateful core, model-checked with TLC on small
instances and, where it matters most, proved with TLAPS for every instance.
Source paths are relative to the repository (`src/`); `app/` is
`src/backend/app/`.

## 1. The system and its parts

A FastAPI backend keeps users, repositories, runs, snapshots and chunks in
PostgreSQL. State-changing requests commit rows and then publish a Celery
message through Redis; worker processes consume the messages, clone and scan
repositories and commit results. A React client logs in, refreshes its session
and polls.

| Component | State it keeps | Operations | Interacts with |
|---|---|---|---|
| Repository lifecycle (`app/services/ingestion.py`, `app/api/v1/repositories.py`, `app/workers/tasks.py`) | row of `repositories` (status, `deleted_at`, latest revision), rows of `agent_runs`, `agent_run_events` | create, sync, delete; jobs ingest and cleanup | rows shared between API sessions and job sessions; messages |
| Job delivery (`app/workers/celery_app.py`, Redis of `compose.yaml`) | messages waiting or unacknowledged | publish, deliver, acknowledge, redeliver, discard | API publishes, workers consume |
| Indexing (`app/services/indexing.py`, `app/api/v1/indexing.py`) | index runs, snapshots, symbols, chunks, repository status | request, index job, status, cleanup | lifecycle rows; foreign keys with ON DELETE CASCADE |
| Acquisition and scan (`app/services/ingestion.py`) | a workspace directory | validate URL and ref, clone, scan under limits, remove | git, file system |
| Parsing and chunking (`app/parsing/index.py`, `app/services/indexing.py`) | none | parse, split, identify chunks | the index job |
| Embeddings (`app/services/indexing.py`) | none | batches with retries | Ollama over HTTP |
| Search (`app/services/indexing.py`) | none | lexical and vector ranking | chunks of the latest snapshot |
| Sessions (`app/services/auth.py`, `app/api/v1/auth.py`, `app/security/tokens.py`) | rows of `users`, `refresh_tokens` | register, login, refresh, logout, logout-all | row locks of PostgreSQL, cookies |
| Idempotency keys (`app/services/idempotency.py`) | Redis records with a TTL | reserve, store_result | Redis |
| Rate limits (`app/services/rate_limit.py`) | Redis counters with a TTL | enforce | Redis |
| Frontend session and polling (`src/frontend/src`) | access token, user, timers | bootstrap, login, logout, poll | the API |
| Health, logging, middleware, settings, migrations | none that changes | probes, formatting | - |

What makes the system hard, and what correctness means for each part:

* **Lifecycle.** Sessions run at READ COMMITTED without version columns, so a
  session acts on a status it read earlier and its UPDATE overwrites columns by
  primary key. Correct means: statuses, runs and events agree; there is one
  registration; a second active run comes only from requests that overlap; a
  deletion is final; a finished run stays finished; every queued run finishes.
* **Delivery.** At least once, from a broker without persistence, after the
  commit that created the run. Correct means: a job finds its rows; a crash or
  a duplicate delivery neither loses nor repeats work visibly.
* **Indexing.** Snapshots outlive the chunks they describe, an early return
  skips the transition table, cleanup races the job. Correct means: a ready
  snapshot has its chunks; a deleted repository has none.
* **Sessions.** Refresh tokens rotate; a token presented twice revokes its
  family; logouts race rotations. Correct means: a spent token never yields
  another session; after a logout-all or a detected replay nothing of the old
  sessions is left to refresh with.
* **Idempotency, rate limits.** Two Redis commands where one would be atomic,
  commands that are repeated or fail, keys that expire. Correct means: one
  caller per key, no foreign result while callers store in time; no window admits
  more than its limit, no outage opens a scope that fails closed, and every counter
  expires, which it does as long as nothing fails.
* **Acquisition.** Exceptions and deaths between git, scan and removal; limits
  checked during a walk without order. Correct means: no directory is left
  behind by a recorded job; the walk's order decides nothing; what is excluded
  stays excluded.
* **Chunking, embeddings, search.** Cursors, fallbacks and boundaries. Correct
  means: every line that belongs to a symbol or a fallback block is in a chunk,
  the split ends, each chunk gets its own vector, every file can be found.
* **Frontend.** Slow answers arrive after newer ones. Correct means: the client
  shows the session it asked for last.

`PROJECT.json` lists every hazard at its line with the properties that cover it,
or why none does.

## 2. Modules

| Module | Contents |
|---|---|
| `RepositoryLifecycle` | the detailed model of lifecycle and delivery, with its properties |
| `RunLedger` | the abstract specification: the five transactions by which the committed rows may change |
| `MCRepositoryLifecycle` | fault budgets and symmetry for TLC |
| `RepositoryLifecycleProofs` | theorems about `RepositoryLifecycle`, and that it implements `RunLedger` |
| `AuthSessions` | the detailed model of refresh tokens and the handlers that issue, exchange and revoke them, with its properties |
| `TokenFamilies` | the abstract specification: open a session, exchange its live token, end sessions |
| `MCAuthSessions` | the requests of the TLC runs |
| `AuthSessionsProofs` | theorems about `AuthSessions`, and that it implements `TokenFamilies` |
| `Indexing` | revisions, files, snapshots and chunks under ingestion, indexing and cleanup, with its properties |
| `MCIndexing` | symmetry for TLC |
| `IndexingProofs` | theorems about `Indexing` |
| `Acquisition` | git commands, scan and workspace of one ingestion job |
| `Parsing` | which symbols a file gives, as functions |
| `ChunkSplit` | the loop of `_split_chunk_text` |
| `Chunking` | the files of a revision turned into symbols and chunk drafts, around `ChunkSplit` and `Parsing` |
| `Embedding` | batches, retries and the assignment of vectors |
| `Search` | rankings, fusion and the choice of one chunk per file |
| `Pipeline` | the composition of the six modules above |
| `MCPipeline` | files and checkouts for TLC |
| `AcquisitionProofs` | theorems about the scan and the workspace |
| `ChunkingProofs` | theorems about `ChunkSplit`, `Parsing` and `Chunking` |
| `SearchProofs` | theorems about the rankings and the choice of evidence |
| `PipelineProofs` | theorems about `Embedding`, and about the composition |
| `RateLimit` | `enforce` as commands to Redis |
| `Idempotency` | `reserve` and `store_result` as commands to Redis |
| `MCRedisGuards` | both, each in behaviours of its own, for TLC |
| `RedisGuardsProofs` | theorems about both |

### 2.1 RepositoryLifecycle

One repository is the general case, since every query is keyed by its id or by
owner and URL. An API request creates at most one run and one message, so the
three share an identifier, an element of `Requests`.

| Model | Code |
|---|---|
| `repo`, `runs`, `events` | the committed rows; for events, the highest sequence number and the type of the last event |
| `req[q]` | an API handler: its operation, how far it got, the status its first SELECT returned; `before`, no state of the program, remembers which runs were committed when it began |
| `msg[q]` | the Celery message: `none`, `ready`, `unacked`, `gone` |
| `job[w]` | a worker's job: its message, progress, the status its session keeps in the identity map, the event number it took |
| `used` | spent fault budget |
| `Load`, `CheckActive`, `Commit...`, `Abort` | the SELECTs of `create_repository`, `sync_repository`, `mark_deleting`, `create_index_run` and their commit or rollback |
| `Enqueue`, `EnqueueFails` | `celery_app.send_task` after the commit, or the death of the API process before it |
| `Start`, `LockRun`, `RefuseIngest`, `LockRepo`, `Settle` | `IngestionService.ingest`: the reads, the flush that locks the run, a refused transition, the flush that locks the repository, and the single commit |
| `CleanUp` | `delete_workspace_and_mark_deleted` and its commit |
| `Ack`, `Raise`, `Crash` | `acks_late`, an exception other than `CloneFailureError`, the death of a worker process |
| `Redeliver`, `BrokerRestart`, `DiscardUnregistered` | visibility timeout, Redis without persistence, a task name no worker registers |

A handler is cut where another session can interfere: between two statements
that read or lock shared rows. The locks themselves are the guards `RunUnlocked`
and `RepoUnlocked`. A session that has its last lock and only invisible work left
commits in the same step. `repo.status` never shows `cloning`, `scanning` or a
run `running`: the code sets them, but only inside the job's transaction, whose
commit has already replaced them; for the same reason no client ever sees a job's
progress. The workspace directory is in `Acquisition`.

Operators named `Slip...` are plausible defects of the definition that follows
them. With the defect in place TLC refutes the property it is listed with, so
the property depends on that code.

### 2.2 RunLedger

States what a reader of the database may rely on: a repository is registered
once, resubmitted, settled together with its run, marked as deleting together
with `deleted_at`, and marked as deleted only after that. `ImplementsLedger`
maps the ledger to the committed rows; everything else in the detailed model
must be a stutter.

### 2.3 AuthSessions

One user is the general case: no query on `refresh_tokens` reaches another
user's rows. A request issues at most one token, so the two share a name, and a
family has the name of its first token. Names are numbers only to give rows an
order.

| Model | Code |
|---|---|
| `user` | `users.status`; the unique email lets one registration commit |
| `token[t]` | the row of `refresh_tokens`: `family_id`, whether `revoked_at` is set, `replaced_by_id` |
| `req[r]` | an API handler: what it waits for or holds, what it read of the token and the user, the rows its bulk UPDATE still has to visit and those it has changed; `due`, no state of the program, remembers the tokens its answer promises are dead |
| `Register`, `Login`, `NewSession` | `AuthService.register`, `login`, `_new_session` |
| `Present`, `LockToken` | the cookie arrives; `by_hash_for_update` gets the row lock and the row's latest version |
| `Rotate`, `RefuseExpired`, `RevokeFamily` | the three outcomes of `rotate`; the refusals are committed by the handler before it answers 401 |
| `Logout`, `LogoutAll` | `logout` and `logout_all` |
| `VisitRow`, `CommitRevocation` | the bulk UPDATE of `revoke_family` and `revoke_all`, row by row, and its commit |
| `Abort` | `statement_timeout`, a lost connection, the death of the process |
| `Disable` | an account is disabled; the code reads this status and nothing in it writes it, so the action is external |

At READ COMMITTED a bulk UPDATE chooses its rows in the snapshot taken when it
starts, waits for every locked one and evaluates its WHERE again on the latest
version. `targets` is that snapshot, `taken` what it has changed. Rows inserted
meanwhile are not in it, which is what `replay_race` shows. `Scans` lets all
bulk UPDATEs visit rows in one order, as scans of one small table by one plan
do; with `SlipScans` in its place two of them deadlock and only PostgreSQL's
deadlock detection would end it. Expiry is a choice at the moment `rotate` looks
at `expires_at`. A presented token is any that has been issued: clients retry,
lose answers and keep several tabs. Whether the password is right, cookies, CSRF
and audit rows change no token and are left out.

### 2.4 TokenFamilies

What a client may rely on: a session starts with one live token; a live token
can be exchanged, once, for a new one of its family; sessions end. Nothing dead
comes back, so a family that has ended has ended for good.

### 2.5 Indexing

The same requests and jobs as in `RepositoryLifecycle`, seen from what they do to
the index; event numbers, acknowledgements and the broker's faults are left to
that module, and a message is simply delivered up to `MaxDeliveries` times.

| Model | Code |
|---|---|
| `repo` | the row of `repositories`: status, `latest_revision_id`, `latest_indexed_revision_id`, whether `deleted_at` is set |
| `files[c]` | the rows of `repository_files` of the revision of commit `c`, as the number of times they have been replaced |
| `snapshot` | the revisions that have a ready row in `repository_index_snapshots` |
| `chunks[c]` | the rows of `code_chunks` of a revision, as the replacement of `files[c]` they were made from |
| `req[q]`, `job[w]` | an API handler and a worker's job, each with the row its session loaded (`saw`) |
| `run`, `delivered` | committed run statuses; deliveries of each message |
| `Load`, `Commit...`, `Abort` | the SELECTs and the commit of `sync_repository`, `create_index_run`, `mark_deleting` |
| `Ingest`, `IngestFails` | `IngestionService.ingest` from its first flush to its commit |
| `Consult`, `Reuse`, `Build` | `index_repository`: the search for a snapshot of the revision, the early return, and everything from the flush that takes the repository's row lock to the commit |
| `CleanUp` | `_cleanup_repository_workspace` |

`Flush(saw, row)` is SQLAlchemy's unit of work: an UPDATE sets the columns that
differ from the row the session loaded, so a stale session overwrites some
columns and spares others. A job that holds the repository's row lock shows
nothing before its commit and excludes every other writer of the row, so it runs
from the lock to the commit in one step; `Start` and `Consult`, which read before
the lock, are steps of their own. Deleting the files of a revision deletes their
chunks (`ON DELETE CASCADE`), and deleting a snapshot deletes its chunks, so the
DELETEs of `CleanUp` are one step too. No worker registers the index task at
this commit (`unregistered_task`); the module describes the task as the tests
start it.

### 2.6 Acquisition

One ingestion job, through all deliveries of its message. A file is a place in
the order of paths, a size and a set of traits: what the walk, the name, `lstat`
and the content would say about it.

| Model | Code |
|---|---|
| `CommandSucceeds`, `CommandFails`, `CommandRaises` | the loop over `build_clone_commands` and `_resolve_commit_sha`; the exceptions it turns into `CloneFailureError` after removing the workspace, and those it does not |
| `Visit(f)` | one turn of the walk: the counters, the limits in their order, the exclusion by name or by content |
| `WalkEnds`, `ScanRaises` | `scan_repository` returns or raises |
| `RemoveWorkspace`, `RemoveFails` | the `finally` block of `ingest` |
| `Killed` | the worker dies; `acks_late` delivers the message again, into a new directory |
| `leftovers` | directories of earlier deliveries; `cleanup_stale_artifacts` is empty, so they stay |

An exception that `clone_repository` does not catch leaves its directory too,
since `ingest` does not know the workspace yet. `NoWorkspaceLeft` counts both and
says there is no third way.

### 2.7 Parsing, ChunkSplit, Chunking

A line is its length and a qualified name the tuple of its parts, so two equal
texts are equal values. What `ast` and the regular expressions recognise is part
of a document: its statements, whether it is broken, whether a line matches a
symbol pattern. The last matters since no pattern of a language profile has the
group that `RegexParser._parse` reads: the first match raises `IndexError` and
the file falls back to blocks (`RegexFallsBack`).

| Model | Code |
|---|---|
| `Parse`, `...Symbols` | `ParserRegistry.parse`, `PythonParser`, `RegexParser`, `_fallback_parsed_file` |
| `TakeSymbol`, `Cut`, `KeepParts`, `TakeWholeFile` | `_materialize_file`: a symbol's source, one turn of `_split_chunk_text`, the drafts of its parts, and a file without symbols |
| `CutPart` | the window, halved once if it has too many characters, and the next start after the overlap |
| `ParentLink` | `_apply_symbol_parent_links`, by name over the symbols of all files, so a second class of the name takes the members over |
| `IdsCollide` | the primary key of `code_chunks` |

`start_line` and `end_line` of a chunk count from the first line of its symbol;
`origin`, which the code does not keep, says where that is in the file.

### 2.8 Embedding, Search

A vector is the text it was computed from; which drafts reuse an old vector is a
choice, so only the number of the others is kept. An answer may have fewer or
more vectors than its batch, since the code does not compare the two numbers: the
cursor then shifts every later vector or runs past the drafts (`AnswerOverflows`).
`VectorsMatchTexts` therefore speaks of whole answers. `OllamaEmbeddingProvider`
is constructed by no code of the application, which takes the deterministic
provider unless it is given one.

In `Search` scores are small numbers, since only their order counts. `Fused`
compares the fractions of reciprocal rank fusion by cross multiplication; `Sorted`
is stable, as `sorted(..., reverse=True)` is. `SkipSeen`, `Show` and `Exhausted`
are the turns and the end of the loop that picks evidence.

### 2.9 Pipeline

One repository from the clone to a search: `Acquire`, then `StartIndexing` with
the accepted files in the order of their paths, `Chunk`, `Embed`, `Store` (all
chunks or, if two identifiers are equal, none), and a search of any part of the
index with any scores. A stage forgets what only the one before it needed, which
keeps the instance small and hides nothing from the properties. `EveryFileSearchable`
and `OnlyHarmlessShown` relate the two ends: what the clone contained and what a
search shows.

### 2.10 RateLimit, Idempotency

| Model | Code |
|---|---|
| `counter[s]`, `expiring[s]` | the key of a scope and whether it has a time to live |
| `at`, `step`, `passed` | which `enforce` of its endpoint a request is in, and how it went |
| `ticket` | the number a request was given, and in which life of the key |
| `Incr`, `Expire`, `IncrFails`, `ExpireFails`, `Dies` | the two commands; `retry_on_timeout` sends a late one twice; `fail_closed` decides what a failure means |
| `WindowEnds`, `CountersLost` | the time to live is over; Redis restarts without a disk |
| `record` | the JSON under an idempotency key |
| `Reserve`, `Read` | `SET NX` and, if it was refused, `GET` and the comparison of fingerprints |
| `Fetch`, `Store`, `GiveUp` | `GET` and `SET` of `store_result`; a caller that never gets there |
| `late` | no state of the program: who stored a result after the key it had was lost |
| `Vanish` | the key expires or Redis restarts |

No endpoint uses `IdempotencyService`: `dependencies.py` offers it, and its
callers are the tests. The model's callers do what the tests do. Requests of one
identity share the keys, so a scope is a key.

## 3. Runs

Runs that pass:

| Run | Instance | Shows |
|---|---|---|
| `lifecycle_safety` | 3 requests of any kind, 2 at a time, 2 workers, one fault of any kind, symmetry | the safety invariants, that two queued runs come from requests that overlapped, and refinement of `RunLedger`, under all interleavings |
| `lifecycle_crash` | create and delete, 2 at a time, 2 crashes, 1 duplicate delivery | a first ingestion and a deletion survive worker crashes and a second delivery |
| `auth_safety` | 4 requests of any kind, 3 at a time, any token presented | a family never forks, nothing revoked comes back, what an answered revocation found is dead, the rows follow `TokenFamilies`, and handlers holding row locks never wait for each other |
| `index_safety` | 4 requests of any kind, 2 in flight, 2 workers, 2 commits, 2 deliveries per message, symmetry | chunks, files, snapshots and the repository's pointers agree, whatever rows jobs loaded before; two jobs that build for one revision serve two requests |
| `pipeline` | 19 checkouts, 3 kinds of ref, 2 worker deaths, 2 attempts per batch | no stage loses text, mixes up vectors, shows what the scan excluded or hides what it accepted, and every job ends |
| `redis_guards` | 3 requests through 2 scopes with limits 1 and 2 and 2 faults, or 3 callers of one key that is lost twice | limits, outages, reservations and results, with every interleaving of commands |

Bounds. Every property relates at most two runs or one run and the repository;
two requests in flight are what a race needs, the third creates the state they
race in. Two workers are what a duplicate delivery needs. `MaxInFlight` bounds
concurrent requests and `Budget` is the set of allowed combinations of faults;
nothing else is bounded. One fault, of any kind, is enough to disturb a race of two
requests; two crashes with a duplicate delivery are in `lifecycle_crash`, and the
proofs hold for every budget. `lifecycle_crash` has no sync: with one, a redelivered message takes
over the next run, as `takeover` shows. For tokens, a family of three and a
request that presents one of them is the shortest replay in which something is
left to revoke, and a cycle of waiting needs two handlers that hold rows and a
third that created them; four requests have both. For the index, create, index,
sync and index again is the shortest sequence that has two revisions or one
revision ingested twice, and two index requests after a create race for one
snapshot; the limit at the third snapshot takes six requests and is covered by
the proofs only. Deadlock is not checked because a finite set of requests runs
out; that handlers do not wait for each other is `RequestsEnd`.

For the pipeline, the checkouts hold files just below, at and above each limit
(`MaxFiles` and `MaxBytes` 3, `MaxSymlinks` 1), one file for each reason of
exclusion, and documents of every kind a parser tells apart. Parts have two lines
and at most 12 characters with an overlap of three, so an overlap longer than a
part, a line too long for a part and a halved window all occur; blocks have two
lines, so a file has several. Batches of two and two attempts give a short last
batch and a provider that gives up. Scores are 0 or 1 and `top_k` is 1 to 3: ties,
disagreeing rankings and an answer that is cut off. The number of deaths and
scores is bounded by `MaxKills`, `MaxScore` and `MaxTopK`, the rest by the
settings of the code. For the rate limits, one request passes both scopes in each
order and one passes one; a limit of 1 is reached by two requests, and two faults
are a repeated command and a lost key. For the key, two callers repeat one
request and the third sends another; two losses let a slow caller meet a second
reservation.

What the runs do not claim: two syncs that overlap can each create a run
(`docs/plans/phase-04.md:16` asks for retry-safe duplicates), which
`DuplicatesOverlap` allows and confines to overlapping requests. In the same way
`EndedForGood` speaks of the tokens a revocation found, since a replacement
committed after its snapshot stays live (`replay_race`).

Runs that TLC refutes. Each checks a promise the repository's documents make:

| Run | Promise | What happens |
|---|---|---|
| `delete_race` | `docs/plans/phase-04.md:23`, deletion marks the row `deleting` | a job with a stale status overwrites it; the cleanup then does nothing |
| `takeover` | `docs/adr/ADR-003...:20`, idempotent jobs | a redelivered message of a failed run executes it again in place of the sync's new run |
| `unregistered_task` | `docs/architecture/api-outline.md:85`, indexing starts | no worker registers the task the API sends |
| `lost_chunks` | `docs/plans/phase-05.md:3`, durable index snapshots | re-ingesting a commit deletes the chunks of its snapshot, and the next index job trusts the snapshot |
| `duplicate_chunks` | `docs/plans/phase-05.md:8`, indexing continues with partial data | an import written twice gives two chunks with one identifier; the INSERT fails, and the job with it, at every attempt |
| `replay_race` | `docs/architecture/authentication.md:7`, a replay revokes every active token of the family | a replacement committed after the UPDATE's snapshot stays live |

**Fairness of RepositoryLifecycle** (`Fairness`): a handler that has committed
reaches `send_task`; a message that stays ready is eventually started or
discarded, since workers poll without end; a job's steps end, since git runs
under a timeout and statements and lock waits under `statement_timeout`. Clients
owe no request, faults no occurrence, and no fairness is assumed of `Load`,
`CheckActive`, `Commit...`, `Abort`, `Raise` or `Crash`.

**Fairness of AuthSessions** (`FairSpec`): a handler whose next statement can run
runs it, since the server schedules every request it has accepted. `Abort` is
not fair, so `RequestsEnd` holds without any timeout or deadlock detection.

**Fairness of Pipeline** (`PipelineSpec`): a job that has begun goes on, for the
reason given above, and a search runs in one request. Nobody owes an index
request or a search. `JobsEnd` needs no more, since deaths are bounded by
`MaxKills` and attempts by the code.

**Fairness of RateLimit** (`RateFairness`): a request that got its number sends
EXPIRE, and Redis drops keys whose time is up. Faults owe no occurrence.
`RefusalsEnd` excuses a counter once anything has failed, and has to: after a
failure between INCR and EXPIRE, or a first INCR sent twice, nobody sets the time
to live that is missing, and the scope refuses for good.

## 4. Proofs

### 4.1 RepositoryLifecycle

For every set of requests and workers, every `Ops`, `MaxInFlight` and `Budget`:

| Theorem | Statement |
|---|---|
| `TypeCorrect` | `Spec => []TypeOK` |
| `StatusIsBacked` | `Spec => []StatusBackedByRun` |
| `EventsAgree` | `Spec => []EventsMatchStatus` |
| `EventNumbersUnique` | `Spec => []EventNumbersFresh` |
| `RowsBeforeJobs` | `Spec => []JobsFindTheirRows` |
| `DuplicatesOnlyOverlap` | `Spec => []DuplicatesOverlap` |
| `RegisteredOnce` | `Spec => []OneRegistration` |
| `DeletionStays` | `Spec => DeletionIsSticky` |
| `RefinesLedger` | `Spec => ImplementsLedger` |

Assumptions: `None` is not a request, `Ops` is a set of operations, `MaxInFlight`
is a natural number, and `Budget` is a set of counts for the kinds of faults.

The inductive invariant is `IInv`: `TypeOK`, the wanted invariants, and `Order`.
`Order` is what makes them inductive: a run's kind follows from its request's
operation and progress (`RunsShape`, `RequestOrder`), a message exists only
after its request's commit and a job only for such a message (`JobOrder`), two
jobs never hold one run's row (`RunLockExclusive`), and rows exist once any
request committed (`RowsShape`). `EventNumbersFresh` needs the lock: without
`RunLockExclusive` the second delivery of a message would move
`events[q].seq` under the first. `StatusBackedByRun` needs to know that a job's
message names an ingestion run. `EarlierRunsOver` says that a run committed before a request began is over
once the request has found no active one; `DuplicatesOverlap` follows from it.
`RegisteredOnce` and `DeletionStays` have no run: `RunLedger` implies what they say
of the rows. The step case has one lemma per group of actions and one step per
action. `RefinesLedger` maps `Load`, `Start`, locks, broker
steps and faults to stutters, and each commit to one ledger transaction.

### 4.2 AuthSessions

For every set of requests, every choice of `Kinds` and every `MaxInFlight`:

| Theorem | Statement |
|---|---|
| `TypeCorrect` | `Spec => []TypeOK` |
| `FamiliesAreChains` | `Spec => []FamilyIsChain` |
| `RevocationsHold` | `Spec => []EndedForGood` |
| `SpentStays` | `Spec => SpentForGood` |
| `RefinesFamilies` | `Spec => ImplementsFamilies` |

Assumptions: requests are natural numbers, `None` is not one of them, `Kinds` is
a set of kinds of request, and `MaxInFlight` is a natural number.

`IInv` is `TypeOK`, `Locking`, `Chain` and `Owing`. `Locking` says why the row lock is
enough: a request that has not answered has issued no token (`Fresh`), what a
handler read under its lock is still what the row says (`Reads`), and no two
handlers hold one row (`Exclusive`). From `Reads` a rotation finds its token
unspent, so it appends to the end of its family's chain and `Chain` is kept; from
`Chain` follows `FamilyIsChain`, and from `Exclusive` that a bulk UPDATE changes
only rows nobody else is changing. `Owing` says that a token a revocation owes is
dead already or still among the rows it has to visit, which gives `EndedForGood`
when none is left. `RowsTouched` sums up each step as one of
opening, exchanging or revoking rows, which is what `SpentStays` and
`RefinesFamilies` are proved from.

### 4.3 Indexing

For every set of requests, workers and commits, every `MaxInFlight` and
`MaxDeliveries`:

| Theorem | Statement |
|---|---|
| `TypeCorrect` | `Spec => []TypeOK` |
| `ChunksAreCurrent` | `Spec => []ChunksFollowFiles` |
| `IndexedIsBacked` | `Spec => []IndexedHasSnapshot` |
| `NoIndexAfterDeletion` | `Spec => []DeletedHasNoIndex` |
| `RacesAreOfTwoRuns` | `Spec => []LostToAnotherRun` |
| `ChunksStay` | `Spec => ChunksLast` |

Assumptions: `None` is neither a request nor a commit; the bounds are natural
numbers.

`IInv` adds `Loaded` to the wanted invariants: what a job may still rely on of
the row it loaded. The indexed revision never becomes empty again; a snapshot a
job has found stays unless the repository is deleted; and a cleanup runs only
for a deleted repository. `RepoMoves` says which steps can move `latest`,
`indexed` and the status, whatever row they started from, and `IndexMoves` sums
up each step as replacing files, indexing a revision or dropping everything; the
first four theorems and `ChunksStay` follow from these two lemmas.

`RacesAreOfTwoRuns` rests on a second invariant, `Apart`: two jobs past the lock of
their run have different runs, such a job's run is an indexing run, and a run
exists only once its request has committed. A committed request never changes
(`CommittedStays`) and an indexing run that has succeeded stays so (`RunMoves`), so
the run that inserted the snapshot still answers for it.

`ChunksStay` has no run of its own: `lost_chunks` shows the other side of it, that
a re-ingestion does delete chunks.

### 4.4 The pipeline

Each stage is proved on its own, started from any input, and then the composition.
The prover cannot instantiate induction theorems that take a predicate. Where a
sum, a cardinality or a concatenation runs over data, the proofs argue by a least
counterexample instead: a smallest set or number for which the claim fails exists,
since strict inclusion of finite sets is well founded, and removing an element
gives a smaller one.

**Acquisition**, for all checkouts, limits, refs and numbers of deaths:

| Theorem | Statement |
|---|---|
| `ClonesAreRemoved` | `AcquireSpec => []NoWorkspaceLeft` |
| `AcceptanceIsDetermined` | `AcquireSpec => []OrderDoesNotDecide` |
| `ScanIsExact` | `AcquireSpec => []ScanSelects` |

Assumptions: the limits are natural numbers, and a checkout is a finite set of
files with paths of their own. `JobInv` says that a directory is the one in use or
was lost with its delivery (`Directories`), that the counters are those of the
files visited so far, in whatever order (`WalkedSoFar`), and that a refusal means
the whole checkout exceeds a limit (`Verdict`). `TallyAdds` and `TallyGrows` are
the two facts about sums this needs: a turn of the walk adds one file to the
tally, and the tally of a part is at most that of the whole.

**Chunking**, for all files, block sizes, overlaps and size limits:

| Theorem | Statement |
|---|---|
| `EveryLineIsCut` | `SplitSpec => []NoLineSkipped` |
| `PartsAreBounded`, `LoopAdvances` | a part has at most `MaxLines` lines; each starts after the one before |
| `EveryTextIsChunked` | `ChunkSpec => []NoTextLost` |
| `ClassesAreFound` | `ChunkSpec => []MembersFindTheirClass` |

Assumptions: a block and a part may have a line, the other settings are natural
numbers. `SplitInv` says that the lines before `start` are covered and that
`start` grows with the parts. `ChunkInv` says that the text being cut is the
source of the next symbol (`Splitting`), that the finished symbols and files are
held by drafts at the right places (`SymbolsHeld`, `FilesHeld`), and that every
parent is the name of a class in the same file (`ParentsInRows`). What the parsers
return is summed up by `ParseHolds`: symbols of the right type, with the classes
they name as parents among them. It rests on `Flattened`, which says that a flattened sequence of sequences
has exactly their elements.

**Embedding**, for every number of drafts, batch size and pattern of retries:
`OwnVectors` (`EmbedSpec => []VectorsMatchTexts`) and `CursorStaysInRange`, that the
cursor never passes the last draft, whatever the provider answers. `EmbedInv` says
that the cursor equals the number of texts sent while answers are whole.
Assumption: batches and attempts are positive.

**Search**, for all lists of chunks, scores, methods and limits:

| Theorem | Statement |
|---|---|
| `EveryFileShown` | `SearchSpec => []NoFileCrowdedOut` |
| `FilesShownOnce` | `SearchSpec => []OneEntryPerFile`, no file is shown twice |
| `BetterFirst` | `SearchSpec => []BetterChunkShownFirst` |

Assumption: `RankOffset` is a natural number. `SortedByRank` says that sorting puts
every chunk at the place of its rank, and `FusedAgrees` that a chunk ahead in both
rankings is ahead in their fusion; the fractions are compared exactly, so the
rounding of the code's floats is not covered. `LoopInv` says that every chunk the
loop has passed is of a path it has seen, that every such path is shown, and by
the first of its chunks.

**Pipeline**, for all of the above at once:

| Theorem | Statement |
|---|---|
| `PipelineTyped` | `PipelineSpec => []PipelineTypeOK` |
| `StagesKeepPromises` | `PipelineSpec => []StagePromises`, the nine invariants of single stages |
| `OnlyHarmlessFiles` | `PipelineSpec => []OnlyHarmlessShown` |
| `EveryFileFound` | `PipelineSpec => []EveryFileSearchable` |

Assumption, besides those of the stages: every file has a document (`DocumentsAreParsed`).
`PipelineInv` is the four invariants of the stages together with what one stage
hands to the next: the corpus is the harmless paths of the checkout
(`CorpusIsHarmless`), the drafts are of files of the corpus and leave none of the
finished ones out (`DraftsOfFiles`), and a listing is made of drafts and, if it is
as long, of all of them (`ListingOfDrafts`). `EveryFileSearchable` follows by
counting: an answer with room left crowds no file out, and a full one has as many
different files as there are harmless ones.

### 4.5 Redis

For the two modules together, as `MCRedisGuards` runs them, `GuardsTyped` (`GuardsSpec => []GuardsTypeOK`).

For every set of callers and fingerprints: `OnePerKey` (`CarriedOutOnce`),
`ResultsAreOwn` (`RepeatsGetTheirResult`), `ConflictsAreExplained`
(`LossesExplainConflicts`). `KeyInv` adds `KeyIsThere`, that a caller who sent SET NX
since the last loss still finds a record, and `RecordIsMine`, that the record
belongs to the caller at work as long as no caller has stored a result after
losing the key it had.
Assumption: `MaxLosses` is a natural number.

For every set of requests and scopes, every route and limit: `LimitsHold`
(`LimitHolds`), `OutagesAdmitNobody` (`NoFreePass`), and `EveryCounterExpires`: as
long as nothing has failed, a counter without a time to live has a request that
is about to give it one. `RateInv` says that a request is counted only where it
has been (`OnRoute`), that numbers are given once per window and in order
(`NumbersGiven`), that EXPIRE follows the number 1 (`FirstOfWindow`), what a scope
knew of a request it let through (`FairlyPassed`), and that a key belongs to a
window (`KeysInWindows`). Assumptions: routes are sequences of scopes, limits are
natural numbers, and no endpoint enforces a scope twice (`RoutesAreSimple`).

### 4.6 Only model-checked

The liveness properties `IngestionFinishes`, `DeletionCompletes`, `RequestsEnd`,
`JobsEnd` and `RefusalsEnd`, since fairness and ENABLED are out of the prover's
reach. `FinishedRunsStay`, `DeletedStaysMarked`, `IndexingFinishes`, `ReadyIsSearchable`,
`ReplayEndsFamily` and `IndexingContinues` fail, each in a run that expects it.
Every other property of a run is a theorem.

## 5. Not modelled

`PROJECT.json` gives the status of every component. Left out:

* Validation of URL and ref, and authorization: checks of one request's data, or
  reads with an owner filter, that change no state. The models have one owner.
* The frontend: session, polling and rendering live in React state of one browser
  tab and reach the backend through requests that are modelled.
* What `ast`, the regular expressions, the score functions and the vector
  arithmetic compute: inputs of the models.
* Which drafts reuse a vector, statistics of a snapshot, revision statuses and
  audit rows: written along with rows that are modelled and read by no decision.
* Migrations, settings, health probes, middleware, logging, error mapping, and the
  packages without code (agents, llm, prompts, retrieval, sandbox).
