------------------------ MODULE RepositoryLifecycle ------------------------
(***************************************************************************)
(* The life of one registered repository: the row of table repositories,   *)
(* the rows of agent_runs and agent_run_events that belong to it, the API  *)
(* handlers that change them, the Celery messages they publish, and the    *)
(* worker processes that consume those messages.                           *)
(*                                                                         *)
(* Everything in the code is keyed by the repository's id and by the pair  *)
(* (owner, clone URL), so one repository is the general case.  An API      *)
(* request creates at most one run and publishes at most one message; the  *)
(* request, its run and its message share an identifier.                   *)
(*                                                                         *)
(* PostgreSQL runs at READ COMMITTED.  Each SELECT sees the rows committed *)
(* before it; an UPDATE waits for the row lock of an open transaction and  *)
(* then overwrites, by primary key, only the columns the session changed.  *)
(* No row has a version column.  A session whose lock is taken and whose   *)
(* remaining work is invisible to others is committed in the same step.    *)
(*                                                                         *)
(* req[q].before is no state of the program: it remembers which runs were  *)
(* committed when request q made its first SELECT.                         *)
(*                                                                         *)
(* An operator named Slip... is a plausible defect of the definition after *)
(* it; it is used only to see that a property would notice the defect.     *)
(***************************************************************************)
EXTENDS Naturals, FiniteSets

CONSTANTS
  Requests,    \* state-changing API requests; also the runs and messages they create
  Workers,     \* Celery worker processes
  None,        \* no message
  Ops,         \* operations the clients use, a subset of Operations
  MaxInFlight, \* bound: requests the API handles at the same time
  Budget       \* bound: how often the kinds of faults may happen together

Operations == {"create", "sync", "delete", "index"}
FaultKinds == {"crash", "raise", "redelivery", "restart", "unsent"}

ASSUME NoneIsNotARequest == None \notin Requests
ASSUME OpsAreOperations == Ops \subseteq Operations
ASSUME BoundsAreNatural == MaxInFlight \in Nat /\ Budget \subseteq [FaultKinds -> Nat]

VARIABLES
  repo,    \* the committed row of table repositories
  runs,    \* the committed rows of table agent_runs
  events,  \* for each run: highest sequence number and type of its last event
  req,     \* the API handlers
  msg,     \* the Celery messages in Redis
  job,     \* the worker processes
  used     \* how often each kind of fault has happened

vars == <<repo, runs, events, req, msg, job, used>>

----------------------------------------------------------------------------
(* Repository states and the table of allowed transitions.                 *)

RepositoryState ==
  {"queued", "cloning", "scanning", "ready_for_indexing", "indexing",
   "ready", "failed", "deleting", "deleted"}

\* "absent" stands for: there is no row yet.
RowState == RepositoryState \cup {"absent"}

AllowedTransitions(from) ==
  CASE from = "queued"             -> {"cloning", "failed", "deleting"}
    [] from = "cloning"            -> {"scanning", "failed", "deleting"}
    [] from = "scanning"           -> {"ready_for_indexing", "failed", "deleting"}
    [] from = "ready_for_indexing" -> {"indexing", "ready", "deleting"}
    [] from = "indexing"           -> {"ready", "failed", "deleting"}
    [] from = "ready"              -> {"queued", "indexing", "deleting"}
    [] from = "failed"             -> {"queued", "deleting"}
    [] from = "deleting"           -> {"deleted", "failed"}
    [] OTHER                       -> {}

\* IngestionService.transition raises InvalidState when this is false.
CanMove(from, to) == to \in AllowedTransitions(from)

----------------------------------------------------------------------------
(* Who publishes which task, and which tasks the worker registers.         *)

TaskOf(op) ==
  CASE op \in {"create", "sync"} -> "ingest_repository"
    [] op = "delete"             -> "cleanup_repository_workspace"
    [] op = "index"              -> "index_repository"
    [] OTHER                     -> "none"

RegisteredTasks == {"ingest_repository", "cleanup_repository_workspace"}

Task(q) == TaskOf(req[q].op)

\* The runs that have been committed.
Committed == {q \in Requests : runs[q].kind # "none"}

RunKind(op) == IF op = "index" THEN "indexing" ELSE "ingestion"

\* by_owner_url and owned_by_id both filter on deleted_at IS NULL.
Visible == repo.status # "absent" /\ ~repo.deleted

\* Slip: the check for an active run finds nothing.
SlipActiveRuns(kind) == {}

ActiveRuns(kind) ==
  {q \in Requests : runs[q].kind = kind /\ runs[q].status \in {"queued", "running"}}

----------------------------------------------------------------------------
(* Row locks.  An ingestion job holds its run's row from its first flush   *)
(* and the repository's row from its second, both until it ends.           *)

HoldsRun(w, q) == job[w].pc \in {"runLocked", "cloning"} /\ job[w].msg = q

\* Slip: the sequence number is queried before the run is flushed, so no
\* row lock orders two deliveries.
SlipRunUnlocked(q) == TRUE

RunUnlocked(q) == \A w \in Workers : ~HoldsRun(w, q)

RepoUnlocked == \A w \in Workers : job[w].pc # "cloning"

IdleJob == [pc |-> "idle", msg |-> None, seen |-> "absent", seq |-> 0]

Spend(kind) ==
  /\ used' = [used EXCEPT ![kind] = @ + 1]
  /\ used' \in Budget

----------------------------------------------------------------------------
Init ==
  /\ repo = [status |-> "absent", deleted |-> FALSE, revision |-> FALSE]
  /\ runs = [q \in Requests |-> [kind |-> "none", status |-> "none"]]
  /\ events = [q \in Requests |-> [seq |-> 0, last |-> "none"]]
  /\ req = [q \in Requests |->
              [op |-> "none", pc |-> "new", seen |-> "absent", before |-> {}]]
  /\ msg = [q \in Requests |-> "none"]
  /\ job = [w \in Workers |-> IdleJob]
  /\ used = [k \in FaultKinds |-> 0]

----------------------------------------------------------------------------
(* API handlers.  A request that is refused (not found, conflict, invalid  *)
(* state, nothing to do) changes nothing: it ends in Abort, or never       *)
(* passes Load.                                                            *)

InFlight == {q \in Requests : req[q].pc \in {"loaded", "checked", "committed"}}

\* The handler's first SELECT: by_owner_url for create, owned_by_id for the
\* others.  create goes on only when it finds no row, the others only when
\* they do; index also needs latest_revision_id.
Load(q, op) ==
  /\ req[q].pc = "new"
  /\ op \in Ops
  /\ Cardinality(InFlight) < MaxInFlight
  /\ Visible <=> op # "create"
  /\ op = "index" => repo.revision
  /\ req' = [req EXCEPT ![q] =
               [op |-> op, pc |-> "loaded", seen |-> repo.status, before |-> Committed]]
  /\ UNCHANGED <<repo, runs, events, msg, job, used>>

\* The second SELECT, active_for_repository, and for sync the check of the
\* transition against the status the first SELECT returned.
CheckActive(q) ==
  /\ req[q].pc = "loaded"
  /\ req[q].op \in {"sync", "index"}
  /\ ActiveRuns(RunKind(req[q].op)) = {}
  /\ req[q].op = "sync" => CanMove(req[q].seen, "queued")
  /\ req' = [req EXCEPT ![q].pc = "checked"]
  /\ UNCHANGED <<repo, runs, events, msg, job, used>>

\* _create_run: the run row and its first event.
InsertRun(q, kind) ==
  /\ runs' = [runs EXCEPT ![q] = [kind |-> kind, status |-> "queued"]]
  /\ events' = [events EXCEPT ![q] = [seq |-> 1, last |-> "queued"]]

EndCommit(q) ==
  /\ req' = [req EXCEPT ![q].pc = "committed"]
  /\ UNCHANGED <<msg, job, used>>

\* INSERT violates uq_repositories_owner_url unless there is no row at all.
CommitCreate(q) ==
  /\ req[q].pc = "loaded"
  /\ req[q].op = "create"
  /\ repo.status = "absent"
  /\ repo' = [repo EXCEPT !.status = "queued"]
  /\ InsertRun(q, "ingestion")
  /\ EndCommit(q)

CommitSync(q) ==
  /\ req[q].pc = "checked"
  /\ req[q].op = "sync"
  /\ RepoUnlocked
  /\ repo' = [repo EXCEPT !.status = "queued"]
  /\ InsertRun(q, "ingestion")
  /\ EndCommit(q)

CommitIndex(q) ==
  /\ req[q].pc = "checked"
  /\ req[q].op = "index"
  /\ InsertRun(q, "indexing")
  /\ EndCommit(q)
  /\ UNCHANGED repo

\* Slip: deleted_at is left to the cleanup task.
SlipCommitDelete(q) ==
  /\ req[q].pc = "loaded"
  /\ req[q].op = "delete"
  /\ CanMove(req[q].seen, "deleting")
  /\ RepoUnlocked
  /\ repo' = [repo EXCEPT !.status = "deleting"]
  /\ EndCommit(q)
  /\ UNCHANGED <<runs, events>>

CommitDelete(q) ==
  /\ req[q].pc = "loaded"
  /\ req[q].op = "delete"
  /\ CanMove(req[q].seen, "deleting")
  /\ RepoUnlocked
  /\ repo' = [repo EXCEPT !.status = "deleting", !.deleted = TRUE]
  /\ EndCommit(q)
  /\ UNCHANGED <<runs, events>>

\* The request ends before its commit: refused, statement timeout on a row
\* lock, lost connection or API restart.  PostgreSQL rolls back.
Abort(q) ==
  /\ req[q].pc \in {"loaded", "checked"}
  /\ req' = [req EXCEPT ![q].pc = "done"]
  /\ UNCHANGED <<repo, runs, events, msg, job, used>>

\* Slip: the message is sent before the commit.
SlipEnqueue(q) ==
  /\ req[q].pc \in {"loaded", "committed"}
  /\ req' = [req EXCEPT ![q].pc = "done"]
  /\ msg' = [msg EXCEPT ![q] = "ready"]
  /\ UNCHANGED <<repo, runs, events, job, used>>

\* send_task, after the commit.
Enqueue(q) ==
  /\ req[q].pc = "committed"
  /\ req' = [req EXCEPT ![q].pc = "done"]
  /\ msg' = [msg EXCEPT ![q] = "ready"]
  /\ UNCHANGED <<repo, runs, events, job, used>>

\* The API process dies between commit and send_task, or send_task fails.
EnqueueFails(q) ==
  /\ req[q].pc = "committed"
  /\ Spend("unsent")
  /\ req' = [req EXCEPT ![q].pc = "done"]
  /\ UNCHANGED <<repo, runs, events, msg, job>>

----------------------------------------------------------------------------
(* The broker.  Messages are acknowledged late, so delivery is at least    *)
(* once: a message whose visibility timeout passes is handed out again     *)
(* while its first consumer may still be working on it.  Redis runs        *)
(* without persistence, so a restart forgets every message.                *)

Redeliver(q) ==
  /\ msg[q] = "unacked"
  /\ Spend("redelivery")
  /\ msg' = [msg EXCEPT ![q] = "ready"]
  /\ UNCHANGED <<repo, runs, events, req, job>>

BrokerRestart ==
  /\ \E q \in Requests : msg[q] \in {"ready", "unacked"}
  /\ Spend("restart")
  /\ msg' = [q \in Requests |-> IF msg[q] = "none" THEN "none" ELSE "gone"]
  /\ UNCHANGED <<repo, runs, events, req, job>>

\* A worker discards a message that names no registered task.
DiscardUnregistered(q) ==
  /\ msg[q] = "ready"
  /\ Task(q) \notin RegisteredTasks
  /\ msg' = [msg EXCEPT ![q] = "gone"]
  /\ UNCHANGED <<repo, runs, events, req, job, used>>

----------------------------------------------------------------------------
(* Worker jobs.                                                            *)

\* The task starts and reads the repository row, which stays in the
\* session's identity map: later checks use this status.
Start(w, q) ==
  /\ job[w].pc = "idle"
  /\ msg[q] = "ready"
  /\ Task(q) \in RegisteredTasks
  /\ msg' = [msg EXCEPT ![q] = "unacked"]
  /\ job' = [job EXCEPT ![w] =
               [pc |-> "loaded", msg |-> q, seen |-> repo.status, seq |-> 0]]
  /\ UNCHANGED <<repo, runs, events, req, used>>

Ingesting(w) == Task(job[w].msg) = "ingest_repository"
Cleaning(w) == Task(job[w].msg) = "cleanup_repository_workspace"

\* run.status = "running" is flushed by the query for the next sequence
\* number, so the run's row lock is held before that number is read.
LockRun(w) ==
  /\ job[w].pc = "loaded"
  /\ Ingesting(w)
  /\ RunUnlocked(job[w].msg)
  /\ CanMove(job[w].seen, "cloning")
  /\ job' = [job EXCEPT ![w] =
               [@ EXCEPT !.pc = "runLocked", !.seq = events[job[w].msg].seq + 1]]
  /\ UNCHANGED <<repo, runs, events, req, msg, used>>

\* transition(repository, "cloning") raises: the session rolls back.
RefuseIngest(w) ==
  /\ job[w].pc = "loaded"
  /\ Ingesting(w)
  /\ RunUnlocked(job[w].msg)
  /\ ~CanMove(job[w].seen, "cloning")
  /\ job' = [job EXCEPT ![w].pc = "raised"]
  /\ UNCHANGED <<repo, runs, events, req, msg, used>>

\* The flush of status "cloning" takes the repository's row lock; then the
\* workspace directory is created and git runs.
LockRepo(w) ==
  /\ job[w].pc = "runLocked"
  /\ RepoUnlocked
  /\ job' = [job EXCEPT ![w].pc = "cloning"]
  /\ UNCHANGED <<repo, runs, events, req, msg, used>>

\* The job ends and commits everything at once: both rows and the events.
\* Events are started, cloned (unless the clone itself failed) and the last.
Outcomes == {"cloneFailed", "scanFailed", "succeeded"}

SettleRepo(outcome) ==
  repo' = IF outcome = "succeeded"
            THEN [repo EXCEPT !.status = "ready_for_indexing", !.revision = TRUE]
            ELSE [repo EXCEPT !.status = "failed"]

\* Slip: the outcome's code is stored as the run's status.
SlipSettleRunCode(q, outcome) == runs' = [runs EXCEPT ![q].status = outcome]

\* Slip: _fail forgets the run.
SlipSettleRunForgets(q, outcome) ==
  runs' = [runs EXCEPT ![q].status = IF outcome = "succeeded" THEN "succeeded" ELSE @]

SettleRun(q, outcome) ==
  runs' = [runs EXCEPT ![q].status =
             IF outcome = "succeeded" THEN "succeeded" ELSE "failed"]

\* Slip: a failed job adds no closing event.
SlipSettleEvents(w, outcome) ==
  events' = [events EXCEPT ![job[w].msg] =
    IF outcome = "succeeded" THEN [seq |-> job[w].seq + 2, last |-> "completed"] ELSE @]

SettleEvents(w, outcome) ==
  events' = [events EXCEPT ![job[w].msg] =
    [seq  |-> job[w].seq + (IF outcome = "cloneFailed" THEN 1 ELSE 2),
     last |-> IF outcome = "succeeded" THEN "completed" ELSE "failed"]]

Settle(w, outcome) ==
  /\ job[w].pc = "cloning"
  /\ SettleRepo(outcome)
  /\ SettleRun(job[w].msg, outcome)
  /\ SettleEvents(w, outcome)
  /\ job' = [job EXCEPT ![w].pc = "committed"]
  /\ UNCHANGED <<req, msg, used>>

\* Slip: the cleanup looks for the status it is about to set.
SlipCleanUp(w) ==
  /\ job[w].pc = "loaded"
  /\ Cleaning(w)
  /\ \/ /\ job[w].seen = "deleted"
        /\ RepoUnlocked
        /\ repo' = [repo EXCEPT !.status = "deleted"]
     \/ /\ job[w].seen # "deleted"
        /\ UNCHANGED repo
  /\ job' = [job EXCEPT ![w].pc = "committed"]
  /\ UNCHANGED <<runs, events, req, msg, used>>

\* delete_workspace_and_mark_deleted followed by the commit.
CleanUp(w) ==
  /\ job[w].pc = "loaded"
  /\ Cleaning(w)
  /\ \/ /\ job[w].seen = "deleting"
        /\ RepoUnlocked
        /\ repo' = [repo EXCEPT !.status = "deleted"]
     \/ /\ job[w].seen # "deleting"
        /\ UNCHANGED repo
  /\ job' = [job EXCEPT ![w].pc = "committed"]
  /\ UNCHANGED <<runs, events, req, msg, used>>

\* The message is acknowledged when the task has returned or raised.
Ack(w) ==
  /\ job[w].pc \in {"committed", "raised"}
  /\ job' = [job EXCEPT ![w] = IdleJob]
  /\ msg' = [msg EXCEPT ![job[w].msg] = IF @ = "unacked" THEN "gone" ELSE @]
  /\ UNCHANGED <<repo, runs, events, req, used>>

\* Any exception other than CloneFailureError, the soft time limit and a
\* timeout on a lock included: rollback, re-raise.
Raise(w) ==
  /\ job[w].pc \in {"loaded", "runLocked", "cloning"}
  /\ Spend("raise")
  /\ job' = [job EXCEPT ![w].pc = "raised"]
  /\ UNCHANGED <<repo, runs, events, req, msg>>

\* Slip: the message was acknowledged when it was received.
SlipCrash(w) ==
  /\ job[w].pc # "idle"
  /\ Spend("crash")
  /\ job' = [job EXCEPT ![w] = IdleJob]
  /\ msg' = [msg EXCEPT ![job[w].msg] = IF @ = "unacked" THEN "gone" ELSE @]
  /\ UNCHANGED <<repo, runs, events, req>>

\* The process is killed: PostgreSQL rolls back, the broker hands the
\* message out again.
Crash(w) ==
  /\ job[w].pc # "idle"
  /\ Spend("crash")
  /\ job' = [job EXCEPT ![w] = IdleJob]
  /\ msg' = [msg EXCEPT ![job[w].msg] = IF @ = "unacked" THEN "ready" ELSE @]
  /\ UNCHANGED <<repo, runs, events, req>>

----------------------------------------------------------------------------
Handle(q) ==
  \/ \E op \in Operations : Load(q, op)
  \/ CheckActive(q)
  \/ CommitCreate(q) \/ CommitSync(q) \/ CommitIndex(q) \/ CommitDelete(q)
  \/ Abort(q)
  \/ Enqueue(q) \/ EnqueueFails(q)

Broker == BrokerRestart \/ \E q \in Requests : Redeliver(q) \/ DiscardUnregistered(q)

Work(w) ==
  \/ LockRun(w) \/ RefuseIngest(w) \/ LockRepo(w)
  \/ \E outcome \in Outcomes : Settle(w, outcome)
  \/ CleanUp(w)
  \/ Ack(w)

Next ==
  \/ \E q \in Requests : Handle(q)
  \/ Broker
  \/ \E w \in Workers :
       \/ \E q \in Requests : Start(w, q)
       \/ Work(w)
       \/ Raise(w)
       \/ Crash(w)

Spec == Init /\ [][Next]_vars

\* A handler that has committed goes on to send_task.  Workers keep polling
\* and the steps of a job end: git runs under a timeout, lock waits and
\* queries under statement_timeout.  Clients owe no request.
Fairness ==
  /\ \A q \in Requests : WF_vars(Enqueue(q)) /\ WF_vars(DiscardUnregistered(q))
  /\ \A q \in Requests : WF_vars(\E w \in Workers : Start(w, q))
  /\ \A w \in Workers : WF_vars(Work(w))

FairSpec == Spec /\ Fairness
----------------------------------------------------------------------------
(* Properties.                                                             *)

RepoRow == [status : RowState, deleted : BOOLEAN, revision : BOOLEAN]
RunRow == [kind : {"none", "ingestion", "indexing"},
           status : {"none", "queued", "running", "succeeded", "failed"}]
EventRow == [seq : Nat, last : {"none", "queued", "completed", "failed"}]
RequestState == [op : Operations \cup {"none"},
                 pc : {"new", "loaded", "checked", "committed", "done"},
                 seen : RowState, before : SUBSET Requests]
JobState == [pc : {"idle", "loaded", "runLocked", "cloning", "committed", "raised"},
             msg : Requests \cup {None}, seen : RowState, seq : Nat]

\* Every variable keeps the shape the code gives it; a busy worker has a message.
TypeOK ==
  /\ repo \in RepoRow
  /\ runs \in [Requests -> RunRow]
  /\ events \in [Requests -> EventRow]
  /\ req \in [Requests -> RequestState]
  /\ msg \in [Requests -> {"none", "ready", "unacked", "gone"}]
  /\ job \in [Workers -> JobState]
  /\ \A w \in Workers : job[w].pc # "idle" => job[w].msg \in Requests
  /\ used \in [FaultKinds -> Nat]

\* The status a client polls is backed by a run: queued by a queued ingestion
\* run, ready_for_indexing by a succeeded one, failed by a failed one.  Two
\* rows in two tables agree although syncs, duplicate deliveries and deletes
\* overwrite each other, because a job commits both in one transaction.
BackedBy(status, runStatus) ==
  repo.status = status =>
    \E q \in Requests : runs[q] = [kind |-> "ingestion", status |-> runStatus]

StatusBackedByRun ==
  /\ BackedBy("queued", "queued")
  /\ BackedBy("ready_for_indexing", "succeeded")
  /\ BackedBy("failed", "failed")

\* The event stream a client reads ends with the event of the run's status,
\* also after a run has been executed a second time.
EventsMatchStatus ==
  \A q \in Requests :
    events[q].last = CASE runs[q].status = "succeeded" -> "completed"
                       [] OTHER                        -> runs[q].status

\* The sequence number a job took from max(sequence) + 1 is still free when
\* it inserts: uq_run_event_sequence never fails a job, even when one message
\* is delivered to two workers.
EventNumbersFresh ==
  \A w \in Workers :
    job[w].pc \in {"runLocked", "cloning"} => job[w].seq = events[job[w].msg].seq + 1

\* A worker never starts a job whose rows are not committed yet: NotFound in
\* ingest is unreachable because send_task follows the commit.
JobsFindTheirRows ==
  \A w \in Workers :
    job[w].pc # "idle" =>
      /\ repo.status # "absent"
      /\ Ingesting(w) => runs[job[w].msg].kind = "ingestion"

\* "Retry-safe duplicate submission behavior for active ingestion jobs", as
\* far as the code has it: two active runs of one kind only come from requests
\* that overlapped.  A run that was committed before a request read anything,
\* and is still active, keeps that request from adding another, whatever
\* failed jobs, duplicate deliveries and deletions have done to the status.
DuplicatesOverlap ==
  \A p, q \in Requests :
    /\ p # q
    /\ runs[p].kind = runs[q].kind
    /\ runs[p].status \in {"queued", "running"}
    /\ runs[q].status \in {"queued", "running"}
    => p \notin req[q].before

\* A repository that is deleted for its owner is deleting or deleted.
DeletedStaysMarked == repo.deleted => repo.status \in {"deleting", "deleted"}

\* A finished run is not executed again by a later delivery of its message.
FinishedRunsStay ==
  [][\A q \in Requests :
       runs[q].status \in {"succeeded", "failed"} => runs'[q] = runs[q]]_runs

\* Every ingestion run that is queued finishes, unless the repository is
\* deleted first.
IngestionFinishes ==
  \A q \in Requests :
    runs[q] = [kind |-> "ingestion", status |-> "queued"]
      ~> runs[q].status \in {"succeeded", "failed"} \/ repo.deleted

\* Every indexing run that is queued finishes, unless the repository is
\* deleted first.
IndexingFinishes ==
  \A q \in Requests :
    runs[q] = [kind |-> "indexing", status |-> "queued"]
      ~> runs[q].status \in {"succeeded", "failed"} \/ repo.deleted

\* A deletion that meets no ingestion in progress is carried through.
DeletionCompletes ==
  repo.status = "deleting" /\ (\A w \in Workers : job[w].pc = "idle")
    ~> repo.status = "deleted"

\* The committed rows follow the ledger: each step of the detailed system is
\* one whole ledger transaction or changes nothing of it.
Ledger == INSTANCE RunLedger WITH
  Runs <- Requests,
  status <- repo.status,
  deleted <- repo.deleted,
  run <- [q \in Requests |-> IF runs[q].kind = "ingestion" THEN runs[q].status ELSE "none"]

ImplementsLedger == Ledger!Spec
=============================================================================
