--------------------- MODULE RepositoryLifecycleProofs ---------------------
(***************************************************************************)
(* Proofs about RepositoryLifecycle, for every set of requests and workers *)
(* and every fault budget.  Type correctness comes first; then IInv, the   *)
(* inductive invariant that orders what a request, its run, its message    *)
(* and the jobs that hold the message may look like together.              *)
(***************************************************************************)
EXTENDS RepositoryLifecycle, TLAPS

(* A run row has a kind exactly when it exists, and no commit ever leaves  *)
(* it running.                                                             *)
RunsShape ==
  \A q \in Requests :
    /\ runs[q].kind = "none" <=> runs[q].status = "none"
    /\ runs[q].status # "running"

(* A request that has not committed has no run; a message follows the      *)
(* commit; and what has been committed is there for whoever reads it.      *)
RequestOrder ==
  \A q \in Requests :
    /\ req[q].pc \in {"new", "loaded", "checked"} => runs[q].kind = "none"
    /\ msg[q] # "none" => req[q].pc = "done"
    /\ req[q].pc \in {"loaded", "checked"} /\ req[q].op # "create" => repo.status # "absent"
    /\ req[q].pc = "committed" \/ msg[q] # "none" =>
         /\ repo.status # "absent"
         /\ Task(q) = "ingest_repository" => runs[q].kind = "ingestion"

(* A busy worker holds a published message; one that read "deleting" works *)
(* for a repository that is deleted.                                       *)
JobOrder ==
  \A w \in Workers :
    /\ job[w].pc # "idle" => job[w].msg \in Requests /\ msg[job[w].msg] # "none"
    /\ job[w].pc \in {"runLocked", "cloning"} => Ingesting(w)
    /\ job[w].pc # "idle" /\ job[w].seen = "deleting" => repo.deleted

(* The row lock of a run has one holder.                                   *)
RunLockExclusive ==
  \A v, w \in Workers :
    /\ job[v].pc \in {"runLocked", "cloning"}
    /\ job[w].pc \in {"runLocked", "cloning"}
    /\ job[v].msg = job[w].msg
    => v = w

(* Before the repository exists there is no run; a repository in state     *)
(* deleting has its deletion date.                                         *)
RowsShape ==
  /\ repo.status = "absent" => \A q \in Requests : runs[q].kind = "none"
  /\ repo.status = "deleting" => repo.deleted

(* Once a request has passed its check, no run of its kind that was there  *)
(* before it is active; a run has the kind of its request.                 *)
EarlierRunsOver ==
  \A q \in Requests :
    /\ runs[q].kind \in {"none", RunKind(req[q].op)}
    /\ req[q].pc = "checked" => req[q].op \in {"sync", "index"}
    /\ \A p \in req[q].before :
         /\ runs[p].kind # "none"
         /\ /\ req[q].pc = "checked" \/ runs[q].kind # "none"
            /\ runs[p].kind = RunKind(req[q].op)
            => runs[p].status \notin {"queued", "running"}

(* However many create requests race, one registers the repository.        *)
OneRegistration ==
  \A p, q \in Requests :
    /\ req[p].op = "create" /\ runs[p].status # "none"
    /\ req[q].op = "create" /\ runs[q].status # "none"
    => p = q

(* No stale session ever brings a deleted repository back into view.       *)
DeletionIsSticky == [][repo.deleted => repo'.deleted]_repo

Order == RunsShape /\ RequestOrder /\ JobOrder /\ RunLockExclusive /\ RowsShape

IInv ==
  /\ TypeOK
  /\ Order
  /\ StatusBackedByRun
  /\ EventsMatchStatus
  /\ EventNumbersFresh
  /\ EarlierRunsOver
  /\ OneRegistration
----------------------------------------------------------------------------
(* A task is named by the operation that published it.                     *)
LEMMA TaskNames ==
  ASSUME NEW op
  PROVE  /\ TaskOf(op) = "ingest_repository" <=> op \in {"create", "sync"}
         /\ TaskOf(op) = "cleanup_repository_workspace" <=> op = "delete"
BY DEF TaskOf

(* A fault the budget allows keeps the counters natural numbers.           *)
LEMMA SpendType ==
  ASSUME TypeOK, NEW k \in FaultKinds, Spend(k)
  PROVE  used' \in [FaultKinds -> Nat]
BY BoundsAreNatural DEF TypeOK, Spend

(* What the handlers write keeps its type: the place a request has reached, *)
(* a new run with its first event, and the row.                            *)
LEMMA PlaceType ==
  ASSUME TypeOK, NEW q \in Requests,
         NEW pc \in {"new", "loaded", "checked", "committed", "done"}
  PROVE  [req EXCEPT ![q].pc = pc] \in [Requests -> RequestState]
<1>1. req[q] \in RequestState
  BY DEF TypeOK
<1>2. [req[q] EXCEPT !.pc = pc] \in RequestState
  BY <1>1 DEF RequestState
<1> QED BY <1>2 DEF TypeOK

LEMMA InsertType ==
  ASSUME TypeOK, NEW q \in Requests, NEW kind \in {"ingestion", "indexing"}, InsertRun(q, kind)
  PROVE  runs' \in [Requests -> RunRow] /\ events' \in [Requests -> EventRow]
<1>1. [kind |-> kind, status |-> "queued"] \in RunRow /\ [seq |-> 1, last |-> "queued"] \in EventRow
  BY DEF RunRow, EventRow
<1> QED BY <1>1 DEF TypeOK, InsertRun

LEMMA RowType ==
  ASSUME TypeOK
  PROVE  /\ [repo EXCEPT !.status = "queued"] \in RepoRow
         /\ [repo EXCEPT !.status = "deleting", !.deleted = TRUE] \in RepoRow
BY DEF TypeOK, RepoRow, RowState, RepositoryState

(* Type correctness, as one step of the system.                            *)
LEMMA TypeStep ==
  ASSUME TypeOK, [Next]_vars
  PROVE  TypeOK'
<1> USE DEF TypeOK
<1>1. ASSUME NEW q \in Requests, Handle(q) PROVE TypeOK'
  <2>1. CASE \E op \in Operations : Load(q, op)
    BY <2>1 DEF Load, Committed, RequestState, RepoRow
  <2>2. CASE CheckActive(q)
    BY <2>2 DEF CheckActive, RequestState
  <2>3. CASE CommitCreate(q)
    BY <2>3, PlaceType, InsertType, RowType DEF CommitCreate, EndCommit
  <2>4. CASE CommitSync(q)
    BY <2>4, PlaceType, InsertType, RowType DEF CommitSync, EndCommit
  <2>5. CASE CommitIndex(q)
    BY <2>5, PlaceType, InsertType DEF CommitIndex, EndCommit
  <2>6. CASE CommitDelete(q)
    BY <2>6, PlaceType, RowType DEF CommitDelete, EndCommit
  <2>7. CASE Abort(q)
    BY <2>7 DEF Abort, RequestState
  <2>8. CASE Enqueue(q)
    BY <2>8, PlaceType DEF Enqueue
  <2>9. CASE EnqueueFails(q)
    BY <2>9, PlaceType, SpendType DEF EnqueueFails, FaultKinds
  <2> QED BY <1>1, <2>1, <2>2, <2>3, <2>4, <2>5, <2>6, <2>7, <2>8, <2>9 DEF Handle
<1>2. ASSUME Broker PROVE TypeOK'
  <2>1. CASE BrokerRestart
    BY <2>1, SpendType DEF BrokerRestart, FaultKinds
  <2>2. ASSUME NEW q \in Requests, Redeliver(q) PROVE TypeOK'
    BY <2>2, SpendType DEF Redeliver, FaultKinds
  <2>3. ASSUME NEW q \in Requests, DiscardUnregistered(q) PROVE TypeOK'
    BY <2>3 DEF DiscardUnregistered
  <2> QED BY <1>2, <2>1, <2>2, <2>3 DEF Broker
<1>3. ASSUME NEW w \in Workers, NEW q \in Requests, Start(w, q) PROVE TypeOK'
  BY <1>3 DEF Start, JobState, RepoRow
<1>4. ASSUME NEW w \in Workers, Work(w) PROVE TypeOK'
  <2>1. CASE LockRun(w)
    <3>1. job[w].msg \in Requests /\ events[job[w].msg].seq \in Nat
      BY <2>1 DEF LockRun, EventRow
    <3>2. job' \in [Workers -> JobState]
      <4> DEFINE j == [job[w] EXCEPT !.pc = "runLocked", !.seq = events[job[w].msg].seq + 1]
      <4>1. events[job[w].msg].seq + 1 \in Nat
        BY <3>1
      <4>2. j \in JobState
        BY <4>1 DEF JobState
      <4>3. job' = [job EXCEPT ![w] = j]
        BY <2>1 DEF LockRun
      <4> QED BY <4>2, <4>3
    <3>3. \A v \in Workers : job'[v].pc # "idle" => job'[v].msg \in Requests
      BY <2>1, <3>1 DEF LockRun, JobState
    <3> QED BY <2>1, <3>2, <3>3 DEF LockRun
  <2>2. CASE RefuseIngest(w)
    BY <2>2 DEF RefuseIngest, JobState
  <2>3. CASE LockRepo(w)
    BY <2>3 DEF LockRepo, JobState
  <2>4. ASSUME NEW outcome \in Outcomes, Settle(w, outcome) PROVE TypeOK'
    <3>1. job[w].msg \in Requests /\ job[w].seq \in Nat
      BY <2>4 DEF Settle, JobState
    <3>2. repo' \in RepoRow
      BY <2>4 DEF Settle, SettleRepo, RepoRow, RowState, RepositoryState
    <3>3. runs' \in [Requests -> RunRow]
      BY <2>4, <3>1 DEF Settle, SettleRun, RunRow
    <3>4. events' \in [Requests -> EventRow]
      <4> DEFINE e == [seq  |-> job[w].seq + (IF outcome = "cloneFailed" THEN 1 ELSE 2),
                       last |-> IF outcome = "succeeded" THEN "completed" ELSE "failed"]
      <4>1. e \in EventRow
        BY <3>1 DEF EventRow
      <4>2. events' = [events EXCEPT ![job[w].msg] = e]
        BY <2>4 DEF Settle, SettleEvents
      <4> QED BY <4>1, <4>2
    <3>5. job' \in [Workers -> JobState]
      BY <2>4 DEF Settle, JobState
    <3>6. \A v \in Workers : job'[v].pc # "idle" => job'[v].msg \in Requests
      BY <2>4, <3>1 DEF Settle, JobState
    <3> QED BY <2>4, <3>2, <3>3, <3>4, <3>5, <3>6 DEF Settle
  <2>5. CASE CleanUp(w)
    BY <2>5 DEF CleanUp, RepoRow, JobState, RowState, RepositoryState
  <2>6. CASE Ack(w)
    BY <2>6 DEF Ack, IdleJob, JobState, RowState
  <2> QED BY <1>4, <2>1, <2>2, <2>3, <2>4, <2>5, <2>6 DEF Work
<1>5. ASSUME NEW w \in Workers, Raise(w) PROVE TypeOK'
  BY <1>5, SpendType DEF Raise, FaultKinds, JobState
<1>6. ASSUME NEW w \in Workers, Crash(w) PROVE TypeOK'
  <2>1. used' \in [FaultKinds -> Nat]
    BY <1>6, SpendType DEF Crash, FaultKinds
  <2>2. job' \in [Workers -> JobState]
    BY <1>6 DEF Crash, IdleJob, JobState, RowState
  <2>3. msg' \in [Requests -> {"none", "ready", "unacked", "gone"}]
    BY <1>6 DEF Crash
  <2>4. \A v \in Workers : job'[v].pc # "idle" => job'[v].msg \in Requests
    BY <1>6 DEF Crash, IdleJob
  <2> QED BY <1>6, <2>1, <2>2, <2>3, <2>4 DEF Crash
<1>7. CASE UNCHANGED vars
  BY <1>7 DEF vars
<1> QED BY <1>1, <1>2, <1>3, <1>4, <1>5, <1>6, <1>7 DEF Next
----------------------------------------------------------------------------
(* Handlers and broker keep the order of rows, messages and jobs.          *)
LEMMA HandleOrder ==
  ASSUME TypeOK, Order, NEW q \in Requests, Handle(q)
  PROVE  Order'
<1> USE DEF Order, RunsShape, RequestOrder, JobOrder, RunLockExclusive, RowsShape,
            TypeOK, Task, Ingesting
<1>1. CASE \E op \in Operations : Load(q, op)
  BY <1>1 DEF Load, Visible
<1>2. CASE CheckActive(q)
  BY <1>2 DEF CheckActive, RequestState
<1>3. CASE CommitCreate(q)
  BY <1>3 DEF CommitCreate, InsertRun, EndCommit, RequestState, RepoRow
<1>4. CASE CommitSync(q)
  BY <1>4 DEF CommitSync, InsertRun, EndCommit, RequestState, RepoRow
<1>5. CASE CommitIndex(q)
  BY <1>5, TaskNames DEF CommitIndex, InsertRun, EndCommit, RequestState
<1>6. CASE CommitDelete(q)
  BY <1>6, TaskNames DEF CommitDelete, EndCommit, RequestState, RepoRow
<1>7. CASE Abort(q)
  BY <1>7 DEF Abort, RequestState
<1>8. CASE Enqueue(q)
  BY <1>8 DEF Enqueue, RequestState
<1>9. CASE EnqueueFails(q)
  BY <1>9 DEF EnqueueFails, RequestState
<1> QED BY <1>1, <1>2, <1>3, <1>4, <1>5, <1>6, <1>7, <1>8, <1>9 DEF Handle

LEMMA BrokerOrder ==
  ASSUME TypeOK, Order, Broker
  PROVE  Order'
<1> USE DEF Order, RunsShape, RequestOrder, JobOrder, RunLockExclusive, RowsShape,
            TypeOK, Task, Ingesting
<1>1. CASE BrokerRestart
  BY <1>1 DEF BrokerRestart
<1>2. ASSUME NEW q \in Requests, Redeliver(q) PROVE Order'
  BY <1>2 DEF Redeliver
<1>3. ASSUME NEW q \in Requests, DiscardUnregistered(q) PROVE Order'
  BY <1>3 DEF DiscardUnregistered
<1> QED BY <1>1, <1>2, <1>3 DEF Broker

(* So do the steps of a job.                                               *)
LEMMA WorkOrder ==
  ASSUME TypeOK, Order, NEW w \in Workers,
         (\E q \in Requests : Start(w, q)) \/ Work(w) \/ Raise(w) \/ Crash(w)
  PROVE  Order'
<1> USE DEF Order, RunsShape, RequestOrder, JobOrder, RunLockExclusive, RowsShape,
            TypeOK, Task, Ingesting
<1>1. ASSUME NEW q \in Requests, Start(w, q) PROVE Order'
  BY <1>1 DEF Start
<1>2. CASE LockRun(w)
  BY <1>2 DEF LockRun, RunUnlocked, HoldsRun, JobState
<1>3. CASE RefuseIngest(w)
  BY <1>3 DEF RefuseIngest, JobState
<1>4. CASE LockRepo(w)
  BY <1>4 DEF LockRepo, JobState
<1>5. ASSUME NEW outcome \in Outcomes, Settle(w, outcome) PROVE Order'
  BY <1>5 DEF Settle, SettleRepo, SettleRun, Outcomes, JobState, RepoRow, RunRow
<1>6. CASE CleanUp(w)
  BY <1>6 DEF CleanUp, JobState, RepoRow
<1>7. CASE Ack(w)
  BY <1>7 DEF Ack, IdleJob
<1>8. CASE Raise(w)
  BY <1>8 DEF Raise, JobState
<1>9. CASE Crash(w)
  BY <1>9 DEF Crash, IdleJob
<1> QED BY <1>1, <1>2, <1>3, <1>4, <1>5, <1>6, <1>7, <1>8, <1>9 DEF Work
LEMMA OrderStep ==
  ASSUME TypeOK, Order, [Next]_vars
  PROVE  Order'
<1>1. CASE UNCHANGED vars
  BY <1>1 DEF vars, Order, RunsShape, RequestOrder, JobOrder, RunLockExclusive,
              RowsShape, Task, Ingesting
<1> QED BY <1>1, HandleOrder, BrokerOrder, WorkOrder DEF Next

----------------------------------------------------------------------------
(* Only handlers that commit and jobs that settle touch runs and events.   *)
LEMMA RowsTouched ==
  ASSUME [Next]_vars
  PROVE  \/ UNCHANGED <<repo, runs, events>>
         \/ \E q \in Requests : CommitCreate(q) \/ CommitSync(q) \/ CommitIndex(q) \/ CommitDelete(q)
         \/ \E w \in Workers : CleanUp(w) \/ \E outcome \in Outcomes : Settle(w, outcome)
BY DEF Next, vars, Handle, Broker, Work, Load, CheckActive, Abort, Enqueue, EnqueueFails,
       BrokerRestart, Redeliver, DiscardUnregistered, Start, LockRun, RefuseIngest, LockRepo,
       Ack, Raise, Crash

(* A status is overwritten together with the run that justifies it.        *)
LEMMA BackedStep ==
  ASSUME TypeOK, Order, StatusBackedByRun, [Next]_vars
  PROVE  StatusBackedByRun'
<1> USE DEF StatusBackedByRun, BackedBy, TypeOK
<1>1. CASE UNCHANGED <<repo, runs, events>>
  BY <1>1
<1>2. ASSUME NEW q \in Requests, CommitCreate(q) \/ CommitSync(q) PROVE StatusBackedByRun'
  <2>1. repo'.status = "queued"
    BY <1>2 DEF CommitCreate, CommitSync, RepoRow
  <2>2. runs'[q] = [kind |-> "ingestion", status |-> "queued"]
    BY <1>2 DEF CommitCreate, CommitSync, InsertRun
  <2> QED BY <2>1, <2>2
<1>3. ASSUME NEW q \in Requests, CommitIndex(q) PROVE StatusBackedByRun'
  <2>1. runs[q].kind = "none" /\ repo' = repo
    BY <1>3 DEF CommitIndex, Order, RequestOrder
  <2>2. \A r \in Requests : r # q => runs'[r] = runs[r]
    BY <1>3 DEF CommitIndex, InsertRun
  <2> QED BY <2>1, <2>2
<1>4. ASSUME NEW q \in Requests, CommitDelete(q) PROVE StatusBackedByRun'
  BY <1>4 DEF CommitDelete, RepoRow
<1>5. ASSUME NEW w \in Workers, CleanUp(w) PROVE StatusBackedByRun'
  BY <1>5 DEF CleanUp, RepoRow
<1>6. ASSUME NEW w \in Workers, NEW outcome \in Outcomes, Settle(w, outcome)
      PROVE StatusBackedByRun'
  <2>1. job[w].msg \in Requests /\ runs[job[w].msg].kind = "ingestion"
    BY <1>6 DEF Settle, Order, JobOrder, RequestOrder, Ingesting
  <2>2. runs'[job[w].msg] = [kind |-> "ingestion",
                             status |-> IF outcome = "succeeded" THEN "succeeded" ELSE "failed"]
    BY <1>6, <2>1 DEF Settle, SettleRun, RunRow
  <2>3. repo'.status = IF outcome = "succeeded" THEN "ready_for_indexing" ELSE "failed"
    BY <1>6 DEF Settle, SettleRepo, RepoRow
  <2> QED BY <2>1, <2>2, <2>3
<1> QED BY <1>1, <1>2, <1>3, <1>4, <1>5, <1>6, RowsTouched

LEMMA EventsStep ==
  ASSUME TypeOK, Order, EventsMatchStatus, [Next]_vars
  PROVE  EventsMatchStatus'
<1> USE DEF EventsMatchStatus, TypeOK
<1>1. CASE UNCHANGED <<repo, runs, events>>
  BY <1>1
<1>2. ASSUME NEW q \in Requests,
             CommitCreate(q) \/ CommitSync(q) \/ CommitIndex(q) \/ CommitDelete(q)
      PROVE EventsMatchStatus'
  BY <1>2 DEF CommitCreate, CommitSync, CommitIndex, CommitDelete, InsertRun
<1>3. ASSUME NEW w \in Workers, CleanUp(w) PROVE EventsMatchStatus'
  BY <1>3 DEF CleanUp
<1>4. ASSUME NEW w \in Workers, NEW outcome \in Outcomes, Settle(w, outcome)
      PROVE EventsMatchStatus'
  BY <1>4 DEF Settle, SettleRun, SettleEvents, RunRow, EventRow, Outcomes
<1> QED BY <1>1, <1>2, <1>3, <1>4, RowsTouched

(* The run's row lock keeps the sequence number fresh from the query to    *)
(* the insert: no one else settles this run in between.                    *)
LEMMA FreshStep ==
  ASSUME TypeOK, Order, EventNumbersFresh, [Next]_vars
  PROVE  EventNumbersFresh'
<1> USE DEF EventNumbersFresh, TypeOK
<1>1. ASSUME NEW q \in Requests, Handle(q) PROVE EventNumbersFresh'
  <2>1. \A w \in Workers : job[w].pc \in {"runLocked", "cloning"} /\ job[w].msg = q => msg[q] # "none"
    BY DEF Order, JobOrder
  <2>2. job' = job
    BY <1>1 DEF Handle, Load, CheckActive, CommitCreate, CommitSync, CommitIndex,
                CommitDelete, EndCommit, Abort, Enqueue, EnqueueFails
  <2>3. events' = events \/ req[q].pc \in {"loaded", "checked"}
    BY <1>1 DEF Handle, Load, CheckActive, CommitCreate, CommitSync, CommitIndex,
                CommitDelete, EndCommit, Abort, Enqueue, EnqueueFails
  <2>4. \A r \in Requests \ {q} : events'[r] = events[r]
    BY <1>1 DEF Handle, Load, CheckActive, CommitCreate, CommitSync, CommitIndex, InsertRun,
                CommitDelete, EndCommit, Abort, Enqueue, EnqueueFails
  <2> QED BY <2>1, <2>2, <2>3, <2>4 DEF Order, RequestOrder
<1>2. CASE Broker
  BY <1>2 DEF Broker, BrokerRestart, Redeliver, DiscardUnregistered
<1>3. ASSUME NEW w \in Workers, NEW q \in Requests, Start(w, q) PROVE EventNumbersFresh'
  BY <1>3 DEF Start
<1>4. ASSUME NEW w \in Workers, Work(w) \/ Raise(w) \/ Crash(w) PROVE EventNumbersFresh'
  <2>1. CASE LockRun(w)
    BY <2>1 DEF LockRun, JobState
  <2>2. CASE RefuseIngest(w) \/ LockRepo(w) \/ CleanUp(w) \/ Ack(w) \/ Raise(w) \/ Crash(w)
    BY <2>2 DEF RefuseIngest, LockRepo, CleanUp, Ack, Raise, Crash, IdleJob, JobState
  <2>3. ASSUME NEW outcome \in Outcomes, Settle(w, outcome) PROVE EventNumbersFresh'
    BY <2>3 DEF Settle, SettleEvents, JobState, Order, RunLockExclusive
  <2> QED BY <1>4, <2>1, <2>2, <2>3 DEF Work
<1>5. CASE UNCHANGED vars
  BY <1>5 DEF vars
<1> QED BY <1>1, <1>2, <1>3, <1>4, <1>5 DEF Next

(* What CheckActive saw over stays over: runs only leave queued and        *)
(* running, and a request's own run comes after those it found.            *)
LEMMA EarlierRunsStep ==
  ASSUME TypeOK, Order, EarlierRunsOver, [Next]_vars
  PROVE  EarlierRunsOver'
<1> USE DEF EarlierRunsOver, TypeOK
<1>1. ASSUME NEW q \in Requests, NEW op \in Operations, Load(q, op)
      PROVE  EarlierRunsOver'
  <2>1. runs' = runs /\ \A r \in Requests \ {q} : req'[r] = req[r]
    BY <1>1 DEF Load
  <2>2. req'[q].pc = "loaded" /\ req'[q].before = Committed /\ runs[q].kind = "none"
    BY <1>1 DEF Load, Order, RequestOrder
  <2> QED BY <2>1, <2>2 DEF Committed
<1>2. ASSUME NEW q \in Requests, CheckActive(q) PROVE EarlierRunsOver'
  <2>1. runs' = runs /\ \A r \in Requests \ {q} : req'[r] = req[r]
    BY <1>2 DEF CheckActive
  <2>2. /\ req'[q].op = req[q].op /\ req[q].op \in {"sync", "index"}
        /\ req'[q].before = req[q].before
    BY <1>2 DEF CheckActive, RequestState
  <2>3. \A p \in Requests : runs[p].kind = RunKind(req[q].op) =>
                              runs[p].status \notin {"queued", "running"}
    BY <1>2 DEF CheckActive, ActiveRuns
  <2>4. req[q].before \subseteq Requests
    BY DEF RequestState
  <2> QED BY <2>1, <2>2, <2>3, <2>4
<1>3. ASSUME NEW q \in Requests, CommitCreate(q) \/ CommitSync(q) \/ CommitIndex(q)
      PROVE  EarlierRunsOver'
  <2>1. runs[q].kind = "none"
    BY <1>3 DEF CommitCreate, CommitSync, CommitIndex, Order, RequestOrder
  <2>2. /\ \A r \in Requests \ {q} : req'[r] = req[r] /\ runs'[r] = runs[r]
        /\ req'[q].op = req[q].op /\ req'[q].before = req[q].before
        /\ req'[q].pc = "committed"
    BY <1>3 DEF CommitCreate, CommitSync, CommitIndex, InsertRun, EndCommit, RequestState
  <2>3. runs'[q].kind = RunKind(req[q].op)
    BY <1>3 DEF CommitCreate, CommitSync, CommitIndex, InsertRun, RunKind
  <2>4. \A r \in Requests : q \notin req[r].before
    BY <2>1
  <2>5. \A p \in req[q].before :
          runs[p].kind = RunKind(req[q].op) => runs[p].status \notin {"queued", "running"}
    <3>1. CASE CommitCreate(q)
      <4>1. \A r \in Requests : runs[r].kind = "none"
        BY <3>1 DEF CommitCreate, Order, RowsShape
      <4>2. req[q].before \subseteq Requests
        BY DEF RequestState
      <4> QED BY <4>1, <4>2
    <3>2. CASE CommitSync(q) \/ CommitIndex(q)
      BY <3>2 DEF CommitSync, CommitIndex
    <3> QED BY <1>3, <3>1, <3>2
  <2>6. \A r \in Requests : req[r].before \subseteq Requests
    BY DEF RequestState
  <2> QED BY <2>2, <2>3, <2>4, <2>5, <2>6
<1>4. ASSUME NEW w \in Workers, NEW outcome \in Outcomes, Settle(w, outcome)
      PROVE  EarlierRunsOver'
  <2>1. /\ req' = req
        /\ \A p \in Requests : runs'[p].kind = runs[p].kind
        /\ \A p \in Requests : runs'[p].status = runs[p].status
                               \/ runs'[p].status \in {"succeeded", "failed"}
    BY <1>4 DEF Settle, SettleRun, RunRow
  <2>2. \A r \in Requests : req[r].before \subseteq Requests
    BY DEF RequestState
  <2> QED BY <2>1, <2>2
<1>5. ASSUME NEW q \in Requests,
             CommitDelete(q) \/ Abort(q) \/ Enqueue(q) \/ EnqueueFails(q)
      PROVE  EarlierRunsOver'
  <2>1. runs' = runs
    BY <1>5 DEF CommitDelete, Abort, Enqueue, EnqueueFails
  <2>2. /\ \A r \in Requests : req'[r].op = req[r].op /\ req'[r].before = req[r].before
        /\ \A r \in Requests : req'[r].pc = "checked" => req[r].pc = "checked"
    <3>1. CASE CommitDelete(q)
      BY <3>1 DEF CommitDelete, EndCommit, RequestState
    <3>2. CASE Abort(q) \/ Enqueue(q) \/ EnqueueFails(q)
      <4>1. req' = [req EXCEPT ![q].pc = "done"]
        BY <3>2 DEF Abort, Enqueue, EnqueueFails
      <4> QED BY <4>1 DEF RequestState
    <3> QED BY <1>5, <3>1, <3>2
  <2> QED BY <2>1, <2>2
<1>6. CASE UNCHANGED <<runs, req>>
  BY <1>6
<1>7. \/ UNCHANGED <<runs, req>>
      \/ \E q \in Requests : Handle(q)
      \/ \E w \in Workers : \E outcome \in Outcomes : Settle(w, outcome)
  BY DEF Next, vars, Broker, Work, BrokerRestart, Redeliver, DiscardUnregistered, Start,
         LockRun, RefuseIngest, LockRepo, CleanUp, Ack, Raise, Crash
<1> QED BY <1>1, <1>2, <1>3, <1>4, <1>5, <1>6, <1>7 DEF Handle

(* The row that the first registration inserts keeps every later one out.  *)
LEMMA RegistrationStep ==
  ASSUME TypeOK, Order, OneRegistration, [Next]_vars
  PROVE  OneRegistration'
<1> USE DEF OneRegistration, TypeOK
<1>1. ASSUME NEW q \in Requests, CommitCreate(q) PROVE OneRegistration'
  <2>1. \A r \in Requests : runs[r].status = "none"
    BY <1>1 DEF CommitCreate, Order, RowsShape, RunsShape
  <2>2. \A r \in Requests : r # q => runs'[r] = runs[r]
    BY <1>1 DEF CommitCreate, InsertRun
  <2> QED BY <2>1, <2>2
<1>2. ASSUME NEW q \in Requests, CommitSync(q) \/ CommitIndex(q) \/ CommitDelete(q)
      PROVE OneRegistration'
  BY <1>2 DEF CommitSync, CommitIndex, CommitDelete, InsertRun, EndCommit, RequestState
<1>3. ASSUME NEW w \in Workers, NEW outcome \in Outcomes, Settle(w, outcome)
      PROVE OneRegistration'
  <2>1. job[w].msg \in Requests /\ runs[job[w].msg].kind = "ingestion"
    BY <1>3 DEF Settle, Order, JobOrder, RequestOrder, Ingesting
  <2>2. runs[job[w].msg].status # "none"
    BY <2>1 DEF Order, RunsShape
  <2>3. \A r \in Requests : runs'[r].status # "none" => runs[r].status # "none"
    BY <1>3, <2>2 DEF Settle, SettleRun
  <2> QED BY <1>3, <2>3 DEF Settle
<1>4. ASSUME NEW q \in Requests, NEW op \in Operations, Load(q, op) PROVE OneRegistration'
  <2>1. runs[q].status = "none" /\ runs' = runs
    BY <1>4 DEF Load, Order, RequestOrder, RunsShape
  <2>2. \A r \in Requests : r # q => req'[r] = req[r]
    BY <1>4 DEF Load
  <2> QED BY <2>1, <2>2
<1>5. ASSUME NEW q \in Requests,
             CheckActive(q) \/ Abort(q) \/ Enqueue(q) \/ EnqueueFails(q)
      PROVE OneRegistration'
  BY <1>5 DEF CheckActive, Abort, Enqueue, EnqueueFails, RequestState
<1>6. CASE UNCHANGED <<runs, req>>
  BY <1>6
<1>7. \/ UNCHANGED <<runs, req>>
      \/ \E q \in Requests : Handle(q)
      \/ \E w \in Workers : \E outcome \in Outcomes : Settle(w, outcome)
  BY DEF Next, vars, Broker, Work, BrokerRestart, Redeliver, DiscardUnregistered, Start,
         LockRun, RefuseIngest, LockRepo, CleanUp, Ack, Raise, Crash
<1> QED BY <1>1, <1>2, <1>3, <1>4, <1>5, <1>6, <1>7 DEF Handle

----------------------------------------------------------------------------
LEMMA InitIInv == Init => IInv
<1> SUFFICES ASSUME Init PROVE IInv
  OBVIOUS
<1> USE DEF Init, IdleJob
<1>1. TypeOK
  BY DEF TypeOK, RepoRow, RunRow, EventRow, RequestState, JobState, RowState
<1>2. Order
  BY DEF Order, RunsShape, RequestOrder, JobOrder, RunLockExclusive, RowsShape
<1>3. StatusBackedByRun /\ EventsMatchStatus
  BY DEF StatusBackedByRun, BackedBy, EventsMatchStatus
<1>4. EventNumbersFresh /\ OneRegistration /\ EarlierRunsOver
  BY DEF EventNumbersFresh, OneRegistration, EarlierRunsOver
<1> QED BY <1>1, <1>2, <1>3, <1>4 DEF IInv

(* IInv holds in every state the system reaches.                           *)
THEOREM Invariance == Spec => []IInv
<1>1. IInv /\ [Next]_vars => IInv'
  BY TypeStep, OrderStep, BackedStep, EventsStep, FreshStep, EarlierRunsStep, RegistrationStep DEF IInv
<1> QED BY InitIInv, <1>1, PTL DEF Spec

(* Every variable keeps its type.                                          *)
THEOREM TypeCorrect == Spec => []TypeOK
<1>1. IInv => TypeOK
  BY DEF IInv
<1> QED BY Invariance, <1>1, PTL

(* The status of the repository is always backed by a run in the matching  *)
(* status: transaction boundaries of sync, ingest and cleanup.             *)
THEOREM StatusIsBacked == Spec => []StatusBackedByRun
<1>1. IInv => StatusBackedByRun
  BY DEF IInv
<1> QED BY Invariance, <1>1, PTL

(* The last event of a run names the status of its row.                    *)
THEOREM EventsAgree == Spec => []EventsMatchStatus
<1>1. IInv => EventsMatchStatus
  BY DEF IInv
<1> QED BY Invariance, <1>1, PTL

(* A job's event numbers do not collide with another delivery's: add_event *)
(* numbers its events only after the flush that locks the run.             *)
THEOREM EventNumbersUnique == Spec => []EventNumbersFresh
<1>1. IInv => EventNumbersFresh
  BY DEF IInv
<1> QED BY Invariance, <1>1, PTL

(* No job looks for a row that is not there: commit before send_task.      *)
THEOREM RowsBeforeJobs == Spec => []JobsFindTheirRows
<1>1. IInv => JobsFindTheirRows
  BY DEF IInv, Order, JobOrder, RequestOrder, JobsFindTheirRows, Ingesting
<1> QED BY Invariance, <1>1, PTL

(* Two active runs of a kind come from overlapping requests only: the      *)
(* check in sync and create_index_run works between requests that do not   *)
(* overlap, and nothing a worker does reopens a run.                       *)
THEOREM DuplicatesOnlyOverlap == Spec => []DuplicatesOverlap
<1>1. IInv => DuplicatesOverlap
  BY DEF IInv, TypeOK, RunRow, Order, RunsShape, EarlierRunsOver, DuplicatesOverlap
<1> QED BY Invariance, <1>1, PTL

(* One create request registers the repository, however many race.         *)
THEOREM RegisteredOnce == Spec => []OneRegistration
<1>1. IInv => OneRegistration
  BY DEF IInv
<1> QED BY Invariance, <1>1, PTL

(* deleted_at is never cleared, whatever stale session commits.            *)
THEOREM DeletionStays == Spec => DeletionIsSticky
<1>1. IInv /\ [Next]_vars => [repo.deleted => repo'.deleted]_repo
  <2> SUFFICES ASSUME IInv, [Next]_vars, repo.deleted, repo' # repo
               PROVE  repo'.deleted
    OBVIOUS
  <2>1. repo \in RepoRow
    BY DEF IInv, TypeOK
  <2>2. CASE \E q \in Requests : CommitCreate(q) \/ CommitSync(q) \/ CommitIndex(q) \/ CommitDelete(q)
    BY <2>1, <2>2 DEF CommitCreate, CommitSync, CommitIndex, CommitDelete, RepoRow
  <2>3. CASE \E w \in Workers : CleanUp(w) \/ \E outcome \in Outcomes : Settle(w, outcome)
    BY <2>1, <2>3 DEF CleanUp, Settle, SettleRepo, RepoRow
  <2> QED BY <2>2, <2>3, RowsTouched
<1> QED BY Invariance, <1>1, PTL DEF Spec, DeletionIsSticky
----------------------------------------------------------------------------
(* The refinement: each commit is one whole transaction of the ledger.     *)
LedgerRun == [q \in Requests |-> IF runs[q].kind = "ingestion" THEN runs[q].status ELSE "none"]

LEMMA LedgerStep ==
  ASSUME TypeOK, Order, [Next]_vars
  PROVE  [Ledger!Next]_(Ledger!ledger)
<1> USE DEF TypeOK
<1>1. CASE UNCHANGED <<repo, runs, events>>
  BY <1>1 DEF Ledger!ledger
<1>2. ASSUME NEW q \in Requests, CommitCreate(q) PROVE Ledger!Register(q)
  BY <1>2 DEF CommitCreate, InsertRun, Ledger!Register, RepoRow
<1>3. ASSUME NEW q \in Requests, CommitSync(q) PROVE Ledger!Resubmit(q)
  <2>1. repo.status # "absent" /\ runs[q].kind = "none"
    BY <1>3 DEF CommitSync, Order, RequestOrder
  <2> QED BY <1>3, <2>1 DEF CommitSync, InsertRun, Ledger!Resubmit, RepoRow
<1>4. ASSUME NEW q \in Requests, CommitIndex(q) PROVE UNCHANGED Ledger!ledger
  <2>1. runs[q].kind = "none"
    BY <1>4 DEF CommitIndex, Order, RequestOrder
  <2>2. LedgerRun' = LedgerRun
    BY <1>4, <2>1 DEF CommitIndex, InsertRun, LedgerRun
  <2> QED BY <1>4, <2>2 DEF CommitIndex, LedgerRun, Ledger!ledger
<1>5. ASSUME NEW q \in Requests, CommitDelete(q) PROVE Ledger!MarkDeleting
  <2>1. repo.status # "absent"
    BY <1>5 DEF CommitDelete, Order, RequestOrder
  <2> QED BY <1>5, <2>1 DEF CommitDelete, Ledger!MarkDeleting, RepoRow
<1>6. ASSUME NEW w \in Workers, CleanUp(w) PROVE [Ledger!Next]_(Ledger!ledger)
  <2>1. CASE job[w].seen = "deleting"
    <3>1. repo.deleted
      BY <1>6, <2>1 DEF CleanUp, Order, JobOrder
    <3> QED BY <1>6, <2>1, <3>1 DEF CleanUp, RepoRow, Ledger!MarkDeleted, Ledger!Next
  <2>2. CASE job[w].seen # "deleting"
    BY <1>6, <2>2 DEF CleanUp, Ledger!ledger
  <2> QED BY <2>1, <2>2
<1>7. ASSUME NEW w \in Workers, NEW outcome \in Outcomes, Settle(w, outcome),
             NEW q \in Requests, q = job[w].msg
      PROVE Ledger!Settle(q)
  <2> DEFINE s == IF outcome = "succeeded" THEN "succeeded" ELSE "failed"
  <2>1. runs[q].kind = "ingestion" /\ runs[q].status # "none"
    BY <1>7 DEF Settle, Order, JobOrder, RequestOrder, RunsShape, Ingesting
  <2>2. LedgerRun' = [LedgerRun EXCEPT ![q] = s]
    BY <1>7, <2>1 DEF Settle, SettleRun, RunRow, LedgerRun
  <2>3. LedgerRun[q] # "none"
    BY <2>1 DEF LedgerRun
  <2>4. /\ repo'.status = IF outcome = "succeeded" THEN "ready_for_indexing" ELSE "failed"
        /\ repo'.deleted = repo.deleted
    BY <1>7 DEF Settle, SettleRepo, RepoRow
  <2> QED BY <2>2, <2>3, <2>4 DEF LedgerRun, Ledger!Settle
<1>8. ASSUME NEW q \in Requests,
             CommitCreate(q) \/ CommitSync(q) \/ CommitIndex(q) \/ CommitDelete(q)
      PROVE [Ledger!Next]_(Ledger!ledger)
  BY <1>8, <1>2, <1>3, <1>4, <1>5 DEF Ledger!Next
<1>9. ASSUME NEW w \in Workers, NEW outcome \in Outcomes, Settle(w, outcome)
      PROVE [Ledger!Next]_(Ledger!ledger)
  <2>1. PICK q \in Requests : q = job[w].msg
    BY <1>9 DEF Settle
  <2>2. Ledger!Settle(q)
    BY <1>7, <1>9, <2>1
  <2> QED BY <2>2 DEF Ledger!Next
<1> QED BY <1>1, <1>6, <1>8, <1>9, RowsTouched

(* Every behaviour of handlers, broker and workers is, on the committed    *)
(* rows, a behaviour of the ledger.                                        *)
THEOREM RefinesLedger == Spec => ImplementsLedger
<1>1. Init => Ledger!Init
  BY DEF Init, Ledger!Init
<1>2. IInv /\ [Next]_vars => [Ledger!Next]_(Ledger!ledger)
  BY LedgerStep DEF IInv
<1> QED BY Invariance, <1>1, <1>2, PTL DEF Spec, ImplementsLedger, Ledger!Spec
=============================================================================
