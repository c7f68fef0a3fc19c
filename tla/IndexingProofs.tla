--------------------------- MODULE IndexingProofs ---------------------------
(***************************************************************************)
(* Proofs about Indexing, for every set of requests, workers and commits   *)
(* and every bound.                                                        *)
(***************************************************************************)
EXTENDS Indexing, TLAPS

(* What jobs and handlers may still rely on of the rows they loaded: the   *)
(* repository has not lost its index status, a snapshot that was there is  *)
(* there unless the repository is deleted, and cleanup runs only then.     *)
Loaded ==
  /\ \A w \in Workers :
       /\ job[w].saw.indexed # None => repo.indexed # None
       /\ job[w].pc = "reuse" /\ ~repo.deleted => job[w].saw.latest \in snapshot
  /\ \A q \in Requests : req[q].op = "delete" /\ req[q].pc = "committed" => repo.deleted

IInv ==
  /\ TypeOK /\ Loaded
  /\ ChunksFollowFiles /\ IndexedHasSnapshot /\ DeletedHasNoIndex
----------------------------------------------------------------------------
(* What a flush leaves in each column.                                     *)
LEMMA FlushColumns ==
  ASSUME TypeOK, NEW saw \in RepoRow, NEW row \in RepoRow
  PROVE  /\ Flush(saw, row) \in RepoRow
         /\ Flush(saw, row).status \in {repo.status, row.status}
         /\ row.status # saw.status => Flush(saw, row).status = row.status
         /\ Flush(saw, row).latest \in {repo.latest, row.latest}
         /\ row.latest = saw.latest => Flush(saw, row).latest = repo.latest
         /\ Flush(saw, row).indexed \in {repo.indexed, row.indexed}
         /\ row.indexed = saw.indexed => Flush(saw, row).indexed = repo.indexed
         /\ row.indexed # saw.indexed => Flush(saw, row).indexed = row.indexed
         /\ Flush(saw, row).deleted <=> repo.deleted \/ row.deleted
  BY DEF Flush, TypeOK, RepoRow

LEMMA StateNames ==
  /\ "queued" \in States /\ "ready_for_indexing" \in States /\ "ready" \in States
  /\ "failed" \in States /\ "deleting" \in States /\ "deleted" \in States
  /\ NoRepo \in RepoRow
  /\ NoRepo.status = "absent" /\ NoRepo.latest = None /\ NoRepo.indexed = None /\ ~NoRepo.deleted
  /\ \A saw \in RepoRow : saw.status \in AllowedFrom("cloning") => saw.status = "queued"
  BY DEF States, NoRepo, RepoRow, AllowedFrom

(* A job ends or makes a step; a request moves on.                         *)
LEMMA JobMoves ==
  ASSUME TypeOK, NEW w \in Workers
  PROVE  /\ [job EXCEPT ![w] = Idle] \in [Workers -> JobState]
         /\ \A pc \in {"started", "reuse", "build"} :
              /\ [job EXCEPT ![w].pc = pc] \in [Workers -> JobState]
              /\ [job EXCEPT ![w].pc = pc][w].of = job[w].of
              /\ [job EXCEPT ![w].pc = pc][w].pc = pc
              /\ [job EXCEPT ![w].pc = pc][w].saw = job[w].saw
         /\ Idle.pc = "idle" /\ Idle.saw = NoRepo
  <1>1. Idle \in JobState /\ Idle.pc = "idle" /\ Idle.saw = NoRepo
    BY StateNames DEF Idle, JobState
  <1>2. \A pc \in {"started", "reuse", "build"} :
          /\ [job[w] EXCEPT !.pc = pc] \in JobState
          /\ [job[w] EXCEPT !.pc = pc].of = job[w].of
          /\ [job[w] EXCEPT !.pc = pc].pc = pc
          /\ [job[w] EXCEPT !.pc = pc].saw = job[w].saw
    BY DEF TypeOK, JobState
  <1> QED BY <1>1, <1>2 DEF TypeOK

LEMMA RequestMoves ==
  ASSUME TypeOK, NEW q \in Requests, NEW pc \in {"committed", "aborted"},
         EndSession(q, pc)
  PROVE  /\ req' \in [Requests -> RequestState]
         /\ req'[q].pc = pc /\ req'[q].op = req[q].op
         /\ \A p \in Requests \ {q} : req'[p] = req[p]
  <1>0. req[q] \in RequestState
    BY DEF TypeOK
  <1>1. /\ [req[q] EXCEPT !.pc = pc, !.saw = NoRepo] \in RequestState
        /\ [req[q] EXCEPT !.pc = pc, !.saw = NoRepo].pc = pc
        /\ [req[q] EXCEPT !.pc = pc, !.saw = NoRepo].op = req[q].op
    BY <1>0, StateNames DEF RequestState
  <1> QED BY <1>1 DEF EndSession, TypeOK
----------------------------------------------------------------------------
(* How each step writes the repository's row: who moves latest and indexed, *)
(* and who can make the status ready or deleted.                           *)
KeepsIndexed ==
  repo'.indexed = repo.indexed /\ (repo'.status = "ready" => repo.status = "ready")

SetsIndexed(w) ==
  /\ Reuse(w) \/ Build(w)
  /\ \/ repo'.indexed = job[w].saw.latest
     \/ repo'.indexed = repo.indexed /\ job[w].saw.indexed = job[w].saw.latest

RepoStep ==
  /\ repo' \in RepoRow
  /\ repo.deleted => repo'.deleted
  /\ KeepsIndexed \/ \E w \in Workers : SetsIndexed(w)
  /\ \/ repo'.latest = repo.latest
     \/ \E w \in Workers, c \in Commits : Ingest(w, c) /\ repo'.latest = c
  /\ repo'.status = "deleted" => repo.status = "deleted" \/ \E w \in Workers : CleanUp(w)

LEMMA RepoMoves ==
  ASSUME TypeOK, [Next]_vars
  PROVE  RepoStep
<1> USE DEF RepoStep
<1>0. \A w \in Workers : job[w].saw \in RepoRow
  BY DEF TypeOK, JobState
<1>1. \A q \in Requests : req[q].saw \in RepoRow
  BY DEF TypeOK, RequestState
<1>2. ASSUME NEW q \in Requests, Create(q) PROVE RepoStep
  BY <1>2 DEF Create, TypeOK, RepoRow, States, KeepsIndexed
<1>3. ASSUME NEW q \in Requests, CommitSync(q) PROVE RepoStep
  <2> DEFINE saw == req[q].saw
             row == [saw EXCEPT !.status = "queued"]
  <2>1. /\ row \in RepoRow /\ row.indexed = saw.indexed
        /\ row.latest = saw.latest /\ row.status = "queued"
    BY <1>1 DEF RepoRow, States
  <2>2. repo' = Flush(saw, row)
    BY <1>3 DEF CommitSync
  <2> HIDE DEF row
  <2> QED BY <1>1, <1>3, <2>1, <2>2, FlushColumns DEF KeepsIndexed
<1>4. ASSUME NEW q \in Requests, CommitDelete(q) PROVE RepoStep
  <2> DEFINE saw == req[q].saw
             row == [saw EXCEPT !.status = "deleting", !.deleted = TRUE]
  <2>1. /\ row \in RepoRow /\ row.indexed = saw.indexed
        /\ row.latest = saw.latest /\ row.status = "deleting"
    BY <1>1 DEF RepoRow, States
  <2>2. repo' = Flush(saw, row)
    BY <1>4 DEF CommitDelete
  <2> HIDE DEF row
  <2> QED BY <1>1, <1>4, <2>1, <2>2, FlushColumns DEF KeepsIndexed
<1>5. ASSUME NEW w \in Workers, NEW c \in Commits, Ingest(w, c) PROVE RepoStep
  <2> DEFINE saw == job[w].saw
             row == [saw EXCEPT !.latest = c, !.status = "ready_for_indexing"]
  <2>1. /\ row \in RepoRow /\ row.indexed = saw.indexed
        /\ row.latest = c /\ row.status = "ready_for_indexing"
    BY <1>0 DEF RepoRow, States
  <2>2. repo' = Flush(saw, row)
    BY <1>5 DEF Ingest
  <2> HIDE DEF row
  <2> QED BY <1>0, <1>5, <2>1, <2>2, FlushColumns DEF KeepsIndexed
<1>6. ASSUME NEW w \in Workers, IngestFails(w) PROVE RepoStep
  <2> DEFINE saw == job[w].saw
             row == [saw EXCEPT !.status = "failed"]
  <2>1. /\ row \in RepoRow /\ row.indexed = saw.indexed
        /\ row.latest = saw.latest /\ row.status = "failed"
    BY <1>0 DEF RepoRow, States
  <2>2. repo' = Flush(saw, row)
    BY <1>6 DEF IngestFails
  <2> HIDE DEF row
  <2> QED BY <1>0, <1>6, <2>1, <2>2, FlushColumns DEF KeepsIndexed
<1>7. ASSUME NEW w \in Workers, Reuse(w) PROVE RepoStep
  <2> DEFINE saw == job[w].saw
             row == [saw EXCEPT !.status = "ready", !.indexed = saw.latest]
  <2>0. saw.latest \in Commits
    BY <1>7 DEF Reuse, TypeOK
  <2>1. /\ row \in RepoRow /\ row.indexed = saw.latest
        /\ row.latest = saw.latest /\ row.status = "ready"
    BY <1>0, <2>0 DEF RepoRow, States
  <2>2. repo' = Flush(saw, row)
    BY <1>7 DEF Reuse
  <2> HIDE DEF row
  <2>3. /\ repo' \in RepoRow /\ (repo.deleted => repo'.deleted)
        /\ repo'.latest = repo.latest /\ repo'.status \in {repo.status, "ready"}
        /\ saw.latest = saw.indexed => repo'.indexed = repo.indexed
        /\ saw.latest # saw.indexed => repo'.indexed = saw.latest
    BY <1>0, <2>1, <2>2, FlushColumns
  <2> QED BY <1>7, <2>3 DEF SetsIndexed
<1>8. ASSUME NEW w \in Workers, Build(w) PROVE RepoStep
  <2> DEFINE saw == job[w].saw
             row == [saw EXCEPT !.indexed = saw.latest]
             flushed == Flush(saw, row)
  <2>0. saw.latest \in Commits
    BY <1>8 DEF Build, TypeOK
  <2>1. row \in RepoRow /\ row.indexed = saw.latest /\ row.latest = saw.latest
    BY <1>0, <2>0 DEF RepoRow, States
  <2>2. repo' = [flushed EXCEPT !.status = "ready"]
    BY <1>8 DEF Build
  <2> HIDE DEF row
  <2>3. /\ flushed \in RepoRow /\ (repo.deleted => flushed.deleted)
        /\ flushed.latest = repo.latest
        /\ saw.latest = saw.indexed => flushed.indexed = repo.indexed
        /\ saw.latest # saw.indexed => flushed.indexed = saw.latest
    BY <1>0, <2>1, FlushColumns
  <2> HIDE DEF flushed
  <2>4. /\ repo' \in RepoRow /\ repo'.indexed = flushed.indexed
        /\ repo'.deleted = flushed.deleted /\ repo'.latest = flushed.latest
        /\ repo'.status = "ready"
    BY <2>2, <2>3 DEF RepoRow, States
  <2> QED BY <1>8, <2>3, <2>4 DEF SetsIndexed
<1>9. ASSUME NEW w \in Workers, CleanUp(w) PROVE RepoStep
  <2> DEFINE saw == job[w].saw
             row == [saw EXCEPT !.status = "deleted"]
  <2>1. /\ row \in RepoRow /\ row.indexed = saw.indexed
        /\ row.latest = saw.latest /\ row.status = "deleted"
    BY <1>0 DEF RepoRow, States
  <2>2. repo' = Flush(saw, row) \/ repo' = repo
    BY <1>9 DEF CleanUp
  <2> HIDE DEF row
  <2>3. CASE repo' = repo
    BY <2>3 DEF TypeOK, KeepsIndexed
  <2>4. CASE repo' = Flush(saw, row)
    BY <1>0, <1>9, <2>1, <2>4, FlushColumns DEF KeepsIndexed
  <2> QED BY <2>2, <2>3, <2>4
<1>10. ASSUME UNCHANGED repo PROVE RepoStep
  BY <1>10 DEF TypeOK, KeepsIndexed
<1> QED
  BY <1>2, <1>3, <1>4, <1>5, <1>6, <1>7, <1>8, <1>9, <1>10
     DEF Next, vars, Load, CommitIndex, Abort, Start, Consult, Raise
----------------------------------------------------------------------------
(* Types.                                                                  *)
Works(w) ==
  /\ job[w].pc # "idle" => job[w].of \in Requests /\ req[job[w].of].pc = "committed"
  /\ job[w].pc \in {"reuse", "build"} => job[w].saw.latest \in Commits

Types ==
  /\ files' \in [Commits -> Nat] /\ snapshot' \subseteq Commits /\ chunks' \in [Commits -> Nat]
  /\ req' \in [Requests -> RequestState]
  /\ run' \in [Requests -> {"none", "queued", "succeeded", "failed"}]
  /\ delivered' \in [Requests -> Nat]
  /\ job' \in [Workers -> JobState]

LEMMA TypeStep ==
  ASSUME TypeOK, [Next]_vars
  PROVE  TypeOK'
<1> DEFINE Kept == \A w \in Workers : Works(w)'
<1>w. \A w \in Workers : Works(w)
  BY DEF TypeOK, Works
(* An API step: jobs stay, and no committed request changes.               *)
<1>r. ASSUME UNCHANGED job, req' \in [Requests -> RequestState],
             \A q \in Requests : req[q].pc = "committed" => req'[q].pc = "committed"
      PROVE  Kept
  <2> SUFFICES ASSUME NEW w \in Workers PROVE Works(w)'
    OBVIOUS
  <2> QED BY <1>w, <1>r DEF Works
(* A job ends.                                                             *)
<1>e. ASSUME NEW w \in Workers, job' = [job EXCEPT ![w] = Idle], UNCHANGED req
      PROVE  Kept /\ job' \in [Workers -> JobState]
  <2> SUFFICES ASSUME NEW v \in Workers PROVE Works(v)'
    BY <1>e, JobMoves
  <2>1. CASE v = w
    BY <1>e, <2>1, JobMoves DEF Works, TypeOK
  <2>2. CASE v # w
    BY <1>e, <1>w, <2>2 DEF Works, TypeOK
  <2> QED BY <2>1, <2>2
<1>1. ASSUME NEW q \in Requests, Create(q) PROVE Types /\ Kept
  <2>1. req' \in [Requests -> RequestState] /\ req'[q].pc = "committed"
        /\ \A p \in Requests \ {q} : req'[p] = req[p]
    <3>1. /\ [req[q] EXCEPT !.op = "ingest", !.pc = "committed"] \in RequestState
          /\ [req[q] EXCEPT !.op = "ingest", !.pc = "committed"].pc = "committed"
      <4>1. req[q] \in RequestState
        BY DEF TypeOK
      <4> QED BY <4>1 DEF RequestState
    <3> QED BY <1>1, <3>1 DEF Create, TypeOK
  <2>2. Kept
    BY <1>1, <1>r, <2>1 DEF Create
  <2> QED BY <1>1, <2>1, <2>2 DEF Create, Types, TypeOK
<1>2. ASSUME NEW q \in Requests, NEW op \in {"ingest", "index", "delete"}, Load(q, op)
      PROVE  Types /\ Kept
  <2>1. /\ req' \in [Requests -> RequestState] /\ req[q].pc = "new"
        /\ \A p \in Requests \ {q} : req'[p] = req[p]
    <3>1. repo \in RepoRow /\ op \in {"none", "ingest", "index", "delete"}
      BY DEF TypeOK
    <3>2. [op |-> op, pc |-> "loaded", saw |-> repo] \in RequestState
      BY <3>1 DEF RequestState
    <3> QED BY <1>2, <3>2 DEF Load, TypeOK
  <2>2. Kept
    BY <1>2, <1>r, <2>1 DEF Load
  <2> QED BY <1>2, <2>1, <2>2 DEF Load, Types, TypeOK
<1>3. ASSUME NEW q \in Requests, CommitSync(q) \/ CommitIndex(q) \/ CommitDelete(q) \/ Abort(q)
      PROVE  Types /\ Kept
  <2>1. /\ req[q].pc = "loaded" /\ UNCHANGED <<files, snapshot, chunks, delivered, job>>
        /\ \E pc \in {"committed", "aborted"} : EndSession(q, pc)
        /\ run' = run \/ run' = [run EXCEPT ![q] = "queued"]
    BY <1>3 DEF CommitSync, CommitIndex, CommitDelete, Abort
  <2>2. req' \in [Requests -> RequestState] /\ \A p \in Requests \ {q} : req'[p] = req[p]
    BY <2>1, RequestMoves
  <2>3. Kept
    BY <1>r, <2>1, <2>2
  <2> QED BY <2>1, <2>2, <2>3 DEF Types, TypeOK
<1>4. ASSUME NEW w \in Workers, NEW q \in Requests, Start(w, q) PROVE Types /\ Kept
  <2>1. [of |-> q, pc |-> "started", saw |-> repo] \in JobState
    BY DEF TypeOK, JobState
  <2>2. job' \in [Workers -> JobState]
    BY <1>4, <2>1 DEF Start, TypeOK
  <2>3. ASSUME NEW v \in Workers PROVE Works(v)'
    <3>1. CASE v = w
      BY <1>4, <3>1 DEF Start, TypeOK, Works
    <3>2. CASE v # w
      BY <1>4, <1>w, <3>2 DEF Start, TypeOK, Works
    <3> QED BY <3>1, <3>2
  <2> QED BY <1>4, <2>2, <2>3 DEF Start, Types, TypeOK
<1>5. ASSUME NEW w \in Workers, NEW c \in Commits, Ingest(w, c) PROVE Types /\ Kept
  <2>1. Kept /\ job' \in [Workers -> JobState]
    BY <1>5, <1>e DEF Ingest, Settle
  <2> QED BY <1>5, <2>1 DEF Ingest, Settle, Types, TypeOK
<1>6. ASSUME NEW w \in Workers, IngestFails(w) PROVE Types /\ Kept
  BY <1>6, <1>e DEF IngestFails, Settle, Types, TypeOK
<1>7. ASSUME NEW w \in Workers, Consult(w) PROVE Types /\ Kept
  <2>1. PICK pc \in {"reuse", "build"} : job' = [job EXCEPT ![w].pc = pc]
    BY <1>7 DEF Consult
  <2>2. /\ job' \in [Workers -> JobState]
        /\ job'[w].of = job[w].of /\ job'[w].pc = pc /\ job'[w].saw = job[w].saw
    BY <2>1 DEF TypeOK, JobState
  <2>3. job[w].saw.latest \in Commits
    BY <1>7 DEF Consult, TypeOK, JobState, RepoRow
  <2>4. ASSUME NEW v \in Workers PROVE Works(v)'
    <3>1. CASE v = w
      BY <1>7, <1>w, <2>2, <2>3, <3>1 DEF Consult, Works
    <3>2. CASE v # w
      BY <1>7, <1>w, <2>1, <3>2 DEF Consult, Works, TypeOK
    <3> QED BY <3>1, <3>2
  <2> QED BY <1>7, <2>2, <2>4 DEF Consult, Types, TypeOK
<1>8. ASSUME NEW w \in Workers, Reuse(w) PROVE Types /\ Kept
  BY <1>8, <1>e DEF Reuse, Settle, Types, TypeOK
<1>9. ASSUME NEW w \in Workers, Build(w) PROVE Types /\ Kept
  <2>1. job[w].saw.latest \in Commits
    BY <1>9 DEF Build, TypeOK
  <2> QED BY <1>9, <1>e, <2>1 DEF Build, Settle, Types, TypeOK
<1>10. ASSUME NEW w \in Workers, CleanUp(w) PROVE Types /\ Kept
  BY <1>10, <1>e DEF CleanUp, Types, TypeOK
<1>11. ASSUME NEW w \in Workers, Raise(w) PROVE Types /\ Kept
  BY <1>11, <1>e DEF Raise, Types, TypeOK
<1>12. ASSUME UNCHANGED vars PROVE Types /\ Kept
  BY <1>12, <1>w DEF vars, Types, TypeOK, Works
<1>13. Types /\ Kept
  BY <1>1, <1>2, <1>3, <1>4, <1>5, <1>6, <1>7, <1>8, <1>9, <1>10, <1>11, <1>12 DEF Next
<1> QED BY <1>13, RepoMoves DEF Types, Works, TypeOK, RepoStep
----------------------------------------------------------------------------
(* indexed, once set, stays set.                                           *)
LEMMA StaysIndexed ==
  ASSUME IInv, [Next]_vars
  PROVE  repo.indexed # None => repo'.indexed # None
<1> USE DEF IInv
<1>1. RepoStep
  BY RepoMoves
<1>2. ASSUME NEW w \in Workers, SetsIndexed(w), repo.indexed # None PROVE repo'.indexed # None
  <2>1. job[w].saw.latest \in Commits
    BY <1>2 DEF SetsIndexed, Reuse, Build, TypeOK
  <2> QED BY <1>2, <2>1, NoneIsNoName DEF SetsIndexed
<1> QED BY <1>1, <1>2 DEF RepoStep, KeepsIndexed

(* A job sees no snapshot disappear unless the repository is deleted.      *)
LEMMA SnapshotsStay ==
  ASSUME IInv, [Next]_vars
  PROVE  snapshot \subseteq snapshot' \/ repo'.deleted
<1>1. ASSUME NEW w \in Workers, CleanUp(w) PROVE repo'.deleted
  <2>1. repo.deleted
    BY <1>1 DEF CleanUp, Op, IInv, Loaded, TypeOK
  <2> QED BY <2>1, RepoMoves DEF RepoStep, IInv
<1>2. ASSUME NEW w \in Workers, Build(w) PROVE snapshot \subseteq snapshot'
  BY <1>2 DEF Build
<1>3. ASSUME ~\E w \in Workers : CleanUp(w) \/ Build(w) PROVE snapshot' = snapshot
  BY <1>3 DEF Next, vars, Create, Load, CommitSync, CommitIndex, CommitDelete, Abort, Start,
     Ingest, IngestFails, Consult, Reuse, Raise
<1> QED BY <1>1, <1>2, <1>3

(* Who moves a job and who moves a request: the others stay as they are.   *)
LEMMA WorkerMoves ==
  ASSUME TypeOK, [Next]_vars, NEW w \in Workers
  PROVE  \/ job'[w] = job[w] \/ job'[w] = Idle
         \/ Consult(w) \/ \E q \in Requests : Start(w, q)
<1>1. ASSUME NEW v \in Workers,
             \/ \E c \in Commits : Ingest(v, c)
             \/ IngestFails(v) \/ Reuse(v) \/ Build(v) \/ CleanUp(v) \/ Raise(v)
      PROVE  job'[w] = job[w] \/ job'[w] = Idle
  <2>1. job' = [job EXCEPT ![v] = Idle]
    BY <1>1 DEF Ingest, IngestFails, Reuse, Build, CleanUp, Raise, Settle
  <2> QED BY <2>1 DEF TypeOK
<1>2. ASSUME NEW v \in Workers, Consult(v) PROVE job'[w] = job[w] \/ v = w
  BY <1>2 DEF Consult, TypeOK
<1>3. ASSUME NEW v \in Workers, NEW q \in Requests, Start(v, q)
      PROVE  job'[w] = job[w] \/ v = w
  BY <1>3 DEF Start, TypeOK
<1>4. ASSUME NEW q \in Requests,
             \/ Create(q) \/ \E op \in {"ingest", "index", "delete"} : Load(q, op)
             \/ CommitSync(q) \/ CommitIndex(q) \/ CommitDelete(q) \/ Abort(q)
      PROVE  job' = job
  BY <1>4 DEF Create, Load, CommitSync, CommitIndex, CommitDelete, Abort
<1>5. CASE UNCHANGED vars
  BY <1>5 DEF vars
<1> QED BY <1>1, <1>2, <1>3, <1>4, <1>5 DEF Next

LEMMA RequestMover ==
  ASSUME TypeOK, [Next]_vars, NEW q \in Requests, req'[q] # req[q]
  PROVE  \/ Create(q) \/ \E op \in {"ingest", "index", "delete"} : Load(q, op)
         \/ CommitSync(q) \/ CommitIndex(q) \/ CommitDelete(q) \/ Abort(q)
<1>1. ASSUME NEW p \in Requests,
             \/ Create(p) \/ \E op \in {"ingest", "index", "delete"} : Load(p, op)
             \/ CommitSync(p) \/ CommitIndex(p) \/ CommitDelete(p) \/ Abort(p)
      PROVE  p = q
  <2>1. \A s \in Requests \ {p} : req'[s] = req[s]
    <3>1. CASE Create(p) \/ \E op \in {"ingest", "index", "delete"} : Load(p, op)
      BY <3>1 DEF Create, Load, TypeOK
    <3>2. CASE CommitSync(p) \/ CommitIndex(p) \/ CommitDelete(p) \/ Abort(p)
      BY <3>2 DEF CommitSync, CommitIndex, CommitDelete, Abort, EndSession, TypeOK
    <3> QED BY <1>1, <3>1, <3>2
  <2> QED BY <2>1
<1>2. ASSUME NEW v \in Workers,
             \/ \E p \in Requests : Start(v, p)
             \/ \E c \in Commits : Ingest(v, c)
             \/ IngestFails(v) \/ Consult(v) \/ Reuse(v) \/ Build(v) \/ CleanUp(v) \/ Raise(v)
      PROVE  req' = req
  BY <1>2 DEF Start, Ingest, IngestFails, Consult, Reuse, Build, CleanUp, Raise, Settle
<1>3. ~UNCHANGED vars
  BY DEF vars
<1> QED BY <1>1, <1>2, <1>3 DEF Next

LEMMA LoadedStep ==
  ASSUME IInv, [Next]_vars
  PROVE  Loaded'
<1>1. /\ repo'.indexed = repo.indexed \/ repo'.indexed # None
      /\ repo.indexed # None => repo'.indexed # None
      /\ repo.deleted => repo'.deleted
      /\ snapshot \subseteq snapshot' \/ repo'.deleted
  BY StaysIndexed, SnapshotsStay, RepoMoves DEF RepoStep, KeepsIndexed, SetsIndexed, IInv
(* What a job relies on, and how jobs change.                              *)
<1> DEFINE Relies(w) ==
             /\ job[w].saw.indexed # None => repo.indexed # None
             /\ job[w].pc = "reuse" /\ ~repo.deleted => job[w].saw.latest \in snapshot
<1>2. ASSUME NEW w \in Workers, job'[w] = job[w] PROVE Relies(w)'
  BY <1>1, <1>2 DEF IInv, Loaded
<1>3. ASSUME NEW w \in Workers, job'[w] = Idle PROVE Relies(w)'
  BY <1>3, StateNames DEF Idle
<1>4. ASSUME NEW w \in Workers, NEW q \in Requests, Start(w, q) PROVE Relies(w)'
  <2>1. job'[w] = [of |-> q, pc |-> "started", saw |-> repo] /\ repo' = repo
    BY <1>4 DEF Start, IInv, TypeOK
  <2> QED BY <2>1
<1>5. ASSUME NEW w \in Workers, Consult(w) PROVE Relies(w)'
  <2>1. PICK pc \in {"reuse", "build"} :
          /\ job' = [job EXCEPT ![w].pc = pc]
          /\ pc = "reuse" => job[w].saw.latest \in snapshot
    BY <1>5 DEF Consult
  <2>2. job'[w].pc = pc /\ job'[w].saw = job[w].saw
    BY <2>1 DEF IInv, TypeOK, JobState
  <2> QED BY <1>5, <2>1, <2>2 DEF Consult, IInv, Loaded
<1>6. \A w \in Workers : Relies(w)'
  <2> SUFFICES ASSUME NEW w \in Workers PROVE Relies(w)'
    OBVIOUS
  <2>1. \/ job'[w] = job[w] \/ job'[w] = Idle
        \/ Consult(w) \/ \E q \in Requests : Start(w, q)
    BY WorkerMoves DEF IInv
  <2> QED BY <1>2, <1>3, <1>4, <1>5, <2>1
<1>7. \A q \in Requests : req'[q].op = "delete" /\ req'[q].pc = "committed" => repo'.deleted
  <2> SUFFICES ASSUME NEW q \in Requests, req'[q].op = "delete", req'[q].pc = "committed"
               PROVE  repo'.deleted
    OBVIOUS
  <2>1. CASE req'[q] = req[q]
    BY <1>1, <2>1 DEF IInv, Loaded
  <2>2. CASE req'[q] # req[q]
    <3>1. ~Create(q)
      <4>1. req[q] \in RequestState
        BY DEF IInv, TypeOK
      <4>2. [req[q] EXCEPT !.op = "ingest", !.pc = "committed"].op = "ingest"
        BY <4>1 DEF RequestState
      <4> QED BY <4>2 DEF Create, IInv, TypeOK
    <3>2. \A op \in {"ingest", "index", "delete"} : ~Load(q, op)
      BY DEF Load, IInv, TypeOK
    <3>3. ASSUME NEW pc \in {"committed", "aborted"}, EndSession(q, pc)
          PROVE  pc = "committed" /\ req[q].op = "delete"
      BY <3>3, RequestMoves DEF IInv
    <3>4. ~CommitSync(q) /\ ~CommitIndex(q) /\ ~Abort(q)
      BY <3>3 DEF CommitSync, CommitIndex, Abort
    <3>5. ASSUME CommitDelete(q) PROVE repo'.deleted
      <4> DEFINE saw == req[q].saw
                 row == [saw EXCEPT !.status = "deleting", !.deleted = TRUE]
      <4>1. saw \in RepoRow
        BY DEF IInv, TypeOK, RequestState
      <4>2. row \in RepoRow /\ row.deleted
        BY <4>1 DEF RepoRow, States
      <4>3. repo' = Flush(saw, row)
        BY <3>5 DEF CommitDelete
      <4> HIDE DEF row
      <4> QED BY <4>1, <4>2, <4>3, FlushColumns DEF IInv
    <3>6. CommitDelete(q)
      BY <2>2, <3>1, <3>2, <3>4, RequestMover DEF IInv
    <3> QED BY <3>5, <3>6
  <2> QED BY <2>1, <2>2
<1> QED BY <1>6, <1>7 DEF Loaded
----------------------------------------------------------------------------
(* What a step may do to files, snapshots and chunks.                      *)
Replaces(c) ==
  /\ files' = [files EXCEPT ![c] = @ + 1]
  /\ chunks' = [chunks EXCEPT ![c] = 0]
  /\ snapshot' = snapshot

Indexes(c) ==
  /\ c \notin snapshot
  /\ snapshot' = snapshot \cup {c}
  /\ chunks' = [chunks EXCEPT ![c] = files[c]]
  /\ files' = files
  /\ repo'.status = "ready"

Drops ==
  /\ repo.deleted
  /\ snapshot' = {}
  /\ chunks' = [c \in Commits |-> 0]
  /\ files' = files

LEMMA IndexMoves ==
  ASSUME IInv, [Next]_vars
  PROVE  \/ \E c \in Commits : Replaces(c) \/ Indexes(c)
         \/ Drops
         \/ UNCHANGED <<files, snapshot, chunks>>
<1>1. ASSUME NEW w \in Workers, NEW c \in Commits, Ingest(w, c) PROVE Replaces(c)
  BY <1>1 DEF Ingest, Replaces
<1>2. ASSUME NEW w \in Workers, Build(w) PROVE \E c \in Commits : Indexes(c)
  <2> DEFINE c == job[w].saw.latest
  <2>1. c \in Commits /\ job[w].saw \in RepoRow
    BY <1>2 DEF Build, IInv, TypeOK, JobState
  <2>2. repo'.status = "ready"
    BY <1>2 DEF Build, Flush
  <2>3. Indexes(c)
    BY <1>2, <2>2 DEF Build, Indexes
  <2> QED BY <2>1, <2>3
<1>3. ASSUME NEW w \in Workers, CleanUp(w) PROVE Drops
  BY <1>3 DEF CleanUp, Drops, Op, IInv, Loaded, TypeOK
<1> QED BY <1>1, <1>2, <1>3 DEF Next, vars, Create, Load, CommitSync, CommitIndex, CommitDelete,
     Abort, Start, IngestFails, Consult, Reuse, Raise, Settle

LEMMA ChunksStep ==
  ASSUME IInv, [Next]_vars
  PROVE  ChunksFollowFiles'
<1> USE DEF IInv, TypeOK, ChunksFollowFiles
<1>1. ASSUME NEW c \in Commits, Replaces(c) PROVE ChunksFollowFiles'
  BY <1>1 DEF Replaces
<1>2. ASSUME NEW c \in Commits, Indexes(c) PROVE ChunksFollowFiles'
  BY <1>2 DEF Indexes
<1>3. ASSUME Drops PROVE ChunksFollowFiles'
  BY <1>3 DEF Drops
<1>4. ASSUME UNCHANGED <<files, snapshot, chunks>> PROVE ChunksFollowFiles'
  BY <1>4
<1> QED BY <1>1, <1>2, <1>3, <1>4, IndexMoves

LEMMA IndexedStep ==
  ASSUME IInv, [Next]_vars
  PROVE  IndexedHasSnapshot'
<1>1. RepoStep
  BY RepoMoves DEF IInv
<1>2. \A c \in Commits : files[c] # 0 => files'[c] # 0
  BY IndexMoves DEF IInv, TypeOK, Replaces, Indexes, Drops
<1>3. repo'.latest # None => files'[repo'.latest] # 0
  <2>1. ASSUME NEW w \in Workers, NEW c \in Commits, Ingest(w, c) PROVE files'[c] # 0
    BY <2>1 DEF Ingest, IInv, TypeOK
  <2>2. repo.latest # None => repo.latest \in Commits /\ files[repo.latest] # 0
    BY DEF IInv, TypeOK, RepoRow, IndexedHasSnapshot
  <2> QED BY <1>1, <1>2, <2>1, <2>2 DEF RepoStep
(* A step that sets indexed has the snapshot, or leaves indexed as it is.  *)
<1>4. ASSUME NEW w \in Workers, SetsIndexed(w)
      PROVE  /\ repo'.indexed # None
             /\ ~repo'.deleted => repo'.indexed \in snapshot'
  <2>1. job[w].saw.latest \in Commits
    BY <1>4 DEF SetsIndexed, Reuse, Build, IInv, TypeOK
  <2>2. ~repo'.deleted => job[w].saw.latest \in snapshot'
    <3>1. CASE Reuse(w)
      BY <1>1, <3>1 DEF Reuse, RepoStep, IInv, Loaded
    <3>2. CASE Build(w)
      BY <3>2 DEF Build
    <3> QED BY <1>4, <3>1, <3>2 DEF SetsIndexed
  <2>3. CASE repo'.indexed = job[w].saw.latest
    BY <2>1, <2>2, <2>3, NoneIsNoName
  <2>4. CASE repo'.indexed = repo.indexed /\ job[w].saw.indexed = job[w].saw.latest
    <3>1. repo.indexed # None
      BY <2>1, <2>4, NoneIsNoName DEF IInv, Loaded
    <3> QED BY <1>1, <2>4, <3>1, SnapshotsStay DEF RepoStep, IInv, IndexedHasSnapshot
  <2> QED BY <1>4, <2>3, <2>4 DEF SetsIndexed
<1>5. ASSUME KeepsIndexed
      PROVE  /\ repo'.indexed # None /\ ~repo'.deleted => repo'.indexed \in snapshot'
             /\ repo'.status = "ready" => repo'.indexed # None
  BY <1>1, <1>5, SnapshotsStay DEF KeepsIndexed, RepoStep, IInv, IndexedHasSnapshot
<1> QED BY <1>1, <1>3, <1>4, <1>5 DEF RepoStep, IndexedHasSnapshot

LEMMA DeletedStep ==
  ASSUME IInv, [Next]_vars
  PROVE  DeletedHasNoIndex'
<1>1. ASSUME NEW w \in Workers, CleanUp(w) PROVE DeletedHasNoIndex'
  BY <1>1 DEF CleanUp, DeletedHasNoIndex
<1>2. ASSUME repo.status = "deleted", repo'.status = "deleted"
      PROVE  DeletedHasNoIndex'
  <2>1. snapshot = {} /\ \A c \in Commits : chunks[c] = 0
    BY <1>2 DEF IInv, DeletedHasNoIndex
  <2>2. ASSUME NEW c \in Commits, Replaces(c) PROVE DeletedHasNoIndex'
    BY <2>1, <2>2 DEF Replaces, DeletedHasNoIndex, IInv, TypeOK
  <2>3. \A c \in Commits : ~Indexes(c)
    BY <1>2 DEF Indexes
  <2>4. ASSUME Drops PROVE DeletedHasNoIndex'
    BY <2>4 DEF Drops, DeletedHasNoIndex
  <2>5. ASSUME UNCHANGED <<files, snapshot, chunks>> PROVE DeletedHasNoIndex'
    BY <2>1, <2>5 DEF DeletedHasNoIndex
  <2> QED BY <2>2, <2>3, <2>4, <2>5, IndexMoves
<1>3. repo'.status = "deleted" => repo.status = "deleted" \/ \E w \in Workers : CleanUp(w)
  BY RepoMoves DEF RepoStep, IInv
<1>4. CASE repo'.status # "deleted"
  BY <1>4 DEF DeletedHasNoIndex
<1> QED BY <1>1, <1>2, <1>3, <1>4
----------------------------------------------------------------------------
LEMMA InitIInv == Init => IInv
<1> SUFFICES ASSUME Init PROVE IInv
  OBVIOUS
<1>1. TypeOK
  BY DEF Init, TypeOK, NoRepo, NoRequest, Idle, RequestState, JobState, RepoRow, States
<1>2. Loaded
  BY DEF Init, Loaded, NoRepo, NoRequest, Idle
<1> QED BY <1>1, <1>2 DEF Init, IInv, ChunksFollowFiles, IndexedHasSnapshot, DeletedHasNoIndex, NoRepo

(* The inductive invariant holds of every reachable state.                 *)
THEOREM Invariance == Spec => []IInv
<1>1. IInv /\ [Next]_vars => IInv'
  <2> SUFFICES ASSUME IInv, [Next]_vars PROVE IInv'
    OBVIOUS
  <2>1. TypeOK'
    BY TypeStep DEF IInv
  <2> QED BY <2>1, LoadedStep, ChunksStep, IndexedStep, DeletedStep DEF IInv
<1> QED BY InitIInv, <1>1, PTL DEF Spec

(* Rows, handlers and jobs keep their shape.                               *)
THEOREM TypeCorrect == Spec => []TypeOK
<1>1. IInv => TypeOK
  BY DEF IInv
<1> QED BY Invariance, <1>1, PTL

(* Search only ever finds code of the current files, however often a       *)
(* revision is ingested again.                                             *)
THEOREM ChunksAreCurrent == Spec => []ChunksFollowFiles
<1>1. IInv => ChunksFollowFiles
  BY DEF IInv
<1> QED BY Invariance, <1>1, PTL

(* Jobs working on stale rows never leave the repository pointing to a     *)
(* revision without files or without a snapshot.                           *)
THEOREM IndexedIsBacked == Spec => []IndexedHasSnapshot
<1>1. IInv => IndexedHasSnapshot
  BY DEF IInv
<1> QED BY Invariance, <1>1, PTL

(* A repository whose status is deleted has no index.                      *)
THEOREM NoIndexAfterDeletion == Spec => []DeletedHasNoIndex
<1>1. IInv => DeletedHasNoIndex
  BY DEF IInv
<1> QED BY Invariance, <1>1, PTL

(* Who owns a run: its lock keeps jobs of one run apart, and only requests *)
(* that committed have one.                                                *)
Chosen(w) == job[w].pc \in {"reuse", "build"}

Apart ==
  /\ \A v, w \in Workers : v # w /\ Chosen(v) /\ Chosen(w) => job[v].of # job[w].of
  /\ \A w \in Workers : Chosen(w) => req[job[w].of].op = "index"
  /\ \A q \in Requests : run[q] # "none" => req[q].pc = "committed"

(* A committed request stays as it is.                                     *)
LEMMA CommittedStays ==
  ASSUME TypeOK, [Next]_vars, NEW q \in Requests, req[q].pc = "committed"
  PROVE  req'[q] = req[q]
<1>1. /\ ~Create(q) /\ \A op \in {"ingest", "index", "delete"} : ~Load(q, op)
      /\ ~CommitSync(q) /\ ~CommitIndex(q) /\ ~CommitDelete(q) /\ ~Abort(q)
  BY DEF Create, Load, CommitSync, CommitIndex, CommitDelete, Abort
<1> QED BY <1>1, RequestMover

(* A run is created with its request's commit and settled by its jobs; an  *)
(* indexing job that commits has succeeded.                                *)
LEMMA RunMoves ==
  ASSUME TypeOK, [Next]_vars, NEW q \in Requests, run'[q] # run[q]
  PROVE  /\ req'[q].pc = "committed"
         /\ req[q].pc = "committed" /\ req[q].op = "index" => run'[q] = "succeeded"
<1>1. ASSUME NEW p \in Requests, Create(p) \/ CommitSync(p) \/ CommitIndex(p)
      PROVE  p = q /\ req[q].pc # "committed" /\ req'[q].pc = "committed"
  <2>1. run' = [run EXCEPT ![p] = "queued"] /\ req[p].pc \in {"new", "loaded"}
    BY <1>1 DEF Create, CommitSync, CommitIndex
  <2>2. p = q
    BY <2>1 DEF TypeOK
  <2>3. CASE Create(q)
    <3>1. req[q] \in RequestState
      BY DEF TypeOK
    <3>2. [req[q] EXCEPT !.op = "ingest", !.pc = "committed"].pc = "committed"
      BY <3>1 DEF RequestState
    <3>3. req' = [req EXCEPT ![q] = [@ EXCEPT !.op = "ingest", !.pc = "committed"]]
      BY <2>3 DEF Create
    <3>4. req'[q] = [req[q] EXCEPT !.op = "ingest", !.pc = "committed"]
      BY <3>3 DEF TypeOK
    <3> QED BY <2>1, <2>2, <3>2, <3>4
  <2>4. CASE CommitSync(q) \/ CommitIndex(q)
    <3>1. EndSession(q, "committed")
      BY <2>4 DEF CommitSync, CommitIndex
    <3> QED BY <2>1, <2>2, <3>1, RequestMoves
  <2> QED BY <1>1, <2>2, <2>3, <2>4
<1>2. ASSUME NEW w \in Workers, NEW status \in {"succeeded", "failed"},
             Settle(w, status), job[w].pc # "idle",
             status = "failed" => Op(w) = "ingest"
      PROVE  /\ req[q].pc = "committed" /\ req' = req
             /\ req[q].op = "index" => run'[q] = "succeeded"
  <2>1. job[w].of = q /\ run'[q] = status /\ req' = req
    BY <1>2 DEF Settle, TypeOK
  <2> QED BY <1>2, <2>1 DEF Op, TypeOK
<1>3. ASSUME NEW w \in Workers,
             \/ \E c \in Commits : Ingest(w, c)
             \/ Reuse(w) \/ Build(w)
      PROVE  Settle(w, "succeeded") /\ job[w].pc # "idle"
  BY <1>3 DEF Ingest, Reuse, Build
<1>4. ASSUME NEW w \in Workers, IngestFails(w)
      PROVE  Settle(w, "failed") /\ job[w].pc # "idle" /\ Op(w) = "ingest"
  BY <1>4 DEF IngestFails
<1>5. \/ \E p \in Requests : Create(p) \/ CommitSync(p) \/ CommitIndex(p)
      \/ \E w \in Workers :
           \/ \E c \in Commits : Ingest(w, c)
           \/ Reuse(w) \/ Build(w) \/ IngestFails(w)
  BY DEF Next, vars, Load, CommitDelete, Abort, Start, Consult, CleanUp, Raise
<1> QED BY <1>1, <1>2, <1>3, <1>4, <1>5

(* A job that has chosen keeps its request and its row, or has just chosen *)
(* under the lock of its run.                                              *)
LEMMA ChosenMoves ==
  ASSUME TypeOK, [Next]_vars, NEW w \in Workers, Chosen(w)'
  PROVE  \/ job'[w] = job[w] /\ Chosen(w)
         \/ /\ Consult(w) /\ job'[w].of = job[w].of /\ job'[w].saw = job[w].saw
            /\ job'[w].pc = "build" => job[w].saw.latest \notin snapshot
            /\ \A v \in Workers \ {w} : job'[v] = job[v]
<1>1. job'[w] # Idle
  BY DEF Chosen, Idle
<1>2. ASSUME NEW q \in Requests PROVE ~Start(w, q)
  <2>1. ASSUME Start(w, q) PROVE FALSE
    <3>1. job'[w] = [of |-> q, pc |-> "started", saw |-> repo]
      BY <2>1 DEF Start, TypeOK
    <3> QED BY <3>1 DEF Chosen
  <2> QED BY <2>1
<1>3. ASSUME Consult(w)
      PROVE  /\ job'[w].of = job[w].of /\ job'[w].saw = job[w].saw
             /\ job'[w].pc = "build" => job[w].saw.latest \notin snapshot
             /\ \A v \in Workers \ {w} : job'[v] = job[v]
  <2>1. PICK pc \in {"reuse", "build"} :
          /\ job' = [job EXCEPT ![w].pc = pc]
          /\ pc = "build" => job[w].saw.latest \notin snapshot
    BY <1>3 DEF Consult
  <2> QED BY <2>1 DEF TypeOK, JobState
<1> QED BY <1>1, <1>2, <1>3, WorkerMoves DEF Chosen

LEMMA ApartStep ==
  ASSUME TypeOK, Apart, [Next]_vars
  PROVE  Apart'
<1>1. ASSUME NEW v \in Workers, NEW w \in Workers, v # w, Consult(w), Chosen(v),
             job'[v] = job[v], job'[w].of = job[w].of
      PROVE  job'[v].of # job'[w].of
  BY <1>1 DEF Consult, RunUnlocked, Chosen
<1>2. ASSUME NEW v \in Workers, NEW w \in Workers, v # w, Chosen(v)', Chosen(w)'
      PROVE  job'[v].of # job'[w].of
  <2>1. CASE (job'[v] = job[v] /\ Chosen(v)) /\ (job'[w] = job[w] /\ Chosen(w))
    BY <1>2, <2>1 DEF Apart
  <2>2. CASE Consult(w) /\ ~(job'[w] = job[w] /\ Chosen(w))
    <3>1. job'[w].of = job[w].of /\ job'[v] = job[v]
      BY <1>2, <2>2, ChosenMoves
    <3> QED BY <1>1, <1>2, <2>2, <3>1 DEF Chosen
  <2>3. CASE Consult(v) /\ ~(job'[v] = job[v] /\ Chosen(v))
    <3>1. job'[v].of = job[v].of /\ job'[w] = job[w]
      BY <1>2, <2>3, ChosenMoves
    <3> QED BY <1>1, <1>2, <2>3, <3>1 DEF Chosen
  <2> QED BY <1>2, <2>1, <2>2, <2>3, ChosenMoves
<1>3. ASSUME NEW w \in Workers, Chosen(w)' PROVE req'[job'[w].of].op = "index"
  <2>1. /\ job'[w].of = job[w].of /\ job[w].pc # "idle"
        /\ req[job[w].of].op = "index"
    BY <1>3, ChosenMoves DEF Chosen, Apart, Consult, Op
  <2>2. job[w].of \in Requests /\ req[job[w].of].pc = "committed"
    BY <2>1 DEF TypeOK
  <2> QED BY <2>1, <2>2, CommittedStays
<1>4. ASSUME NEW q \in Requests, run'[q] # "none" PROVE req'[q].pc = "committed"
  <2>1. CASE run'[q] = run[q]
    BY <1>4, <2>1, CommittedStays DEF Apart
  <2> QED BY <2>1, RunMoves
<1> QED BY <1>2, <1>3, <1>4 DEF Apart

LEMMA LostStep ==
  ASSUME IInv, Apart, LostToAnotherRun, [Next]_vars
  PROVE  LostToAnotherRun'
<1> DEFINE Winner(q) == req[q].op = "index" /\ run[q] = "succeeded"
<1>t. TypeOK
  BY DEF IInv
<1>1. ASSUME NEW q \in Requests, Winner(q) PROVE Winner(q)'
  <2>1. req[q].pc = "committed"
    BY <1>1 DEF Apart
  <2>2. req'[q] = req[q]
    BY <1>t, <2>1, CommittedStays
  <2> QED BY <1>1, <1>t, <2>1, <2>2, RunMoves
<1>2. SUFFICES ASSUME NEW w \in Workers, job'[w].pc = "build", job'[w].saw.latest \in snapshot'
               PROVE  \E q \in Requests \ {job'[w].of} : Winner(q)'
  BY DEF LostToAnotherRun
<1>3. Chosen(w)'
  BY <1>2 DEF Chosen
(* Its snapshot was there before the step.                                 *)
<1>4. CASE job'[w].saw.latest \in snapshot
  <2>1. job'[w] = job[w]
    BY <1>2, <1>3, <1>4, <1>t, ChosenMoves
  <2>2. PICK q \in Requests \ {job[w].of} : Winner(q)
    BY <1>2, <1>4, <2>1 DEF LostToAnotherRun
  <2> QED BY <1>1, <2>1, <2>2
(* The step inserts it: the job that does so holds another run.            *)
<1>5. CASE job'[w].saw.latest \notin snapshot
  <2>1. PICK v \in Workers : Build(v)
    <3>1. snapshot' # snapshot /\ snapshot' # {}
      BY <1>2, <1>5
    <3> QED BY <3>1 DEF Next, vars, Create, Load, CommitSync, CommitIndex, CommitDelete, Abort,
         Start, Ingest, IngestFails, Consult, Reuse, CleanUp, Raise
  <2>2. job' = [job EXCEPT ![v] = Idle] /\ run' = [run EXCEPT ![job[v].of] = "succeeded"]
        /\ req' = req /\ Chosen(v)
    BY <2>1 DEF Build, Settle, Chosen
  <2>3. v # w
    BY <1>2, <2>2 DEF TypeOK, IInv, Idle
  <2>4. job'[w] = job[w] /\ Chosen(w)
    BY <1>2, <2>2, <2>3 DEF TypeOK, IInv, Chosen
  <2>5. PICK q \in Requests : q = job[v].of /\ q # job[w].of /\ req[q].op = "index"
    BY <1>t, <2>2, <2>3, <2>4 DEF Apart, Chosen, TypeOK
  <2>6. Winner(q)'
    BY <1>t, <2>2, <2>5 DEF TypeOK
  <2> QED BY <2>4, <2>5, <2>6
<1> QED BY <1>4, <1>5

(* Two jobs that build for one revision serve two requests: a second       *)
(* delivery of one message never competes with the first.                  *)
THEOREM RacesAreOfTwoRuns == Spec => []LostToAnotherRun
<1>1. Init => Apart /\ LostToAnotherRun
  BY DEF Init, Apart, LostToAnotherRun, Chosen, Idle
<1>2. IInv /\ Apart /\ LostToAnotherRun /\ [Next]_vars => (Apart /\ LostToAnotherRun)'
  BY ApartStep, LostStep DEF IInv
<1> QED BY Invariance, <1>1, <1>2, PTL DEF Spec

(* Chunks go only with their files or with the repository: building the    *)
(* index of one revision leaves that of the others alone.                  *)
ChunksLast ==
  [][\A c \in Commits : chunks'[c] # chunks[c] /\ chunks[c] # 0 =>
       files'[c] # files[c] \/ repo.deleted]_vars

(* Indexing one revision leaves the chunks of the others alone.            *)
THEOREM ChunksStay == Spec => ChunksLast
<1>1. IInv /\ [Next]_vars =>
        [\A c \in Commits : chunks'[c] # chunks[c] /\ chunks[c] # 0 =>
           files'[c] # files[c] \/ repo.deleted]_vars
  <2> SUFFICES ASSUME IInv, [Next]_vars,
                      NEW c \in Commits, chunks'[c] # chunks[c], chunks[c] # 0
               PROVE  files'[c] # files[c] \/ repo.deleted
    OBVIOUS
  <2>1. ASSUME NEW d \in Commits, Replaces(d) PROVE files'[c] # files[c]
    BY <2>1 DEF Replaces, IInv, TypeOK
  <2>2. \A d \in Commits : ~Indexes(d)
    BY DEF Indexes, IInv, TypeOK, ChunksFollowFiles
  <2> QED BY <2>1, <2>2, IndexMoves DEF Drops
<1> QED BY Invariance, <1>1, PTL DEF Spec, ChunksLast
=============================================================================
