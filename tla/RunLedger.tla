----------------------------- MODULE RunLedger -----------------------------
(***************************************************************************)
(* What the database promises about a repository and its ingestion runs,   *)
(* whatever the handlers, workers and broker do in between: the committed  *)
(* rows change only by the five transactions below, each whole or not at   *)
(* all.  A run that is settled changes the repository's status in the same *)
(* transaction.                                                            *)
(***************************************************************************)
CONSTANT Runs

VARIABLES
  status,  \* status of the repository row, "absent" before it exists
  deleted, \* whether deleted_at is set
  run      \* status of each ingestion run, "none" before it exists

ledger == <<status, deleted, run>>

Init ==
  /\ status = "absent"
  /\ deleted = FALSE
  /\ run = [r \in Runs |-> "none"]

Register(r) ==
  /\ status = "absent"
  /\ status' = "queued"
  /\ run' = [run EXCEPT ![r] = "queued"]
  /\ UNCHANGED deleted

\* A sync: a new run, whatever the status has become since it was checked.
Resubmit(r) ==
  /\ status # "absent"
  /\ run[r] = "none"
  /\ status' = "queued"
  /\ run' = [run EXCEPT ![r] = "queued"]
  /\ UNCHANGED deleted

Settle(r) ==
  /\ run[r] # "none"
  /\ \/ status' = "ready_for_indexing" /\ run' = [run EXCEPT ![r] = "succeeded"]
     \/ status' = "failed" /\ run' = [run EXCEPT ![r] = "failed"]
  /\ UNCHANGED deleted

MarkDeleting ==
  /\ status # "absent"
  /\ status' = "deleting"
  /\ deleted' = TRUE
  /\ UNCHANGED run

MarkDeleted ==
  /\ deleted
  /\ status' = "deleted"
  /\ UNCHANGED <<deleted, run>>

Next ==
  \/ \E r \in Runs : Register(r) \/ Resubmit(r) \/ Settle(r)
  \/ MarkDeleting
  \/ MarkDeleted

Spec == Init /\ [][Next]_ledger
=============================================================================
