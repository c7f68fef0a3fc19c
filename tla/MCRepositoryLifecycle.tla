----------------------- MODULE MCRepositoryLifecycle -----------------------
(* Fault budgets and symmetry for the TLC runs of RepositoryLifecycle.     *)
EXTENDS RepositoryLifecycle, TLC

AtMost(n) == {u \in [FaultKinds -> 0 .. 2] : \A k \in FaultKinds : u[k] <= n[k]}

Never == [k \in FaultKinds |-> 0]

NoFaults == AtMost(Never)

\* A fault of any kind, once.
OneFault ==
  {u \in [FaultKinds -> 0 .. 1] : \A j, k \in FaultKinds : u[j] = 1 /\ u[k] = 1 => j = k}

\* A worker dies twice and a live message is handed out again.
Crashes == AtMost([Never EXCEPT !["crash"] = 2, !["redelivery"] = 1])

OneCrash == AtMost([Never EXCEPT !["crash"] = 1])

Symmetry == Permutations(Requests) \cup Permutations(Workers)
=============================================================================
