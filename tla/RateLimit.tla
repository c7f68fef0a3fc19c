------------------------------ MODULE RateLimit ------------------------------
(***************************************************************************)
(* RateLimitService.enforce: INCR, then EXPIRE for the first request of a  *)
(* window, as two commands to Redis.  A request passes the scopes its      *)
(* endpoint enforces one after another; the requests of the model share    *)
(* one identity, so a scope is one key.                                    *)
(*                                                                         *)
(* Time is left out: a counter that has been given a time to live is gone  *)
(* at some later point.                                                    *)
(***************************************************************************)
EXTENDS Naturals, Sequences

CONSTANTS
  Requests,
  Scopes,
  Route,       \* for each request, the scopes it passes in order
  Limit,       \* for each scope
  FailClosed,  \* the scopes enforced with fail_closed=True
  MaxFaults    \* bound: commands that go wrong and processes that die

ASSUME RoutesAndLimits ==
  /\ Route \in [Requests -> Seq(Scopes)]
  /\ Limit \in [Scopes -> Nat]
  /\ FailClosed \subseteq Scopes
  /\ MaxFaults \in Nat

\* No endpoint enforces a scope twice.
ASSUME RoutesAreSimple ==
  \A r \in Requests : \A i, j \in 1 .. Len(Route[r]) : Route[r][i] = Route[r][j] => i = j

VARIABLES
  counter,   \* for each scope; 0 when Redis has no such key
  expiring,  \* the key has a time to live
  window,    \* how often the key was created
  at,        \* for each request, the scope of its route it is at
  step,      \* "incr", "expire", "admitted", "limited", "unavailable", "dead"
  ticket,    \* the count a request was given in a scope, and in which window
  passed,    \* the scopes that let a request through
  faults

rateVars == <<counter, expiring, window, at, step, ticket, passed, faults>>

NoTicket == [window |-> 0, number |-> 0]

RateInit ==
  /\ counter = [s \in Scopes |-> 0]
  /\ expiring = [s \in Scopes |-> FALSE]
  /\ window = [s \in Scopes |-> 0]
  /\ at = [r \in Requests |-> 1]
  /\ step = [r \in Requests |-> "incr"]
  /\ ticket = [r \in Requests |-> [s \in Scopes |-> NoTicket]]
  /\ passed = [r \in Requests |-> {}]
  /\ faults = 0

Pending(r) == step[r] \in {"incr", "expire"} /\ at[r] <= Len(Route[r])
ScopeOf(r) == Route[r][at[r]]

\* enforce returns: on to the next scope, or into the handler.
Pass(r) ==
  /\ passed' = [passed EXCEPT ![r] = @ \cup {ScopeOf(r)}]
  /\ at' = [at EXCEPT ![r] = @ + 1]
  /\ step' = [step EXCEPT ![r] = IF at[r] = Len(Route[r]) THEN "admitted" ELSE "incr"]

End(r, verdict) ==
  /\ step' = [step EXCEPT ![r] = verdict]
  /\ UNCHANGED <<at, passed>>

\* Slip: the limit is compared before the request itself is counted.
SlipJudge(r, number) ==
  IF number - 1 > Limit[ScopeOf(r)] THEN End(r, "limited") ELSE Pass(r)

Judge(r, number) ==
  IF number > Limit[ScopeOf(r)] THEN End(r, "limited") ELSE Pass(r)

\* Slip: every scope fails open.
SlipExcept(r) == Pass(r)

\* The handler around both commands.
Except(r) ==
  IF ScopeOf(r) \in FailClosed THEN End(r, "unavailable") ELSE Pass(r)

\* The key after it has been incremented k times; the window it is in.
Add(s, k) ==
  /\ counter' = [counter EXCEPT ![s] = @ + k]
  /\ window' = [window EXCEPT ![s] = IF counter[s] = 0 /\ k > 0 THEN @ + 1 ELSE @]

\* The client is created with retry_on_timeout: an INCR whose reply is late is
\* sent again, and counts twice.
Incr(r, sends) ==
  LET s == ScopeOf(r)
      number == counter[s] + sends
  IN  /\ Pending(r) /\ step[r] = "incr"
      /\ sends \in {1, 2}
      /\ faults + sends <= MaxFaults + 1
      /\ faults' = faults + (sends - 1)
      /\ Add(s, sends)
      /\ ticket' = [ticket EXCEPT ![r][s] = [window |-> window'[s], number |-> number]]
      /\ IF number = 1 THEN End(r, "expire") ELSE Judge(r, number)
      /\ UNCHANGED expiring

\* No reply: the command was applied up to two times, or Redis is away.
IncrFails(r, applied) ==
  /\ Pending(r) /\ step[r] = "incr"
  /\ faults < MaxFaults
  /\ faults' = faults + 1
  /\ applied \in 0 .. 2
  /\ Add(ScopeOf(r), applied)
  /\ Except(r)
  /\ UNCHANGED <<expiring, ticket>>

\* Slip: the time to live is set on another key.
SlipExpire(r) ==
  /\ Pending(r) /\ step[r] = "expire"
  /\ Judge(r, 1)
  /\ UNCHANGED <<counter, expiring, window, ticket, faults>>

\* EXPIRE of a key that is gone has no effect.
Expire(r) ==
  LET s == ScopeOf(r)
  IN  /\ Pending(r) /\ step[r] = "expire"
      /\ expiring' = [expiring EXCEPT ![s] = counter[s] > 0]
      /\ Judge(r, 1)
      /\ UNCHANGED <<counter, window, ticket, faults>>

ExpireFails(r, applied) ==
  LET s == ScopeOf(r)
  IN  /\ Pending(r) /\ step[r] = "expire"
      /\ faults < MaxFaults
      /\ faults' = faults + 1
      /\ expiring' = [expiring EXCEPT ![s] = @ \/ (applied /\ counter[s] > 0)]
      /\ Except(r)
      /\ UNCHANGED <<counter, window, ticket>>

Dies(r) ==
  /\ Pending(r)
  /\ faults < MaxFaults
  /\ faults' = faults + 1
  /\ End(r, "dead")
  /\ UNCHANGED <<counter, expiring, window, ticket>>

WindowEnds(s) ==
  /\ expiring[s]
  /\ counter' = [counter EXCEPT ![s] = 0]
  /\ expiring' = [expiring EXCEPT ![s] = FALSE]
  /\ UNCHANGED <<window, at, step, ticket, passed, faults>>

\* Redis keeps nothing on disk.
CountersLost ==
  /\ faults < MaxFaults
  /\ faults' = faults + 1
  /\ counter' = [s \in Scopes |-> 0]
  /\ expiring' = [s \in Scopes |-> FALSE]
  /\ UNCHANGED <<window, at, step, ticket, passed>>

RequestStep(r) ==
  \/ \E sends \in {1, 2} : Incr(r, sends)
  \/ \E applied \in 0 .. 2 : IncrFails(r, applied)
  \/ Expire(r)
  \/ \E applied \in BOOLEAN : ExpireFails(r, applied)
  \/ Dies(r)

RateNext ==
  \/ \E r \in Requests : RequestStep(r)
  \/ \E s \in Scopes : WindowEnds(s)
  \/ CountersLost

RateSpec == RateInit /\ [][RateNext]_rateVars

\* A request that has sent INCR goes on, and Redis drops keys whose time is up.
RateFairness ==
  /\ \A r \in Requests : WF_rateVars(Expire(r))
  /\ \A s \in Scopes : WF_rateVars(WindowEnds(s))
----------------------------------------------------------------------------
(* Properties.                                                             *)

RateTypeOK ==
  /\ counter \in [Scopes -> Nat]
  /\ expiring \in [Scopes -> BOOLEAN]
  /\ window \in [Scopes -> Nat]
  /\ at \in [Requests -> Nat \ {0}]
  /\ step \in [Requests ->
       {"incr", "expire", "admitted", "limited", "unavailable", "dead"}]
  /\ ticket \in [Requests -> [Scopes -> [window : Nat, number : Nat]]]
  /\ passed \in [Requests -> SUBSET Scopes]
  /\ faults \in 0 .. MaxFaults

Counted(r, s) == ticket[r][s].window > 0

\* Of the requests a scope counted in one window, at most Limit get through:
\* each that does has a number of its own among 1 .. Limit, also when commands
\* are repeated and windows end between the two commands of others.  (With a
\* limit of 0 the first one gets through where EXPIRE fails open.)
LimitHolds ==
  \A r \in Requests : \A s \in passed[r] :
    Counted(r, s) =>
      /\ ticket[r][s].number <= Limit[s] \/ ticket[r][s].number = 1
      /\ \A q \in Requests :
           s \in passed[q] /\ ticket[q][s] = ticket[r][s] => q = r

\* During an outage no request passes a scope that fails closed without having
\* been counted there.
NoFreePass ==
  \A r \in Requests : \A s \in passed[r] \cap FailClosed :
    Counted(r, s) /\ ticket[r][s].number <= Limit[s]

\* A client that was refused can come back: as long as nothing goes wrong, a
\* counter above its limit is always reset.
RefusalsEnd ==
  \A s \in Scopes : counter[s] > Limit[s] ~> (counter[s] = 0 \/ faults > 0)
=============================================================================
