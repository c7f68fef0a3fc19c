-------------------------- MODULE RedisGuardsProofs --------------------------
(***************************************************************************)
(* Proofs about the two services that guard an endpoint with keys in       *)
(* Redis: RateLimit for every set of requests and scopes, all routes and   *)
(* limits, and any number of faults; Idempotency for every set of callers, *)
(* every assignment of fingerprints and any number of losses of the key;   *)
(* and the two next to each other.                                         *)
(***************************************************************************)
EXTENDS MCRedisGuards, TLAPS

(* RateLimit.                                                              *)

(* A key without a time to live is about to get one, or something went     *)
(* wrong.                                                                  *)
CountersExpire ==
  \A s \in Scopes :
    counter[s] > 0 /\ ~expiring[s] /\ faults = 0 =>
      \E r \in Requests : Pending(r) /\ step[r] = "expire" /\ ScopeOf(r) = s

(* A request has been let through only by scopes it has left behind, and   *)
(* counted only by those and the one it is at.                             *)
Behind(r, s) == \E i \in 1 .. Len(Route[r]) : i < at[r] /\ Route[r][i] = s
Reached(r, s) ==
  \/ Behind(r, s)
  \/ step[r] # "incr" /\ at[r] <= Len(Route[r]) /\ ScopeOf(r) = s

OnRoute ==
  \A r \in Requests : \A s \in Scopes :
    /\ s \in passed[r] => Behind(r, s)
    /\ Counted(r, s) => Reached(r, s)

(* The numbers a counter has given out: none above its value as long as the *)
(* key exists, none twice.                                                 *)
NumbersGiven ==
  \A r \in Requests : \A s \in Scopes :
    /\ ticket[r][s].window <= window[s]
    /\ counter[s] > 0 /\ ticket[r][s].window = window[s] =>
         ticket[r][s].number <= counter[s]
    /\ \A q \in Requests : q # r /\ Counted(r, s) => ticket[q][s] # ticket[r][s]

FirstOfWindow ==
  \A r \in Requests :
    step[r] = "expire" =>
      /\ at[r] <= Len(Route[r])
      /\ Counted(r, ScopeOf(r)) /\ ticket[r][ScopeOf(r)].number = 1

(* What a scope that let a request through knew of it.                     *)
FairlyPassed ==
  \A r \in Requests : \A s \in passed[r] :
    /\ Counted(r, s) => ticket[r][s].number <= Limit[s] \/ ticket[r][s].number = 1
    /\ s \in FailClosed => Counted(r, s) /\ ticket[r][s].number <= Limit[s]

(* A key that exists was created in some window.                           *)
KeysInWindows == \A s \in Scopes : counter[s] > 0 => window[s] > 0

RateInv ==
  /\ RateTypeOK
  /\ OnRoute
  /\ NumbersGiven
  /\ FirstOfWindow
  /\ FairlyPassed
  /\ KeysInWindows
  /\ CountersExpire

Tickets == [window : Nat, number : Nat]
----------------------------------------------------------------------------
LEMMA RateInitHasInv == RateInit => RateInv
<1> SUFFICES ASSUME RateInit PROVE RateInv
  OBVIOUS
<1> USE DEF RateInit
<1>1. \A r \in Requests : \A s \in Scopes :
        ticket[r][s].window = 0 /\ ticket[r][s].number = 0
  BY DEF NoTicket
<1>2. RateTypeOK
  BY RoutesAndLimits DEF RateTypeOK, NoTicket
<1>3. OnRoute /\ NumbersGiven /\ FirstOfWindow /\ FairlyPassed /\ KeysInWindows
      /\ CountersExpire
  BY <1>1 DEF OnRoute, NumbersGiven, FirstOfWindow, FairlyPassed, KeysInWindows, CountersExpire, Counted
<1> QED BY <1>2, <1>3 DEF RateInv

LEMMA AtScope ==
  ASSUME RateTypeOK, NEW r \in Requests, Pending(r)
  PROVE  /\ at[r] \in 1 .. Len(Route[r]) /\ Len(Route[r]) \in Nat
         /\ ScopeOf(r) \in Scopes
         /\ ~Behind(r, ScopeOf(r))
<1>1. Route[r] \in Seq(Scopes) /\ at[r] \in Nat \ {0}
  BY RoutesAndLimits DEF RateTypeOK
<1>2. at[r] \in 1 .. Len(Route[r]) /\ Len(Route[r]) \in Nat
  BY <1>1 DEF Pending
<1>3. ScopeOf(r) \in Scopes
  BY <1>1, <1>2 DEF ScopeOf
<1>4. ~Behind(r, ScopeOf(r))
  BY <1>2, RoutesAreSimple DEF Behind, ScopeOf
<1> QED BY <1>2, <1>3, <1>4

(* How a request can leave the state it is in.                             *)
Moves(r) ==
  \/ Pass(r)
  \/ \E v \in {"expire", "limited", "unavailable", "dead"} : End(r, v)

(* Whatever a request does next, the facts about where it is on its route  *)
(* are kept, if it has a ticket of its scope or keeps its tickets.         *)
LEMMA RouteKept ==
  ASSUME RateInv, NEW r \in Requests, Pending(r), Moves(r),
         \A q \in Requests : \A s \in Scopes :
           Counted(q, s)' => Counted(q, s) \/ (q = r /\ s = ScopeOf(r))
  PROVE  /\ OnRoute'
         /\ at' \in [Requests -> Nat \ {0}] /\ passed' \in [Requests -> SUBSET Scopes]
         /\ step' \in [Requests ->
              {"incr", "expire", "admitted", "limited", "unavailable", "dead"}]
         /\ \A q \in Requests \ {r} :
              at'[q] = at[q] /\ step'[q] = step[q] /\ passed'[q] = passed[q]
<1> DEFINE c == ScopeOf(r)
<1>1. /\ at[r] \in 1 .. Len(Route[r]) /\ Len(Route[r]) \in Nat
      /\ c \in Scopes
  BY AtScope DEF RateInv
<1>2. /\ at \in [Requests -> Nat \ {0}] /\ passed \in [Requests -> SUBSET Scopes]
      /\ step \in [Requests ->
           {"incr", "expire", "admitted", "limited", "unavailable", "dead"}]
  BY DEF RateInv, RateTypeOK
<1>3. /\ at' \in [Requests -> Nat \ {0}] /\ passed' \in [Requests -> SUBSET Scopes]
      /\ step' \in [Requests ->
           {"incr", "expire", "admitted", "limited", "unavailable", "dead"}]
      /\ \A q \in Requests \ {r} :
           at'[q] = at[q] /\ step'[q] = step[q] /\ passed'[q] = passed[q]
  BY <1>1, <1>2 DEF Moves, Pass, End
<1>4. \/ at'[r] = at[r] + 1 /\ passed'[r] = passed[r] \cup {c}
      \/ at'[r] = at[r] /\ passed'[r] = passed[r] /\ step'[r] # "incr"
  BY <1>1, <1>2 DEF Moves, Pass, End
<1>5. \A q \in Requests \ {r} : \A s \in Scopes :
        (Behind(q, s)' <=> Behind(q, s)) /\ (Reached(q, s)' <=> Reached(q, s))
  BY <1>3 DEF Behind, Reached, ScopeOf
<1>6. \A s \in Scopes : Behind(r, s) => Behind(r, s)'
  BY <1>1, <1>4 DEF Behind
<1>7. \A s \in Scopes : Reached(r, s) \/ s = c => Reached(r, s)'
  <2> SUFFICES ASSUME NEW s \in Scopes, Reached(r, s) \/ s = c PROVE Reached(r, s)'
    OBVIOUS
  <2>1. Behind(r, s) \/ s = c
    BY DEF Reached
  <2>2. CASE at'[r] = at[r] + 1
    BY <1>1, <1>6, <2>1, <2>2 DEF Behind, Reached, ScopeOf
  <2>3. CASE at'[r] = at[r] /\ step'[r] # "incr"
    BY <1>1, <1>6, <2>1, <2>3 DEF Reached, ScopeOf
  <2> QED BY <1>4, <2>2, <2>3
<1>8. \A s \in Scopes : s \in passed'[r] => Behind(r, s)'
  <2> SUFFICES ASSUME NEW s \in Scopes, s \in passed'[r] PROVE Behind(r, s)'
    OBVIOUS
  <2>1. CASE s \in passed[r]
    BY <1>6, <2>1 DEF RateInv, OnRoute
  <2>2. CASE s \notin passed[r]
    BY <1>1, <1>4, <2>2 DEF Behind, ScopeOf
  <2> QED BY <2>1, <2>2
<1>9. OnRoute'
  BY <1>3, <1>5, <1>7, <1>8 DEF RateInv, OnRoute
<1> QED BY <1>3, <1>9

(* Counting a request gives it a number of its own.                        *)
LEMMA NumberTaken ==
  ASSUME RateInv, NEW r \in Requests, Pending(r), NEW sends \in {1, 2},
         Add(ScopeOf(r), sends),
         ticket' = [ticket EXCEPT ![r][ScopeOf(r)] =
                      [window |-> window'[ScopeOf(r)], number |-> counter[ScopeOf(r)] + sends]]
  PROVE  /\ NumbersGiven'
         /\ counter' \in [Scopes -> Nat] /\ window' \in [Scopes -> Nat]
         /\ ticket' \in [Requests -> [Scopes -> Tickets]]
         /\ \A q \in Requests : \A s \in Scopes :
              ~(q = r /\ s = ScopeOf(r)) => ticket'[q][s] = ticket[q][s]
         /\ ticket'[r][ScopeOf(r)].number = counter[ScopeOf(r)] + sends
         /\ ticket'[r][ScopeOf(r)].window > 0
<1> DEFINE c == ScopeOf(r)
           t == [window |-> window'[c], number |-> counter[c] + sends]
<1>1. c \in Scopes
  BY AtScope DEF RateInv
<1>2. /\ counter \in [Scopes -> Nat] /\ window \in [Scopes -> Nat]
      /\ ticket \in [Requests -> [Scopes -> Tickets]]
  BY DEF RateInv, RateTypeOK, Tickets
<1>3. /\ counter' \in [Scopes -> Nat] /\ window' \in [Scopes -> Nat]
      /\ counter'[c] = counter[c] + sends
      /\ window'[c] = IF counter[c] = 0 THEN window[c] + 1 ELSE window[c]
      /\ \A s \in Scopes \ {c} : counter'[s] = counter[s] /\ window'[s] = window[s]
  BY <1>1, <1>2 DEF Add
<1>4. t \in Tickets /\ t.window = window'[c] /\ t.number = counter[c] + sends
  BY <1>1, <1>2, <1>3 DEF Tickets
<1>5. ticket' = [ticket EXCEPT ![r][c] = t]
  OBVIOUS
<1> HIDE DEF t
<1>6. /\ ticket' \in [Requests -> [Scopes -> Tickets]]
      /\ ticket'[r][c] = t
      /\ \A q \in Requests : \A s \in Scopes :
           ~(q = r /\ s = c) => ticket'[q][s] = ticket[q][s]
  BY <1>1, <1>2, <1>4, <1>5
<1>7. \A q \in Requests : \A s \in Scopes :
        /\ ticket[q][s].window \in Nat /\ ticket[q][s].number \in Nat
        /\ ticket[q][s].window <= window[s]
        /\ counter[s] > 0 /\ ticket[q][s].window = window[s] =>
             ticket[q][s].number <= counter[s]
  BY <1>2 DEF RateInv, NumbersGiven, Tickets
<1>8. window[c] \in Nat /\ counter[c] \in Nat
  BY <1>1, <1>2
<1>9. t.window > 0
  <2>1. CASE counter[c] = 0
    BY <1>3, <1>4, <1>8, <2>1
  <2>2. CASE counter[c] > 0
    <3>1. window[c] > 0
      BY <1>1, <2>2 DEF RateInv, KeysInWindows
    <3> QED BY <1>3, <1>4, <1>8, <2>2, <3>1
  <2> QED BY <1>8, <2>1, <2>2
<1>10. \A q \in Requests : ticket[q][c] # t
  BY <1>1, <1>3, <1>4, <1>7, <1>8
<1>11. \A q \in Requests : \A s \in Scopes :
         /\ ticket'[q][s].window <= window'[s]
         /\ counter'[s] > 0 /\ ticket'[q][s].window = window'[s] =>
              ticket'[q][s].number <= counter'[s]
  <2> SUFFICES ASSUME NEW q \in Requests, NEW s \in Scopes
               PROVE  /\ ticket'[q][s].window <= window'[s]
                      /\ counter'[s] > 0 /\ ticket'[q][s].window = window'[s] =>
                           ticket'[q][s].number <= counter'[s]
    OBVIOUS
  <2>1. CASE q = r /\ s = c
    BY <1>1, <1>2, <1>3, <1>4, <1>6, <2>1
  <2>2. CASE ~(q = r /\ s = c) /\ s = c
    BY <1>1, <1>3, <1>6, <1>7, <1>8, <2>2
  <2>3. CASE s # c
    BY <1>3, <1>6, <1>7, <2>3
  <2> QED BY <2>1, <2>2, <2>3
<1>12. \A p, q \in Requests : \A s \in Scopes :
         q # p /\ ticket'[p][s].window > 0 => ticket'[q][s] # ticket'[p][s]
  BY <1>6, <1>10 DEF RateInv, NumbersGiven, Counted
<1>13. NumbersGiven'
  BY <1>11, <1>12 DEF NumbersGiven, Counted
<1>14. ticket'[r][c].number = counter[c] + sends /\ ticket'[r][c].window > 0
  BY <1>4, <1>6, <1>9
<1> QED BY <1>3, <1>6, <1>13, <1>14

(* A request that takes a number and is judged by it, or goes on to EXPIRE *)
(* with the first number of a window.                                      *)
LEMMA IncrStep ==
  ASSUME RateInv, NEW r \in Requests, NEW sends \in {1, 2}, Incr(r, sends)
  PROVE  RateInv'
<1> DEFINE c == ScopeOf(r)
           n == counter[c] + sends
<1>1. /\ Pending(r) /\ step[r] = "incr" /\ expiring' = expiring
      /\ Add(c, sends) /\ faults + sends <= MaxFaults + 1 /\ faults' = faults + (sends - 1)
      /\ ticket' = [ticket EXCEPT ![r][c] = [window |-> window'[c], number |-> n]]
  BY DEF Incr
<1>2. IF n = 1 THEN End(r, "expire") ELSE Judge(r, n)
  BY DEF Incr
<1>3. /\ at[r] \in 1 .. Len(Route[r]) /\ Len(Route[r]) \in Nat
      /\ c \in Scopes /\ ~Behind(r, c)
  BY <1>1, AtScope DEF RateInv
<1>4. /\ counter \in [Scopes -> Nat] /\ window \in [Scopes -> Nat]
      /\ step \in [Requests ->
           {"incr", "expire", "admitted", "limited", "unavailable", "dead"}]
      /\ at \in [Requests -> Nat \ {0}] /\ passed \in [Requests -> SUBSET Scopes]
      /\ Limit \in [Scopes -> Nat] /\ faults \in 0 .. MaxFaults /\ MaxFaults \in Nat
  BY RoutesAndLimits DEF RateInv, RateTypeOK
<1>5. c \notin passed[r]
  BY <1>3 DEF RateInv, OnRoute
<1>6. Moves(r)
  BY <1>2 DEF Judge, Moves
<1>7. /\ NumbersGiven'
      /\ counter' \in [Scopes -> Nat] /\ window' \in [Scopes -> Nat]
      /\ ticket' \in [Requests -> [Scopes -> Tickets]]
      /\ \A q \in Requests : \A s \in Scopes :
           ~(q = r /\ s = c) => ticket'[q][s] = ticket[q][s]
      /\ ticket'[r][c].number = n
      /\ ticket'[r][c].window > 0
  BY <1>1, NumberTaken
<1>8. /\ OnRoute'
      /\ at' \in [Requests -> Nat \ {0}] /\ passed' \in [Requests -> SUBSET Scopes]
      /\ step' \in [Requests ->
           {"incr", "expire", "admitted", "limited", "unavailable", "dead"}]
      /\ \A q \in Requests \ {r} :
           at'[q] = at[q] /\ step'[q] = step[q] /\ passed'[q] = passed[q]
  <2>1. \A q \in Requests : \A s \in Scopes :
          Counted(q, s)' => Counted(q, s) \/ (q = r /\ s = c)
    BY <1>7 DEF Counted
  <2> QED BY <1>1, <1>6, <2>1, RouteKept
<1>9. RateTypeOK'
  <2>1. faults' \in 0 .. MaxFaults
    BY <1>1, <1>4
  <2> QED BY <1>1, <1>7, <1>8, <2>1 DEF RateInv, RateTypeOK, Tickets
<1>10. step'[r] = "expire" => at'[r] = at[r] /\ n = 1
  BY <1>2, <1>4 DEF End, Judge, Pass
<1>11. FirstOfWindow'
  <2> SUFFICES ASSUME NEW q \in Requests, step'[q] = "expire"
               PROVE  /\ at'[q] <= Len(Route[q])
                      /\ ticket'[q][Route[q][at'[q]]].window > 0
                      /\ ticket'[q][Route[q][at'[q]]].number = 1
    BY DEF FirstOfWindow, Counted, ScopeOf
  <2>1. CASE q = r
    BY <1>3, <1>7, <1>10, <2>1 DEF ScopeOf
  <2>2. CASE q # r
    <3>1. step[q] = "expire" /\ at'[q] = at[q]
      BY <1>8, <2>2
    <3>2. at[q] <= Len(Route[q]) /\ Counted(q, ScopeOf(q)) /\ ticket[q][ScopeOf(q)].number = 1
      BY <3>1 DEF RateInv, FirstOfWindow
    <3>3. ScopeOf(q) \in Scopes
      BY <3>1, <3>2, AtScope DEF RateInv, Pending
    <3> QED BY <1>7, <2>2, <3>1, <3>2, <3>3 DEF Counted, ScopeOf
  <2> QED BY <2>1, <2>2
<1>12. FairlyPassed'
  <2> SUFFICES ASSUME NEW q \in Requests, NEW s \in passed'[q]
               PROVE  /\ Counted(q, s)' => ticket'[q][s].number <= Limit[s]
                                             \/ ticket'[q][s].number = 1
                      /\ s \in FailClosed => Counted(q, s)' /\ ticket'[q][s].number <= Limit[s]
    BY DEF FairlyPassed
  <2>1. s \in Scopes
    BY <1>8
  <2>2. CASE s \in passed[q]
    <3>1. ticket'[q][s] = ticket[q][s]
      BY <1>5, <1>7, <2>1, <2>2
    <3> QED BY <2>2, <3>1 DEF RateInv, FairlyPassed, Counted
  <2>3. CASE s \notin passed[q]
    <3>1. q = r /\ s = c /\ n <= Limit[c]
      <4>1. q = r
        BY <1>8, <2>3
      <4>2. /\ passed'[r] = passed[r] \/ (passed'[r] = passed[r] \cup {c} /\ ~(n > Limit[c]))
        BY <1>2, <1>4 DEF End, Judge, Pass
      <4>3. n \in Nat /\ Limit[c] \in Nat
        BY <1>3, <1>4
      <4> QED BY <2>3, <4>1, <4>2, <4>3
    <3> QED BY <1>7, <3>1 DEF Counted
  <2> QED BY <2>2, <2>3
<1>13. KeysInWindows' /\ CountersExpire'
  <2>1. /\ counter'[c] = n
        /\ window'[c] = IF counter[c] = 0 THEN window[c] + 1 ELSE window[c]
        /\ \A s \in Scopes \ {c} : counter'[s] = counter[s] /\ window'[s] = window[s]
    BY <1>1, <1>3, <1>4 DEF Add
  <2>2. KeysInWindows'
    <3> SUFFICES ASSUME NEW s \in Scopes, counter'[s] > 0 PROVE window'[s] > 0
      BY DEF KeysInWindows
    <3>1. counter[s] \in Nat /\ window[s] \in Nat /\ (counter[s] > 0 => window[s] > 0)
      BY <1>4 DEF RateInv, KeysInWindows
    <3> QED BY <2>1, <3>1
  <2>3. CountersExpire'
    <3> SUFFICES ASSUME NEW s \in Scopes, counter'[s] > 0, ~expiring'[s], faults' = 0
                 PROVE  \E q \in Requests : (Pending(q) /\ step[q] = "expire" /\ ScopeOf(q) = s)'
      BY DEF CountersExpire
    <3>1. faults = 0 /\ sends = 1
      BY <1>1, <1>4
    <3>2. CASE s = c /\ counter[c] = 0
      <4>1. n = 1
        BY <3>1, <3>2
      <4>2. step'[r] = "expire" /\ at'[r] = at[r]
        BY <1>2, <1>4, <4>1 DEF End
      <4> QED BY <1>3, <3>2, <4>2 DEF Pending, ScopeOf
    <3>3. CASE ~(s = c /\ counter[c] = 0)
      <4>1. counter[s] > 0
        BY <1>3, <1>4, <2>1, <3>3
      <4>2. PICK q \in Requests : Pending(q) /\ step[q] = "expire" /\ ScopeOf(q) = s
        BY <1>1, <3>1, <4>1 DEF RateInv, CountersExpire
      <4>3. at'[q] = at[q] /\ step'[q] = step[q]
        BY <1>1, <1>8, <4>2
      <4> QED BY <4>2, <4>3 DEF Pending, ScopeOf
    <3> QED BY <3>2, <3>3
  <2> QED BY <2>2, <2>3
<1> QED BY <1>7, <1>8, <1>9, <1>11, <1>12, <1>13 DEF RateInv

(* A request that goes on with the tickets it has: its command failed, its *)
(* key has been given a time to live, or its process died.                 *)
GoesOn(r) ==
  \/ Except(r)
  \/ step[r] = "expire" /\ Judge(r, 1)
  \/ End(r, "dead")

LEMMA GoingOn ==
  ASSUME RateInv, NEW r \in Requests, Pending(r), GoesOn(r), UNCHANGED ticket
  PROVE  /\ OnRoute' /\ FirstOfWindow' /\ FairlyPassed'
         /\ at' \in [Requests -> Nat \ {0}] /\ passed' \in [Requests -> SUBSET Scopes]
         /\ step' \in [Requests ->
              {"incr", "expire", "admitted", "limited", "unavailable", "dead"}]
         /\ \A q \in Requests \ {r} :
              at'[q] = at[q] /\ step'[q] = step[q] /\ passed'[q] = passed[q]
<1> DEFINE c == ScopeOf(r)
<1>1. c \in Scopes /\ ~Behind(r, c)
  BY AtScope DEF RateInv
<1>2. /\ step \in [Requests ->
           {"incr", "expire", "admitted", "limited", "unavailable", "dead"}]
      /\ at \in [Requests -> Nat \ {0}] /\ passed \in [Requests -> SUBSET Scopes]
      /\ Limit \in [Scopes -> Nat]
      /\ ticket \in [Requests -> [Scopes -> Tickets]]
  BY RoutesAndLimits DEF RateInv, RateTypeOK, Tickets
<1>3. Moves(r)
  BY DEF GoesOn, Except, Judge, Moves
<1>4. /\ OnRoute'
      /\ at' \in [Requests -> Nat \ {0}] /\ passed' \in [Requests -> SUBSET Scopes]
      /\ step' \in [Requests ->
           {"incr", "expire", "admitted", "limited", "unavailable", "dead"}]
      /\ \A q \in Requests \ {r} :
           at'[q] = at[q] /\ step'[q] = step[q] /\ passed'[q] = passed[q]
  <2>1. \A q \in Requests : \A s \in Scopes :
          Counted(q, s)' => Counted(q, s) \/ (q = r /\ s = ScopeOf(r))
    BY DEF Counted
  <2> QED BY <1>3, <2>1, RouteKept
<1>5. step'[r] # "expire"
  BY <1>2 DEF GoesOn, Except, Judge, Pass, End
<1>6. FirstOfWindow'
  BY <1>4, <1>5 DEF RateInv, FirstOfWindow, Counted, ScopeOf
<1>7. \/ passed'[r] = passed[r]
      \/ /\ passed'[r] = passed[r] \cup {c}
         /\ \/ c \notin FailClosed
            \/ step[r] = "expire" /\ ~(1 > Limit[c])
  BY <1>2 DEF GoesOn, Except, Judge, Pass, End
<1>8. step[r] = "expire" => Counted(r, c) /\ ticket[r][c].number = 1
  BY DEF RateInv, FirstOfWindow
<1>9. step[r] # "expire" => ~Counted(r, c)
  <2>1. step[r] # "expire" => step[r] = "incr"
    BY DEF Pending
  <2>2. step[r] = "incr" => ~Reached(r, c)
    BY <1>1 DEF Reached
  <2> QED BY <1>1, <2>1, <2>2 DEF RateInv, OnRoute
<1>10. FairlyPassed'
  <2> SUFFICES ASSUME NEW q \in Requests, NEW s \in passed'[q]
               PROVE  /\ Counted(q, s) => ticket[q][s].number <= Limit[s]
                                            \/ ticket[q][s].number = 1
                      /\ s \in FailClosed => Counted(q, s) /\ ticket[q][s].number <= Limit[s]
    BY DEF FairlyPassed, Counted
  <2>1. CASE s \in passed[q]
    BY <2>1 DEF RateInv, FairlyPassed
  <2>2. CASE s \notin passed[q]
    <3>1. q = r /\ s = c
      BY <1>4, <1>7, <2>2
    <3>2. Limit[c] \in Nat
      BY <1>1, <1>2
    <3>3. passed'[r] # passed[r]
      BY <2>2, <3>1
    <3>4. CASE step[r] = "expire"
      BY <1>7, <1>8, <3>1, <3>2, <3>3, <3>4
    <3>5. CASE step[r] # "expire"
      BY <1>7, <1>9, <3>1, <3>3, <3>5
    <3> QED BY <3>4, <3>5
  <2> QED BY <2>1, <2>2
<1> QED BY <1>4, <1>6, <1>10

(* The numbers given out stay right while the counters grow, or end.       *)
LEMMA NumbersKept ==
  ASSUME RateInv, UNCHANGED ticket,
         counter' \in [Scopes -> Nat], window' \in [Scopes -> Nat],
         \A s \in Scopes :
           \/ counter'[s] = 0 /\ window'[s] = window[s]
           \/ counter'[s] >= counter[s] /\ window'[s] = window[s] /\ counter[s] > 0
           \/ counter'[s] > 0 /\ window'[s] = window[s] + 1
  PROVE  NumbersGiven' /\ KeysInWindows'
<1>1. /\ counter \in [Scopes -> Nat] /\ window \in [Scopes -> Nat]
      /\ ticket \in [Requests -> [Scopes -> Tickets]]
  BY DEF RateInv, RateTypeOK, Tickets
<1>2. ASSUME NEW r \in Requests, NEW s \in Scopes
      PROVE  /\ ticket[r][s].window <= window'[s]
             /\ counter'[s] > 0 /\ ticket[r][s].window = window'[s] =>
                  ticket[r][s].number <= counter'[s]
  <2>1. /\ counter[s] \in Nat /\ window[s] \in Nat /\ counter'[s] \in Nat
        /\ ticket[r][s].window \in Nat /\ ticket[r][s].number \in Nat
    BY <1>1 DEF Tickets
  <2>2. /\ ticket[r][s].window <= window[s]
        /\ counter[s] > 0 /\ ticket[r][s].window = window[s] =>
             ticket[r][s].number <= counter[s]
    BY DEF RateInv, NumbersGiven
  <2> QED BY <2>1, <2>2
<1>3. NumbersGiven'
  BY <1>2 DEF RateInv, NumbersGiven, Counted
<1>4. KeysInWindows'
  <2> SUFFICES ASSUME NEW s \in Scopes, counter'[s] > 0 PROVE window'[s] > 0
    BY DEF KeysInWindows
  <2>1. window[s] \in Nat /\ counter[s] \in Nat /\ (counter[s] > 0 => window[s] > 0)
    BY <1>1 DEF RateInv, KeysInWindows
  <2> QED BY <2>1
<1> QED BY <1>3, <1>4

LEMMA IncrFailsStep ==
  ASSUME RateInv, NEW r \in Requests, NEW applied \in 0 .. 2, IncrFails(r, applied)
  PROVE  RateInv'
<1> DEFINE c == ScopeOf(r)
<1>1. /\ Pending(r) /\ faults < MaxFaults /\ faults' = faults + 1
      /\ Add(c, applied) /\ Except(r) /\ UNCHANGED <<expiring, ticket>>
  BY DEF IncrFails
<1>2. /\ c \in Scopes /\ faults \in Nat /\ MaxFaults \in Nat
      /\ counter \in [Scopes -> Nat] /\ window \in [Scopes -> Nat]
  <2>1. c \in Scopes
    BY <1>1, AtScope DEF RateInv
  <2> QED BY <2>1, RoutesAndLimits DEF RateInv, RateTypeOK
<1>3. /\ OnRoute' /\ FirstOfWindow' /\ FairlyPassed'
      /\ at' \in [Requests -> Nat \ {0}] /\ passed' \in [Requests -> SUBSET Scopes]
      /\ step' \in [Requests ->
           {"incr", "expire", "admitted", "limited", "unavailable", "dead"}]
  BY <1>1, GoingOn DEF GoesOn
<1>4. /\ counter' \in [Scopes -> Nat] /\ window' \in [Scopes -> Nat]
      /\ \A s \in Scopes :
           /\ counter'[s] = IF s = c THEN counter[s] + applied ELSE counter[s]
           /\ window'[s] = IF s = c /\ counter[s] = 0 /\ applied > 0 THEN window[s] + 1
                                                                    ELSE window[s]
  BY <1>1, <1>2 DEF Add
<1>5. NumbersGiven' /\ KeysInWindows'
  <2>1. \A s \in Scopes : counter[s] \in Nat /\ window[s] \in Nat
    BY <1>2
  <2>2. \A s \in Scopes :
          \/ counter'[s] = 0 /\ window'[s] = window[s]
          \/ counter'[s] >= counter[s] /\ window'[s] = window[s] /\ counter[s] > 0
          \/ counter'[s] > 0 /\ window'[s] = window[s] + 1
    BY <1>4, <2>1
  <2> QED BY <1>1, <1>4, <2>2, NumbersKept
<1>6. RateTypeOK'
  BY <1>1, <1>2, <1>3, <1>4 DEF RateInv, RateTypeOK
<1>7. CountersExpire'
  BY <1>1, <1>2 DEF CountersExpire
<1> QED BY <1>3, <1>5, <1>6, <1>7 DEF RateInv

LEMMA ExpireStep ==
  ASSUME RateInv, NEW r \in Requests, Expire(r)
  PROVE  RateInv'
<1> DEFINE c == ScopeOf(r)
<1>1. /\ Pending(r) /\ step[r] = "expire" /\ Judge(r, 1)
      /\ expiring' = [expiring EXCEPT ![c] = counter[c] > 0]
      /\ UNCHANGED <<counter, window, ticket, faults>>
  BY DEF Expire
<1>2. /\ c \in Scopes /\ counter \in [Scopes -> Nat]
      /\ expiring \in [Scopes -> BOOLEAN]
  BY <1>1, AtScope DEF RateInv, RateTypeOK
<1>3. /\ OnRoute' /\ FirstOfWindow' /\ FairlyPassed'
      /\ at' \in [Requests -> Nat \ {0}] /\ passed' \in [Requests -> SUBSET Scopes]
      /\ step' \in [Requests ->
           {"incr", "expire", "admitted", "limited", "unavailable", "dead"}]
      /\ \A q \in Requests \ {r} :
           at'[q] = at[q] /\ step'[q] = step[q] /\ passed'[q] = passed[q]
  BY <1>1, GoingOn DEF GoesOn
<1>4. NumbersGiven' /\ KeysInWindows'
  BY <1>1 DEF RateInv, NumbersGiven, KeysInWindows, Counted
<1>5. /\ expiring' \in [Scopes -> BOOLEAN]
      /\ expiring'[c] = (counter[c] > 0)
      /\ \A s \in Scopes \ {c} : expiring'[s] = expiring[s]
  <2>1. (counter[c] > 0) \in BOOLEAN
    OBVIOUS
  <2> QED BY <1>1, <1>2, <2>1
<1>6. RateTypeOK'
  BY <1>1, <1>3, <1>5 DEF RateInv, RateTypeOK
<1>7. CountersExpire'
  <2> SUFFICES ASSUME NEW s \in Scopes, counter[s] > 0, ~expiring'[s], faults = 0
               PROVE  \E q \in Requests : (Pending(q) /\ step[q] = "expire" /\ ScopeOf(q) = s)'
    BY <1>1 DEF CountersExpire
  <2>1. s # c
    BY <1>5
  <2>2. ~expiring[s]
    BY <1>5, <2>1
  <2>3. PICK q \in Requests : Pending(q) /\ step[q] = "expire" /\ ScopeOf(q) = s
    BY <2>2 DEF RateInv, CountersExpire
  <2>4. at'[q] = at[q] /\ step'[q] = step[q]
    BY <1>3, <2>1, <2>3
  <2> QED BY <2>3, <2>4 DEF Pending, ScopeOf
<1> QED BY <1>3, <1>4, <1>6, <1>7 DEF RateInv

LEMMA ExpireFailsStep ==
  ASSUME RateInv, NEW r \in Requests, NEW applied \in BOOLEAN, ExpireFails(r, applied)
  PROVE  RateInv'
<1> DEFINE c == ScopeOf(r)
<1>1. /\ Pending(r) /\ faults < MaxFaults /\ faults' = faults + 1 /\ Except(r)
      /\ expiring' = [expiring EXCEPT ![c] = @ \/ (applied /\ counter[c] > 0)]
      /\ UNCHANGED <<counter, window, ticket>>
  BY DEF ExpireFails
<1>2. /\ c \in Scopes /\ faults \in Nat /\ MaxFaults \in Nat
      /\ expiring \in [Scopes -> BOOLEAN]
  BY <1>1, AtScope, RoutesAndLimits DEF RateInv, RateTypeOK
<1>3. /\ OnRoute' /\ FirstOfWindow' /\ FairlyPassed'
      /\ at' \in [Requests -> Nat \ {0}] /\ passed' \in [Requests -> SUBSET Scopes]
      /\ step' \in [Requests ->
           {"incr", "expire", "admitted", "limited", "unavailable", "dead"}]
  BY <1>1, GoingOn DEF GoesOn
<1>4. NumbersGiven' /\ KeysInWindows'
  BY <1>1 DEF RateInv, NumbersGiven, KeysInWindows, Counted
<1>5. expiring' \in [Scopes -> BOOLEAN]
  <2>1. (expiring[c] \/ (applied /\ counter[c] > 0)) \in BOOLEAN
    OBVIOUS
  <2> QED BY <1>1, <1>2, <2>1
<1>6. RateTypeOK' /\ CountersExpire'
  BY <1>1, <1>2, <1>3, <1>5 DEF RateInv, RateTypeOK, CountersExpire
<1> QED BY <1>3, <1>4, <1>6 DEF RateInv

LEMMA DiesStep ==
  ASSUME RateInv, NEW r \in Requests, Dies(r)
  PROVE  RateInv'
<1>1. /\ Pending(r) /\ faults < MaxFaults /\ faults' = faults + 1 /\ End(r, "dead")
      /\ UNCHANGED <<counter, expiring, window, ticket>>
  BY DEF Dies
<1>2. faults \in Nat /\ MaxFaults \in Nat
  BY RoutesAndLimits DEF RateInv, RateTypeOK
<1>3. /\ OnRoute' /\ FirstOfWindow' /\ FairlyPassed'
      /\ at' \in [Requests -> Nat \ {0}] /\ passed' \in [Requests -> SUBSET Scopes]
      /\ step' \in [Requests ->
           {"incr", "expire", "admitted", "limited", "unavailable", "dead"}]
  BY <1>1, GoingOn DEF GoesOn
<1>4. NumbersGiven' /\ KeysInWindows'
  BY <1>1 DEF RateInv, NumbersGiven, KeysInWindows, Counted
<1>5. RateTypeOK' /\ CountersExpire'
  BY <1>1, <1>2, <1>3 DEF RateInv, RateTypeOK, CountersExpire
<1> QED BY <1>3, <1>4, <1>5 DEF RateInv

(* Keys that disappear take no request anywhere.                           *)
LEMMA KeysGoStep ==
  ASSUME RateInv, (\E s \in Scopes : WindowEnds(s)) \/ CountersLost
  PROVE  RateInv'
<1>1. UNCHANGED <<window, at, step, ticket, passed>>
  BY DEF WindowEnds, CountersLost
<1>2. /\ counter \in [Scopes -> Nat] /\ window \in [Scopes -> Nat]
      /\ expiring \in [Scopes -> BOOLEAN] /\ faults \in Nat /\ MaxFaults \in Nat
  BY RoutesAndLimits DEF RateInv, RateTypeOK
<1>3. /\ counter' \in [Scopes -> Nat] /\ expiring' \in [Scopes -> BOOLEAN]
      /\ \A s \in Scopes :
           counter'[s] = 0 \/ (counter'[s] = counter[s] /\ expiring'[s] = expiring[s])
  <2>1. CASE CountersLost
    BY <2>1 DEF CountersLost
  <2>2. ASSUME NEW s \in Scopes, WindowEnds(s)
        PROVE  /\ counter' \in [Scopes -> Nat] /\ expiring' \in [Scopes -> BOOLEAN]
               /\ \A u \in Scopes :
                    counter'[u] = 0 \/ (counter'[u] = counter[u] /\ expiring'[u] = expiring[u])
    BY <1>2, <2>2 DEF WindowEnds
  <2> QED BY <2>1, <2>2
<1>4. faults' \in 0 .. MaxFaults /\ (faults' = 0 => faults = 0)
  BY <1>2 DEF WindowEnds, CountersLost, RateInv, RateTypeOK
<1>5. OnRoute' /\ FirstOfWindow' /\ FairlyPassed'
  BY <1>1 DEF RateInv, OnRoute, Behind, Reached, FirstOfWindow, FairlyPassed, Counted, ScopeOf
<1>6. NumbersGiven' /\ KeysInWindows'
  <2>1. \A s \in Scopes :
          \/ counter'[s] = 0 /\ window'[s] = window[s]
          \/ counter'[s] >= counter[s] /\ window'[s] = window[s] /\ counter[s] > 0
    BY <1>1, <1>2, <1>3
  <2> QED BY <1>1, <1>2, <1>3, <2>1, NumbersKept
<1>7. RateTypeOK'
  BY <1>1, <1>3, <1>4 DEF RateInv, RateTypeOK
<1>8. CountersExpire'
  BY <1>1, <1>2, <1>3, <1>4 DEF RateInv, CountersExpire, Pending, ScopeOf
<1> QED BY <1>5, <1>6, <1>7, <1>8 DEF RateInv

LEMMA RateStep == RateInv /\ [RateNext]_rateVars => RateInv'
<1> SUFFICES ASSUME RateInv, [RateNext]_rateVars PROVE RateInv'
  OBVIOUS
<1>1. CASE UNCHANGED rateVars
  <2> USE <1>1 DEF rateVars, Counted, Pending, ScopeOf
  <2>1. RateTypeOK' /\ NumbersGiven' /\ KeysInWindows' /\ FairlyPassed'
    BY DEF RateInv, RateTypeOK, NumbersGiven, KeysInWindows, FairlyPassed
  <2>2. OnRoute' /\ FirstOfWindow' /\ CountersExpire'
    BY DEF RateInv, OnRoute, Behind, Reached, FirstOfWindow, CountersExpire
  <2> QED BY <2>1, <2>2 DEF RateInv
<1>2. ASSUME NEW r \in Requests, RequestStep(r) PROVE RateInv'
  BY <1>2, IncrStep, IncrFailsStep, ExpireStep, ExpireFailsStep, DiesStep DEF RequestStep
<1> QED BY <1>1, <1>2, KeysGoStep DEF RateNext

LEMMA RateInvariance == RateSpec => []RateInv
BY RateInitHasInv, RateStep, PTL DEF RateSpec

(* INCR gives every request of a window a number of its own, so a scope    *)
(* lets no more than its limit through, whatever is repeated, fails or     *)
(* expires in between.                                                     *)
THEOREM LimitsHold == RateSpec => []LimitHolds
<1>1. RateInv => LimitHolds
  <2> SUFFICES ASSUME RateInv, NEW r \in Requests, NEW s \in passed[r], Counted(r, s)
               PROVE  /\ ticket[r][s].number <= Limit[s] \/ ticket[r][s].number = 1
                      /\ \A q \in Requests :
                           s \in passed[q] /\ ticket[q][s] = ticket[r][s] => q = r
    BY DEF LimitHolds
  <2>1. s \in Scopes
    BY DEF RateInv, RateTypeOK
  <2> QED BY <2>1 DEF RateInv, FairlyPassed, NumbersGiven
<1> QED BY <1>1, RateInvariance, PTL

(* A scope that fails closed lets no request through that it has not       *)
(* counted, also while Redis answers some commands and not others.         *)
THEOREM OutagesAdmitNobody == RateSpec => []NoFreePass
<1>1. RateInv => NoFreePass
  BY DEF RateInv, FairlyPassed, NoFreePass
<1> QED BY <1>1, RateInvariance, PTL

(* INCR and EXPIRE are two commands, but while nothing fails the request   *)
(* that created a key is on its way to give it a time to live.             *)
THEOREM EveryCounterExpires == RateSpec => []CountersExpire
<1>1. RateInv => CountersExpire
  BY DEF RateInv
<1> QED BY <1>1, RateInvariance, PTL
----------------------------------------------------------------------------
(* Idempotency.                                                            *)

(* A caller that reserved or found the key since its last loss still finds *)
(* a record there; no caller sent SET NX in the future.                    *)
KeyIsThere ==
  \A c \in Callers :
    /\ before[c] <= losses
    /\ (Working(c) \/ doing[c] = "read") /\ before[c] = losses => record # NoRecord

(* While no caller has stored a result after losing its key, the record is *)
(* that of the caller at work, and a result belongs to its request.        *)
RecordIsMine ==
  late = {} =>
    /\ \A c \in Callers : before[c] = losses =>
         /\ doing[c] \in {"work", "store"} => record.fingerprint = Fingerprint[c]
         /\ doing[c] = "store" => copy[c].fingerprint = Fingerprint[c]
    /\ record.payload # Nobody => Fingerprint[record.payload] = record.fingerprint

KeyInv ==
  /\ IdemTypeOK
  /\ KeyIsThere
  /\ CarriedOutOnce
  /\ RecordIsMine
  /\ RepeatsGetTheirResult
  /\ LossesExplainConflicts
----------------------------------------------------------------------------
LEMMA KeyInitHasInv == IdemInit => KeyInv
<1> SUFFICES ASSUME IdemInit PROVE KeyInv
  OBVIOUS
<1> USE DEF IdemInit
<1>1. NoRecord \in Records /\ NoRecord.payload = Nobody
  BY DEF Records, NoRecord
<1>2. IdemTypeOK
  BY <1>1 DEF IdemTypeOK
<1>3. KeyIsThere /\ CarriedOutOnce
  BY DEF KeyIsThere, CarriedOutOnce, Working
<1>4. RecordIsMine /\ RepeatsGetTheirResult /\ LossesExplainConflicts
  BY <1>1 DEF RecordIsMine, RepeatsGetTheirResult, LossesExplainConflicts
<1> QED BY <1>2, <1>3, <1>4 DEF KeyInv

(* A reservation is a record, and so is what store_result writes.          *)
LEMMA RecordsWritten ==
  ASSUME IdemTypeOK, NEW c \in Callers
  PROVE  /\ Pend(c) \in Records /\ Pend(c) # NoRecord
         /\ Pend(c).fingerprint = Fingerprint[c] /\ Pend(c).payload = Nobody
         /\ LET result == [copy[c] EXCEPT !.status = "completed", !.payload = c]
            IN  /\ result \in Records /\ result # NoRecord
                /\ result.fingerprint = copy[c].fingerprint /\ result.payload = c
<1>1. copy[c] \in Records
  BY DEF IdemTypeOK
<1>2. /\ Pend(c) \in Records /\ Pend(c).status # NoRecord.status
      /\ Pend(c).fingerprint = Fingerprint[c] /\ Pend(c).payload = Nobody
  BY DEF Pend, Records, NoRecord
<1> DEFINE result == [copy[c] EXCEPT !.status = "completed", !.payload = c]
<1>3. /\ result \in Records /\ result.status # NoRecord.status
      /\ result.fingerprint = copy[c].fingerprint /\ result.payload = c
  BY <1>1 DEF Records, NoRecord
<1> QED BY <1>2, <1>3

LEMMA ReserveStep ==
  ASSUME KeyInv, NEW c \in Callers, Reserve(c)
  PROVE  KeyInv'
<1> USE DEF KeyInv, IdemTypeOK
<1>1. /\ doing[c] = "start" /\ before' = [before EXCEPT ![c] = losses]
      /\ UNCHANGED <<copy, answer, losses, late>>
  BY DEF Reserve
<1>2. CASE record = NoRecord
  <2>1. record' = Pend(c) /\ doing' = [doing EXCEPT ![c] = "work"]
    BY <1>2 DEF Reserve, Becomes
  <2>2. record' \in Records /\ record' # NoRecord
        /\ record'.fingerprint = Fingerprint[c] /\ record'.payload = Nobody
    BY <2>1, RecordsWritten
  <2>3. \A d \in Callers : Working(d) => before[d] # losses
    BY <1>2 DEF KeyIsThere
  <2>4. IdemTypeOK' /\ KeyIsThere'
    BY <1>1, <2>1, <2>2 DEF KeyIsThere, Working
  <2>5. CarriedOutOnce'
    BY <1>1, <2>1, <2>3 DEF CarriedOutOnce, Working
  <2>6. RecordIsMine'
    BY <1>1, <2>1, <2>2, <2>3 DEF RecordIsMine, Working
  <2>7. RepeatsGetTheirResult' /\ LossesExplainConflicts'
    BY <1>1, <2>1 DEF RepeatsGetTheirResult, LossesExplainConflicts
  <2> QED BY <2>4, <2>5, <2>6, <2>7
<1>3. CASE record # NoRecord
  <2>1. record' = record /\ doing' = [doing EXCEPT ![c] = "read"]
    BY <1>3 DEF Reserve, Becomes
  <2> QED
    BY <1>1, <1>3, <2>1
    DEF KeyIsThere, CarriedOutOnce, Working, RecordIsMine, RepeatsGetTheirResult,
        LossesExplainConflicts
<1> QED BY <1>2, <1>3

LEMMA ReadStep ==
  ASSUME KeyInv, NEW c \in Callers, Read(c)
  PROVE  KeyInv'
<1> USE DEF KeyInv, IdemTypeOK
<1>1. doing[c] = "read" /\ UNCHANGED <<record, copy, losses, before, late>>
  BY DEF Read
<1>2. PICK state \in {"corrupted", "mismatch", "repeated"} :
        /\ doing' = [doing EXCEPT ![c] = state]
        /\ state = "corrupted" => record = NoRecord
        /\ IF state = "repeated" THEN /\ record.fingerprint = Fingerprint[c]
                                      /\ answer' = [answer EXCEPT ![c] = record.payload]
                                 ELSE answer' = answer
  BY DEF Read, Becomes
<1>3. record.payload \in Callers \cup {Nobody}
  BY DEF Records
<1>4. IdemTypeOK'
  BY <1>1, <1>2, <1>3
<1>5. KeyIsThere' /\ CarriedOutOnce' /\ RecordIsMine'
  BY <1>1, <1>2 DEF KeyIsThere, CarriedOutOnce, RecordIsMine, Working
<1>6. RepeatsGetTheirResult'
  BY <1>1, <1>2, <1>3 DEF RepeatsGetTheirResult, RecordIsMine
<1>7. LossesExplainConflicts'
  BY <1>1, <1>2 DEF LossesExplainConflicts, KeyIsThere
<1> QED BY <1>4, <1>5, <1>6, <1>7

LEMMA FetchStep ==
  ASSUME KeyInv, NEW c \in Callers, Fetch(c)
  PROVE  KeyInv'
<1> USE DEF KeyInv, IdemTypeOK
<1>1. doing[c] = "work" /\ UNCHANGED <<record, answer, losses, before, late>>
  BY DEF Fetch
<1>2. CASE record = NoRecord
  <2>1. doing' = [doing EXCEPT ![c] = "missing"] /\ copy' = copy
    BY <1>2 DEF Fetch, Becomes
  <2>2. before[c] < losses
    BY <1>1, <1>2 DEF KeyIsThere, Working
  <2> QED
    BY <1>1, <2>1, <2>2
    DEF KeyIsThere, CarriedOutOnce, Working, RecordIsMine, RepeatsGetTheirResult,
        LossesExplainConflicts
<1>3. CASE record # NoRecord
  <2>1. doing' = [doing EXCEPT ![c] = "store"] /\ copy' = [copy EXCEPT ![c] = record]
    BY <1>3 DEF Fetch, Becomes
  <2> QED
    BY <1>1, <2>1
    DEF KeyIsThere, CarriedOutOnce, Working, RecordIsMine, RepeatsGetTheirResult,
        LossesExplainConflicts
<1> QED BY <1>2, <1>3

LEMMA StoreStep ==
  ASSUME KeyInv, NEW c \in Callers, Store(c)
  PROVE  KeyInv'
<1> USE DEF KeyInv, IdemTypeOK
<1>1. /\ doing[c] = "store" /\ doing' = [doing EXCEPT ![c] = "stored"]
      /\ late' = IF before[c] < losses THEN late \cup {c} ELSE late
      /\ UNCHANGED <<copy, answer, losses, before>>
  BY DEF Store, Becomes
<1>2. /\ record' \in Records /\ record' # NoRecord
      /\ record'.fingerprint = copy[c].fingerprint /\ record'.payload = c
  BY RecordsWritten DEF Store
<1>3. IdemTypeOK' /\ KeyIsThere' /\ CarriedOutOnce'
  BY <1>1, <1>2 DEF KeyIsThere, CarriedOutOnce, Working
<1>4. RecordIsMine'
  <2>1. SUFFICES ASSUME late' = {} PROVE RecordIsMine'
    BY DEF RecordIsMine
  <2>2. late = {} /\ before[c] = losses
    BY <1>1, <2>1 DEF KeyIsThere
  <2>3. \A d \in Callers : doing[d] \in {"work", "store"} /\ before[d] = losses => d = c
    BY <1>1, <2>2 DEF CarriedOutOnce, Working
  <2> QED BY <1>1, <1>2, <2>2, <2>3 DEF RecordIsMine
<1>5. RepeatsGetTheirResult' /\ LossesExplainConflicts'
  <2>1. late' = {} => late = {}
    BY <1>1
  <2> QED BY <1>1, <2>1 DEF RepeatsGetTheirResult, LossesExplainConflicts
<1> QED BY <1>3, <1>4, <1>5

LEMMA GiveUpStep ==
  ASSUME KeyInv, NEW c \in Callers, GiveUp(c)
  PROVE  KeyInv'
BY DEF KeyInv, IdemTypeOK, GiveUp, Becomes, KeyIsThere, CarriedOutOnce, Working, RecordIsMine,
       RepeatsGetTheirResult, LossesExplainConflicts

LEMMA VanishStep ==
  ASSUME KeyInv, Vanish
  PROVE  KeyInv'
<1> USE DEF KeyInv, IdemTypeOK
<1>1. /\ record' = NoRecord /\ losses' = losses + 1
      /\ UNCHANGED <<doing, copy, answer, before, late>>
  BY DEF Vanish
<1>2. NoRecord \in Records /\ NoRecord.payload = Nobody
  BY DEF NoRecord, Records
<1>3. \A c \in Callers : before[c] \in Nat /\ before[c] < losses'
  BY <1>1 DEF KeyIsThere
<1>4. IdemTypeOK' /\ CarriedOutOnce'
  BY <1>1, <1>2 DEF CarriedOutOnce, Working
<1>5. KeyIsThere' /\ LossesExplainConflicts'
  BY <1>1, <1>3 DEF KeyIsThere, LossesExplainConflicts, Working
<1>6. RecordIsMine' /\ RepeatsGetTheirResult'
  BY <1>1, <1>2, <1>3 DEF RecordIsMine, RepeatsGetTheirResult
<1> QED BY <1>4, <1>5, <1>6

LEMMA KeyStep == KeyInv /\ [IdemNext]_idemVars => KeyInv'
<1> SUFFICES ASSUME KeyInv, [IdemNext]_idemVars PROVE KeyInv'
  OBVIOUS
<1>1. CASE UNCHANGED idemVars
  BY <1>1 DEF idemVars, KeyInv, IdemTypeOK, KeyIsThere, CarriedOutOnce, Working, RecordIsMine,
              RepeatsGetTheirResult, LossesExplainConflicts
<1> QED
  BY <1>1, ReserveStep, ReadStep, FetchStep, StoreStep, GiveUpStep, VanishStep
  DEF IdemNext, CallerStep

LEMMA KeyInvariance == IdemSpec => []KeyInv
BY KeyInitHasInv, KeyStep, PTL DEF IdemSpec

(* SET NX lets one caller through until the key is lost, however reads,    *)
(* results and failures interleave.                                        *)
THEOREM OnePerKey == IdemSpec => []CarriedOutOnce
<1>1. KeyInv => CarriedOutOnce
  BY DEF KeyInv
<1> QED BY KeyInvariance, <1>1, PTL

(* store_result is two commands; its result reaches only repetitions of    *)
(* its request as long as nobody stored after losing the key it had.       *)
THEOREM ResultsAreOwn == IdemSpec => []RepeatsGetTheirResult
<1>1. KeyInv => RepeatsGetTheirResult
  BY DEF KeyInv
<1> QED BY KeyInvariance, <1>1, PTL

(* A caller is told of a corrupted or missing record only after a loss.    *)
THEOREM ConflictsAreExplained == IdemSpec => []LossesExplainConflicts
<1>1. KeyInv => LossesExplainConflicts
  BY DEF KeyInv
<1> QED BY KeyInvariance, <1>1, PTL
----------------------------------------------------------------------------
(* The two services together: a step of one leaves the keys of the other   *)
(* alone.                                                                  *)

GuardsInv == RateInv /\ KeyInv

LEMMA GuardsInvariance == GuardsSpec => []GuardsInv
<1>1. GuardsInit => GuardsInv
  BY RateInitHasInv, KeyInitHasInv DEF GuardsInit, GuardsInv
<1>2. GuardsInv /\ [ServeLimits \/ ServeKey]_guardVars => GuardsInv'
  <2> SUFFICES ASSUME GuardsInv, [ServeLimits \/ ServeKey]_guardVars PROVE GuardsInv'
    OBVIOUS
  <2>1. [RateNext]_rateVars /\ [IdemNext]_idemVars
    BY DEF ServeLimits, ServeKey, guardVars
  <2> QED BY <2>1, RateStep, KeyStep DEF GuardsInv
<1> QED BY <1>1, <1>2, PTL DEF GuardsSpec

(* Whatever the two services store and hand out has its type, also when    *)
(* commands are repeated and keys expire between them.                     *)
THEOREM GuardsTyped == GuardsSpec => []GuardsTypeOK
<1>1. GuardsInv => GuardsTypeOK
  BY DEF GuardsInv, RateInv, KeyInv, GuardsTypeOK
<1> QED BY GuardsInvariance, <1>1, PTL
=============================================================================
