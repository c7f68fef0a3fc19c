------------------------ MODULE AuthSessionsProofs ------------------------
(***************************************************************************)
(* Theorems about AuthSessions, for every set of requests, any kinds of    *)
(* request and any number of them in flight.  A family stays a chain       *)
(* because the row lock makes what a refresh has read of its token true    *)
(* until it commits; that is what Locking says.                            *)
(***************************************************************************)
EXTENDS AuthSessions, TLAPS

(* A request issues its token when it is done; a handler works on tokens   *)
(* that exist; what it read of its token, and of the rows it will revoke,  *)
(* still holds; and a row lock has one holder.                             *)
Fresh == \A r \in Requests : Issued(r) => req[r].pc = "done"

Reads ==
  \A r \in Requests :
    /\ req[r].pc = "new" => req[r].tok = None
    /\ req[r].pc = "locked" => (req[r].live <=> Live(req[r].tok))
    /\ req[r].pc # "revoking" => req[r].taken = {}
    /\ \A t \in req[r].targets : Issued(t)
    /\ \A t \in req[r].taken : Live(t)

Exclusive ==
  \A p, r \in Requests : p # r => \A t \in Requests : ~(Holds(p, t) /\ Holds(r, t))

Locking == Fresh /\ Reads /\ Exclusive

(* The chain, without the set of families: a family has one token that is  *)
(* not exchanged, and only that one may be live; the token that gave the   *)
(* family its name has been issued.                                        *)
Chain ==
  /\ \A s, t \in Requests :
       /\ Issued(s) /\ token[s].next = None
       /\ Issued(t) /\ token[t].next = None
       /\ token[s].family = token[t].family
       => s = t
  /\ \A s \in Requests : Issued(s) =>
       \E t \in Requests :
         Issued(t) /\ token[t].next = None /\ token[t].family = token[s].family
  /\ \A t \in Requests : Live(t) => token[t].next = None
  /\ \A t \in Requests : Issued(t) => Issued(token[t].family)

(* What a handler owes: a token due to end is dead already, or the UPDATE   *)
(* has yet to reach it, or has it and is not committed.                    *)
Owing ==
  \A r \in Requests :
    /\ \A t \in req[r].due : Issued(t)
    /\ req[r].pc \in {"waiting", "locked"} /\ req[r].kind = "logout" =>
         req[r].due = {req[r].tok}
    /\ req[r].pc = "revoking" =>
         \A t \in req[r].due : t \in req[r].targets \cup req[r].taken \/ ~Live(t)
    /\ req[r].pc = "ended" => \A t \in req[r].due : ~Live(t)

IInv == TypeOK /\ Locking /\ Chain /\ Owing
----------------------------------------------------------------------------
(* A handler's transaction ends; an issued token stays issued.             *)
LEMMA FinishType ==
  ASSUME TypeOK, NEW r \in Requests, NEW pc \in {"ended", "done"}, Finish(r, pc),
         user' = user, token' \in [Requests -> TokenRow],
         \A t \in Requests : Issued(t) => Issued(t)'
  PROVE  TypeOK'
<1>0. req[r] \in RequestState
  BY DEF TypeOK
<1>1. [req[r] EXCEPT !.pc = pc, !.targets = {}, !.taken = {}] \in RequestState
  BY <1>0 DEF RequestState
<1>2. req' \in [Requests -> RequestState]
  BY <1>1 DEF TypeOK, Finish
<1>3. ASSUME NEW p \in Requests, req'[p].pc \in {"waiting", "locked"}
      PROVE  (req[p].tok \in Requests /\ Issued(req[p].tok))'
  <2>1. p # r /\ req'[p] = req[p]
    BY <1>3 DEF TypeOK, Finish, RequestState
  <2> QED BY <1>3, <2>1 DEF TypeOK
<1> QED BY <1>2, <1>3 DEF TypeOK

(* A handler goes on with its transaction.                                 *)
LEMMA MoveType ==
  ASSUME TypeOK, NEW r \in Requests, NEW s \in RequestState, req' = [req EXCEPT ![r] = s],
         s.pc \in {"waiting", "locked"} => s.tok \in Requests /\ Issued(s.tok),
         user' = user, token' = token
  PROVE  TypeOK'
<1>1. req' \in [Requests -> RequestState]
  BY DEF TypeOK
<1> QED BY <1>1 DEF TypeOK, Issued

(* Type correctness, as one step of the system.                            *)
LEMMA TypeStep ==
  ASSUME TypeOK, [Next]_vars
  PROVE  TypeOK'
<1>0. ASSUME NEW r \in Requests PROVE req[r] \in RequestState
  BY DEF TypeOK
<1>1. ASSUME NEW r \in Requests, Register(r) PROVE TypeOK'
  <2>1. \A q \in RequestState : LET s == [q EXCEPT !.kind = "register", !.pc = "done"]
                                 IN  s \in RequestState /\ s.pc = "done"
    BY DEF RequestState, AllKinds
  <2>2. FreshRow(r) \in TokenRow
    BY DEF FreshRow, TokenRow
  <2>3. \A t \in Requests : Issued(t) => Issued(t)'
    BY <1>1, NoneIsNotAToken DEF Register, FreshRow, Issued, TypeOK
  <2> QED BY <1>1, <2>1, <2>2, <2>3 DEF Register, TypeOK
<1>2. ASSUME NEW r \in Requests, Login(r) PROVE TypeOK'
  <2> DEFINE Upd(q) == [q EXCEPT !.kind = "login", !.pc = "welcome"]
  <2>1. \A q \in RequestState : Upd(q) \in RequestState /\ Upd(q).pc = "welcome"
    BY DEF RequestState, AllKinds
  <2>2. req' = [req EXCEPT ![r] = Upd(req[r])]
    BY <1>2 DEF Login
  <2> HIDE DEF Upd
  <2> QED BY <1>0, <1>2, <2>1, <2>2, MoveType DEF Login
<1>3. ASSUME NEW r \in Requests, NewSession(r) PROVE TypeOK'
  <2>1. FreshRow(r) \in TokenRow
    BY DEF FreshRow, TokenRow
  <2>2. \A t \in Requests : Issued(t) => Issued(t)'
    BY <1>3, NoneIsNotAToken DEF NewSession, FreshRow, Issued, TypeOK
  <2>3. token' \in [Requests -> TokenRow]
    BY <1>3, <2>1 DEF NewSession, TypeOK
  <2> QED BY <1>3, <2>2, <2>3, FinishType DEF NewSession
<1>4. ASSUME NEW r \in Requests, NEW kind \in {"refresh", "logout"}, NEW t \in Requests,
             Present(r, kind, t)
      PROVE  TypeOK'
  <2> DEFINE due == IF kind = "logout" THEN {t} ELSE {}
             Upd(q) == [q EXCEPT !.kind = kind, !.pc = "waiting", !.tok = t, !.due = due]
  <2>2. due \in SUBSET Requests
    OBVIOUS
  <2> HIDE DEF due
  <2>3. \A q \in RequestState : Upd(q) \in RequestState /\ Upd(q).tok = t
    BY <2>2 DEF RequestState, AllKinds
  <2>4. req' = [req EXCEPT ![r] = Upd(req[r])]
    BY <1>4 DEF Present, due
  <2>5. UNCHANGED <<user, token>>
    BY <1>4 DEF Present
  <2>6. Issued(t)
    BY <1>4 DEF Present
  <2> HIDE DEF Upd
  <2>7. /\ Upd(req[r]) \in RequestState /\ Upd(req[r]).tok = t
    BY <1>0, <2>3
  <2> QED BY <2>4, <2>5, <2>6, <2>7, MoveType
<1>5. ASSUME NEW r \in Requests, LockToken(r) PROVE TypeOK'
  <2> DEFINE live == Live(req[r].tok)
             active == user = "active"
             Upd(q) == [q EXCEPT !.pc = "locked", !.live = live, !.active = active]
  <2>1. live \in BOOLEAN /\ active \in BOOLEAN
    BY DEF Live, Issued
  <2> HIDE DEF live, active
  <2>2. \A q \in RequestState : Upd(q) \in RequestState /\ Upd(q).tok = q.tok
    BY <2>1 DEF RequestState
  <2>3. req' = [req EXCEPT ![r] = Upd(req[r])]
    BY <1>5 DEF LockToken, live, active
  <2>4. req[r].tok \in Requests /\ Issued(req[r].tok)
    BY <1>5 DEF LockToken, TypeOK
  <2> HIDE DEF Upd
  <2> QED BY <1>0, <1>5, <2>2, <2>3, <2>4, MoveType DEF LockToken
<1>6. ASSUME NEW r \in Requests, Rotate(r) PROVE TypeOK'
  <2>1. token[req[r].tok] \in TokenRow /\ req[r].tok \in Requests
    BY <1>6 DEF Rotate, TypeOK
  <2>2. token[req[r].tok].family \in Requests
    BY <1>6, <2>1 DEF Rotate, TypeOK, Issued, TokenRow
  <2>3. FreshRow(token[req[r].tok].family) \in TokenRow
    BY <2>2 DEF FreshRow, TokenRow
  <2>4. [token[req[r].tok] EXCEPT !.revoked = TRUE, !.next = r] \in TokenRow
    BY <2>1 DEF TokenRow
  <2>5. token' \in [Requests -> TokenRow]
    BY <1>6, <2>1, <2>3, <2>4 DEF Rotate, TypeOK
  <2>6. \A t \in Requests : Issued(t) => Issued(t)'
    BY <1>6, <2>1, <2>2, NoneIsNotAToken DEF Rotate, Issued, TypeOK, FreshRow, TokenRow
  <2> QED BY <1>6, <2>5, <2>6, FinishType DEF Rotate
<1>7. ASSUME NEW r \in Requests, RefuseExpired(r) \/ Logout(r) PROVE TypeOK'
  <2>1. token' = [token EXCEPT ![req[r].tok].revoked = TRUE] /\ user' = user
    BY <1>7 DEF RefuseExpired, Logout
  <2>2. token' \in [Requests -> TokenRow]
    BY <2>1 DEF TypeOK, TokenRow
  <2>3. \A t \in Requests : Issued(t) => Issued(t)'
    BY <2>1 DEF Issued, TypeOK, TokenRow
  <2>4. Finish(r, "done") \/ Finish(r, "ended")
    BY <1>7 DEF RefuseExpired, Logout
  <2> QED BY <2>1, <2>2, <2>3, <2>4, FinishType
<1>8. ASSUME NEW r \in Requests, RevokeFamily(r) PROVE TypeOK'
  <2> DEFINE found == LiveOf({token[req[r].tok].family})
             Upd(q) == [q EXCEPT !.pc = "revoking", !.targets = found, !.due = found]
  <2>1. found \in SUBSET Requests
    BY DEF LiveOf
  <2>2. req' = [req EXCEPT ![r] = Upd(req[r])]
    BY <1>8 DEF RevokeFamily
  <2> HIDE DEF found
  <2>3. \A q \in RequestState : Upd(q) \in RequestState /\ Upd(q).pc = "revoking"
    BY <2>1 DEF RequestState
  <2> HIDE DEF Upd
  <2> QED BY <1>0, <1>8, <2>2, <2>3, MoveType DEF RevokeFamily
<1>9. ASSUME NEW r \in Requests, LogoutAll(r) PROVE TypeOK'
  <2> DEFINE found == LiveOf(Families)
             Upd(q) == [q EXCEPT !.kind = "logout-all", !.pc = "revoking",
                                 !.targets = found, !.due = found]
  <2>1. found \in SUBSET Requests
    BY DEF LiveOf
  <2>2. req' = [req EXCEPT ![r] = Upd(req[r])]
    BY <1>9 DEF LogoutAll
  <2> HIDE DEF found
  <2>3. \A q \in RequestState : Upd(q) \in RequestState /\ Upd(q).pc = "revoking"
    BY <2>1 DEF RequestState, AllKinds
  <2> HIDE DEF Upd
  <2> QED BY <1>0, <1>9, <2>2, <2>3, MoveType DEF LogoutAll
<1>10. ASSUME NEW r \in Requests, NEW t \in Requests, VisitRow(r, t) PROVE TypeOK'
  <2> DEFINE Upd(q) == [q EXCEPT !.targets = q.targets \ {t},
                                 !.taken = q.taken \cup {u \in {t} : Live(u)}]
  <2>1. \A q \in RequestState : Upd(q) \in RequestState /\ Upd(q).pc = q.pc
    BY DEF RequestState
  <2>2. req' = [req EXCEPT ![r] = Upd(req[r])] /\ req[r].pc = "revoking"
    BY <1>10 DEF VisitRow
  <2> HIDE DEF Upd
  <2> QED BY <1>0, <1>10, <2>1, <2>2, MoveType DEF VisitRow
<1>11. ASSUME NEW r \in Requests, CommitRevocation(r) PROVE TypeOK'
  <2>1. token' \in [Requests -> TokenRow]
    BY <1>11 DEF CommitRevocation, TypeOK, TokenRow
  <2>2. \A t \in Requests : Issued(t) => Issued(t)'
    BY <1>11 DEF CommitRevocation, Issued, TypeOK, TokenRow
  <2> QED BY <1>11, <2>1, <2>2, FinishType DEF CommitRevocation
<1>12. ASSUME NEW r \in Requests, Abort(r) PROVE TypeOK'
  BY <1>12, FinishType DEF Abort, Issued, TypeOK
<1>13. CASE Disable \/ UNCHANGED vars
  BY <1>13 DEF Disable, vars, TypeOK, Issued
<1> QED
  BY <1>1, <1>2, <1>3, <1>4, <1>5, <1>6, <1>7, <1>8, <1>9, <1>10, <1>11, <1>12, <1>13
  DEF Next, Advance

(* What a handler has read stays true until its transaction ends.          *)
LEMMA LockingStep ==
  ASSUME TypeOK, Locking, [Next]_vars
  PROVE  Locking'
<1> USE DEF Locking, TypeOK, Live, Issued, Holds
<1>1. ASSUME NEW r \in Requests, Register(r) PROVE Locking'
  <2>1. Fresh'
    BY <1>1, NoneIsNotAToken DEF Register, Begin, FreshRow, Fresh, RequestState, TokenRow
  <2>2. Reads'
    BY <1>1, NoneIsNotAToken DEF Register, Begin, FreshRow, Fresh, Reads, Exclusive, RequestState, TokenRow
  <2>3. Exclusive'
    BY <1>1, NoneIsNotAToken DEF Register, Begin, FreshRow, Reads, Exclusive, RequestState
  <2> QED BY <2>1, <2>2, <2>3
<1>2. ASSUME NEW r \in Requests, Login(r) PROVE Locking'
  <2>1. Fresh'
    BY <1>2, NoneIsNotAToken DEF Login, Begin, Fresh, RequestState, TokenRow
  <2>2. Reads'
    BY <1>2, NoneIsNotAToken DEF Login, Begin, Fresh, Reads, Exclusive, RequestState, TokenRow
  <2>3. Exclusive'
    BY <1>2, NoneIsNotAToken DEF Login, Begin, Reads, Exclusive, RequestState
  <2> QED BY <2>1, <2>2, <2>3
<1>3. ASSUME NEW r \in Requests, NewSession(r) PROVE Locking'
  <2>1. Fresh'
    BY <1>3, NoneIsNotAToken DEF NewSession, Finish, FreshRow, Fresh, RequestState, TokenRow
  <2>2. Reads'
    BY <1>3, NoneIsNotAToken DEF NewSession, Finish, FreshRow, Fresh, Reads, Exclusive, RequestState, TokenRow
  <2>3. Exclusive'
    BY <1>3, NoneIsNotAToken DEF NewSession, Finish, FreshRow, Reads, Exclusive, RequestState
  <2> QED BY <2>1, <2>2, <2>3
<1>4. ASSUME NEW r \in Requests, LockToken(r) PROVE Locking'
  <2>1. Fresh'
    BY <1>4, NoneIsNotAToken DEF LockToken, Unlocked, Fresh, RequestState, TokenRow
  <2>2. Reads'
    <3>1. token' = token /\ \A p \in Requests \ {r} : req'[p] = req[p]
      BY <1>4 DEF LockToken
    <3>2. /\ req'[r].tok = req[r].tok /\ req'[r].pc = "locked"
          /\ req'[r].live <=> Live(req[r].tok)
          /\ req'[r].targets = req[r].targets /\ req'[r].taken = req[r].taken
      BY <1>4 DEF LockToken, RequestState
    <3>3. req[r].taken = {}
      BY <1>4 DEF LockToken, Reads
    <3>4. (req[r].live <=> Live(req[r].tok))'
      BY <3>1, <3>2
    <3> QED BY <3>1, <3>2, <3>3, <3>4 DEF Reads
  <2>3. Exclusive'
    BY <1>4, NoneIsNotAToken DEF LockToken, Unlocked, Reads, Exclusive, RequestState
  <2> QED BY <2>1, <2>2, <2>3
<1>5. ASSUME NEW r \in Requests, Rotate(r) PROVE Locking'
  <2>1. Fresh'
    BY <1>5, NoneIsNotAToken DEF Rotate, Finish, FreshRow, Fresh, RequestState, TokenRow
  <2>2. Reads'
    <3>1. /\ req'[r].pc = "done" /\ req'[r].targets = {} /\ req'[r].taken = {}
          /\ \A p \in Requests \ {r} : req'[p] = req[p]
      BY <1>5 DEF Rotate, Finish, RequestState
    <3>2. req[r].tok \in Requests /\ Issued(req[r].tok) /\ ~Issued(r)
      BY <1>5 DEF Rotate, Fresh
    <3>3. /\ \A t \in Requests \ {r, req[r].tok} : token'[t] = token[t]
          /\ \A t \in Requests : Issued(t) => Issued(t)'
      BY <1>5, <3>2, NoneIsNotAToken DEF Rotate, FreshRow, TokenRow
    <3>4. ASSUME NEW p \in Requests \ {r}, NEW t \in Requests, Holds(p, t), Issued(t)
          PROVE  token'[t] = token[t]
      BY <1>5, <3>2, <3>3, <3>4 DEF Rotate, Exclusive
    <3>5. ASSUME NEW p \in Requests \ {r}
          PROVE  /\ req'[p].pc = "new" => req'[p].tok = None
                 /\ req'[p].pc = "locked" => (req[p].live <=> Live(req[p].tok)')
                 /\ req'[p].pc # "revoking" => req'[p].taken = {}
                 /\ \A t \in req'[p].targets : Issued(t)'
                 /\ \A t \in req'[p].taken : Live(t)'
      <4>1. req[p].targets \subseteq Requests /\ req[p].taken \subseteq Requests
        BY DEF RequestState
      <4> QED BY <3>1, <3>3, <3>4, <4>1 DEF Reads
    <3> QED BY <3>1, <3>5 DEF Reads
  <2>3. Exclusive'
    BY <1>5, NoneIsNotAToken DEF Rotate, Finish, FreshRow, Reads, Exclusive, RequestState
  <2> QED BY <2>1, <2>2, <2>3
<1>6. ASSUME NEW r \in Requests, RefuseExpired(r) \/ Logout(r) PROVE Locking'
  <2>1. Fresh'
    BY <1>6, NoneIsNotAToken DEF RefuseExpired, Logout, Finish, Fresh, RequestState, TokenRow
  <2>2. Reads'
    <3>1. /\ req'[r].pc \in {"ended", "done"} /\ req'[r].targets = {} /\ req'[r].taken = {}
          /\ \A p \in Requests \ {r} : req'[p] = req[p]
      <4>1. CASE RefuseExpired(r)
        BY <4>1 DEF RefuseExpired, Finish, RequestState
      <4>2. CASE Logout(r)
        BY <4>2 DEF Logout, Finish, RequestState
      <4> QED BY <1>6, <4>1, <4>2
    <3>2. req[r].pc = "locked" /\ req[r].tok \in Requests
      BY <1>6 DEF RefuseExpired, Logout
    <3>3. /\ \A t \in Requests \ {req[r].tok} : token'[t] = token[t]
          /\ \A t \in Requests : Issued(t) => Issued(t)'
      BY <1>6, <3>2 DEF RefuseExpired, Logout, TokenRow
    <3>4. ASSUME NEW p \in Requests \ {r}, NEW t \in Requests, Holds(p, t)
          PROVE  token'[t] = token[t]
      BY <3>2, <3>3, <3>4 DEF Exclusive
    <3>5. ASSUME NEW p \in Requests \ {r}
          PROVE  /\ req'[p].pc = "new" => req'[p].tok = None
                 /\ req'[p].pc = "locked" => (req[p].live <=> Live(req[p].tok)')
                 /\ req'[p].pc # "revoking" => req'[p].taken = {}
                 /\ \A t \in req'[p].targets : Issued(t)'
                 /\ \A t \in req'[p].taken : Live(t)'
      <4>1. req[p].targets \subseteq Requests /\ req[p].taken \subseteq Requests
        BY DEF RequestState
      <4> QED BY <3>1, <3>3, <3>4, <4>1 DEF Reads
    <3> QED BY <3>1, <3>5 DEF Reads
  <2>3. Exclusive'
    <3>1. /\ req'[r].pc \in {"ended", "done"} /\ req'[r].taken = {}
          /\ \A p \in Requests \ {r} : req'[p] = req[p]
      <4>1. CASE RefuseExpired(r)
        BY <4>1 DEF RefuseExpired, Finish, RequestState
      <4>2. CASE Logout(r)
        BY <4>2 DEF Logout, Finish, RequestState
      <4> QED BY <1>6, <4>1, <4>2
    <3> QED BY <3>1, NoneIsNotAToken DEF Exclusive
  <2> QED BY <2>1, <2>2, <2>3
<1>7. ASSUME NEW r \in Requests, RevokeFamily(r) PROVE Locking'
  <2>1. Fresh'
    BY <1>7, NoneIsNotAToken DEF RevokeFamily, LiveOf, Fresh, RequestState, TokenRow
  <2>2. Reads'
    <3>1. /\ token' = token /\ req[r].pc = "locked" /\ req'[r].pc = "revoking"
          /\ req'[r].taken = req[r].taken
          /\ \A t \in req'[r].targets : Issued(t)
          /\ \A p \in Requests \ {r} : req'[p] = req[p]
      BY <1>7, NoneIsNotAToken DEF RevokeFamily, LiveOf, RequestState
    <3> QED BY <3>1 DEF Reads
  <2>3. Exclusive'
    <3>1. /\ req[r].pc = "locked" /\ req'[r].tok = req[r].tok /\ req'[r].taken = req[r].taken
          /\ \A p \in Requests \ {r} : req'[p] = req[p]
      BY <1>7 DEF RevokeFamily, RequestState
    <3>2. \A p, t \in Requests : Holds(p, t)' => Holds(p, t)
      BY <3>1
    <3> QED BY <3>2 DEF Exclusive
  <2> QED BY <2>1, <2>2, <2>3
<1>8. ASSUME NEW r \in Requests, LogoutAll(r) PROVE Locking'
  <2>1. Fresh'
    BY <1>8, NoneIsNotAToken DEF LogoutAll, LiveOf, Begin, Fresh, RequestState, TokenRow
  <2>2. Reads'
    BY <1>8, NoneIsNotAToken DEF LogoutAll, LiveOf, Begin, Fresh, Reads, Exclusive, RequestState, TokenRow
  <2>3. Exclusive'
    <3>1. /\ req'[r].tok = None /\ req'[r].taken = {}
          /\ \A p \in Requests \ {r} : req'[p] = req[p]
      BY <1>8 DEF LogoutAll, LiveOf, Begin, Reads, RequestState
    <3> QED BY <3>1, NoneIsNotAToken DEF Exclusive
  <2> QED BY <2>1, <2>2, <2>3
<1>9. ASSUME NEW r \in Requests, CommitRevocation(r) PROVE Locking'
  <2>1. Fresh'
    BY <1>9, NoneIsNotAToken DEF CommitRevocation, Finish, Fresh, RequestState, TokenRow
  <2>2. Reads'
    BY <1>9, NoneIsNotAToken DEF CommitRevocation, Finish, Fresh, Reads, Exclusive, RequestState, TokenRow
  <2>3. Exclusive'
    BY <1>9, NoneIsNotAToken DEF CommitRevocation, Finish, Reads, Exclusive, RequestState
  <2> QED BY <2>1, <2>2, <2>3
<1>10. ASSUME NEW r \in Requests, Abort(r) PROVE Locking'
  <2>1. Fresh'
    BY <1>10, NoneIsNotAToken DEF Abort, InFlight, Finish, Fresh, RequestState, TokenRow
  <2>2. Reads'
    BY <1>10, NoneIsNotAToken DEF Abort, InFlight, Finish, Fresh, Reads, Exclusive, RequestState, TokenRow
  <2>3. Exclusive'
    BY <1>10, NoneIsNotAToken DEF Abort, InFlight, Finish, Reads, Exclusive, RequestState
  <2> QED BY <2>1, <2>2, <2>3
<1>11. ASSUME NEW r \in Requests, NEW kind \in {"refresh", "logout"}, NEW t \in Requests, Present(r, kind, t)
      PROVE  Locking'
  <2>1. Fresh'
    BY <1>11 DEF Present, Begin, Fresh, RequestState, TokenRow
  <2>2. Reads'
    BY <1>11 DEF Present, Begin, Fresh, Reads, Exclusive, RequestState, TokenRow
  <2>3. Exclusive'
    BY <1>11 DEF Present, Begin, Reads, Exclusive, RequestState
  <2> QED BY <2>1, <2>2, <2>3
<1>12. ASSUME NEW r \in Requests, NEW t \in Requests, VisitRow(r, t)
      PROVE  Locking'
  <2>1. Fresh'
    BY <1>12 DEF VisitRow, Unlocked, Scans, Fresh, RequestState, TokenRow
  <2>2. Reads'
    BY <1>12 DEF VisitRow, Unlocked, Scans, Fresh, Reads, Exclusive, RequestState, TokenRow
  <2>3. Exclusive'
    BY <1>12 DEF VisitRow, Unlocked, Scans, Reads, Exclusive, RequestState
  <2> QED BY <2>1, <2>2, <2>3
<1>13. CASE Disable \/ UNCHANGED vars
  BY <1>13 DEF Disable, vars, Fresh, Reads, Exclusive
<1> QED BY <1>1, <1>2, <1>3, <1>4, <1>5, <1>6, <1>7, <1>8, <1>9, <1>10, <1>11, <1>12, <1>13 DEF Next, Advance

(* How a step may change the committed rows: a row of its own is added, one *)
(* token is exchanged, live tokens are revoked, or nothing changes.         *)
Opens(r) ==
  /\ ~Issued(r)
  /\ token' = [token EXCEPT ![r] = FreshRow(r)]

Exchanges(r) ==
  /\ ~Issued(r)
  /\ req[r].tok \in Requests
  /\ Live(req[r].tok)
  /\ token' = [token EXCEPT
                 ![req[r].tok] = [@ EXCEPT !.revoked = TRUE, !.next = r],
                 ![r] = FreshRow(token[req[r].tok].family)]

Revokes(S) ==
  token' = [t \in Requests |-> IF t \in S THEN [token[t] EXCEPT !.revoked = TRUE] ELSE token[t]]

LEMMA RowsTouched ==
  ASSUME TypeOK, Locking, [Next]_vars
  PROVE  \/ \E r \in Requests : Opens(r) \/ Exchanges(r)
         \/ \E S \in SUBSET Requests : (\A t \in S : Live(t)) /\ Revokes(S)
         \/ UNCHANGED token
<1> USE DEF Locking, TypeOK
<1>1. ASSUME NEW r \in Requests, Register(r) \/ NewSession(r) PROVE Opens(r)
  BY <1>1 DEF Register, Begin, NewSession, Opens, Fresh
<1>2. ASSUME NEW r \in Requests, Rotate(r) PROVE Exchanges(r)
  BY <1>2 DEF Rotate, Exchanges, Fresh, Reads
<1>3. ASSUME NEW r \in Requests, RefuseExpired(r) \/ Logout(r)
      PROVE  ((\A t \in {req[r].tok} : Live(t)) /\ Revokes({req[r].tok})) \/ UNCHANGED token
  <2>1. /\ req[r].tok \in Requests /\ Issued(req[r].tok)
        /\ token' = [token EXCEPT ![req[r].tok].revoked = TRUE]
    BY <1>3 DEF RefuseExpired, Logout
  <2>2. CASE Live(req[r].tok)
    BY <2>1, <2>2 DEF Revokes
  <2>3. CASE ~Live(req[r].tok)
    <3>1. token[req[r].tok] \in TokenRow /\ token[req[r].tok].revoked = TRUE
      BY <2>1, <2>3 DEF Live, TokenRow
    <3> QED BY <2>1, <3>1 DEF TokenRow
  <2> QED BY <2>2, <2>3
<1>4. ASSUME NEW r \in Requests, CommitRevocation(r)
      PROVE  (\A t \in req[r].taken : Live(t)) /\ Revokes(req[r].taken)
  BY <1>4 DEF CommitRevocation, Revokes, Reads
<1>5. ASSUME NEW r \in Requests
      PROVE  {req[r].tok} \in SUBSET Requests \/ req[r].pc # "locked"
  OBVIOUS
<1>6. ASSUME NEW r \in Requests PROVE req[r].taken \in SUBSET Requests
  BY DEF RequestState
<1>7. ASSUME NEW r \in Requests,
             \/ Login(r) \/ LogoutAll(r) \/ LockToken(r) \/ RevokeFamily(r) \/ Abort(r)
             \/ \E kind \in {"refresh", "logout"}, t \in Requests : Present(r, kind, t)
             \/ \E t \in Requests : VisitRow(r, t)
      PROVE  UNCHANGED token
  BY <1>7 DEF Login, LogoutAll, LockToken, RevokeFamily, Abort, Present, VisitRow
<1>8. CASE Disable \/ UNCHANGED vars
  BY <1>8 DEF Disable, vars
<1>9. ASSUME NEW r \in Requests, RefuseExpired(r) \/ Logout(r)
      PROVE  \/ \E S \in SUBSET Requests : (\A t \in S : Live(t)) /\ Revokes(S)
             \/ UNCHANGED token
  <2>1. {req[r].tok} \in SUBSET Requests
    BY <1>5, <1>9 DEF RefuseExpired, Logout
  <2> QED BY <1>3, <1>9, <2>1
<1>10. ASSUME NEW r \in Requests, CommitRevocation(r)
       PROVE  \E S \in SUBSET Requests : (\A t \in S : Live(t)) /\ Revokes(S)
  BY <1>4, <1>6, <1>10
<1> QED
  BY <1>1, <1>2, <1>7, <1>8, <1>9, <1>10 DEF Next, Advance

(* A family stays a chain.                                                 *)
LEMMA ChainStep ==
  ASSUME TypeOK, Locking, Chain, [Next]_vars
  PROVE  Chain'
<1> USE DEF Chain, TypeOK, Live, Issued
<1>1. ASSUME NEW r \in Requests, Opens(r) PROVE Chain'
  <2>1. \A t \in Requests : Issued(t) => token[t].family # r
    BY <1>1 DEF Opens
  <2> QED BY <1>1, <2>1, NoneIsNotAToken DEF Opens, FreshRow, TokenRow
<1>2. ASSUME NEW r \in Requests, Exchanges(r) PROVE Chain'
  <2> DEFINE k == req[r].tok
             f == token[k].family
  <2>1. k \in Requests /\ Issued(k) /\ k # r /\ f \in Requests /\ token[k].next = None
    BY <1>2 DEF Exchanges, TokenRow
  <2>2. /\ token'[r] = FreshRow(f)
        /\ token'[k] = [token[k] EXCEPT !.revoked = TRUE, !.next = r]
        /\ \A t \in Requests \ {r, k} : token'[t] = token[t]
    BY <1>2, <2>1 DEF Exchanges
  <2> HIDE DEF k
  <2>3. /\ token'[r].family = f /\ token'[r].next = None
        /\ token'[k].family = f /\ token'[k].next = r /\ token'[k].revoked
    BY <2>1, <2>2 DEF FreshRow, TokenRow
  <2>4. \A t \in Requests \ {r, k} :
          Issued(t) /\ token[t].next = None => token[t].family # f
    BY <2>1
  <2>5. \A t \in Requests : token'[t].family # None => t = r \/ Issued(t)
    BY <2>1, <2>2
  <2> HIDE DEF f
  <2>6. ASSUME NEW s \in Requests, NEW t \in Requests,
               token'[s].family # None, token'[s].next = None,
               token'[t].family # None, token'[t].next = None,
               token'[s].family = token'[t].family
        PROVE  s = t
    <3>1. s # k /\ t # k
      BY <2>3, <2>6, NoneIsNotAToken
    <3>2. CASE s # r /\ t # r
      <4>1. token'[s] = token[s] /\ token'[t] = token[t]
        BY <2>2, <3>1, <3>2
      <4> QED BY <2>6, <4>1
    <3>3. CASE s = r /\ t # r
      BY <2>2, <2>3, <2>4, <2>6, <3>1, <3>3
    <3>4. CASE s # r /\ t = r
      BY <2>2, <2>3, <2>4, <2>6, <3>1, <3>4
    <3> QED BY <3>2, <3>3, <3>4
  <2>7. ASSUME NEW s \in Requests, token'[s].family # None
        PROVE  \E t \in Requests :
                 token'[t].family # None /\ token'[t].next = None /\ token'[t].family = token'[s].family
    <3>1. CASE token'[s].family = f
      BY <2>1, <2>3, <3>1, NoneIsNotAToken
    <3>2. CASE token'[s].family # f
      <4>1. s # r /\ s # k /\ Issued(s) /\ token[s] = token'[s]
        BY <2>2, <2>3, <2>5, <2>7, <3>2
      <4>2. PICK t \in Requests : Issued(t) /\ token[t].next = None /\ token[t].family = token[s].family
        BY <4>1
      <4>3. t # k /\ t # r
        BY <1>2, <3>2, <4>1, <4>2 DEF f, Exchanges
      <4> QED BY <2>2, <4>1, <4>2, <4>3
    <3> QED BY <3>1, <3>2
  <2>8. ASSUME NEW t \in Requests, token'[t].family # None, ~token'[t].revoked
        PROVE  token'[t].next = None
    <3>1. CASE t = r
      BY <2>3, <3>1
    <3>2. CASE t # r
      <4>1. t # k /\ token'[t] = token[t]
        BY <2>2, <2>3, <2>8, <3>2
      <4> QED BY <2>8, <4>1
    <3> QED BY <3>1, <3>2
  <2>9. \A t \in Requests : token'[t].family # None => token'[token'[t].family].family # None
    <3>1. \A t \in Requests : Issued(t) => token'[t].family = token[t].family
      BY <1>2, <2>2, <2>3 DEF f, Exchanges
    <3>2. Issued(f)
      BY <2>1 DEF f
    <3>3. ASSUME NEW t \in Requests, token'[t].family # None
          PROVE  token'[token'[t].family].family # None
      <4>1. CASE t = r
        BY <2>1, <2>3, <3>1, <3>2, <4>1
      <4>2. CASE t # r
        <5>1. Issued(t) /\ token[t].family \in Requests /\ Issued(token[t].family)
          BY <2>5, <3>3, <4>2 DEF TokenRow
        <5> QED BY <3>1, <5>1
      <4> QED BY <4>1, <4>2
    <3> QED BY <3>3
  <2> QED BY <2>6, <2>7, <2>8, <2>9
<1>3. ASSUME NEW S \in SUBSET Requests, Revokes(S) PROVE Chain'
  BY <1>3 DEF Revokes, TokenRow
<1>4. CASE UNCHANGED token
  BY <1>4
<1> QED BY <1>1, <1>2, <1>3, <1>4, RowsTouched
(* A dead token stays dead, and an issued one issued.                      *)
LEMMA DeadStays ==
  ASSUME TypeOK, Locking, [Next]_vars
  PROVE  \A t \in Requests : Issued(t) => Issued(t)' /\ (Live(t)' => Live(t))
<1> USE DEF TypeOK, Live, Issued
<1>1. ASSUME NEW r \in Requests, Opens(r)
      PROVE  \A t \in Requests : Issued(t) => Issued(t)' /\ (Live(t)' => Live(t))
  BY <1>1 DEF Opens
<1>2. ASSUME NEW r \in Requests, Exchanges(r)
      PROVE  \A t \in Requests : Issued(t) => Issued(t)' /\ (Live(t)' => Live(t))
  BY <1>2 DEF Exchanges, TokenRow
<1>3. ASSUME NEW S \in SUBSET Requests, Revokes(S)
      PROVE  \A t \in Requests : Issued(t) => Issued(t)' /\ (Live(t)' => Live(t))
  BY <1>3 DEF Revokes, TokenRow
<1>4. CASE UNCHANGED token
  BY <1>4
<1> QED BY <1>1, <1>2, <1>3, <1>4, RowsTouched

(* A handler that goes on, with every other one as it was.                 *)
LEMMA OwingMove ==
  ASSUME TypeOK, Locking, Owing, [Next]_vars, NEW r \in Requests,
         \A p \in Requests \ {r} : req'[p] = req[p],
         req' \in [Requests -> RequestState],
         \A t \in req'[r].due : Issued(t),
         req'[r].pc \in {"waiting", "locked"} /\ req'[r].kind = "logout" =>
           req'[r].due = {req'[r].tok},
         req'[r].pc = "revoking" =>
           \A t \in req'[r].due : t \in req'[r].targets \cup req'[r].taken \/ ~Live(t),
         req'[r].pc = "ended" =>
           \A t \in req'[r].due : ~Live(t) \/ token'[t].revoked
  PROVE  Owing'
<1>1. \A p \in Requests : req[p].due \subseteq Requests /\ req'[p].due \subseteq Requests
  BY DEF TypeOK, RequestState
<1>2. \A t \in Requests : token'[t].revoked => ~Live(t)'
  BY DEF Live, Issued
<1>3. ASSUME NEW p \in Requests \ {r}
      PROVE  /\ \A t \in req'[p].due : Issued(t)'
             /\ req'[p].pc \in {"waiting", "locked"} /\ req'[p].kind = "logout" =>
                  req'[p].due = {req'[p].tok}
             /\ req'[p].pc = "revoking" =>
                  \A t \in req'[p].due : t \in req'[p].targets \cup req'[p].taken \/ ~Live(t)'
             /\ req'[p].pc = "ended" => \A t \in req'[p].due : ~Live(t)'
  BY <1>1, DeadStays DEF Owing
<1>4. /\ \A t \in req'[r].due : Issued(t)'
      /\ req'[r].pc = "revoking" =>
           \A t \in req'[r].due : t \in req'[r].targets \cup req'[r].taken \/ ~Live(t)'
      /\ req'[r].pc = "ended" => \A t \in req'[r].due : ~Live(t)'
  BY <1>1, <1>2, DeadStays
<1> QED BY <1>3, <1>4 DEF Owing

(* Each step pays what its handler owes, or leaves it owing.               *)
LEMMA OwingStep ==
  ASSUME TypeOK, Locking, Owing, [Next]_vars
  PROVE  Owing'
<1>0. req' \in [Requests -> RequestState] /\ req \in [Requests -> RequestState]
  BY TypeStep DEF TypeOK
<1>1. ASSUME NEW r \in Requests, Register(r) \/ Login(r)
      PROVE  Owing'
  <2>1. /\ \A p \in Requests \ {r} : req'[p] = req[p]
        /\ req'[r].due = req[r].due /\ req'[r].pc \in {"done", "welcome"}
    <3>1. CASE Register(r)
      BY <1>0, <3>1 DEF Register, RequestState
    <3>2. CASE Login(r)
      BY <1>0, <3>2 DEF Login, RequestState
    <3> QED BY <1>1, <3>1, <3>2
  <2> QED BY <1>0, <2>1, OwingMove DEF Owing
<1>2. ASSUME NEW r \in Requests, NewSession(r) \/ Rotate(r) \/ RefuseExpired(r) \/ Abort(r)
      PROVE  Owing'
  <2>1. Finish(r, "done")
    BY <1>2 DEF NewSession, Rotate, RefuseExpired, Abort
  <2>2. /\ \A p \in Requests \ {r} : req'[p] = req[p]
        /\ req'[r].due = req[r].due /\ req'[r].pc = "done"
    BY <1>0, <2>1 DEF Finish, RequestState
  <2> QED BY <1>0, <2>2, OwingMove DEF Owing
<1>3. ASSUME NEW r \in Requests, NEW kind \in {"refresh", "logout"}, NEW t \in Requests,
             Present(r, kind, t)
      PROVE  Owing'
  <2>1. \A p \in Requests \ {r} : req'[p] = req[p]
    BY <1>3 DEF Present
  <2>2. /\ req'[r].pc = "waiting" /\ req'[r].kind = kind /\ req'[r].tok = t
        /\ req'[r].due = IF kind = "logout" THEN {t} ELSE {}
    BY <1>0, <1>3 DEF Present, RequestState
  <2>3. Issued(t)
    BY <1>3 DEF Present
  <2> QED BY <1>0, <2>1, <2>2, <2>3, OwingMove
<1>4. ASSUME NEW r \in Requests, LockToken(r)
      PROVE  Owing'
  <2>1. /\ \A p \in Requests \ {r} : req'[p] = req[p]
        /\ req[r].pc = "waiting"
    BY <1>4 DEF LockToken
  <2>2. /\ req'[r].pc = "locked" /\ req'[r].kind = req[r].kind /\ req'[r].tok = req[r].tok
        /\ req'[r].due = req[r].due
    BY <1>0, <1>4 DEF LockToken, RequestState
  <2> QED BY <1>0, <2>1, <2>2, OwingMove DEF Owing
<1>5. ASSUME NEW r \in Requests, RevokeFamily(r) \/ LogoutAll(r)
      PROVE  Owing'
  <2>1. PICK families, kind :
          req' = [req EXCEPT ![r] =
                    [@ EXCEPT !.kind = kind, !.pc = "revoking",
                              !.targets = LiveOf(families), !.due = LiveOf(families)]]
    <3>1. CASE RevokeFamily(r)
      <4> DEFINE found == LiveOf({token[req[r].tok].family})
      <4> HIDE DEF found
      <4>1. req' = [req EXCEPT ![r] = [@ EXCEPT !.pc = "revoking", !.targets = found, !.due = found]]
        BY <3>1 DEF RevokeFamily, found
      <4>2. req[r] = [req[r] EXCEPT !.kind = req[r].kind]
        BY <1>0 DEF RequestState
      <4>3. req' = [req EXCEPT ![r] = [@ EXCEPT !.kind = req[r].kind, !.pc = "revoking",
                                                !.targets = found, !.due = found]]
        BY <4>1, <4>2
      <4> QED BY <4>3 DEF found
    <3>2. CASE LogoutAll(r)
      BY <3>2 DEF LogoutAll
    <3> QED BY <1>5, <3>1, <3>2
  <2> DEFINE found == LiveOf(families)
  <2>2. /\ found \subseteq Requests /\ \A t \in found : Live(t)
    BY DEF LiveOf
  <2>3. req' = [req EXCEPT ![r] = [@ EXCEPT !.kind = kind, !.pc = "revoking",
                                            !.targets = found, !.due = found]]
    BY <2>1
  <2> HIDE DEF found
  <2>4. \A p \in Requests \ {r} : req'[p] = req[p]
    BY <1>0, <2>3
  <2>5. req'[r].pc = "revoking" /\ req'[r].due = found /\ req'[r].targets = found
    BY <1>0, <2>3 DEF RequestState
  <2> QED BY <1>0, <2>2, <2>4, <2>5, OwingMove DEF Live
<1>6. ASSUME NEW r \in Requests, NEW t \in Requests, VisitRow(r, t)
      PROVE  Owing'
  <2>1. /\ \A p \in Requests \ {r} : req'[p] = req[p]
        /\ req[r].pc = "revoking"
    BY <1>6 DEF VisitRow
  <2>2. /\ req'[r].pc = "revoking" /\ req'[r].due = req[r].due
        /\ req'[r].targets = req[r].targets \ {t}
        /\ req'[r].taken = req[r].taken \cup {u \in {t} : Live(u)}
    <3> DEFINE targets == req[r].targets \ {t}
               taken == req[r].taken \cup {u \in {t} : Live(u)}
    <3>1. req' = [req EXCEPT ![r] = [@ EXCEPT !.targets = targets, !.taken = taken]]
      BY <1>6 DEF VisitRow
    <3> HIDE DEF targets, taken
    <3>2. /\ req'[r].pc = req[r].pc /\ req'[r].due = req[r].due
          /\ req'[r].targets = targets /\ req'[r].taken = taken
      BY <1>0, <3>1 DEF RequestState
    <3> QED BY <2>1, <3>2 DEF targets, taken
  <2>3. \A u \in req'[r].due : u \in req'[r].targets \cup req'[r].taken \/ ~Live(u)
    BY <2>1, <2>2 DEF Owing
  <2> QED BY <1>0, <2>1, <2>2, <2>3, OwingMove DEF Owing
<1>7. ASSUME NEW r \in Requests, Logout(r)
      PROVE  Owing'
  <2>1. /\ req[r].pc = "locked" /\ req[r].kind = "logout" /\ Finish(r, "ended")
        /\ req[r].tok \in Requests
    BY <1>7 DEF Logout, TypeOK
  <2>2. /\ \A p \in Requests \ {r} : req'[p] = req[p]
        /\ req'[r].pc = "ended" /\ req'[r].due = {req[r].tok}
    BY <1>0, <2>1 DEF Finish, RequestState, Owing
  <2>3. token'[req[r].tok].revoked
    BY <1>7, <2>1 DEF Logout, TypeOK, TokenRow
  <2> QED BY <1>0, <2>1, <2>2, <2>3, OwingMove DEF Owing
<1>8. ASSUME NEW r \in Requests, CommitRevocation(r)
      PROVE  Owing'
  <2>1. req[r].pc = "revoking" /\ req[r].targets = {} /\ Finish(r, "ended")
    BY <1>8 DEF CommitRevocation
  <2>2. /\ \A p \in Requests \ {r} : req'[p] = req[p]
        /\ req'[r].pc = "ended" /\ req'[r].due = req[r].due
        /\ req[r].due \subseteq Requests
    BY <1>0, <2>1 DEF Finish, RequestState
  <2>3. \A t \in req[r].due : t \in req[r].taken \/ ~Live(t)
    BY <2>1 DEF Owing
  <2>4. \A t \in req[r].due : ~Live(t) \/ token'[t].revoked
    BY <1>8, <2>2, <2>3 DEF CommitRevocation, TypeOK, TokenRow
  <2> QED BY <1>0, <2>2, <2>4, OwingMove DEF Owing
<1>9. CASE Disable \/ UNCHANGED vars
  BY <1>9 DEF Disable, vars, Owing, Live, Issued
<1> QED BY <1>1, <1>2, <1>3, <1>4, <1>5, <1>6, <1>7, <1>8, <1>9 DEF Next, Advance
----------------------------------------------------------------------------
LEMMA InitIInv == Init => IInv
<1> SUFFICES ASSUME Init PROVE IInv
  OBVIOUS
<1>1. TypeOK
  BY DEF Init, TypeOK, NoRow, NewRequest, TokenRow, RequestState
<1>2. Locking
  BY NoneIsNotAToken
  DEF Init, Locking, Fresh, Reads, Exclusive, Holds, Issued, NoRow, NewRequest
<1>3. Chain
  BY DEF Init, Chain, Live, Issued, NoRow
<1>4. Owing
  BY DEF Init, Owing, NewRequest
<1> QED BY <1>1, <1>2, <1>3, <1>4 DEF IInv

(* The inductive invariant: locks keep what was read true, so rotations     *)
(* extend chains at their end only.                                        *)
THEOREM Invariance == Spec => []IInv
<1>1. IInv /\ [Next]_vars => IInv'
  BY TypeStep, LockingStep, ChainStep, OwingStep DEF IInv
<1> QED BY InitIInv, <1>1, PTL DEF Spec

(* Rows and handlers keep their types.                                     *)
THEOREM TypeCorrect == Spec => []TypeOK
<1>1. IInv => TypeOK
  BY DEF IInv
<1> QED BY Invariance, <1>1, PTL

(* However refreshes, logouts and revocations race, a family is a chain    *)
(* and only its last token can be live.                                    *)
THEOREM FamiliesAreChains == Spec => []FamilyIsChain
<1>1. IInv => FamilyIsChain
  <2> SUFFICES ASSUME IInv PROVE FamilyIsChain
    OBVIOUS
  <2>1. ASSUME NEW f \in Families
        PROVE  \E t \in Family(f) : \A u \in Family(f) : token[u].next = None <=> u = t
    <3>1. PICK s \in Requests : Issued(s) /\ token[s].family = f
      BY <2>1 DEF Families
    <3>2. PICK t \in Requests : Issued(t) /\ token[t].next = None /\ token[t].family = f
      BY <3>1 DEF IInv, Chain
    <3>3. \A u \in Family(f) : token[u].next = None <=> u = t
      BY <3>2 DEF IInv, Chain, Family
    <3> QED BY <3>2, <3>3 DEF Family
  <2> QED BY <2>1 DEF FamilyIsChain, IInv, Chain
<1> QED BY Invariance, <1>1, PTL

(* What logout, logout-all and a detected replay have ended stays ended,   *)
(* whatever races with their UPDATE.                                       *)
THEOREM RevocationsHold == Spec => []EndedForGood
<1>1. IInv => EndedForGood
  BY DEF IInv, Owing, EndedForGood
<1> QED BY Invariance, <1>1, PTL

(* No step touches the row of a token that has been revoked.               *)
THEOREM SpentStays == Spec => SpentForGood
<1>1. ASSUME IInv, [Next]_vars
      PROVE  [\A t \in Requests : Issued(t) /\ token[t].revoked => token'[t] = token[t]]_token
  <2> USE DEF IInv, TypeOK, Live
  <2>1. CASE \E r \in Requests : Opens(r) \/ Exchanges(r)
    BY <1>1, <2>1 DEF Opens, Exchanges
  <2>2. CASE \E S \in SUBSET Requests : (\A t \in S : Live(t)) /\ Revokes(S)
    BY <1>1, <2>2 DEF Revokes
  <2> QED BY <1>1, <2>1, <2>2, RowsTouched
<1> QED BY Invariance, <1>1, PTL DEF Spec, SpentForGood

(* Every step of the detailed system is one step of TokenFamilies or       *)
(* changes nothing of it.                                                  *)
LEMMA FamiliesStep ==
  ASSUME IInv, [Next]_vars
  PROVE  [TokenStore!Next]_<<[t \in Requests |-> token[t].family], {t \in Requests : Live(t)}>>
<1> USE DEF IInv, TypeOK
<1> DEFINE family == [t \in Requests |-> token[t].family]
           live == {t \in Requests : Live(t)}
<1>1. ASSUME NEW r \in Requests, Opens(r) PROVE TokenStore!Next
  <2>1. family[r] = None
    BY <1>1 DEF Opens, Issued
  <2>2. family' = [family EXCEPT ![r] = r]
    BY <1>1 DEF Opens, FreshRow
  <2>3. live' = live \cup {r}
    BY <1>1, NoneIsNotAToken DEF Opens, FreshRow, Live, Issued
  <2> QED BY <2>1, <2>2, <2>3 DEF TokenStore!Next, TokenStore!Open
<1>2. ASSUME NEW r \in Requests, Exchanges(r) PROVE TokenStore!Next
  <2>1. PICK k \in Requests : k = req[r].tok
    BY <1>2 DEF Exchanges
  <2>2. k # r /\ k \in live /\ family[r] = None /\ token[k].family \in Requests
    BY <1>2, <2>1 DEF Exchanges, Live, Issued, TokenRow
  <2>3. /\ token'[k] = [token[k] EXCEPT !.revoked = TRUE, !.next = r]
        /\ token'[r] = FreshRow(token[k].family)
        /\ \A t \in Requests \ {k, r} : token'[t] = token[t]
    BY <1>2, <2>1, <2>2 DEF Exchanges
  <2>4. /\ token'[k].family = token[k].family /\ token'[k].revoked
        /\ token'[r].family = token[k].family /\ ~token'[r].revoked
    BY <2>2, <2>3 DEF FreshRow, TokenRow
  <2>5. family' = [family EXCEPT ![r] = family[k]]
    BY <2>2, <2>3, <2>4
  <2>6. live' = (live \ {k}) \cup {r}
    BY <2>2, <2>3, <2>4, NoneIsNotAToken DEF Live, Issued
  <2> QED BY <2>2, <2>5, <2>6 DEF TokenStore!Next, TokenStore!Exchange
<1>3. ASSUME NEW S \in SUBSET Requests, \A t \in S : Live(t), Revokes(S)
      PROVE  TokenStore!Next
  <2>1. family' = family
    BY <1>3 DEF Revokes, TokenRow
  <2>2. live' = live \ S
    BY <1>3 DEF Revokes, Live, Issued, TokenRow
  <2>3. S \subseteq live
    BY <1>3
  <2> QED BY <2>1, <2>2, <2>3 DEF TokenStore!Next, TokenStore!End
<1>4. CASE UNCHANGED token
  BY <1>4 DEF Live, Issued
<1> QED BY <1>1, <1>2, <1>3, <1>4, RowsTouched

(* Register, login, refresh and the revocations keep the promises of the   *)
(* abstract specification.                                                 *)
THEOREM RefinesFamilies == Spec => ImplementsFamilies
<1>1. Init => TokenStore!Init
  BY DEF Init, TokenStore!Init, NoRow, Live, Issued
<1>2. IInv /\ [Next]_vars =>
        [TokenStore!Next]_<<[t \in Requests |-> token[t].family], {t \in Requests : Live(t)}>>
  BY FamiliesStep
<1> QED BY Invariance, <1>1, <1>2, PTL DEF Spec, ImplementsFamilies, TokenStore!Spec
=============================================================================
