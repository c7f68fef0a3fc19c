---------------------------- MODULE AuthSessions ----------------------------
(***************************************************************************)
(* The sessions of one user: the user's row, the rows of refresh_tokens,   *)
(* and the API handlers register, login, refresh, logout and logout-all.   *)
(*                                                                         *)
(* A request issues at most one refresh token, so a token has the name of  *)
(* the request that issued it, and a family the name of its first token.   *)
(* Names are numbers only so that a bulk UPDATE can visit rows in order.   *)
(*                                                                         *)
(* PostgreSQL runs at READ COMMITTED.  SELECT ... FOR UPDATE waits for the *)
(* row's lock and then returns the row's latest version.  A bulk UPDATE    *)
(* finds its rows in the snapshot taken when it starts, waits for each     *)
(* that is locked, and skips those that no longer satisfy its WHERE.       *)
(*                                                                         *)
(* A presented token is any token that has been issued: clients retry,     *)
(* keep several tabs, lose responses and have tokens copied from them.     *)
(*                                                                         *)
(* req[r].due is no state of the program: it remembers the tokens that a   *)
(* handler has to end before it answers.                                   *)
(*                                                                         *)
(* An operator named Slip... is a plausible defect of the definition after *)
(* it; it is used only to see that a property would notice the defect.     *)
(***************************************************************************)
EXTENDS Naturals, FiniteSets

CONSTANTS
  Requests,    \* API requests; also the refresh tokens they issue
  None,        \* no token
  Kinds,       \* the kinds of request the clients use
  MaxInFlight  \* bound: requests handled at the same time

AllKinds == {"register", "login", "refresh", "logout", "logout-all"}

ASSUME RequestsAreNumbers == Requests \subseteq Nat
ASSUME NoneIsNotAToken == None \notin Requests
ASSUME KindsAreKinds == Kinds \subseteq AllKinds
ASSUME MaxInFlightIsNatural == MaxInFlight \in Nat

VARIABLES
  user,   \* the user's row: "absent", "active" or "disabled"
  token,  \* the committed rows of refresh_tokens
  req     \* the API handlers and their open transactions

vars == <<user, token, req>>

----------------------------------------------------------------------------
Issued(t) == token[t].family # None
Live(t) == Issued(t) /\ ~token[t].revoked
Family(f) == {t \in Requests : Issued(t) /\ token[t].family = f}
Families == {token[t].family : t \in {u \in Requests : Issued(u)}}

\* What a bulk UPDATE finds when it starts.
LiveOf(families) == {t \in Requests : Live(t) /\ token[t].family \in families}

NoRow == [family |-> None, revoked |-> FALSE, next |-> None]

\* _new_session starts a family, rotate continues one.
FreshRow(family) == [family |-> family, revoked |-> FALSE, next |-> None]

NewRequest ==
  [kind |-> "none", pc |-> "new", tok |-> None, live |-> FALSE, active |-> FALSE,
   targets |-> {}, taken |-> {}, due |-> {}]

\* Row locks: a refresh or logout holds the token it presented from its
\* SELECT ... FOR UPDATE on, a bulk UPDATE the rows it has already changed.
Holds(r, t) ==
  \/ req[r].pc \in {"locked", "revoking"} /\ req[r].tok = t
  \/ t \in req[r].taken

\* Slip: with_for_update is left out of by_hash_for_update.
SlipUnlocked(r, t) == TRUE

Unlocked(r, t) == \A p \in Requests \ {r} : ~Holds(p, t)

InFlight == {r \in Requests : req[r].pc \in {"welcome", "waiting", "locked", "revoking"}}

Begin(r, kind) ==
  /\ req[r].pc = "new"
  /\ kind \in Kinds
  /\ Cardinality(InFlight) < MaxInFlight

\* The transaction ends: its locks go.  "ended" says that it has committed a
\* revocation and the client is told so.
Finish(r, pc) ==
  req' = [req EXCEPT ![r] = [@ EXCEPT !.pc = pc, !.targets = {}, !.taken = {}]]

Init ==
  /\ user = "absent"
  /\ token = [t \in Requests |-> NoRow]
  /\ req = [r \in Requests |-> NewRequest]

----------------------------------------------------------------------------
(* New sessions.                                                           *)

\* The unique email lets one registration commit; the others change nothing.
Register(r) ==
  /\ Begin(r, "register")
  /\ user = "absent"
  /\ user' = "active"
  /\ token' = [token EXCEPT ![r] = FreshRow(r)]
  /\ req' = [req EXCEPT ![r] = [@ EXCEPT !.kind = "register", !.pc = "done"]]

\* login has found an active user and verified the password.  A login that
\* fails leaves nothing but its audit record and a count.
Login(r) ==
  /\ Begin(r, "login")
  /\ user = "active"
  /\ req' = [req EXCEPT ![r] = [@ EXCEPT !.kind = "login", !.pc = "welcome"]]
  /\ UNCHANGED <<user, token>>

NewSession(r) ==
  /\ req[r].pc = "welcome"
  /\ token' = [token EXCEPT ![r] = FreshRow(r)]
  /\ Finish(r, "done")
  /\ UNCHANGED user

----------------------------------------------------------------------------
(* Refresh and logout.                                                     *)

\* Slip: a token that no row has is not refused.
SlipPresent(r, kind, t) ==
  /\ kind \in {"refresh", "logout"}
  /\ Begin(r, kind)
  /\ req' = [req EXCEPT ![r] = [@ EXCEPT !.kind = kind, !.pc = "waiting", !.tok = t]]
  /\ UNCHANGED <<user, token>>

\* A request arrives with a token.
Present(r, kind, t) ==
  /\ kind \in {"refresh", "logout"}
  /\ Begin(r, kind)
  /\ Issued(t)
  /\ req' = [req EXCEPT ![r] =
               [@ EXCEPT !.kind = kind, !.pc = "waiting", !.tok = t,
                         !.due = IF kind = "logout" THEN {t} ELSE {}]]
  /\ UNCHANGED <<user, token>>

\* by_hash_for_update, and for refresh the user's row.
LockToken(r) ==
  /\ req[r].pc = "waiting"
  /\ Unlocked(r, req[r].tok)
  /\ req' = [req EXCEPT ![r] =
               [@ EXCEPT !.pc = "locked", !.live = Live(req[r].tok),
                         !.active = (user = "active")]]
  /\ UNCHANGED <<user, token>>

\* Slip: revoked_at is not looked at.
SlipRotate(r) ==
  /\ req[r].pc = "locked"
  /\ req[r].kind = "refresh"
  /\ req[r].active
  /\ token' = [token EXCEPT
                 ![req[r].tok] = [@ EXCEPT !.revoked = TRUE, !.next = r],
                 ![r] = FreshRow(token[req[r].tok].family)]
  /\ Finish(r, "done")
  /\ UNCHANGED user

\* Slip: the presented token is linked but not revoked.
SlipKeepPresented(r) ==
  /\ req[r].pc = "locked"
  /\ req[r].kind = "refresh"
  /\ req[r].live
  /\ req[r].active
  /\ token' = [token EXCEPT ![req[r].tok].next = r, ![r] = FreshRow(token[req[r].tok].family)]
  /\ Finish(r, "done")
  /\ UNCHANGED user

\* The replacement, the revocation and the link, in one commit.
Rotate(r) ==
  /\ req[r].pc = "locked"
  /\ req[r].kind = "refresh"
  /\ req[r].live
  /\ req[r].active
  /\ token' = [token EXCEPT
                 ![req[r].tok] = [@ EXCEPT !.revoked = TRUE, !.next = r],
                 ![r] = FreshRow(token[req[r].tok].family)]
  /\ Finish(r, "done")
  /\ UNCHANGED user

\* The token has expired: revoked, and the revocation is committed although
\* the request is refused.
RefuseExpired(r) ==
  /\ req[r].pc = "locked"
  /\ req[r].kind = "refresh"
  /\ req[r].live
  /\ token' = [token EXCEPT ![req[r].tok].revoked = TRUE]
  /\ Finish(r, "done")
  /\ UNCHANGED user

\* Replay of a revoked token, or a disabled user: the UPDATE of
\* revoke_family starts with the live tokens of the family.
RevokeFamily(r) ==
  /\ req[r].pc = "locked"
  /\ req[r].kind = "refresh"
  /\ ~(req[r].live /\ req[r].active)
  /\ LET found == LiveOf({token[req[r].tok].family})
     IN  req' = [req EXCEPT ![r] =
                   [@ EXCEPT !.pc = "revoking", !.targets = found, !.due = found]]
  /\ UNCHANGED <<user, token>>

\* A token that is already revoked stays as it is.
Logout(r) ==
  /\ req[r].pc = "locked"
  /\ req[r].kind = "logout"
  /\ token' = [token EXCEPT ![req[r].tok].revoked = TRUE]
  /\ Finish(r, "ended")
  /\ UNCHANGED user

----------------------------------------------------------------------------
(* Bulk revocation.                                                        *)

\* Slip: revoke_all forgets that a user has several families.
SlipLogoutAll(r) ==
  /\ Begin(r, "logout-all")
  /\ user = "active"
  /\ \E f \in Families :
       req' = [req EXCEPT ![r] =
                 [@ EXCEPT !.kind = "logout-all", !.pc = "revoking",
                           !.targets = LiveOf({f}), !.due = LiveOf(Families)]]
  /\ UNCHANGED <<user, token>>

\* get_current_user has found the user active; the UPDATE of revoke_all
\* starts with all the live tokens of the user.
LogoutAll(r) ==
  /\ Begin(r, "logout-all")
  /\ user = "active"
  /\ LET found == LiveOf(Families)
     IN  req' = [req EXCEPT ![r] =
                   [@ EXCEPT !.kind = "logout-all", !.pc = "revoking",
                             !.targets = found, !.due = found]]
  /\ UNCHANGED <<user, token>>

\* Slip: the rows are updated one by one in no particular order.
SlipScans(r, t) == t \in req[r].targets

\* All bulk UPDATEs visit the rows in one order.
Scans(r, t) == t \in req[r].targets /\ \A u \in req[r].targets : t <= u

\* The UPDATE reaches row t, has its lock, and checks its WHERE again.
VisitRow(r, t) ==
  /\ req[r].pc = "revoking"
  /\ Scans(r, t)
  /\ Unlocked(r, t)
  /\ req' = [req EXCEPT ![r] =
               [@ EXCEPT !.targets = req[r].targets \ {t},
                         !.taken = req[r].taken \cup {u \in {t} : Live(u)}]]
  /\ UNCHANGED <<user, token>>

CommitRevocation(r) ==
  /\ req[r].pc = "revoking"
  /\ req[r].targets = {}
  /\ token' = [t \in Requests |->
                 IF t \in req[r].taken THEN [token[t] EXCEPT !.revoked = TRUE] ELSE token[t]]
  /\ Finish(r, "ended")
  /\ UNCHANGED user

----------------------------------------------------------------------------
\* statement_timeout while waiting for a lock, a lost connection, the death
\* of the API process: PostgreSQL rolls back.
Abort(r) ==
  /\ r \in InFlight
  /\ Finish(r, "done")
  /\ UNCHANGED <<user, token>>

\* Someone disables the account; no handler does.
Disable ==
  /\ user = "active"
  /\ user' = "disabled"
  /\ UNCHANGED <<token, req>>

Advance(r) ==
  \/ NewSession(r)
  \/ LockToken(r)
  \/ Rotate(r) \/ RefuseExpired(r) \/ RevokeFamily(r) \/ Logout(r)
  \/ \E t \in Requests : VisitRow(r, t)
  \/ CommitRevocation(r)

Next ==
  \/ \E r \in Requests :
       \/ Register(r) \/ Login(r) \/ LogoutAll(r)
       \/ \E kind \in {"refresh", "logout"}, t \in Requests : Present(r, kind, t)
       \/ Advance(r)
       \/ Abort(r)
  \/ Disable

Spec == Init /\ [][Next]_vars

\* A handler that can go on goes on; it never has to time out.
FairSpec == Spec /\ \A r \in Requests : WF_vars(Advance(r))
----------------------------------------------------------------------------
TokenRow == [family : Requests \cup {None}, revoked : BOOLEAN, next : Requests \cup {None}]
RequestState ==
  [kind : AllKinds \cup {"none"},
   pc : {"new", "welcome", "waiting", "locked", "revoking", "ended", "done"},
   tok : Requests \cup {None}, live : BOOLEAN, active : BOOLEAN,
   targets : SUBSET Requests, taken : SUBSET Requests, due : SUBSET Requests]

\* Rows and handlers keep the shape the code gives them, and a handler that
\* waits for or holds a token was presented one that exists.
TypeOK ==
  /\ user \in {"absent", "active", "disabled"}
  /\ token \in [Requests -> TokenRow]
  /\ req \in [Requests -> RequestState]
  /\ \A r \in Requests : req[r].pc \in {"waiting", "locked"} =>
       req[r].tok \in Requests /\ Issued(req[r].tok)

\* A family is a chain: exactly one of its tokens has not been exchanged, and
\* a live token is that one.  Two requests that present one token at the same
\* time never both get a replacement.
FamilyIsChain ==
  /\ \A f \in Families : \E t \in Family(f) :
       \A u \in Family(f) : token[u].next = None <=> u = t
  /\ \A t \in Requests : Live(t) => token[t].next = None

\* A token that was revoked is never live again, and what it was exchanged
\* for never changes.
SpentForGood ==
  [][\A t \in Requests : Issued(t) /\ token[t].revoked =>
       token'[t] = token[t]]_token

\* An answered revocation holds: the token a logout was given, and every
\* token that was live when the UPDATE of a logout-all or of a detected replay
\* started, can never be exchanged again, although refreshes, other
\* revocations and roll-backs run while the UPDATE waits for row locks.
EndedForGood ==
  \A r \in Requests : req[r].pc = "ended" => \A t \in req[r].due : ~Live(t)

\* "Presenting a revoked token is treated as replay and revokes every active
\* token in that family": once the replay has been answered, none is live.
ReplayEndsFamily ==
  \A r \in Requests : req[r].pc = "ended" /\ req[r].kind = "refresh" /\ ~req[r].live =>
    \A t \in Family(token[req[r].tok].family) : ~Live(t)

\* Handlers that hold locks and wait for more never wait for each other:
\* every request ends without the help of a timeout.
RequestsEnd ==
  \A r \in Requests : r \in InFlight ~> r \notin InFlight

\* The committed rows follow TokenFamilies.
TokenStore == INSTANCE TokenFamilies WITH
  Tokens <- Requests,
  NoFamily <- None,
  family <- [t \in Requests |-> token[t].family],
  live <- {t \in Requests : Live(t)}

ImplementsFamilies == TokenStore!Spec
=============================================================================
