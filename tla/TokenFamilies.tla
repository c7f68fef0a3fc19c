--------------------------- MODULE TokenFamilies ---------------------------
(***************************************************************************)
(* What the refresh tokens promise, whatever requests race in between: a   *)
(* session starts with one live token, the live token can be exchanged for *)
(* a new one of its family, and sessions end.  A dead token stays dead, so *)
(* an ended family never has a live token again.                           *)
(***************************************************************************)
CONSTANTS Tokens, NoFamily

VARIABLES
  family, \* the family of each token, NoFamily before it is issued
  live    \* the tokens that can be exchanged

Init ==
  /\ family = [t \in Tokens |-> NoFamily]
  /\ live = {}

Open(t) ==
  /\ family[t] = NoFamily
  /\ family' = [family EXCEPT ![t] = t]
  /\ live' = live \cup {t}

Exchange(s, t) ==
  /\ s \in live
  /\ family[t] = NoFamily
  /\ family' = [family EXCEPT ![t] = family[s]]
  /\ live' = (live \ {s}) \cup {t}

End(S) ==
  /\ S \subseteq live
  /\ live' = live \ S
  /\ UNCHANGED family

Next ==
  \/ \E t \in Tokens : Open(t)
  \/ \E s, t \in Tokens : Exchange(s, t)
  \/ \E S \in SUBSET Tokens : End(S)

Spec == Init /\ [][Next]_<<family, live>>
=============================================================================
