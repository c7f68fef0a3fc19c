---------------------------- MODULE Idempotency ----------------------------
(***************************************************************************)
(* IdempotencyService: callers reserve one key with SET NX, carry out      *)
(* their request, and store its result with GET and SET.  A caller is one  *)
(* use of the key; callers with the same fingerprint repeat one request.   *)
(*                                                                         *)
(* The key expires at any moment: its time to live is not compared with    *)
(* the time a request takes.                                               *)
(***************************************************************************)
EXTENDS Naturals

CONSTANTS
  Callers,
  Fingerprint,  \* of each caller's payload
  MaxLosses     \* bound: how often the key disappears

ASSUME LossesBounded == MaxLosses \in Nat

Nobody == "nobody"
NoRecord == [fingerprint |-> Nobody, status |-> "absent", payload |-> Nobody]

VARIABLES
  record,   \* the JSON under the key; a payload is the caller it belongs to
  doing,    \* "start", "read", "work", "store" or how the call ended
  copy,     \* the record a caller holds between GET and SET
  answer,   \* the payload a repeated request was answered with
  losses,   \* how often the key has disappeared
  before,   \* losses when the caller sent SET NX
  late      \* the callers that stored a result after the key they had was lost

idemVars == <<record, doing, copy, answer, losses, before, late>>

IdemInit ==
  /\ record = NoRecord
  /\ doing = [c \in Callers |-> "start"]
  /\ copy = [c \in Callers |-> NoRecord]
  /\ answer = [c \in Callers |-> Nobody]
  /\ losses = 0
  /\ before = [c \in Callers |-> 0]
  /\ late = {}

Becomes(c, state) == doing' = [doing EXCEPT ![c] = state]

\* Slip: the reservation is written with another status.
SlipPend(c) == [fingerprint |-> Fingerprint[c], status |-> "reserved", payload |-> Nobody]

Pend(c) == [fingerprint |-> Fingerprint[c], status |-> "pending", payload |-> Nobody]

\* Slip: the record is written without NX, whatever is there.
SlipReserve(c) ==
  /\ doing[c] = "start"
  /\ before' = [before EXCEPT ![c] = losses]
  /\ record' = Pend(c)
  /\ Becomes(c, "work")
  /\ UNCHANGED <<copy, answer, losses, late>>

Reserve(c) ==
  /\ doing[c] = "start"
  /\ before' = [before EXCEPT ![c] = losses]
  /\ IF record = NoRecord THEN record' = Pend(c) /\ Becomes(c, "work")
                          ELSE Becomes(c, "read") /\ UNCHANGED record
  /\ UNCHANGED <<copy, answer, losses, late>>

\* Slip: the fingerprints are not compared.
SlipRead(c) ==
  /\ doing[c] = "read"
  /\ IF record = NoRecord THEN Becomes(c, "corrupted") /\ UNCHANGED answer
     ELSE Becomes(c, "repeated") /\ answer' = [answer EXCEPT ![c] = record.payload]
  /\ UNCHANGED <<record, copy, losses, before, late>>

\* Slip: a record without payload is taken for a broken one.
SlipReadPending(c) ==
  /\ doing[c] = "read"
  /\ IF record.payload = Nobody THEN Becomes(c, "corrupted") /\ UNCHANGED answer
     ELSE IF record.fingerprint # Fingerprint[c]
            THEN Becomes(c, "mismatch") /\ UNCHANGED answer
            ELSE /\ Becomes(c, "repeated")
                 /\ answer' = [answer EXCEPT ![c] = record.payload]
  /\ UNCHANGED <<record, copy, losses, before, late>>

\* GET after SET NX was refused.  A pending record is answered without payload.
Read(c) ==
  /\ doing[c] = "read"
  /\ IF record = NoRecord THEN Becomes(c, "corrupted") /\ UNCHANGED answer
     ELSE IF record.fingerprint # Fingerprint[c]
            THEN Becomes(c, "mismatch") /\ UNCHANGED answer
            ELSE /\ Becomes(c, "repeated")
                 /\ answer' = [answer EXCEPT ![c] = record.payload]
  /\ UNCHANGED <<record, copy, losses, before, late>>

\* store_result reads the record, whoever's it is by now.
Fetch(c) ==
  /\ doing[c] = "work"
  /\ IF record = NoRecord THEN Becomes(c, "missing") /\ UNCHANGED copy
                          ELSE Becomes(c, "store") /\ copy' = [copy EXCEPT ![c] = record]
  /\ UNCHANGED <<record, answer, losses, before, late>>

Store(c) ==
  /\ doing[c] = "store"
  /\ record' = [copy[c] EXCEPT !.status = "completed", !.payload = c]
  /\ Becomes(c, "stored")
  /\ late' = IF before[c] < losses THEN late \cup {c} ELSE late
  /\ UNCHANGED <<copy, answer, losses, before>>

\* The request fails or its process dies: the reservation stays as it is.
GiveUp(c) ==
  /\ doing[c] \in {"work", "store"}
  /\ Becomes(c, "gone")
  /\ UNCHANGED <<record, copy, answer, losses, before, late>>

\* The key expires, or Redis restarts.
Vanish ==
  /\ record # NoRecord
  /\ losses < MaxLosses
  /\ record' = NoRecord
  /\ losses' = losses + 1
  /\ UNCHANGED <<doing, copy, answer, before, late>>

CallerStep(c) == Reserve(c) \/ Read(c) \/ Fetch(c) \/ Store(c) \/ GiveUp(c)

IdemNext == (\E c \in Callers : CallerStep(c)) \/ Vanish

IdemSpec == IdemInit /\ [][IdemNext]_idemVars
----------------------------------------------------------------------------
(* Properties.                                                             *)

Records == [fingerprint : {Fingerprint[c] : c \in Callers} \cup {Nobody},
            status : {"absent", "pending", "completed"},
            payload : Callers \cup {Nobody}]

IdemTypeOK ==
  /\ record \in Records
  /\ doing \in [Callers -> {"start", "read", "work", "store", "stored", "gone",
                            "repeated", "corrupted", "mismatch", "missing"}]
  /\ copy \in [Callers -> Records]
  /\ answer \in [Callers -> Callers \cup {Nobody}]
  /\ losses \in Nat /\ before \in [Callers -> Nat]
  /\ late \subseteq Callers

\* Between two losses of the key a request is carried out at most once, and a
\* different request under the same key not at all.
Working(c) == doing[c] \in {"work", "store", "stored", "gone", "missing"}

CarriedOutOnce ==
  \A c, d \in Callers : Working(c) /\ Working(d) /\ before[c] = before[d] => c = d

\* A repeated request gets the result of that request, never another's, unless
\* some caller has stored its result after its key was lost: such a late
\* store_result writes into whatever reservation there is, or over it.
RepeatsGetTheirResult ==
  \A c \in Callers :
    doing[c] = "repeated" /\ answer[c] # Nobody /\ late = {} =>
      Fingerprint[answer[c]] = Fingerprint[c]

\* The conflict "corrupted" is told only to callers whose key was lost between
\* their SET NX and their GET, and "missing" only if it was lost after it.
LossesExplainConflicts ==
  \A c \in Callers : doing[c] \in {"corrupted", "missing"} => before[c] < losses
=============================================================================
