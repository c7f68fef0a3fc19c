-------------------------- MODULE AcquisitionProofs --------------------------
(***************************************************************************)
(* Proofs about Acquisition, for all checkouts, limits and refs, and any   *)
(* number of workers that die.                                             *)
(***************************************************************************)
EXTENDS Acquisition, FiniteSetTheorems, TLAPS

(* The counters the walk would have after the files of V, in any order.    *)
Bytes(S) == MapThenSumSet(LAMBDA f : f.size, S)
Found(V) == {f \in V : "gone" \notin f.traits}
Links(V) == {f \in Found(V) : "symlink" \in f.traits}
Named(V) == {f \in V : Reason(f) # "name"}

Tally(V) == [files    |-> Cardinality(V),
             bytes    |-> Bytes(Found(V)),
             links    |-> Cardinality(Links(V)),
             accepted |-> Cardinality(Named(V))]

WithinLimits(V) ==
  /\ \A f \in V : f.traits \cap FatalTraits = {}
  /\ Tally(V).files <= MaxFiles
  /\ Tally(V).bytes <= MaxBytes
  /\ Tally(V).links <= MaxSymlinks

JobTypeOK ==
  /\ acquiring \in {"git", "scan", "removing", "ended"}
  /\ outcome \in Outcomes
  /\ workspace \in BOOLEAN
  /\ leftovers \in Nat /\ kills \in Nat
  /\ checkout \in Checkouts \cup {{}}
  /\ visited \subseteq Walkable

(* A directory is either the one in use or was lost with its delivery.     *)
Directories ==
  /\ leftovers <= kills
  /\ Acquired /\ workspace => outcome = "raised"

OutcomeInTime == acquiring \in {"git", "scan"} => outcome = "none"

NothingScanned == acquiring = "git" => visited = {} /\ rows = {} /\ counts = NoCounts

(* Until something stops it, the walk has a row for every file it has come *)
(* to, and its counters are those of a walk over them in any other order.  *)
WalkedSoFar ==
  outcome \in {"none", "succeeded"} =>
    /\ rows = {Row(f) : f \in visited}
    /\ counts = Tally(visited)
    /\ WithinLimits(visited)

Verdict ==
  /\ outcome = "succeeded" => visited = Walkable
  /\ outcome \in ScanCodes => ~WithinLimits(Walkable)

JobInv ==
  /\ JobTypeOK
  /\ Directories
  /\ OutcomeInTime
  /\ NothingScanned
  /\ WalkedSoFar
  /\ Verdict
----------------------------------------------------------------------------
(* Induction over finite sets, as a least counterexample.                  *)
LEMMA SmallestSet ==
  ASSUME NEW S, IsFiniteSet(S), NEW B, B \subseteq SUBSET S, B # {}
  PROVE  \E T \in B : \A U \in SUBSET T : U # T => U \notin B
<1> DEFINE R == StrictSubsetOrdering(S)
<1>1. IsWellFoundedOn(R, FiniteSubsetsOf(S))
  BY FS_StrictSubsetOrderingWellFounded
<1>2. FiniteSubsetsOf(S) = SUBSET S
  BY FS_FiniteSubsetsOfFinite
<1>3. PICK T \in B : \A U \in B : ~ (<<U, T>> \in R)
  <2> HIDE DEF R
  <2> QED BY <1>1, <1>2, WFMin
<1>4. ASSUME NEW U \in SUBSET T, U # T, U \in B PROVE FALSE
  <2>1. <<U, T>> \in R
    BY <1>4 DEF StrictSubsetOrdering
  <2> QED BY <1>3, <1>4, <2>1
<1> QED BY <1>4

(* MapThenSumSet takes the elements of a set in an order of its own; the    *)
(* sum does not depend on it.                                              *)
Some(S) == CHOOSE x \in S : TRUE

Totals(S, g) ==
  g = [s \in SUBSET S |-> IF s = {} THEN 0 ELSE Some(s).size + g[s \ {Some(s)}]]

LEMMA TotalsAgree ==
  ASSUME NEW S, IsFiniteSet(S), NEW T \in SUBSET S, NEW g, NEW h, Totals(S, g), Totals(T, h)
  PROVE  \A s \in SUBSET T : g[s] = h[s]
<1> DEFINE B == {s \in SUBSET T : g[s] # h[s]}
<1>1. ASSUME B # {} PROVE FALSE
  <2>1. PICK s \in B : \A U \in SUBSET s : U # s => U \notin B
    <3> HIDE DEF B
    <3>1. B \subseteq SUBSET S
      BY DEF B
    <3> QED BY <1>1, <3>1, SmallestSet
  <2>2. s # {}
    BY <2>1 DEF Totals
  <2>3. Some(s) \in s
    BY <2>2 DEF Some
  <2>4. s \ {Some(s)} \in SUBSET T /\ g[s \ {Some(s)}] = h[s \ {Some(s)}]
    BY <2>1, <2>3
  <2>5. g[s] = Some(s).size + g[s \ {Some(s)}] /\ h[s] = Some(s).size + h[s \ {Some(s)}]
    BY <2>1, <2>2 DEF Totals
  <2> QED BY <2>1, <2>4, <2>5
<1> QED BY <1>1

LEMMA TotalsExist ==
  ASSUME NEW S, IsFiniteSet(S)
  PROVE  \E g : Totals(S, g)
<1> DEFINE B == {T \in SUBSET S : ~ \E g : Totals(T, g)}
           G(U) == CHOOSE g : Totals(U, g)
<1>1. ASSUME B # {} PROVE FALSE
  <2>1. PICK T \in B : \A U \in SUBSET T : U # T => U \notin B
    <3> HIDE DEF B
    <3>1. B \subseteq SUBSET S
      BY DEF B
    <3> QED BY <1>1, <3>1, SmallestSet
  <2>2. ASSUME NEW U \in SUBSET T, U # T PROVE Totals(U, G(U))
    <3>1. \E g : Totals(U, g)
      BY <2>1, <2>2
    <3> QED BY <3>1
  <2> DEFINE value(s) == IF s = T THEN IF T = {} THEN 0 ELSE Some(T).size + G(T \ {Some(T)})[T \ {Some(T)}]
                                  ELSE G(s)[s]
             g == [s \in SUBSET T |-> value(s)]
  <2> HIDE DEF G
  <2>3. ASSUME NEW s \in SUBSET T
        PROVE  g[s] = IF s = {} THEN 0 ELSE Some(s).size + g[s \ {Some(s)}]
    <3>1. s # {} => Some(s) \in s
      BY DEF Some
    <3>2. CASE s = {}
      <4>1. CASE s = T
        BY <3>2, <4>1
      <4>2. CASE s # T
        <5>1. Totals(s, G(s))
          BY <2>2, <4>2
        <5> QED BY <3>2, <4>2, <5>1 DEF Totals
      <4> QED BY <4>1, <4>2
    <3>3. CASE s # {}
      <4> DEFINE r == s \ {Some(s)}
      <4>1. r \in SUBSET T /\ r \in SUBSET s /\ r # T /\ r # s
        BY <3>1, <3>3
      <4>2. g[r] = G(r)[r]
        BY <4>1
      <4>3. CASE s = T
        BY <3>3, <4>2, <4>3
      <4>4. CASE s # T
        <5>1. Totals(s, G(s)) /\ Totals(r, G(r))
          BY <2>2, <4>1, <4>4
        <5>2. IsFiniteSet(s)
          BY <2>1, FS_Subset
        <5>3. G(s)[r] = G(r)[r]
          BY <4>1, <5>1, <5>2, TotalsAgree
        <5>4. G(s)[s] = Some(s).size + G(s)[r]
          BY <3>3, <5>1 DEF Totals
        <5> QED BY <3>3, <4>2, <4>4, <5>3, <5>4
      <4> QED BY <4>3, <4>4
    <3> QED BY <3>2, <3>3
  <2> HIDE DEF value
  <2>4. Totals(T, g)
    BY <2>3 DEF Totals
  <2> QED BY <2>1, <2>4
<1> QED BY <1>1

LEMMA BytesAreTotal ==
  ASSUME NEW S, IsFiniteSet(S), NEW g, Totals(S, g)
  PROVE  Bytes(S) = g[S]
<1> DEFINE h == CHOOSE h : Totals(S, h)
<1>1. Totals(S, h)
  OBVIOUS
<1>2. Bytes(S) = h[S]
  BY DEF Bytes, MapThenSumSet, MapThenFoldSet, Totals, Some
<1> QED BY <1>1, <1>2, TotalsAgree

LEMMA BytesSplit ==
  ASSUME NEW S, IsFiniteSet(S), S # {}
  PROVE  Some(S) \in S /\ Bytes(S) = Some(S).size + Bytes(S \ {Some(S)})
<1> DEFINE r == S \ {Some(S)}
<1>1. Some(S) \in S
  BY DEF Some
<1>2. r \in SUBSET S /\ IsFiniteSet(r)
  BY FS_Subset
<1>3. PICK g : Totals(S, g)
  BY TotalsExist
<1>4. PICK h : Totals(r, h)
  BY <1>2, TotalsExist
<1>5. Bytes(S) = g[S] /\ Bytes(r) = h[r] /\ g[r] = h[r]
  BY <1>2, <1>3, <1>4, BytesAreTotal, TotalsAgree
<1>6. g[S] = Some(S).size + g[r]
  BY <1>3 DEF Totals
<1> QED BY <1>1, <1>5, <1>6

LEMMA BytesOfNothing == Bytes({}) = 0
<1>1. PICK g : Totals({}, g)
  BY TotalsExist, FS_EmptySet
<1>2. g[{}] = 0
  BY <1>1 DEF Totals
<1> QED BY <1>1, <1>2, BytesAreTotal, FS_EmptySet

LEMMA BytesNatural ==
  ASSUME NEW S, IsFiniteSet(S), \A f \in S : f.size \in Nat
  PROVE  Bytes(S) \in Nat
<1> DEFINE B == {T \in SUBSET S : Bytes(T) \notin Nat}
<1>1. ASSUME B # {} PROVE FALSE
  <2>1. PICK T \in B : \A U \in SUBSET T : U # T => U \notin B
    <3> HIDE DEF B
    <3>1. B \subseteq SUBSET S
      BY DEF B
    <3> QED BY <1>1, <3>1, SmallestSet
  <2>2. T # {} /\ IsFiniteSet(T)
    <3>1. T \in SUBSET S /\ Bytes(T) \notin Nat
      BY <2>1
    <3>2. T # {}
      BY <3>1, BytesOfNothing
    <3> QED BY <3>1, <3>2, FS_Subset
  <2>3. Some(T) \in T /\ Bytes(T) = Some(T).size + Bytes(T \ {Some(T)})
    BY <2>2, BytesSplit
  <2>4. Bytes(T \ {Some(T)}) \in Nat
    BY <2>1, <2>3
  <2> QED BY <2>1, <2>3, <2>4
<1> QED BY <1>1

LEMMA BytesWithout ==
  ASSUME NEW S, IsFiniteSet(S), \A f \in S : f.size \in Nat, NEW x \in S
  PROVE  Bytes(S) = x.size + Bytes(S \ {x})
<1> DEFINE B == {T \in SUBSET S : \E y \in T : Bytes(T) # y.size + Bytes(T \ {y})}
<1>1. ASSUME B # {} PROVE FALSE
  <2>1. PICK T \in B : \A U \in SUBSET T : U # T => U \notin B
    <3> HIDE DEF B
    <3>1. B \subseteq SUBSET S
      BY DEF B
    <3> QED BY <1>1, <3>1, SmallestSet
  <2>2. PICK y \in T : Bytes(T) # y.size + Bytes(T \ {y})
    BY <2>1
  <2> DEFINE c == Some(T)
             r == T \ {c}
             o == T \ {y}
             b == r \ {y}
  <2>3. \A U \in SUBSET T : IsFiniteSet(U) /\ Bytes(U) \in Nat
    BY FS_Subset, BytesNatural
  <2>4. c \in T /\ Bytes(T) = c.size + Bytes(r)
    BY <2>2, <2>3, BytesSplit
  <2>5. c # y
    BY <2>2, <2>4
  <2>6. r \in SUBSET T /\ r # T /\ o \in SUBSET T /\ o # T /\ y \in r /\ c \in o
        /\ o \ {c} = b /\ b \in SUBSET T
    BY <2>4, <2>5
  <2>0. ASSUME NEW U \in SUBSET T, U # T, NEW z \in U
        PROVE  Bytes(U) = z.size + Bytes(U \ {z})
    <3>1. U \in SUBSET S /\ U \notin B
      BY <2>0, <2>1
    <3> QED BY <3>1
  <2>7. Bytes(r) = y.size + Bytes(b)
    BY <2>0, <2>6
  <2>8. Bytes(o) = c.size + Bytes(b)
    BY <2>0, <2>6
  <2>9. c.size \in Nat /\ y.size \in Nat /\ Bytes(b) \in Nat
    BY <2>3, <2>4, <2>6
  <2> HIDE DEF c, r, o, b
  <2>10. Bytes(T) = y.size + Bytes(o)
    BY <2>4, <2>7, <2>8, <2>9
  <2> QED BY <2>2, <2>10 DEF o
<1> QED BY <1>1

LEMMA BytesGrow ==
  ASSUME NEW S, IsFiniteSet(S), \A f \in S : f.size \in Nat, NEW T \in SUBSET S
  PROVE  Bytes(T) <= Bytes(S)
<1> DEFINE B == {U \in SUBSET S : T \subseteq U /\ ~ Bytes(T) <= Bytes(U)}
<1>1. ASSUME B # {} PROVE FALSE
  <2>1. PICK U \in B : \A V \in SUBSET U : V # U => V \notin B
    <3> HIDE DEF B
    <3>1. B \subseteq SUBSET S
      BY DEF B
    <3> QED BY <1>1, <3>1, SmallestSet
  <2>2. \A V \in SUBSET S : IsFiniteSet(V) /\ Bytes(V) \in Nat
    BY FS_Subset, BytesNatural
  <2>3. PICK x \in U : x \notin T
    <3>1. U # T
      <4>1. Bytes(T) \in Nat /\ ~ Bytes(T) <= Bytes(U)
        BY <2>1, <2>2
      <4>2. Bytes(T) <= Bytes(T)
        BY <4>1
      <4> QED BY <4>1, <4>2
    <3> QED BY <2>1, <3>1
  <2>4. Bytes(U) = x.size + Bytes(U \ {x})
    BY <2>1, <2>2, BytesWithout
  <2>5. Bytes(T) <= Bytes(U \ {x})
    BY <2>1, <2>3
  <2>6. x.size \in Nat /\ Bytes(U \ {x}) \in Nat /\ Bytes(T) \in Nat
    BY <2>1, <2>2
  <2>7. Bytes(T) <= Bytes(U)
    BY <2>4, <2>5, <2>6
  <2> QED BY <2>1, <2>7
<1> QED BY <1>1
----------------------------------------------------------------------------
(* The files of the checkout.                                              *)
FileSet(files) ==
  /\ IsFiniteSet(files)
  /\ \A f \in files : f.size \in Nat /\ f.traits \subseteq Traits
  /\ \A f, g \in files : f.path = g.path => f = g

LEMMA CheckoutIsFileSet == JobTypeOK => FileSet(checkout)
BY CheckoutsAreFileSets, FS_EmptySet DEF JobTypeOK, FileSet

(* What a tally counts is finite, so each of its numbers is one.           *)
LEMMA TallyIsNatural ==
  ASSUME FileSet(checkout), NEW V \in SUBSET checkout
  PROVE  /\ IsFiniteSet(V) /\ IsFiniteSet(Found(V)) /\ IsFiniteSet(Links(V))
         /\ IsFiniteSet(Named(V))
         /\ Cardinality(V) \in Nat /\ Bytes(Found(V)) \in Nat
         /\ Cardinality(Links(V)) \in Nat /\ Cardinality(Named(V)) \in Nat
<1>1. \A U \in SUBSET checkout : IsFiniteSet(U) /\ Cardinality(U) \in Nat
  BY FS_Subset, FS_CardinalityType DEF FileSet
<1>2. /\ Found(V) \in SUBSET checkout /\ Links(V) \in SUBSET checkout
      /\ Named(V) \in SUBSET checkout
  BY DEF Found, Links, Named
<1>3. Bytes(Found(V)) \in Nat
  BY <1>1, <1>2, BytesNatural DEF FileSet
<1> QED BY <1>1, <1>2, <1>3

(* One more file changes the tally as it changes the counters.             *)
LEMMA TallyAdds ==
  ASSUME FileSet(checkout), NEW V \in SUBSET checkout, NEW f \in checkout \ V,
         counts = Tally(V)
  PROVE  Counted(f) = Tally(V \cup {f})
<1> DEFINE W == V \cup {f}
<1>1. W \in SUBSET checkout /\ IsFiniteSet(V) /\ IsFiniteSet(W)
  BY TallyIsNatural
<1>2. Cardinality(W) = Cardinality(V) + 1
  BY <1>1, FS_AddElement
<1>3. Bytes(Found(W)) = Bytes(Found(V)) + (IF "gone" \notin f.traits THEN f.size ELSE 0)
  <2>1. CASE "gone" \in f.traits
    <3>1. Found(W) = Found(V)
      BY <2>1 DEF Found
    <3> QED BY <2>1, <3>1, TallyIsNatural
  <2>2. CASE "gone" \notin f.traits
    <3>1. f \in Found(W) /\ Found(W) \ {f} = Found(V)
      BY <2>2 DEF Found
    <3>2. IsFiniteSet(Found(W)) /\ \A g \in Found(W) : g.size \in Nat
      BY <1>1, TallyIsNatural DEF Found, FileSet
    <3>3. Bytes(Found(W)) = f.size + Bytes(Found(V))
      BY <3>1, <3>2, BytesWithout
    <3>4. f.size \in Nat /\ Bytes(Found(V)) \in Nat
      BY TallyIsNatural DEF FileSet
    <3> QED BY <2>2, <3>3, <3>4
  <2> QED BY <2>1, <2>2
<1>4. Cardinality(Links(W))
        = Cardinality(Links(V)) + (IF "gone" \notin f.traits /\ "symlink" \in f.traits THEN 1 ELSE 0)
  <2>1. CASE "gone" \notin f.traits /\ "symlink" \in f.traits
    <3>1. Links(W) = Links(V) \cup {f} /\ f \notin Links(V)
      BY <2>1 DEF Links, Found
    <3> QED BY <2>1, <3>1, TallyIsNatural, FS_AddElement
  <2>2. CASE ~("gone" \notin f.traits /\ "symlink" \in f.traits)
    <3>1. Links(W) = Links(V)
      BY <2>2 DEF Links, Found
    <3> QED BY <2>2, <3>1, TallyIsNatural
  <2> QED BY <2>1, <2>2
<1>5. Cardinality(Named(W)) = Cardinality(Named(V)) + (IF Reason(f) = "name" THEN 0 ELSE 1)
  <2>1. CASE Reason(f) # "name"
    <3>1. Named(W) = Named(V) \cup {f} /\ f \notin Named(V)
      BY <2>1 DEF Named
    <3> QED BY <2>1, <3>1, TallyIsNatural, FS_AddElement
  <2>2. CASE Reason(f) = "name"
    <3>1. Named(W) = Named(V)
      BY <2>2 DEF Named
    <3> QED BY <2>2, <3>1, TallyIsNatural
  <2> QED BY <2>1, <2>2
<1>6. /\ counts.files = Cardinality(V) /\ counts.bytes = Bytes(Found(V))
      /\ counts.links = Cardinality(Links(V)) /\ counts.accepted = Cardinality(Named(V))
  BY DEF Tally
<1> HIDE DEF W
<1> QED BY <1>2, <1>3, <1>4, <1>5, <1>6 DEF Counted, Tally, W

(* A walk over fewer files meets no limit that one over more files keeps.  *)
LEMMA TallyGrows ==
  ASSUME FileSet(checkout), NEW W \in SUBSET checkout, NEW V \in SUBSET W
  PROVE  /\ Cardinality(V) <= Cardinality(W)
         /\ Bytes(Found(V)) <= Bytes(Found(W))
         /\ Cardinality(Links(V)) <= Cardinality(Links(W))
<1>1. Found(V) \in SUBSET Found(W) /\ Links(V) \in SUBSET Links(W)
  BY DEF Found, Links
<1>2. \A g \in Found(W) : g.size \in Nat
  BY DEF Found, FileSet
<1> QED BY <1>1, <1>2, TallyIsNatural, FS_Subset, BytesGrow

(* A checkout exceeds a limit if and only if the tally of all its files    *)
(* does.                                                                   *)
LEMMA ExcessIsTally ==
  ASSUME FileSet(checkout)
  PROVE  Excessive <=> ~WithinLimits(Walkable)
<1>1. Walkable \in SUBSET checkout
  BY DEF Walkable
<1>2. /\ MaxFiles \in Nat /\ MaxBytes \in Nat /\ MaxSymlinks \in Nat
      /\ Cardinality(Walkable) \in Nat /\ Bytes(Found(Walkable)) \in Nat
      /\ Cardinality(Links(Walkable)) \in Nat
  BY <1>1, TallyIsNatural, AcquisitionLimits
<1>3. Excessive <=>
        \/ \E f \in Walkable : f.traits \cap FatalTraits # {}
        \/ Cardinality(Walkable) > MaxFiles
        \/ Bytes(Found(Walkable)) > MaxBytes
        \/ Cardinality(Links(Walkable)) > MaxSymlinks
  BY DEF Excessive, Found, Links, Bytes
<1> QED BY <1>2, <1>3 DEF WithinLimits, Tally
----------------------------------------------------------------------------
LEMMA StartHasInv == StartJob => JobInv
<1> SUFFICES ASSUME StartJob PROVE JobInv
  OBVIOUS
<1>1. Found({}) = {} /\ Links({}) = {} /\ Named({}) = {}
  BY DEF Found, Links, Named
<1>2. Tally({}) = NoCounts
  BY <1>1, BytesOfNothing, FS_EmptySet DEF Tally, NoCounts
<1>3. WithinLimits({})
  BY <1>2, AcquisitionLimits DEF WithinLimits, NoCounts
<1>4. JobTypeOK
  BY DEF StartJob, JobTypeOK, Outcomes
<1>5. Directories /\ OutcomeInTime /\ NothingScanned
  BY DEF StartJob, Directories, OutcomeInTime, NothingScanned, Acquired
<1>6. WalkedSoFar /\ Verdict
  BY <1>2, <1>3 DEF StartJob, WalkedSoFar, Verdict, ScanCodes
<1> QED BY <1>4, <1>5, <1>6 DEF JobInv

(* Whether a checkout keeps to the limits is a matter of its files alone.  *)
LEMMA LimitsKept ==
  ASSUME checkout' = checkout
  PROVE  Walkable' = Walkable /\ WithinLimits(Walkable)' = WithinLimits(Walkable)
BY DEF Walkable, WithinLimits, Tally, Found, Links, Named, Reason

(* What the walk has found out stays so while the files stay the same.     *)
LEMMA WalkKept ==
  ASSUME JobInv, UNCHANGED <<checkout, visited, rows, counts>>,
         outcome' \notin {"none", "succeeded"} \cup ScanCodes \/ outcome' = outcome
  PROVE  WalkedSoFar' /\ Verdict' /\ Walkable' = Walkable
<1>1. Walkable' = Walkable /\ WithinLimits(Walkable)' = WithinLimits(Walkable)
  BY LimitsKept
<1>2. Tally(visited)' = Tally(visited) /\ WithinLimits(visited)' = WithinLimits(visited)
      /\ {Row(f) : f \in visited}' = {Row(f) : f \in visited}
  BY DEF Tally, WithinLimits, Found, Links, Named, Row, Reason
<1>3. Verdict'
  BY <1>1 DEF JobInv, Verdict
<1>4. WalkedSoFar'
  BY <1>2 DEF JobInv, WalkedSoFar
<1> QED BY <1>1, <1>3, <1>4

LEMMA CommandSucceedsStep ==
  ASSUME JobInv, CommandSucceeds
  PROVE  JobInv'
<1>1. /\ acquiring = "git" /\ acquiring' \in {"git", "scan"}
      /\ workspace' = TRUE /\ checkout' \in Checkouts \cup {{}}
      /\ UNCHANGED <<visited, rows, counts, leftovers, kills, outcome>>
  BY DEF CommandSucceeds, InGit, JobInv, JobTypeOK
<1>2. visited = {} /\ rows = {} /\ counts = NoCounts /\ outcome = "none"
  BY <1>1 DEF JobInv, NothingScanned, OutcomeInTime
<1>3. JobTypeOK' /\ Directories' /\ OutcomeInTime' /\ NothingScanned'
  BY <1>1, <1>2
  DEF JobInv, JobTypeOK, Directories, OutcomeInTime, NothingScanned, Acquired, Outcomes
<1>4. WalkedSoFar'
  BY <1>1, <1>2 DEF JobInv, WalkedSoFar, Tally, WithinLimits, Found, Links, Named, Reason, Row
<1>5. Verdict'
  BY <1>1, <1>2 DEF Verdict, ScanCodes
<1> QED BY <1>3, <1>4, <1>5 DEF JobInv

(* The job ends, or leaves the scan, for a reason other than a limit.      *)
LEMMA EndingStep ==
  ASSUME JobInv,
         \/ \E code \in GitCodes : CommandFails(code)
         \/ CommandRaises \/ ScanRaises \/ RemoveWorkspace \/ RemoveFails
  PROVE  JobInv'
<1>1. /\ UNCHANGED <<checkout, visited, rows, counts, leftovers, kills>>
      /\ acquiring' \in {"removing", "ended"}
      /\ workspace' \in BOOLEAN
      /\ acquiring' = "ended" => ~workspace' \/ outcome' = "raised"
      /\ outcome' \in GitCodes \cup {"raised"} \/ outcome' = outcome
  BY DEF JobInv, JobTypeOK, CommandFails, CommandRaises, ScanRaises, RemoveWorkspace,
         RemoveFails, Leave
<1>2. outcome' \in Outcomes /\ (outcome' \notin {"none", "succeeded"} \cup ScanCodes
                                  \/ outcome' = outcome)
  BY <1>1 DEF JobInv, JobTypeOK, Outcomes, GitCodes, ScanCodes
<1>3. WalkedSoFar' /\ Verdict' /\ Walkable' = Walkable
  BY <1>1, <1>2, WalkKept
<1>4. JobTypeOK'
  BY <1>1, <1>2, <1>3 DEF JobInv, JobTypeOK
<1>5. Directories' /\ OutcomeInTime' /\ NothingScanned'
  BY <1>1 DEF JobInv, Directories, OutcomeInTime, NothingScanned, Acquired
<1> QED BY <1>3, <1>4, <1>5 DEF JobInv

LEMMA VisitStep ==
  ASSUME JobInv, NEW f \in checkout, Visit(f)
  PROVE  JobInv'
<1> DEFINE W == visited \cup {f}
<1>1. /\ acquiring = "scan" /\ f \in Walkable \ visited /\ visited' = W
      /\ UNCHANGED <<workspace, checkout, leftovers, kills>>
  BY DEF Visit
<1>2. outcome = "none" /\ FileSet(checkout)
  BY <1>1, CheckoutIsFileSet DEF JobInv, OutcomeInTime
<1>3. /\ visited \in SUBSET checkout /\ W \in SUBSET Walkable /\ W \in SUBSET checkout
      /\ Walkable \in SUBSET checkout
  BY <1>1 DEF JobInv, JobTypeOK, Walkable
<1>4. /\ rows = {Row(g) : g \in visited} /\ counts = Tally(visited)
      /\ \A g \in visited : g.traits \cap FatalTraits = {}
  BY <1>2 DEF JobInv, WalkedSoFar, WithinLimits
<1>5. Counted(f) = Tally(W)
  BY <1>1, <1>2, <1>3, <1>4, TallyAdds
<1>6. /\ Tally(W).files = Cardinality(W) /\ Tally(W).bytes = Bytes(Found(W))
      /\ Tally(W).links = Cardinality(Links(W))
      /\ Cardinality(W) \in Nat /\ Bytes(Found(W)) \in Nat /\ Cardinality(Links(W)) \in Nat
      /\ MaxFiles \in Nat /\ MaxBytes \in Nat /\ MaxSymlinks \in Nat
  BY <1>2, <1>3, TallyIsNatural, AcquisitionLimits DEF Tally
<1>7. Walkable' = Walkable /\ WithinLimits(Walkable)' = WithinLimits(Walkable)
  BY <1>1, LimitsKept
<1>8. CASE Refusal(f) = "none"
  <2>1. /\ rows' = rows \cup {Row(f)} /\ counts' = Tally(W)
        /\ UNCHANGED <<acquiring, outcome>>
    BY <1>5, <1>8 DEF Visit
  <2>2. WithinLimits(W)
    <3>1. /\ f.traits \cap FatalTraits = {}
          /\ ~(Counted(f).files > MaxFiles) /\ ~(Counted(f).bytes > MaxBytes)
          /\ ~(Counted(f).links > MaxSymlinks)
      BY <1>8 DEF Refusal, FatalTraits
    <3> QED BY <1>4, <1>5, <1>6, <3>1 DEF WithinLimits
  <2>3. rows' = {Row(g) : g \in W}
    BY <1>4, <2>1
  <2>4. Tally(visited)' = Tally(W) /\ WithinLimits(visited)' = WithinLimits(W)
        /\ {Row(g) : g \in visited}' = {Row(g) : g \in W}
    BY <1>1 DEF Tally, WithinLimits, Found, Links, Named, Row, Reason
  <2>5. WalkedSoFar'
    BY <2>1, <2>2, <2>3, <2>4 DEF WalkedSoFar
  <2>6. JobTypeOK' /\ Directories' /\ OutcomeInTime' /\ NothingScanned' /\ Verdict'
    BY <1>1, <1>2, <1>3, <1>7, <2>1
    DEF JobInv, JobTypeOK, Directories, OutcomeInTime, NothingScanned, Verdict, Acquired, ScanCodes
  <2> QED BY <2>5, <2>6 DEF JobInv
<1>9. CASE Refusal(f) # "none"
  <2>1. acquiring' = "removing" /\ outcome' = Refusal(f) /\ UNCHANGED <<rows, counts>>
    BY <1>9 DEF Visit, Leave
  <2>2. outcome' \in ScanCodes
    BY <1>9, <2>1 DEF Refusal, ScanCodes
  <2>3. ~WithinLimits(Walkable)
    <3>1. \/ f.traits \cap FatalTraits # {} \/ Counted(f).files > MaxFiles
          \/ Counted(f).bytes > MaxBytes \/ Counted(f).links > MaxSymlinks
      BY <1>9 DEF Refusal, FatalTraits
    <3>2. /\ Cardinality(W) <= Cardinality(Walkable)
          /\ Bytes(Found(W)) <= Bytes(Found(Walkable))
          /\ Cardinality(Links(W)) <= Cardinality(Links(Walkable))
          /\ Cardinality(Walkable) \in Nat /\ Bytes(Found(Walkable)) \in Nat
          /\ Cardinality(Links(Walkable)) \in Nat
      BY <1>2, <1>3, TallyGrows, TallyIsNatural
    <3>3. /\ Tally(Walkable).files = Cardinality(Walkable)
          /\ Tally(Walkable).bytes = Bytes(Found(Walkable))
          /\ Tally(Walkable).links = Cardinality(Links(Walkable))
      BY DEF Tally
    <3> QED BY <1>1, <1>5, <1>6, <3>1, <3>2, <3>3 DEF WithinLimits
  <2>4. outcome' \in Outcomes /\ outcome' \notin {"none", "succeeded", "raised"}
    BY <2>2 DEF ScanCodes, Outcomes
  <2>5. WalkedSoFar' /\ Verdict'
    BY <1>7, <2>2, <2>3, <2>4 DEF WalkedSoFar, Verdict
  <2>6. JobTypeOK' /\ Directories' /\ OutcomeInTime' /\ NothingScanned'
    BY <1>1, <1>3, <1>7, <2>1, <2>4
    DEF JobInv, JobTypeOK, Directories, OutcomeInTime, NothingScanned, Acquired
  <2> QED BY <2>5, <2>6 DEF JobInv
<1> QED BY <1>8, <1>9

LEMMA WalkEndsStep ==
  ASSUME JobInv, WalkEnds
  PROVE  JobInv'
<1>1. /\ acquiring = "scan" /\ visited = Walkable
      /\ acquiring' = "removing" /\ outcome' = "succeeded"
      /\ UNCHANGED <<workspace, checkout, visited, rows, counts, leftovers, kills>>
  BY DEF WalkEnds, Leave
<1>2. outcome = "none"
  BY <1>1 DEF JobInv, OutcomeInTime
<1>3. Walkable' = Walkable
  BY <1>1 DEF Walkable
<1>4. WalkedSoFar'
  BY <1>1, <1>2 DEF JobInv, WalkedSoFar, Tally, WithinLimits, Found, Links, Named, Row, Reason
<1>5. JobTypeOK' /\ Directories' /\ OutcomeInTime' /\ NothingScanned' /\ Verdict'
  BY <1>1, <1>3
  DEF JobInv, JobTypeOK, Directories, OutcomeInTime, NothingScanned, Verdict, Acquired,
      Outcomes, ScanCodes
<1> QED BY <1>4, <1>5 DEF JobInv

LEMMA KilledStep ==
  ASSUME JobInv, Killed
  PROVE  JobInv'
<1>1. /\ kills' = kills + 1 /\ leftovers' = leftovers + (IF workspace THEN 1 ELSE 0)
      /\ workspace' = FALSE /\ checkout' = {} /\ visited' = {} /\ rows' = {}
      /\ counts' = NoCounts /\ acquiring' = "git" /\ outcome' = "none"
  BY DEF Killed
<1>2. leftovers' \in Nat /\ leftovers' <= kills' /\ kills' \in Nat
  <2>1. leftovers \in Nat /\ kills \in Nat /\ leftovers <= kills
    BY DEF JobInv, JobTypeOK, Directories
  <2> QED BY <1>1, <2>1
<1>3. Found({})' = {} /\ Links({})' = {} /\ Named({})' = {}
  BY DEF Found, Links, Named
<1>4. Tally({})' = NoCounts
  BY <1>3, BytesOfNothing, FS_EmptySet DEF Tally, NoCounts
<1>5. WithinLimits({})'
  BY <1>4, AcquisitionLimits DEF WithinLimits, NoCounts
<1>6. WalkedSoFar'
  BY <1>1, <1>4, <1>5 DEF WalkedSoFar, Tally, WithinLimits, Found, Links, Named
<1>7. JobTypeOK' /\ Directories' /\ OutcomeInTime' /\ NothingScanned' /\ Verdict'
  BY <1>1, <1>2
  DEF JobTypeOK, Directories, OutcomeInTime, NothingScanned, Verdict, Acquired, Outcomes, ScanCodes
<1> QED BY <1>6, <1>7 DEF JobInv

LEMMA AcquireStep == JobInv /\ [AcquireNext]_acquireVars => JobInv'
<1> SUFFICES ASSUME JobInv, [AcquireNext]_acquireVars PROVE JobInv'
  OBVIOUS
<1>1. CASE UNCHANGED acquireVars
  <2>1. /\ UNCHANGED <<checkout, visited, rows, counts, leftovers, kills, workspace, acquiring>>
        /\ outcome' = outcome
    BY <1>1 DEF acquireVars
  <2>2. WalkedSoFar' /\ Verdict' /\ Walkable' = Walkable
    BY <2>1, WalkKept
  <2>3. JobTypeOK' /\ Directories' /\ OutcomeInTime' /\ NothingScanned'
    BY <2>1, <2>2 DEF JobInv, JobTypeOK, Directories, OutcomeInTime, NothingScanned, Acquired
  <2> QED BY <2>2, <2>3 DEF JobInv
<1>2. CASE \E f \in checkout : Visit(f)
  BY <1>2, VisitStep
<1> QED
  BY <1>1, <1>2, CommandSucceedsStep, EndingStep, WalkEndsStep, KilledStep DEF AcquireNext

LEMMA JobInvariance == AcquireSpec => []JobInv
BY StartHasInv, AcquireStep, PTL DEF AcquireSpec
----------------------------------------------------------------------------
LEMMA InvRemovesClones == JobInv => NoWorkspaceLeft
BY DEF JobInv, JobTypeOK, Directories, NoWorkspaceLeft

(* However often the worker dies and the message is delivered again, a job *)
(* whose outcome is recorded has removed its clone: every directory left   *)
(* in the workspace root is accounted for by a dead worker or by an        *)
(* exception.                                                              *)
THEOREM ClonesAreRemoved == AcquireSpec => []NoWorkspaceLeft
BY JobInvariance, InvRemovesClones, PTL

LEMMA InvDecides == JobInv => OrderDoesNotDecide
<1> SUFFICES ASSUME JobInv PROVE OrderDoesNotDecide
  OBVIOUS
<1>1. Excessive <=> ~WithinLimits(Walkable)
  BY CheckoutIsFileSet, ExcessIsTally DEF JobInv
<1>2. outcome = "succeeded" => WithinLimits(Walkable)
  BY DEF JobInv, WalkedSoFar, Verdict
<1> QED BY <1>1, <1>2 DEF JobInv, Verdict, OrderDoesNotDecide

(* os.walk promises no order, and the limits are checked while it runs;    *)
(* still a repository is refused in one order only if it is in every.      *)
THEOREM AcceptanceIsDetermined == AcquireSpec => []OrderDoesNotDecide
BY JobInvariance, InvDecides, PTL

(* Files with paths of their own have rows of their own.                   *)
LEMMA RowsAreFiles ==
  ASSUME FileSet(checkout), NEW V \in SUBSET checkout
  PROVE  /\ IsFiniteSet({Row(f) : f \in V})
         /\ Cardinality({Row(f) : f \in V}) = Cardinality(V)
<1> DEFINE R == {Row(f) : f \in V}
           h == [f \in V |-> Row(f)]
<1>1. \A f, g \in V : Row(f) = Row(g) => f = g
  BY DEF Row, FileSet
<1>2. h \in Bijection(V, R)
  BY <1>1 DEF Bijection, Injection, Surjection, IsInjective
<1>3. ExistsBijection(V, R) /\ IsFiniteSet(V)
  BY <1>2, TallyIsNatural DEF ExistsBijection
<1> QED BY <1>3, FS_Bijection

LEMMA InvSelects == JobInv => ScanSelects
<1> SUFFICES ASSUME JobInv, outcome = "succeeded" PROVE ScanSelects
  BY DEF ScanSelects
<1> DEFINE accepted == {r \in rows : r.excluded = "none"}
           byContent == {r \in rows : r.excluded = "content"}
           A == {f \in Walkable : Reason(f) = "none"}
           C == {f \in Walkable : Reason(f) = "content"}
<1>1. /\ FileSet(checkout) /\ visited = Walkable
      /\ rows = {Row(f) : f \in Walkable} /\ counts = Tally(Walkable)
      /\ \A f \in Walkable : f.traits \cap FatalTraits = {}
  BY CheckoutIsFileSet DEF JobInv, WalkedSoFar, Verdict, WithinLimits
<1>2. /\ A \in SUBSET checkout /\ C \in SUBSET checkout /\ Walkable \in SUBSET checkout
  BY DEF Walkable
<1>3. accepted = {Row(f) : f \in A} /\ byContent = {Row(f) : f \in C}
  BY <1>1 DEF Row
<1>4. {r.path : r \in accepted} = {f.path : f \in A}
  <2>1. \A f \in A : Row(f).path = f.path
    BY DEF Row
  <2>2. {r.path : r \in {Row(f) : f \in A}} = {Row(f).path : f \in A}
    OBVIOUS
  <2> QED BY <1>3, <2>1, <2>2
<1>5. A = {f \in checkout : Harmless(f)}
  <2>1. ASSUME NEW f \in checkout, f \in A PROVE f.traits = {}
    <3>1. f.traits \subseteq Traits
      BY <1>1 DEF FileSet
    <3>2. /\ "pruned" \notin f.traits /\ "gone" \notin f.traits /\ "symlink" \notin f.traits
          /\ f.traits \cap NameTraits = {} /\ f.traits \cap ContentTraits = {}
      BY <2>1 DEF Walkable, Reason
    <3>3. f.traits \cap FatalTraits = {}
      BY <1>1, <2>1
    <3> QED BY <3>1, <3>2, <3>3 DEF Traits
  <2>2. ASSUME NEW f \in checkout, f.traits = {} PROVE f \in A
    BY <2>2 DEF Walkable, Reason
  <2> QED BY <1>2, <2>1, <2>2 DEF Harmless
<1>6. counts.accepted = Cardinality(accepted) + Cardinality(byContent)
  <2>1. Named(Walkable) = A \cup C /\ A \cap C = {}
    BY DEF Named, Reason
  <2>2. /\ IsFiniteSet(A) /\ IsFiniteSet(C)
        /\ Cardinality(A) \in Nat /\ Cardinality(C) \in Nat
    BY <1>1, <1>2, TallyIsNatural
  <2>3. Cardinality(A \cup C) = Cardinality(A) + Cardinality(C) - Cardinality({})
    BY <2>1, <2>2, FS_Union
  <2>4. Cardinality(A \cup C) = Cardinality(A) + Cardinality(C)
    BY <2>2, <2>3, FS_EmptySet
  <2>5. Cardinality(accepted) = Cardinality(A) /\ Cardinality(byContent) = Cardinality(C)
    BY <1>1, <1>2, <1>3, RowsAreFiles
  <2>6. counts.accepted = Cardinality(Named(Walkable))
    BY <1>1 DEF Tally
  <2> QED BY <2>1, <2>4, <2>5, <2>6
<1>7. Cardinality(rows) = Cardinality(Walkable)
  BY <1>1, <1>2, RowsAreFiles
<1> QED BY <1>4, <1>5, <1>6, <1>7 DEF ScanSelects

(* A file is handed on to the index exactly if the walk reaches it and     *)
(* none of the checks, whatever their order, has anything against it; and  *)
(* file_count of the revision counts the rows it says it counts.           *)
THEOREM ScanIsExact == AcquireSpec => []ScanSelects
BY JobInvariance, InvSelects, PTL
=============================================================================
