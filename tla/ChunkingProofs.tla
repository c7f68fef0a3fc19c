--------------------------- MODULE ChunkingProofs ---------------------------
(***************************************************************************)
(* Proofs about ChunkSplit and Chunking, for all files and all settings.   *)
(*                                                                         *)
(* _split_chunk_text keeps every line, within its limits.  The argument    *)
(* needs nothing about how characters are counted: whichever windows are   *)
(* halved, a part ends after it starts and the next one starts no later    *)
(* than this one ends.                                                     *)
(***************************************************************************)
EXTENDS Chunking, FiniteSetTheorems, SequenceTheorems, WellFoundedInduction, TLAPS

\* No part is empty, leaves the source or has more lines than the limit.
PartsInBounds ==
  \A k \in 1 .. Len(parts) :
    /\ parts[k].first <= parts[k].last
    /\ parts[k].last <= Len(source)
    /\ parts[k].last < parts[k].first + MaxLines

\* The loop advances: each part starts after the one before it, so there are
\* at most as many parts as lines, also when the overlap reaches the limit.
PartsAdvance ==
  /\ \A k \in 1 .. Len(parts) - 1 : parts[k].first < parts[k + 1].first
  /\ Len(parts) <= Len(source)

\* What the loop has done: the lines before start are covered, and the parts
\* are at most as many as the lines they started after.
Covered(i) == \E k \in 1 .. Len(parts) : parts[k].first <= i /\ i <= parts[k].last

SplitInv ==
  /\ SplitTypeOK
  /\ cutting => start < Len(source)
  /\ \A i \in 1 .. start : Covered(i)
  /\ ~cutting => \A i \in 1 .. Len(source) : Covered(i)
  /\ PartsInBounds
  /\ cutting => Len(parts) <= start
  /\ cutting => \A k \in 1 .. Len(parts) : parts[k].first <= start
  /\ PartsAdvance

----------------------------------------------------------------------------
\* Whether or not its window is halved, a part of the loop has at least one
\* line and at most MaxLines, and ends within the source.
LEMMA PartEndInWindow ==
  ASSUME SplitTypeOK, start < Len(source)
  PROVE  /\ PartEnd \in Nat
         /\ start < PartEnd
         /\ PartEnd <= start + MaxLines
         /\ PartEnd <= Len(source)
<1>1. /\ Len(source) \in Nat
      /\ start \in Nat
      /\ MaxLines \in Nat \ {0}
  BY ChunkLimits DEF SplitTypeOK, Texts
<1>2. /\ WindowEnd \in Nat
      /\ start < WindowEnd
      /\ WindowEnd <= start + MaxLines
      /\ WindowEnd <= Len(source)
  BY <1>1 DEF WindowEnd, Lesser
<1> DEFINE size == WindowEnd - start
           half == Greater(1, size \div 2)
<1>3. size \in Nat
  BY <1>1, <1>2
<1>4. ASSUME size > 1
      PROVE  /\ half \in Nat
             /\ 1 <= half
             /\ half <= size
  BY <1>3, <1>4 DEF Greater
<1>5. CASE Chars(start + 1, WindowEnd) > MaxChars /\ size > 1
  <2>1. PartEnd = start + half
    BY <1>5 DEF PartEnd
  <2> QED
    BY <1>1, <1>2, <1>3, <1>4, <1>5, <2>1
<1>6. CASE ~(Chars(start + 1, WindowEnd) > MaxChars /\ size > 1)
  <2>1. PartEnd = WindowEnd
    BY <1>6 DEF PartEnd
  <2> QED
    BY <1>2, <2>1
<1> QED
  BY <1>5, <1>6

\* The next part starts later than this one and no later than this one ends.
LEMMA NextStartAdvances ==
  ASSUME SplitTypeOK, NEW end \in Nat, start < end
  PROVE  /\ NextStart(end) \in Nat
         /\ start < NextStart(end)
         /\ NextStart(end) <= end
  BY ChunkLimits DEF SplitTypeOK, NextStart, Greater

----------------------------------------------------------------------------
LEMMA InitSplit == SplitInit => SplitInv
  BY DEF SplitInit, SplitInv, SplitTypeOK, Texts, Covered, PartsInBounds,
         PartsAdvance

LEMMA StepSplit == SplitInv /\ CutPart => SplitInv'
<1> SUFFICES ASSUME SplitInv, CutPart
             PROVE  SplitInv'
  OBVIOUS
<1> DEFINE part == [first |-> start + 1, last |-> PartEnd]
           n == Len(parts)
<1>1. /\ SplitTypeOK
      /\ start < Len(source)
      /\ n <= start
      /\ start \in Nat
      /\ parts \in Seq(Part)
      /\ n \in Nat
      /\ Len(source) \in Nat
      /\ MaxLines \in Nat
  BY ChunkLimits DEF SplitInv, SplitTypeOK, CutPart, Texts
<1>2. /\ PartEnd \in Nat
      /\ start < PartEnd
      /\ PartEnd <= start + MaxLines
      /\ PartEnd <= Len(source)
  BY <1>1, PartEndInWindow
<1>3. /\ source' = source
      /\ parts' = Append(parts, part)
      /\ cutting' <=> PartEnd < Len(source)
      /\ start' = IF PartEnd < Len(source) THEN NextStart(PartEnd) ELSE start
  BY DEF CutPart
<1>4. /\ start' \in Nat
      /\ start <= start'
      /\ start' <= PartEnd
      /\ cutting' => start < start'
  <2>1. /\ NextStart(PartEnd) \in Nat
        /\ start < NextStart(PartEnd)
        /\ NextStart(PartEnd) <= PartEnd
    BY <1>1, <1>2, NextStartAdvances
  <2> QED
    BY <1>1, <1>2, <1>3, <2>1
<1>5. part \in Part
  BY <1>1, <1>2 DEF Part
<1> HIDE DEF part
<1>6. /\ parts' \in Seq(Part)
      /\ Len(parts') = n + 1
      /\ parts'[n + 1] = part
      /\ \A k \in 1 .. n : parts'[k] = parts[k]
  BY <1>1, <1>3, <1>5
<1>7. part.first = start + 1 /\ part.last = PartEnd
  BY DEF part
<1>8. SplitTypeOK'
  <2>1. cutting' \in BOOLEAN
    BY DEF CutPart
  <2>2. source' \in Texts
    BY <1>1, <1>3 DEF SplitTypeOK
  <2> QED
    BY <1>4, <1>6, <2>1, <2>2 DEF SplitTypeOK
<1>9. \A i \in 1 .. PartEnd : Covered(i)'
  <2> SUFFICES ASSUME NEW i \in 1 .. PartEnd
               PROVE  Covered(i)'
    OBVIOUS
  <2>1. CASE i <= start
    <3>1. PICK k \in 1 .. n : parts[k].first <= i /\ i <= parts[k].last
      BY <1>1, <1>2, <2>1 DEF SplitInv, Covered
    <3>2. k \in 1 .. Len(parts') /\ parts'[k] = parts[k]
      BY <1>1, <1>6
    <3> QED
      BY <3>1, <3>2 DEF Covered
  <2>2. CASE start < i
    BY <1>1, <1>2, <1>6, <1>7, <2>2 DEF Covered
  <2> QED
    BY <1>1, <1>2, <2>1, <2>2
<1>10. cutting' => start' < Len(source')
  BY <1>1, <1>2, <1>3, <1>4
<1>11. \A i \in 1 .. start' : Covered(i)'
  BY <1>2, <1>4, <1>9
<1>12. ~cutting' => \A i \in 1 .. Len(source') : Covered(i)'
  <2>1. ~cutting' => PartEnd = Len(source)
    BY <1>1, <1>2, <1>3
  <2> QED
    BY <1>3, <1>9, <2>1
<1>13. PartsInBounds'
  <2> SUFFICES ASSUME NEW k \in 1 .. n + 1
               PROVE  /\ parts'[k].first <= parts'[k].last
                      /\ parts'[k].last <= Len(source)
                      /\ parts'[k].last < parts'[k].first + MaxLines
    BY <1>3, <1>6 DEF PartsInBounds
  <2>1. CASE k = n + 1
    BY <1>1, <1>2, <1>6, <1>7, <2>1
  <2>2. CASE k \in 1 .. n
    BY <1>6, <2>2 DEF SplitInv, PartsInBounds
  <2> QED
    BY <1>1, <2>1, <2>2
<1>14. cutting' => Len(parts') <= start'
  BY <1>1, <1>4, <1>6
<1>15. cutting' => \A k \in 1 .. Len(parts') : parts'[k].first <= start'
  <2> SUFFICES ASSUME cutting', NEW k \in 1 .. n + 1
               PROVE  parts'[k].first <= start'
    BY <1>6
  <2>1. CASE k = n + 1
    BY <1>1, <1>4, <1>6, <1>7, <2>1
  <2>2. CASE k \in 1 .. n
    <3>1. parts[k].first <= start
      BY <2>2 DEF SplitInv, CutPart
    <3>2. parts[k] \in Part
      BY <1>1, <2>2
    <3>3. parts[k].first \in Nat
      BY <3>2 DEF Part
    <3> QED
      BY <1>1, <1>4, <1>6, <2>2, <3>1, <3>3
  <2> QED
    BY <1>1, <2>1, <2>2
<1>16. PartsAdvance'
  <2>1. \A k \in 1 .. n : parts'[k].first < parts'[k + 1].first
    <3> SUFFICES ASSUME NEW k \in 1 .. n
                 PROVE  parts'[k].first < parts'[k + 1].first
      OBVIOUS
    <3>1. CASE k = n
      <4>1. parts[k].first <= start
        BY DEF SplitInv, CutPart
      <4>2. parts[k] \in Part
        BY <1>1
      <4>3. parts[k].first \in Nat
        BY <4>2 DEF Part
      <4> QED
        BY <1>1, <1>6, <1>7, <3>1, <4>1, <4>3
    <3>2. CASE k \in 1 .. n - 1
      <4>1. parts[k].first < parts[k + 1].first
        BY <3>2 DEF SplitInv, PartsAdvance
      <4>2. k + 1 \in 1 .. n
        BY <1>1, <3>2
      <4> QED
        BY <1>6, <4>1, <4>2
    <3> QED
      BY <1>1, <3>1, <3>2
  <2>2. Len(parts') <= Len(source')
    BY <1>1, <1>3, <1>6
  <2> QED
    BY <1>1, <1>6, <2>1, <2>2 DEF PartsAdvance
<1> QED
  BY <1>8, <1>10, <1>11, <1>12, <1>13, <1>14, <1>15, <1>16 DEF SplitInv

LEMMA StutterSplit == SplitInv /\ UNCHANGED splitVars => SplitInv'
  BY DEF SplitInv, SplitTypeOK, Covered, PartsInBounds, PartsAdvance, splitVars, Texts

\* The strengthened invariant holds in every turn of the loop.
THEOREM SplitInvariance == SplitSpec => []SplitInv
<1>1. SplitInv /\ [CutPart]_splitVars => SplitInv'
  BY StepSplit, StutterSplit
<1> QED
  BY <1>1, InitSplit, PTL DEF SplitSpec

\* When the loop of _split_chunk_text has ended, no line of the symbol is
\* missing from its parts, for every text, overlap and size limit.
THEOREM EveryLineIsCut == SplitSpec => []NoLineSkipped
<1>1. SplitInv => NoLineSkipped
  BY DEF SplitInv, NoLineSkipped, Covered
<1> QED
  BY <1>1, SplitInvariance, PTL

\* Every part lies in the source, is not empty and keeps to MaxLines.
THEOREM PartsAreBounded == SplitSpec => []PartsInBounds
<1>1. SplitInv => PartsInBounds
  BY DEF SplitInv
<1> QED
  BY <1>1, SplitInvariance, PTL

\* Each turn starts later than the one before: the loop ends after at most
\* one turn per line.
THEOREM LoopAdvances == SplitSpec => []PartsAdvance
<1>1. SplitInv => PartsAdvance
  BY DEF SplitInv
<1> QED
  BY <1>1, SplitInvariance, PTL

----------------------------------------------------------------------------
(* Induction over the natural numbers, as a least counterexample.          *)
LEMMA LeastNumber ==
  ASSUME NEW T \in SUBSET Nat, T # {}
  PROVE  \E m \in T : \A k \in T : m <= k
<1>1. PICK n \in T : TRUE
  OBVIOUS
<1> DEFINE S == 0 .. n
           F == {0 .. m : m \in {k \in T : k <= n}}
           R == StrictSubsetOrdering(S)
<1>2. IsFiniteSet(S)
  BY FS_Interval
<1>3. IsWellFoundedOn(R, FiniteSubsetsOf(S))
  BY FS_StrictSubsetOrderingWellFounded
<1>4. F \subseteq FiniteSubsetsOf(S) /\ F # {}
  <2>1. FiniteSubsetsOf(S) = SUBSET S
    BY <1>2, FS_FiniteSubsetsOfFinite
  <2> QED BY <2>1, <1>1
<1>5. PICK X \in F : \A Y \in F : ~ (<<Y, X>> \in R)
  <2> HIDE DEF F, R, S
  <2> QED BY <1>3, <1>4, WFMin
<1>6. PICK m \in T : m <= n /\ X = 0 .. m
  BY <1>5
<1>7. ASSUME NEW k \in T, k < m PROVE FALSE
  <2>1. 0 .. k \in F
    BY <1>6, <1>7, <1>1
  <2>2. 0 .. k \subseteq 0 .. m /\ 0 .. k # 0 .. m /\ 0 .. m \subseteq S
    BY <1>6, <1>7, <1>1
  <2>3. <<0 .. k, 0 .. m>> \in R
    BY <2>2 DEF StrictSubsetOrdering
  <2> QED BY <2>1, <2>3, <1>5, <1>6
<1> QED BY <1>6, <1>7

LEMMA LastPosition ==
  ASSUME NEW n \in Nat, NEW T \in SUBSET (1 .. n), T # {}
  PROVE  Max(T) \in T
<1> DEFINE D == {n - k : k \in T}
<1>1. PICK d \in D : \A e \in D : d <= e
  <2>1. D \in SUBSET Nat /\ D # {}
    <3>1. \A k \in T : k \in 1 .. n /\ n - k \in Nat
      OBVIOUS
    <3> QED BY <3>1
  <2> HIDE DEF D
  <2> QED BY <2>1, LeastNumber
<1>2. PICK m \in T : d = n - m
  BY <1>1
<1>3. ASSUME NEW k \in T PROVE m >= k
  <2>1. n - k \in D
    BY <1>3
  <2> HIDE DEF D
  <2>2. d <= n - k
    BY <1>1, <2>1
  <2>3. T \subseteq 1 .. n
    OBVIOUS
  <2>4. m \in Nat /\ k \in Nat
    BY <1>3, <2>3
  <2> QED BY <1>2, <2>2, <2>4
<1> QED BY <1>2, <1>3 DEF Max

(* FlattenSeq(s) joins the sequences of s from the left.                   *)
Joins(n, s, g) == g = [i \in 1 .. n |-> IF i = 1 THEN s[i] ELSE g[i - 1] \o s[i]]

LEMMA JoinsExist ==
  ASSUME NEW s, NEW n \in Nat
  PROVE  \E g : Joins(n, s, g)
<1> DEFINE B == {k \in Nat : ~ \E g : Joins(k, s, g)}
<1>1. ASSUME B # {} PROVE FALSE
  <2>1. PICK m \in B : \A k \in B : m <= k
    <3> HIDE DEF B
    <3>1. B \in SUBSET Nat
      BY DEF B
    <3> QED BY <1>1, <3>1, LeastNumber
  <2>2. m # 0
    <3>1. Joins(0, s, [i \in 1 .. 0 |-> s[i]])
      BY DEF Joins
    <3> QED BY <2>1, <3>1
  <2>3. PICK h : Joins(m - 1, s, h)
    BY <2>1, <2>2
  <2> DEFINE g == [i \in 1 .. m |-> IF i = m THEN IF m = 1 THEN s[1] ELSE h[m - 1] \o s[m]
                                            ELSE h[i]]
  <2>4. ASSUME NEW i \in 1 .. m
        PROVE  g[i] = IF i = 1 THEN s[i] ELSE g[i - 1] \o s[i]
    <3>1. CASE i = m
      BY <2>1, <3>1
    <3>2. CASE i # m
      <4>1. i \in 1 .. m - 1 /\ g[i] = h[i] /\ (i # 1 => g[i - 1] = h[i - 1])
        BY <2>1, <2>2, <3>2
      <4> QED BY <2>3, <4>1 DEF Joins
    <3> QED BY <3>1, <3>2
  <2>5. g = [i \in 1 .. m |-> IF i = 1 THEN s[i] ELSE g[i - 1] \o s[i]]
    BY <2>4
  <2> QED BY <2>1, <2>5 DEF Joins
<1> QED BY <1>1

(* What a joined sequence holds: the elements of the sequences up to n.     *)
Gathers(r, s, n) ==
  /\ \A k \in 1 .. Len(r) : \E i \in 1 .. n : \E j \in 1 .. Len(s[i]) : r[k] = s[i][j]
  /\ \A i \in 1 .. n : \A j \in 1 .. Len(s[i]) : \E k \in 1 .. Len(r) : r[k] = s[i][j]

LEMMA GathersOneMore ==
  ASSUME NEW T, NEW s, NEW l \in Nat, s[l + 1] \in Seq(T), NEW r \in Seq(T), Gathers(r, s, l)
  PROVE  r \o s[l + 1] \in Seq(T) /\ Gathers(r \o s[l + 1], s, l + 1)
<1> DEFINE b == s[l + 1]
           c == r \o b
<1>1. b \in Seq(T) /\ Len(b) \in Nat /\ Len(r) \in Nat
  OBVIOUS
<1>2. /\ c \in Seq(T)
      /\ Len(c) = Len(r) + Len(b)
      /\ \A k \in 1 .. Len(r) + Len(b) : c[k] = IF k <= Len(r) THEN r[k] ELSE b[k - Len(r)]
  BY <1>1, ConcatProperties
<1> HIDE DEF c
<1>3. ASSUME NEW k \in 1 .. Len(c)
      PROVE  \E i \in 1 .. l + 1 : \E j \in 1 .. Len(s[i]) : c[k] = s[i][j]
  <2>1. CASE k <= Len(r)
    <3>1. k \in 1 .. Len(r) /\ c[k] = r[k]
      BY <1>1, <1>2, <2>1
    <3>2. PICK i \in 1 .. l : \E j \in 1 .. Len(s[i]) : r[k] = s[i][j]
      BY <3>1 DEF Gathers
    <3>3. i \in 1 .. l + 1
      OBVIOUS
    <3> QED BY <3>1, <3>2, <3>3
  <2>2. CASE k > Len(r)
    <3>1. k - Len(r) \in 1 .. Len(b) /\ c[k] = b[k - Len(r)]
      BY <1>1, <1>2, <2>2
    <3> QED BY <3>1
  <2> QED BY <1>1, <1>2, <2>1, <2>2
<1>4. ASSUME NEW i \in 1 .. l + 1, NEW j \in 1 .. Len(s[i])
      PROVE  \E k \in 1 .. Len(c) : c[k] = s[i][j]
  <2>1. CASE i \in 1 .. l
    <3>1. PICK k \in 1 .. Len(r) : r[k] = s[i][j]
      BY <2>1 DEF Gathers
    <3>2. k \in 1 .. Len(c) /\ c[k] = r[k]
      BY <1>1, <1>2
    <3> QED BY <3>1, <3>2
  <2>2. CASE i = l + 1
    <3>1. j \in 1 .. Len(b)
      BY <2>2
    <3>2. Len(r) + j \in 1 .. Len(c) /\ c[Len(r) + j] = b[j]
      BY <1>1, <1>2, <3>1
    <3> QED BY <2>2, <3>2
  <2> QED BY <2>1, <2>2
<1> QED BY <1>2, <1>3, <1>4 DEF Gathers, c

LEMMA JoinsHold ==
  ASSUME NEW T, NEW s \in Seq(Seq(T)), NEW g, Joins(Len(s), s, g), NEW n \in 1 .. Len(s)
  PROVE  g[n] \in Seq(T) /\ Gathers(g[n], s, n)
<1> DEFINE B == {m \in 1 .. Len(s) : ~ (g[m] \in Seq(T) /\ Gathers(g[m], s, m))}
<1>1. ASSUME B # {} PROVE FALSE
  <2>1. PICK m \in B : \A k \in B : m <= k
    <3>1. B \in SUBSET Nat
      OBVIOUS
    <3> HIDE DEF B
    <3> QED BY <1>1, <3>1, LeastNumber
  <2>2. m \in 1 .. Len(s) /\ s[m] \in Seq(T)
    OBVIOUS
  <2>3. g[m] = IF m = 1 THEN s[m] ELSE g[m - 1] \o s[m]
    BY <2>2 DEF Joins
  <2>4. CASE m = 1
    BY <2>2, <2>3, <2>4 DEF Gathers
  <2>5. CASE m # 1
    <3> DEFINE l == m - 1
    <3>1. l \in 1 .. Len(s) /\ l < m /\ l \in Nat /\ l + 1 = m
      BY <2>2, <2>5
    <3>2. l \notin B
      <4> HIDE DEF B
      <4> QED BY <2>1, <2>2, <3>1
    <3>3. g[l] \in Seq(T) /\ Gathers(g[l], s, l)
      BY <3>1, <3>2
    <3>4. g[l] \o s[m] \in Seq(T) /\ Gathers(g[l] \o s[m], s, m)
      <4> HIDE DEF l, B
      <4> QED BY <2>2, <3>1, <3>3, GathersOneMore
    <3> QED BY <2>1, <2>3, <2>5, <3>4
  <2> QED BY <2>4, <2>5
<1> QED BY <1>1

LEMMA Flattened ==
  ASSUME NEW T, NEW s \in Seq(Seq(T))
  PROVE  FlattenSeq(s) \in Seq(T) /\ Gathers(FlattenSeq(s), s, Len(s))
<1>1. CASE Len(s) = 0
  <2>1. s = <<>>
    BY <1>1
  <2> QED BY <1>1, <2>1 DEF FlattenSeq, Gathers
<1>2. CASE Len(s) # 0
  <2> DEFINE g == CHOOSE g : Joins(Len(s), s, g)
  <2>1. Joins(Len(s), s, g)
    <3>1. Len(s) \in Nat
      OBVIOUS
    <3>2. \E h : Joins(Len(s), s, h)
      BY <3>1, JoinsExist
    <3> QED BY <3>2
  <2>2. FlattenSeq(s) = g[Len(s)]
    BY <1>2 DEF FlattenSeq, Joins
  <2> HIDE DEF g
  <2>3. Len(s) \in 1 .. Len(s)
    BY <1>2
  <2> QED BY <2>1, <2>2, <2>3, JoinsHold
<1> QED BY <1>1, <1>2

----------------------------------------------------------------------------
(* The symbols of a file have lines, and a member's class is among them.   *)
Types == {"text_chunk", "import", "class", "function", "method", "assignment"}
Names == STRING \cup {"stem"} \cup Nat

Symbols ==
  [type : Types, name : Seq(Names), first : Nat \ {0}, last : Nat, parent : Seq(Names)]

\* Every parent named in a sequence of symbols is the name of a class in it.
ParentsPresent(found) ==
  \A k \in 1 .. Len(found) :
    \/ found[k].parent = NoParent
    \/ \E j \in 1 .. Len(found) : found[j].name = found[k].parent /\ found[j].type = "class"

LEMMA BlocksAreSymbols ==
  ASSUME NEW text \in Seq(Nat)
  PROVE  /\ FallbackSymbols(text) \in Seq(Symbols)
         /\ ParentsPresent(FallbackSymbols(text))
         /\ \A i \in 1 .. Len(text) : \E k \in 1 .. Len(FallbackSymbols(text)) :
              /\ FallbackSymbols(text)[k].first <= i
              /\ i <= FallbackSymbols(text)[k].last
<1> DEFINE n == Len(text)
           m == (n + BlockLines - 1) \div BlockLines
           first(b) == (b - 1) * BlockLines + 1
           last(b) == IF b * BlockLines < n THEN b * BlockLines ELSE n
           found == FallbackSymbols(text)
<1>1. n \in Nat /\ BlockLines \in Nat \ {0}
  BY BlocksHaveLines
<1>2. CASE text = <<>>
  <2> DEFINE one == Symbol("text_chunk", <<"stem">>, 1, 1, NoParent)
  <2>1. found = <<one>>
    BY <1>2 DEF FallbackSymbols
  <2>2. <<"stem">> \in Seq(Names) /\ <<>> \in Seq(Names)
    BY DEF Names
  <2>3. one \in Symbols /\ one.parent = NoParent
    BY <2>2 DEF Symbols, Symbol, Types, NoParent
  <2>4. n = 0
    BY <1>2
  <2> HIDE DEF one, found
  <2> QED BY <2>1, <2>3, <2>4 DEF ParentsPresent, found
<1>3. CASE text # <<>>
  <2> DEFINE block(b) == Symbol("text_chunk", <<"stem", first(b), last(b)>>, first(b), last(b), NoParent)
  <2>1. m \in Nat
    BY <1>1
  <2>2. found = [b \in 1 .. m |-> block(b)]
    BY <1>3 DEF FallbackSymbols
  <2>3. ASSUME NEW b \in 1 .. m
        PROVE  block(b) \in Symbols /\ block(b).parent = NoParent
    <3>1. b - 1 \in Nat /\ b \in Nat
      BY <2>1
    <3>2. (b - 1) * BlockLines \in Nat /\ b * BlockLines \in Nat
      BY <1>1, <3>1
    <3>3. first(b) \in Nat \ {0} /\ last(b) \in Nat
      BY <1>1, <3>2
    <3> HIDE DEF first, last
    <3>4. <<"stem", first(b), last(b)>> \in Seq(Names) /\ <<>> \in Seq(Names)
      BY <3>3 DEF Names
    <3> QED BY <3>3, <3>4 DEF Symbols, Symbol, Types, NoParent
  <2>4. ASSUME NEW i \in 1 .. n
        PROVE  \E b \in 1 .. m : first(b) <= i /\ i <= last(b)
    <3> DEFINE b == ((i - 1) \div BlockLines) + 1
    <3>1. i - 1 \in Nat /\ i \in Nat
      BY <1>1
    <3>2. b \in Nat \ {0} /\ (b - 1) * BlockLines <= i - 1 /\ i - 1 < b * BlockLines
      BY <1>1, <3>1
    <3>3. b <= m
      <4>1. n + BlockLines - 1 < (m + 1) * BlockLines
        BY <1>1
      <4>2. b * BlockLines <= n + BlockLines - 1
        <5>1. b * BlockLines = (b - 1) * BlockLines + BlockLines
          BY <1>1, <3>2
        <5>2. (b - 1) * BlockLines \in Nat
          BY <1>1, <3>1
        <5> QED BY <1>1, <3>1, <3>2, <5>1, <5>2
      <4>3. ASSUME m + 1 <= b PROVE FALSE
        <5> HIDE DEF m, b
        <5>1. PICK d \in Nat : b = m + 1 + d
          BY <2>1, <3>2, <4>3
        <5>2. b * BlockLines = (m + 1) * BlockLines + d * BlockLines
          BY <1>1, <2>1, <5>1
        <5>3. d * BlockLines \in Nat /\ (m + 1) * BlockLines \in Nat
          BY <1>1, <2>1
        <5> QED BY <1>1, <4>1, <4>2, <5>2, <5>3
      <4> QED BY <2>1, <3>2, <4>3
    <3> QED BY <1>1, <2>1, <3>1, <3>2, <3>3
  <2>5. /\ found \in Seq(Symbols)
        /\ Len(found) = m
        /\ \A b \in 1 .. m : found[b] = block(b)
    <3> HIDE DEF block, m, found
    <3> QED BY <2>1, <2>2, <2>3
  <2>6. \A b \in 1 .. m : found[b].first = first(b) /\ found[b].last = last(b)
    <3>1. \A b \in 1 .. m : block(b).first = first(b) /\ block(b).last = last(b)
      BY DEF Symbol
    <3> HIDE DEF found, block, first, last, m
    <3> QED BY <2>5, <3>1
  <2> HIDE DEF found, block, first, last, m
  <2> QED BY <2>3, <2>4, <2>5, <2>6 DEF ParentsPresent, found
<1> QED BY <1>2, <1>3

LEMMA DefinitionsAreSymbols ==
  ASSUME NEW B, NEW node \in Statements(B), NEW parent \in Seq(STRING)
  PROVE  /\ FunctionSymbols(node, parent) \in Seq(Symbols)
         /\ ConstantSymbols(node, parent) \in Seq(Symbols)
         /\ \A k \in 1 .. Len(FunctionSymbols(node, parent)) :
              FunctionSymbols(node, parent)[k].parent = parent
         /\ \A k \in 1 .. Len(ConstantSymbols(node, parent)) :
              ConstantSymbols(node, parent)[k].parent = parent
<1> DEFINE n == Len(node.names)
           function == Symbol(IF parent = NoParent THEN "function" ELSE "method",
                              parent \o node.names, node.first, node.last, parent)
           constant(i) == Symbol("assignment", parent \o <<node.names[i]>>,
                                 node.first, node.last, parent)
<1>1. /\ node.names \in Seq(STRING) /\ n \in Nat
      /\ node.first \in Nat \ {0} /\ node.last \in Nat
  BY DEF Statements
<1>2. \A s \in Seq(STRING) : s \in Seq(Names)
  BY SeqMonotonic DEF Names
<1>3. function \in Symbols /\ function.parent = parent
  <2>1. parent \o node.names \in Seq(Names) /\ parent \in Seq(Names)
    BY <1>1, <1>2
  <2> QED BY <1>1, <2>1 DEF Symbols, Symbol, Types
<1>4. ASSUME NEW i \in 1 .. n PROVE constant(i) \in Symbols /\ constant(i).parent = parent
  <2>1. parent \o <<node.names[i]>> \in Seq(Names) /\ parent \in Seq(Names)
    BY <1>1, <1>2
  <2> QED BY <1>1, <2>1 DEF Symbols, Symbol, Types
<1>5. FunctionSymbols(node, parent) = <<function>>
  BY DEF FunctionSymbols
<1>6. ConstantSymbols(node, parent) = [i \in 1 .. n |-> constant(i)]
  BY DEF ConstantSymbols
<1> HIDE DEF function, constant, n
<1> QED BY <1>1, <1>3, <1>4, <1>5, <1>6

LEMMA ClassSymbolsHold ==
  ASSUME NEW node \in Statements(Seq(Statements({<<>>})))
  PROVE  /\ ClassSymbols(node) \in Seq(Symbols)
         /\ ParentsPresent(ClassSymbols(node))
<1> DEFINE member(child) == CASE child.kind = "def"    -> FunctionSymbols(child, node.names)
                              [] child.kind = "assign" -> ConstantSymbols(child, node.names)
                              [] OTHER                 -> <<>>
           n == Len(node.body)
           lists == [i \in 1 .. n |-> member(node.body[i])]
           head == Symbol("class", node.names, node.first, node.last, NoParent)
           found == ClassSymbols(node)
<1>1. /\ node.names \in Seq(STRING) /\ node.names \in Seq(Names)
      /\ node.first \in Nat \ {0} /\ node.last \in Nat
      /\ node.body \in Seq(Statements({<<>>})) /\ n \in Nat
  <2>1. node.names \in Seq(STRING)
    BY DEF Statements
  <2>2. node.names \in Seq(Names)
    BY <2>1, SeqMonotonic DEF Names
  <2> QED BY <2>1, <2>2 DEF Statements
<1>2. ASSUME NEW i \in 1 .. n
      PROVE  /\ member(node.body[i]) \in Seq(Symbols)
             /\ \A k \in 1 .. Len(member(node.body[i])) :
                  member(node.body[i])[k].parent = node.names
  <2>1. node.body[i] \in Statements({<<>>})
    BY <1>1
  <2> DEFINE child == node.body[i]
  <2>2. /\ FunctionSymbols(child, node.names) \in Seq(Symbols)
        /\ ConstantSymbols(child, node.names) \in Seq(Symbols)
        /\ \A k \in 1 .. Len(FunctionSymbols(child, node.names)) :
             FunctionSymbols(child, node.names)[k].parent = node.names
        /\ \A k \in 1 .. Len(ConstantSymbols(child, node.names)) :
             ConstantSymbols(child, node.names)[k].parent = node.names
    <3> HIDE DEF lists, n, found, head
    <3> QED BY <1>1, <2>1, DefinitionsAreSymbols
  <2>3. <<>> \in Seq(Symbols) /\ Len(<<>>) = 0
    OBVIOUS
  <2> HIDE DEF child
  <2>4. /\ member(child) \in Seq(Symbols)
        /\ \A k \in 1 .. Len(member(child)) : member(child)[k].parent = node.names
    <3>1. CASE child.kind = "def"
      BY <2>2, <3>1
    <3>2. CASE child.kind = "assign"
      BY <2>2, <3>2
    <3>3. CASE child.kind \notin {"def", "assign"}
      BY <2>3, <3>3
    <3> QED BY <3>1, <3>2, <3>3
  <2> QED BY <2>4 DEF child
<1>3. /\ head \in Symbols /\ head.name = node.names
      /\ head.type = "class" /\ head.parent = NoParent
  BY <1>1 DEF Symbols, Symbol, Types, NoParent
<1>4. found = <<head>> \o FlattenSeq(lists)
  BY DEF ClassSymbols
<1> HIDE DEF member, head, found
<1>5. lists \in Seq(Seq(Symbols)) /\ Len(lists) = n /\ \A i \in 1 .. n : lists[i] = member(node.body[i])
  BY <1>1, <1>2
<1> HIDE DEF lists
<1>6. FlattenSeq(lists) \in Seq(Symbols) /\ Gathers(FlattenSeq(lists), lists, n)
  BY <1>5, Flattened
<1>7. /\ found \in Seq(Symbols)
      /\ Len(found) = 1 + Len(FlattenSeq(lists))
      /\ found[1] = head
      /\ \A k \in 2 .. Len(found) : found[k] = FlattenSeq(lists)[k - 1]
  BY <1>3, <1>4, <1>6
<1>8. ASSUME NEW k \in 2 .. Len(found) PROVE found[k].parent = node.names
  <2>1. k - 1 \in 1 .. Len(FlattenSeq(lists))
    BY <1>6, <1>7
  <2>2. PICK i \in 1 .. n : \E j \in 1 .. Len(lists[i]) : FlattenSeq(lists)[k - 1] = lists[i][j]
    BY <1>6, <2>1 DEF Gathers
  <2> QED BY <1>2, <1>5, <1>7, <2>2
<1>9. ParentsPresent(found)
  <2>1. /\ Len(found) \in Nat /\ 1 \in 1 .. Len(found)
        /\ found[1].name = node.names /\ found[1].type = "class" /\ found[1].parent = NoParent
    BY <1>3, <1>6, <1>7
  <2>2. \A k \in 1 .. Len(found) : k = 1 \/ k \in 2 .. Len(found)
    BY <2>1
  <2> QED BY <1>8, <2>1, <2>2 DEF ParentsPresent
<1> QED BY <1>7, <1>9 DEF found

LEMMA PythonSymbolsHold ==
  ASSUME NEW nodes \in Seq(Statements(Seq(Statements({<<>>}))))
  PROVE  PythonSymbols(nodes) \in Seq(Symbols) /\ ParentsPresent(PythonSymbols(nodes))
<1> DEFINE of(node) == CASE node.kind = "import" ->
                              <<Symbol("import", node.names, node.first, node.last, NoParent)>>
                         [] node.kind = "class"  -> ClassSymbols(node)
                         [] node.kind = "def"    -> FunctionSymbols(node, NoParent)
                         [] node.kind = "assign" -> ConstantSymbols(node, NoParent)
                         [] OTHER                -> <<>>
           n == Len(nodes)
           lists == [i \in 1 .. n |-> of(nodes[i])]
           found == PythonSymbols(nodes)
<1>1. n \in Nat
  OBVIOUS
<1>2. ASSUME NEW i \in 1 .. n
      PROVE  of(nodes[i]) \in Seq(Symbols) /\ ParentsPresent(of(nodes[i]))
  <2> DEFINE node == nodes[i]
  <2>1. node \in Statements(Seq(Statements({<<>>})))
    OBVIOUS
  <2> HIDE DEF node
  <2>2. NoParent \in Seq(STRING) /\ NoParent \in Seq(Names)
    BY DEF NoParent
  <2>3. CASE node.kind = "import"
    <3> DEFINE one == Symbol("import", node.names, node.first, node.last, NoParent)
    <3>1. node.names \in Seq(STRING) /\ node.first \in Nat \ {0} /\ node.last \in Nat
      BY <2>1 DEF Statements
    <3>2. node.names \in Seq(Names)
      BY <3>1, SeqMonotonic DEF Names
    <3>3. one \in Symbols /\ one.parent = NoParent
      BY <2>2, <3>1, <3>2 DEF Symbols, Symbol, Types
    <3>4. of(node) = <<one>>
      BY <2>3
    <3> HIDE DEF one, of
    <3> QED BY <3>3, <3>4 DEF ParentsPresent, node
  <2>4. CASE node.kind = "class"
    <3>1. of(node) = ClassSymbols(node)
      BY <2>4
    <3> HIDE DEF of
    <3> QED BY <2>1, <3>1, ClassSymbolsHold DEF node
  <2>5. CASE node.kind = "def"
    <3>1. of(node) = FunctionSymbols(node, NoParent)
      BY <2>5
    <3> HIDE DEF of
    <3> QED BY <2>1, <2>2, <3>1, DefinitionsAreSymbols DEF node, ParentsPresent
  <2>6. CASE node.kind = "assign"
    <3>1. of(node) = ConstantSymbols(node, NoParent)
      BY <2>6
    <3> HIDE DEF of
    <3> QED BY <2>1, <2>2, <3>1, DefinitionsAreSymbols DEF node, ParentsPresent
  <2>7. CASE node.kind \notin {"import", "class", "def", "assign"}
    <3>1. of(node) = <<>>
      BY <2>7
    <3> HIDE DEF of
    <3> QED BY <3>1 DEF node, ParentsPresent
  <2> QED BY <2>3, <2>4, <2>5, <2>6, <2>7
<1>3. found = FlattenSeq(lists)
  BY DEF PythonSymbols
<1> HIDE DEF of, found
<1>4. lists \in Seq(Seq(Symbols)) /\ Len(lists) = n /\ \A i \in 1 .. n : lists[i] = of(nodes[i])
  BY <1>1, <1>2
<1> HIDE DEF lists
<1>5. found \in Seq(Symbols) /\ Gathers(found, lists, n)
  BY <1>3, <1>4, Flattened
<1>6. ASSUME NEW k \in 1 .. Len(found), found[k].parent # NoParent
      PROVE  \E j \in 1 .. Len(found) : found[j].name = found[k].parent /\ found[j].type = "class"
  <2>1. PICK i \in 1 .. n : \E j \in 1 .. Len(lists[i]) : found[k] = lists[i][j]
    BY <1>5 DEF Gathers
  <2>2. ParentsPresent(lists[i])
    BY <1>2, <1>4
  <2>3. PICK j \in 1 .. Len(lists[i]) :
          lists[i][j].name = found[k].parent /\ lists[i][j].type = "class"
    BY <1>6, <2>1, <2>2 DEF ParentsPresent
  <2>4. PICK l \in 1 .. Len(found) : found[l] = lists[i][j]
    BY <1>5 DEF Gathers
  <2> QED BY <2>3, <2>4
<1> QED BY <1>5, <1>6 DEF ParentsPresent, found

LEMMA ParseHolds ==
  ASSUME NEW doc \in Documents
  PROVE  /\ Parse(doc) \in Seq(Symbols)
         /\ ParentsPresent(Parse(doc))
<1>1. CASE FallbackUsed(doc)
  BY <1>1, BlocksAreSymbols DEF Parse, Documents
<1>2. CASE ~FallbackUsed(doc) /\ doc.lang = "python"
  BY <1>2, PythonSymbolsHold DEF Parse, Documents
<1>3. CASE ~FallbackUsed(doc) /\ doc.lang # "python"
  BY <1>3 DEF Parse, ParentsPresent
<1> QED BY <1>1, <1>2, <1>3

----------------------------------------------------------------------------
(* A slice of a text.                                                      *)
LEMMA SliceHolds ==
  ASSUME NEW s \in Seq(Nat), NEW a \in Nat \ {0}, NEW b \in Nat, a <= b, b <= Len(s)
  PROVE  /\ SubSeq(s, a, b) \in Seq(Nat)
         /\ Len(SubSeq(s, a, b)) = b - a + 1
         /\ \A j \in 1 .. Len(SubSeq(s, a, b)) : SubSeq(s, a, b)[j] = s[a + j - 1]
OBVIOUS

(* The source of a symbol has its lines, at their distance from the first. *)
LEMMA SourceHolds ==
  ASSUME NEW text \in Seq(Nat), NEW symbol, symbol.first \in Nat \ {0}, symbol.last \in Nat
  PROVE  /\ SourceOf(text, symbol) \in Texts
         /\ \A i \in 1 .. Len(text) :
              text[i] # 0 /\ symbol.first <= i /\ i <= symbol.last =>
                /\ Origin(text, symbol) = symbol.first
                /\ i - symbol.first + 1 \in 1 .. Len(SourceOf(text, symbol))
                /\ SourceOf(text, symbol)[i - symbol.first + 1] = text[i]
<1> DEFINE n == Len(text)
           first == symbol.first
           last == Lesser(symbol.last, n)
           slice == Slice(text, first, symbol.last)
<1>1. n \in Nat /\ first \in Nat \ {0} /\ last \in Nat /\ last <= n /\ last <= symbol.last
  BY DEF Lesser
<1>2. slice = SubSeq(text, first, last)
  BY DEF Slice
<1>3. /\ slice \in Seq(Nat)
      /\ Len(slice) = IF first <= last THEN last - first + 1 ELSE 0
      /\ \A k \in 1 .. Len(slice) : slice[k] = text[first + k - 1]
  <2> HIDE DEF slice, last
  <2>1. CASE first <= last
    <3>1. text \in Seq(Nat) /\ last <= Len(text)
      BY <1>1
    <3> HIDE DEF n, first
    <3> QED BY <1>1, <1>2, <2>1, <3>1, SliceHolds
  <2>2. CASE last < first
    BY <1>1, <1>2, <2>2
  <2> QED BY <1>1, <2>1, <2>2
<1>4. ASSUME NEW i \in 1 .. n, text[i] # 0, first <= i, i <= symbol.last
      PROVE  i - first + 1 \in 1 .. Len(slice) /\ slice[i - first + 1] = text[i]
  <2>1. i <= last
    BY <1>1, <1>4 DEF Lesser
  <2> HIDE DEF slice, first, last
  <2>2. i \in Nat /\ first <= i
    BY <1>4
  <2>3. i - first + 1 \in 1 .. Len(slice)
    BY <1>1, <1>3, <2>1, <2>2
  <2>4. first + (i - first + 1) - 1 = i
    BY <1>1, <2>2
  <2> QED BY <1>3, <2>3, <2>4
<1>5. CASE Blank(slice)
  <2>1. SourceOf(text, symbol) = IF text = <<>> THEN <<0>> ELSE text
    BY <1>5 DEF SourceOf
  <2>2. SourceOf(text, symbol) \in Texts
    BY <2>1 DEF Texts
  <2> QED BY <1>4, <1>5, <2>2 DEF Blank
<1>6. CASE ~Blank(slice)
  <2> HIDE DEF slice
  <2>1. SourceOf(text, symbol) = Rejoined(slice) /\ Origin(text, symbol) = first
    BY <1>6 DEF SourceOf, Origin, slice
  <2>2. slice # <<>> /\ Len(slice) \in Nat \ {0}
    BY <1>3, <1>6 DEF Blank
  <2>3. CASE Len(slice) > 1 /\ slice[Len(slice)] = 0
    <3>1. Rejoined(slice) = SubSeq(slice, 1, Len(slice) - 1)
      BY <2>3 DEF Rejoined
    <3>2. /\ Rejoined(slice) \in Seq(Nat)
          /\ Len(Rejoined(slice)) = Len(slice) - 1
          /\ \A k \in 1 .. Len(slice) - 1 : Rejoined(slice)[k] = slice[k]
      BY <1>3, <2>2, <2>3, <3>1
    <3>3. Rejoined(slice) \in Texts
      BY <2>3, <2>2, <3>2 DEF Texts
    <3>4. ASSUME NEW k \in 1 .. Len(slice), slice[k] # 0
          PROVE  k \in 1 .. Len(Rejoined(slice)) /\ Rejoined(slice)[k] = slice[k]
      BY <2>2, <2>3, <3>2, <3>4
    <3> QED BY <1>4, <2>1, <3>3, <3>4
  <2>4. CASE ~(Len(slice) > 1 /\ slice[Len(slice)] = 0)
    <3>1. Rejoined(slice) = slice
      BY <2>4 DEF Rejoined
    <3> QED BY <1>3, <1>4, <2>1, <2>2, <3>1 DEF Texts
  <2> QED BY <2>3, <2>4
<1> QED BY <1>5, <1>6

----------------------------------------------------------------------------
(* Chunking: the chunks hold the lines of every file and every symbol that *)
(* the loops have passed.                                                  *)
Files == [path : Nat, doc : Documents]
Rows == [path : Nat, symbol : Symbols]
Drafts == [id : Nat \X Seq(Nat) \X Nat \X Nat \X Nat, path : Nat, symbol : Seq(Names), origin : Nat]

LineHeld(ds, file, i) == \E d \in 1 .. Len(ds) : Holds(ds[d], file.path, file.doc.text, i)

SymbolHeld(ds, file, symbol) ==
  \A i \in 1 .. Len(file.doc.text) :
    file.doc.text[i] # 0 /\ symbol.first <= i /\ i <= symbol.last => LineHeld(ds, file, i)

FileHeld(ds, file) ==
  LET text == file.doc.text
      found == Parse(file.doc)
  IN  \A i \in 1 .. Len(text) :
        /\ text[i] # 0
        /\ \/ found = <<>> \/ FallbackUsed(file.doc)
           \/ \E k \in 1 .. Len(found) : found[k].first <= i /\ i <= found[k].last
        => LineHeld(ds, file, i)

\* Row j is the class, in the same file, that row i names as its parent.
IsClassOf(rows, i, j) ==
  /\ rows[j].symbol.name = rows[i].symbol.parent
  /\ rows[j].symbol.type = "class"
  /\ rows[j].path = rows[i].path

ParentsInRows(rows) ==
  \A i \in 1 .. Len(rows) :
    \/ rows[i].symbol.parent = NoParent
    \/ \E j \in 1 .. Len(rows) : IsClassOf(rows, i, j)

ChunkTypeOK ==
  /\ corpus \in Seq(Files) /\ at \in Nat \ {0} /\ next \in Nat \ {0}
  /\ symbols \in Seq(Rows) /\ drafts \in Seq(Drafts) /\ cutting \in BOOLEAN

Splitting ==
  cutting \/ parts # <<>> =>
    /\ SplitInv
    /\ at <= Len(corpus) /\ next <= Len(FileSymbols)
    /\ source = SourceOf(Current.doc.text, FileSymbols[next])

FilesHeld == \A f \in 1 .. Len(corpus) : f < at => FileHeld(drafts, corpus[f])

SymbolsHeld ==
  at <= Len(corpus) =>
    \A k \in 1 .. Len(FileSymbols) : k < next => SymbolHeld(drafts, Current, FileSymbols[k])

ChunkInv ==
  /\ ChunkTypeOK
  /\ Splitting
  /\ FilesHeld
  /\ SymbolsHeld
  /\ ParentsInRows(symbols)

LEMMA LinesStayHeld ==
  ASSUME NEW ds \in Seq(Drafts), NEW es \in Seq(Drafts), NEW file, NEW i,
         LineHeld(ds, file, i) \/ LineHeld(es, file, i)
  PROVE  LineHeld(ds \o es, file, i)
<1> DEFINE both == ds \o es
<1>1. /\ Len(ds) \in Nat /\ Len(es) \in Nat
      /\ Len(both) = Len(ds) + Len(es)
      /\ \A d \in 1 .. Len(ds) : both[d] = ds[d]
      /\ \A d \in 1 .. Len(es) : both[Len(ds) + d] = es[d]
  OBVIOUS
<1> HIDE DEF both
<1>2. CASE LineHeld(ds, file, i)
  <2>1. PICK d \in 1 .. Len(ds) : Holds(ds[d], file.path, file.doc.text, i)
    BY <1>2 DEF LineHeld
  <2>2. d \in 1 .. Len(both) /\ both[d] = ds[d]
    BY <1>1
  <2> QED BY <2>1, <2>2 DEF LineHeld, both
<1>3. CASE LineHeld(es, file, i)
  <2>1. PICK d \in 1 .. Len(es) : Holds(es[d], file.path, file.doc.text, i)
    BY <1>3 DEF LineHeld
  <2>2. Len(ds) + d \in 1 .. Len(both) /\ both[Len(ds) + d] = es[d]
    BY <1>1
  <2> QED BY <2>1, <2>2 DEF LineHeld, both
<1> QED BY <1>2, <1>3

LEMMA HeldStaysHeld ==
  ASSUME NEW ds \in Seq(Drafts), NEW es \in Seq(Drafts), NEW file
  PROVE  /\ \A symbol : SymbolHeld(ds, file, symbol) \/ SymbolHeld(es, file, symbol)
                         => SymbolHeld(ds \o es, file, symbol)
         /\ FileHeld(ds, file) \/ FileHeld(es, file) => FileHeld(ds \o es, file)
<1>1. \A i : LineHeld(ds, file, i) \/ LineHeld(es, file, i) => LineHeld(ds \o es, file, i)
  BY LinesStayHeld
<1> QED BY <1>1 DEF SymbolHeld, FileHeld

\* The blocks of a file that is not parsed are all of it.
LEMMA SymbolsHoldFile ==
  ASSUME NEW file \in Files, NEW ds, Parse(file.doc) # <<>>,
         \A k \in 1 .. Len(Parse(file.doc)) : SymbolHeld(ds, file, Parse(file.doc)[k])
  PROVE  FileHeld(ds, file)
<1> DEFINE text == file.doc.text
           found == Parse(file.doc)
<1>1. SUFFICES ASSUME NEW i \in 1 .. Len(text), text[i] # 0,
                      \/ FallbackUsed(file.doc)
                      \/ \E k \in 1 .. Len(found) : found[k].first <= i /\ i <= found[k].last
               PROVE  LineHeld(ds, file, i)
  BY DEF FileHeld
<1>2. \E k \in 1 .. Len(found) : found[k].first <= i /\ i <= found[k].last
  <2>1. CASE FallbackUsed(file.doc)
    <3>1. text \in Seq(Nat) /\ found = FallbackSymbols(text)
      BY <2>1 DEF Files, Documents, Parse
    <3> HIDE DEF text, found
    <3> QED BY <3>1, BlocksAreSymbols
  <2> QED BY <1>1, <2>1
<1> QED BY <1>1, <1>2 DEF SymbolHeld

LEMMA WholeFileHolds ==
  ASSUME NEW file \in Files, NEW draft, draft.id[2] = file.doc.text, draft.id[3] = 1,
         draft.path = file.path, draft.origin = 1
  PROVE  FileHeld(<<draft>>, file)
<1> SUFFICES ASSUME NEW i \in 1 .. Len(file.doc.text)
             PROVE  LineHeld(<<draft>>, file, i)
  BY DEF FileHeld
<1>1. i - (1 + 1 - 1) + 1 = i
  OBVIOUS
<1>2. Holds(draft, file.path, file.doc.text, i)
  BY <1>1 DEF Holds
<1>3. Len(<<draft>>) = 1 /\ <<draft>>[1] = draft
  OBVIOUS
<1> QED BY <1>2, <1>3 DEF LineHeld

LEMMA ConcatHolds ==
  ASSUME NEW S, NEW s \in Seq(S), NEW t \in Seq(S)
  PROVE  /\ s \o t \in Seq(S)
         /\ Len(s) \in Nat /\ Len(t) \in Nat /\ Len(s \o t) = Len(s) + Len(t)
         /\ \A i \in 1 .. Len(s) : (s \o t)[i] = s[i]
         /\ \A i \in 1 .. Len(t) : (s \o t)[Len(s) + i] = t[i]
OBVIOUS

LEMMA RowsKeepParents ==
  ASSUME NEW rows \in Seq(Rows), ParentsInRows(rows),
         NEW found \in Seq(Symbols), ParentsPresent(found), NEW path \in Nat
  PROVE  LET more == [i \in 1 .. Len(found) |-> [path |-> path, symbol |-> found[i]]]
         IN  rows \o more \in Seq(Rows) /\ ParentsInRows(rows \o more)
<1> DEFINE more == [i \in 1 .. Len(found) |-> [path |-> path, symbol |-> found[i]]]
           both == rows \o more
<1>1. /\ more \in Seq(Rows) /\ Len(more) = Len(found)
      /\ \A i \in 1 .. Len(found) : more[i].symbol = found[i] /\ more[i].path = path
  <2>1. \A i \in 1 .. Len(found) : [path |-> path, symbol |-> found[i]] \in Rows
    BY DEF Rows
  <2> QED BY <2>1
<1> HIDE DEF more
<1>2. /\ both \in Seq(Rows)
      /\ Len(rows) \in Nat /\ Len(found) \in Nat
      /\ Len(both) = Len(rows) + Len(found)
      /\ \A i \in 1 .. Len(rows) : both[i] = rows[i]
      /\ \A i \in 1 .. Len(found) : both[Len(rows) + i] = more[i]
  <2>1. rows \in Seq(Rows) /\ more \in Seq(Rows) /\ Len(more) = Len(found)
    BY <1>1
  <2> HIDE DEF both
  <2>2. /\ rows \o more \in Seq(Rows)
        /\ Len(rows) \in Nat /\ Len(more) \in Nat /\ Len(rows \o more) = Len(rows) + Len(more)
    BY <2>1, ConcatHolds
  <2>3. /\ \A i \in 1 .. Len(rows) : (rows \o more)[i] = rows[i]
        /\ \A i \in 1 .. Len(more) : (rows \o more)[Len(rows) + i] = more[i]
    BY <2>1, ConcatHolds
  <2> QED BY <2>1, <2>2, <2>3 DEF both
<1> HIDE DEF both
<1>3. ASSUME NEW i \in 1 .. Len(both), both[i].symbol.parent # NoParent
      PROVE  \E j \in 1 .. Len(both) : IsClassOf(both, i, j)
  <2>1. CASE i <= Len(rows)
    <3>1. i \in 1 .. Len(rows) /\ both[i] = rows[i]
      BY <1>2, <2>1
    <3>2. PICK j \in 1 .. Len(rows) : IsClassOf(rows, i, j)
      BY <1>3, <3>1 DEF ParentsInRows
    <3>3. j \in 1 .. Len(both) /\ both[j] = rows[j]
      BY <1>2
    <3> QED BY <3>1, <3>2, <3>3 DEF IsClassOf
  <2>2. CASE i > Len(rows)
    <3> DEFINE k == i - Len(rows)
    <3>1. k \in 1 .. Len(found) /\ Len(rows) + k = i
      BY <1>2, <2>2
    <3>2. both[i].symbol = found[k] /\ both[i].path = path
      <4>1. both[Len(rows) + k] = more[k] /\ more[k].symbol = found[k] /\ more[k].path = path
        BY <1>1, <1>2, <3>1
      <4> HIDE DEF k
      <4> QED BY <3>1, <4>1
    <3>3. PICK j \in 1 .. Len(found) : found[j].name = found[k].parent /\ found[j].type = "class"
      BY <1>3, <3>1, <3>2 DEF ParentsPresent
    <3>4. /\ Len(rows) + j \in 1 .. Len(both)
          /\ both[Len(rows) + j].symbol = found[j] /\ both[Len(rows) + j].path = path
      <4>1. both[Len(rows) + j] = more[j] /\ more[j].symbol = found[j] /\ more[j].path = path
        BY <1>1, <1>2
      <4>2. Len(rows) + j \in 1 .. Len(both)
        BY <1>2
      <4> QED BY <4>1, <4>2
    <3> QED BY <3>2, <3>3, <3>4 DEF IsClassOf
  <2> QED BY <1>2, <2>1, <2>2
<1> QED BY <1>2, <1>3 DEF ParentsInRows, both, more

LEMMA CurrentIsTyped ==
  ASSUME ChunkTypeOK, at <= Len(corpus)
  PROVE  /\ Current \in Files
         /\ FileSymbols \in Seq(Symbols) /\ ParentsPresent(FileSymbols)
<1>1. at \in 1 .. Len(corpus)
  BY DEF ChunkTypeOK
<1>2. Current \in Files
  BY <1>1 DEF ChunkTypeOK, Current
<1> QED BY <1>2, ParseHolds DEF FileSymbols, Files

\* Five values of the right kinds make an identifier of a chunk.
LEMMA IdIsTyped ==
  ASSUME NEW path \in Nat, NEW content \in Seq(Nat), NEW a \in Nat, NEW b \in Nat,
         NEW k \in Nat
  PROVE  <<path, content, a, b, k>> \in Nat \X Seq(Nat) \X Nat \X Nat \X Nat
OBVIOUS

\* A line of the source at its distance from the symbol's first line is at its
\* place in the chunk of the part that covers it.
LEMMA PartsHoldSymbol ==
  ASSUME ChunkInv, ~cutting, parts # <<>>
  PROVE  LET ds == PartDrafts(FileSymbols[next])
         IN  ds \in Seq(Drafts) /\ SymbolHeld(ds, Current, FileSymbols[next])
<1> DEFINE symbol == FileSymbols[next]
           text == Current.doc.text
           origin == Origin(text, symbol)
           slice(k) == SubSeq(source, parts[k].first, parts[k].last)
           draft(k) == Draft(Current.path, symbol.name, origin, slice(k),
                             parts[k].first, parts[k].last, k)
           n == Len(parts)
           ds == PartDrafts(symbol)
<1>1. /\ SplitInv /\ at <= Len(corpus) /\ next <= Len(FileSymbols) /\ ChunkTypeOK
      /\ source = SourceOf(text, symbol)
  BY DEF ChunkInv, Splitting
<1>2. /\ Current \in Files /\ FileSymbols \in Seq(Symbols)
      /\ symbol \in Symbols
  <2>1. next \in 1 .. Len(FileSymbols)
    BY <1>1 DEF ChunkTypeOK
  <2> QED BY <1>1, <2>1, CurrentIsTyped
<1>3. /\ text \in Seq(Nat) /\ Current.path \in Nat
      /\ symbol.first \in Nat \ {0} /\ symbol.last \in Nat /\ symbol.name \in Seq(Names)
  BY <1>2 DEF Files, Documents, Symbols
<1> HIDE DEF symbol, text
<1>4. origin \in Nat
  BY <1>3 DEF Origin
<1>5. /\ source \in Seq(Nat) /\ parts \in Seq(Part) /\ n \in Nat
  BY <1>1 DEF SplitInv, SplitTypeOK, Texts
<1>6. ASSUME NEW k \in 1 .. n
      PROVE  /\ parts[k].first \in Nat \ {0} /\ parts[k].last \in Nat
             /\ parts[k].first <= parts[k].last /\ parts[k].last <= Len(source)
             /\ slice(k) \in Seq(Nat)
             /\ Len(slice(k)) = parts[k].last - parts[k].first + 1
             /\ \A j \in 1 .. Len(slice(k)) : slice(k)[j] = source[parts[k].first + j - 1]
  <2> DEFINE a == parts[k].first
             b == parts[k].last
  <2>1. a \in Nat \ {0} /\ b \in Nat
    <3>1. parts[k] \in Part
      BY <1>5
    <3> QED BY <3>1 DEF Part
  <2>2. a <= b /\ b <= Len(source)
    BY <1>1 DEF SplitInv, PartsInBounds
  <2> HIDE DEF a, b
  <2>3. /\ SubSeq(source, a, b) \in Seq(Nat)
        /\ Len(SubSeq(source, a, b)) = b - a + 1
        /\ \A j \in 1 .. Len(SubSeq(source, a, b)) : SubSeq(source, a, b)[j] = source[a + j - 1]
    <3> HIDE DEF slice, draft, n, ds
    <3> QED BY <1>5, <2>1, <2>2, SliceHolds
  <2> QED BY <2>1, <2>2, <2>3 DEF a, b
<1>7. ASSUME NEW k \in 1 .. n PROVE draft(k) \in Drafts
  <2> HIDE DEF slice, origin
  <2>1. <<Current.path, slice(k), parts[k].first, parts[k].last, k>>
          \in Nat \X Seq(Nat) \X Nat \X Nat \X Nat
    <3>1. Current.path \in Nat
      BY <1>3
    <3>2. slice(k) \in Seq(Nat) /\ parts[k].first \in Nat /\ parts[k].last \in Nat
      BY <1>6
    <3>3. k \in Nat
      BY <1>5
    <3> HIDE DEF draft, ds, n
    <3> QED BY <3>1, <3>2, <3>3, IdIsTyped, Zenon
  <2> QED BY <1>3, <1>4, <2>1 DEF Drafts, Draft, ChunkId
<1>8. ds = [k \in 1 .. n |-> draft(k)]
  BY DEF PartDrafts, symbol, text
<1>9. ds \in Seq(Drafts) /\ Len(ds) = n /\ \A k \in 1 .. n : ds[k] = draft(k)
  <2> HIDE DEF draft, ds
  <2> QED BY <1>5, <1>7, <1>8
<1> HIDE DEF ds
<1>10. ASSUME NEW i \in 1 .. Len(text), text[i] # 0, symbol.first <= i, i <= symbol.last
       PROVE  LineHeld(ds, Current, i)
  <2> DEFINE p == i - symbol.first + 1
  <2>1. origin = symbol.first /\ p \in 1 .. Len(source) /\ source[p] = text[i]
    BY <1>1, <1>3, <1>10, SourceHolds
  <2>2. PICK k \in 1 .. n : parts[k].first <= p /\ p <= parts[k].last
    BY <1>1, <2>1 DEF SplitInv, Covered
  <2> DEFINE first == parts[k].first
             last == parts[k].last
             place == i - (origin + first - 1) + 1
  <2>3. /\ ds[k] = draft(k)
        /\ ds[k].path = Current.path /\ ds[k].origin = origin
        /\ ds[k].id[2] = slice(k) /\ ds[k].id[3] = first
    BY <1>9 DEF Draft, ChunkId
  <2>4. /\ first \in Nat \ {0} /\ last \in Nat /\ first <= p /\ p <= last
        /\ Len(slice(k)) = last - first + 1
        /\ \A j \in 1 .. Len(slice(k)) : slice(k)[j] = source[first + j - 1]
    BY <1>6, <2>2
  <2> HIDE DEF draft, slice, first, last, origin
  <2>5. /\ place \in 1 .. Len(slice(k)) /\ first + place - 1 = p
    <3>1. i \in Nat /\ origin \in Nat /\ symbol.first \in Nat
      BY <1>3, <1>4
    <3>2. p = i - symbol.first + 1 /\ place = i - (symbol.first + first - 1) + 1
      BY <2>1
    <3> HIDE DEF p, place
    <3>3. first \in Nat /\ last \in Nat /\ first <= p /\ p <= last
      BY <2>4
    <3>4. PICK s \in Nat, f \in Nat, l \in Nat : s = symbol.first /\ f = first /\ l = last
      BY <3>1, <3>3
    <3>5. place \in 1 .. l - f + 1 /\ f + place - 1 = p
      <4>1. p = i - s + 1 /\ place = i - (s + f - 1) + 1 /\ f <= p /\ p <= l
        BY <3>2, <3>3, <3>4
      <4>2. place = p - f + 1 /\ p \in Int
        BY <3>1, <4>1
      <4> QED BY <4>1, <4>2
    <3> QED BY <2>4, <3>4, <3>5
  <2> HIDE DEF p
  <2>6. slice(k)[place] = text[i]
    BY <2>1, <2>4, <2>5
  <2>7. Holds(ds[k], Current.path, text, i)
    BY <2>3, <2>5, <2>6 DEF Holds
  <2> QED BY <1>9, <2>7 DEF LineHeld, text
<1> QED BY <1>9, <1>10 DEF SymbolHeld, ds, symbol, text

LEMMA ChunkInitHasInv == ChunkInit => ChunkInv
<1> SUFFICES ASSUME ChunkInit PROVE ChunkInv
  OBVIOUS
<1>1. ChunkTypeOK
  <2>1. <<>> \in Seq(Rows) /\ <<>> \in Seq(Drafts)
    OBVIOUS
  <2>2. corpus \in Seq(Files)
    BY DEF ChunkInit, Files
  <2>3. at = 1 /\ symbols = <<>> /\ next = 1 /\ drafts = <<>> /\ cutting = FALSE
    BY DEF ChunkInit
  <2>4. at \in Nat \ {0} /\ next \in Nat \ {0}
    BY <2>3
  <2>5. symbols \in Seq(Rows) /\ drafts \in Seq(Drafts)
    BY <2>1, <2>3
  <2>6. cutting \in BOOLEAN
    BY <2>3
  <2> QED BY <2>2, <2>4, <2>5, <2>6 DEF ChunkTypeOK
<1>2. Splitting /\ FilesHeld
  BY <1>1 DEF ChunkInit, Splitting, FilesHeld, ChunkTypeOK
<1>3. SymbolsHeld
  <2>1. at <= Len(corpus) => Len(FileSymbols) \in Nat
    BY <1>1, CurrentIsTyped
  <2> QED BY <2>1 DEF ChunkInit, SymbolsHeld
<1>4. ParentsInRows(symbols)
  BY DEF ChunkInit, ParentsInRows
<1> QED BY <1>1, <1>2, <1>3, <1>4 DEF ChunkInv

LEMMA TakeSymbolKeeps == ChunkInv /\ TakeSymbol => ChunkInv'
<1> SUFFICES ASSUME ChunkInv, TakeSymbol PROVE ChunkInv'
  OBVIOUS
<1>1. /\ at <= Len(corpus) /\ next <= Len(FileSymbols) /\ ChunkTypeOK
      /\ BeginSplit(SourceOf(Current.doc.text, FileSymbols[next]))
      /\ UNCHANGED <<corpus, at, symbols, next, drafts>>
  BY DEF TakeSymbol, chunkVars, ChunkInv
<1>2. Current' = Current /\ FileSymbols' = FileSymbols
  BY <1>1 DEF Current, FileSymbols
<1>3. ChunkTypeOK'
  BY <1>1 DEF ChunkTypeOK, BeginSplit
<1>4. SourceOf(Current.doc.text, FileSymbols[next]) \in Texts
  <2>1. next \in 1 .. Len(FileSymbols)
    BY <1>1 DEF ChunkTypeOK
  <2>2. Current \in Files /\ FileSymbols[next] \in Symbols
    BY <1>1, <2>1, CurrentIsTyped
  <2>3. /\ Current.doc.text \in Seq(Nat)
        /\ FileSymbols[next].first \in Nat \ {0} /\ FileSymbols[next].last \in Nat
    BY <2>2 DEF Files, Documents, Symbols
  <2> QED BY <2>3, SourceHolds
<1>5. SplitInv'
  <2>1. source' \in Texts /\ start' = 0 /\ parts' = <<>> /\ cutting' = TRUE
    BY <1>1, <1>4 DEF BeginSplit
  <2> QED BY <2>1 DEF SplitInv, SplitTypeOK, Texts, Covered, PartsInBounds, PartsAdvance
<1>6. Splitting'
  BY <1>1, <1>2, <1>5 DEF Splitting, BeginSplit
<1>7. FilesHeld' /\ SymbolsHeld' /\ ParentsInRows(symbols)'
  BY <1>1, <1>2 DEF ChunkInv, FilesHeld, SymbolsHeld
<1> QED BY <1>3, <1>6, <1>7 DEF ChunkInv

LEMMA CutKeeps == ChunkInv /\ Cut => ChunkInv'
<1> SUFFICES ASSUME ChunkInv, Cut PROVE ChunkInv'
  OBVIOUS
<1>1. /\ CutPart /\ cutting /\ UNCHANGED <<corpus, at, symbols, next, drafts>>
      /\ source' = source /\ ChunkTypeOK
  BY DEF Cut, CutPart, chunkVars, ChunkInv
<1>2. Current' = Current /\ FileSymbols' = FileSymbols
  BY <1>1 DEF Current, FileSymbols
<1>3. /\ SplitInv /\ at <= Len(corpus) /\ next <= Len(FileSymbols)
      /\ source = SourceOf(Current.doc.text, FileSymbols[next])
  BY <1>1 DEF ChunkInv, Splitting
<1>4. SplitInv'
  BY <1>1, <1>3, StepSplit
<1>5. ChunkTypeOK'
  BY <1>1, <1>4 DEF ChunkTypeOK, SplitInv, SplitTypeOK
<1>6. Splitting'
  BY <1>1, <1>2, <1>3, <1>4 DEF Splitting
<1>7. FilesHeld' /\ SymbolsHeld' /\ ParentsInRows(symbols)'
  BY <1>1, <1>2 DEF ChunkInv, FilesHeld, SymbolsHeld
<1> QED BY <1>5, <1>6, <1>7 DEF ChunkInv

\* The chunks so far and those of es hold the file that ends.
LEMMA EndFileKeeps ==
  ASSUME ChunkInv, at <= Len(corpus), EndFile, NEW es \in Seq(Drafts), drafts' = drafts \o es,
         FileHeld(drafts \o es, Current), cutting' = FALSE, parts' = <<>>
  PROVE  ChunkInv'
<1>1. /\ ChunkTypeOK
      /\ at' = at + 1 /\ next' = 1 /\ corpus' = corpus
      /\ symbols' = symbols \o [i \in 1 .. Len(FileSymbols) |->
                                   [path |-> Current.path, symbol |-> FileSymbols[i]]]
  BY DEF EndFile, ChunkInv
<1>2. Current \in Files /\ FileSymbols \in Seq(Symbols) /\ ParentsPresent(FileSymbols)
  BY <1>1, CurrentIsTyped
<1>3. Current.path \in Nat /\ symbols \in Seq(Rows) /\ drafts \in Seq(Drafts)
  BY <1>1, <1>2 DEF Files, ChunkTypeOK
<1>4. symbols' \in Seq(Rows) /\ ParentsInRows(symbols')
  BY <1>1, <1>2, <1>3, RowsKeepParents DEF ChunkInv
<1>5. drafts' \in Seq(Drafts)
  BY <1>3
<1>6. ChunkTypeOK'
  <2>1. at' \in Nat \ {0} /\ next' \in Nat \ {0} /\ cutting' \in BOOLEAN
    <3>1. at + 1 \in Nat \ {0} /\ 1 \in Nat \ {0} /\ FALSE \in BOOLEAN
      BY <1>1 DEF ChunkTypeOK
    <3> QED BY <1>1, <3>1
  <2> QED BY <1>1, <1>4, <1>5, <2>1 DEF ChunkTypeOK
<1>7. Splitting'
  BY DEF Splitting
<1>8. FilesHeld'
  <2> SUFFICES ASSUME NEW f \in 1 .. Len(corpus), f < at + 1
               PROVE  FileHeld(drafts \o es, corpus[f])
    BY <1>1 DEF FilesHeld
  <2>1. CASE f = at
    BY <2>1 DEF Current
  <2>2. CASE f < at
    <3>1. FileHeld(drafts, corpus[f])
      BY <2>2 DEF ChunkInv, FilesHeld
    <3> QED BY <1>3, <3>1, HeldStaysHeld
  <2> QED BY <1>1, <2>1, <2>2 DEF ChunkTypeOK
<1>9. SymbolsHeld'
  <2> SUFFICES ASSUME at' <= Len(corpus'), NEW k \in 1 .. Len(FileSymbols'), k < 1
               PROVE  FALSE
    BY <1>1 DEF SymbolsHeld
  <2> QED OBVIOUS
<1> QED BY <1>4, <1>6, <1>7, <1>8, <1>9 DEF ChunkInv

LEMMA KeepPartsKeeps == ChunkInv /\ KeepParts => ChunkInv'
<1> SUFFICES ASSUME ChunkInv, KeepParts PROVE ChunkInv'
  OBVIOUS
<1> DEFINE es == PartDrafts(FileSymbols[next])
           both == drafts \o es
<1>1. /\ ~cutting /\ parts # <<>> /\ ChunkTypeOK /\ cutting' = FALSE /\ parts' = <<>>
      /\ drafts' = both /\ drafts \in Seq(Drafts)
      /\ at <= Len(corpus) /\ next <= Len(FileSymbols) /\ next \in Nat \ {0}
  BY DEF KeepParts, ChunkInv, ChunkTypeOK, Splitting
<1>2. es \in Seq(Drafts) /\ SymbolHeld(es, Current, FileSymbols[next])
  BY <1>1, PartsHoldSymbol
<1>3. Current \in Files /\ FileSymbols \in Seq(Symbols) /\ Len(FileSymbols) \in Nat
  BY <1>1, CurrentIsTyped
<1> HIDE DEF es
<1>4. ASSUME NEW k \in 1 .. Len(FileSymbols), k <= next
      PROVE  SymbolHeld(both, Current, FileSymbols[k])
  <2>1. SymbolHeld(drafts, Current, FileSymbols[k]) \/ SymbolHeld(es, Current, FileSymbols[k])
    BY <1>1, <1>2, <1>4 DEF ChunkInv, SymbolsHeld
  <2> QED BY <1>1, <1>2, <2>1, HeldStaysHeld
<1>5. CASE next < Len(FileSymbols)
  <2>1. next' = next + 1 /\ UNCHANGED <<corpus, at, symbols>>
    BY <1>5 DEF KeepParts
  <2>2. Current' = Current /\ FileSymbols' = FileSymbols
    BY <2>1 DEF Current, FileSymbols
  <2>3. ChunkTypeOK'
    <3>1. drafts' \in Seq(Drafts)
      BY <1>1, <1>2
    <3>2. next' \in Nat \ {0} /\ cutting' \in BOOLEAN
      <4>1. next + 1 \in Nat \ {0} /\ FALSE \in BOOLEAN
        BY <1>1
      <4> QED BY <1>1, <2>1, <4>1
    <3> QED BY <1>1, <2>1, <3>1, <3>2 DEF ChunkTypeOK
  <2>4. Splitting'
    BY <1>1 DEF Splitting
  <2>5. FilesHeld'
    <3> SUFFICES ASSUME NEW f \in 1 .. Len(corpus), f < at
                 PROVE  FileHeld(both, corpus[f])
      BY <1>1, <2>1 DEF FilesHeld
    <3>1. FileHeld(drafts, corpus[f])
      BY DEF ChunkInv, FilesHeld
    <3> QED BY <1>1, <1>2, <3>1, HeldStaysHeld
  <2>6. SymbolsHeld'
    <3> SUFFICES ASSUME NEW k \in 1 .. Len(FileSymbols), k < next + 1
                 PROVE  SymbolHeld(both, Current, FileSymbols[k])
      BY <1>1, <2>1, <2>2 DEF SymbolsHeld
    <3>1. k <= next
      BY <1>1
    <3> QED BY <1>4, <3>1
  <2>7. ParentsInRows(symbols)'
    BY <2>1 DEF ChunkInv
  <2> QED BY <2>3, <2>4, <2>5, <2>6, <2>7 DEF ChunkInv
<1>6. CASE ~(next < Len(FileSymbols))
  <2>1. EndFile
    BY <1>6 DEF KeepParts
  <2>2. FileSymbols # <<>> /\ \A k \in 1 .. Len(FileSymbols) : k <= next
    BY <1>1, <1>3, <1>6
  <2>3. FileHeld(both, Current)
    BY <1>3, <1>4, <2>2, SymbolsHoldFile DEF FileSymbols
  <2> QED BY <1>1, <1>2, <2>1, <2>3, EndFileKeeps
<1> QED BY <1>5, <1>6

LEMMA TakeWholeFileKeeps == ChunkInv /\ TakeWholeFile => ChunkInv'
<1> SUFFICES ASSUME ChunkInv, TakeWholeFile PROVE ChunkInv'
  OBVIOUS
<1> DEFINE draft == WholeFileDraft
<1>1. /\ at <= Len(corpus) /\ FileSymbols = <<>> /\ EndFile /\ ChunkTypeOK
      /\ drafts' = Append(drafts, draft) /\ drafts \in Seq(Drafts)
      /\ cutting' = cutting /\ parts' = parts
  BY DEF TakeWholeFile, ChunkInv, ChunkTypeOK, splitVars
<1>2. Current \in Files
  BY <1>1, CurrentIsTyped
<1>3. ~cutting /\ parts = <<>>
  <2>1. ~(next <= Len(FileSymbols))
    BY <1>1 DEF ChunkTypeOK
  <2> QED BY <2>1 DEF ChunkInv, Splitting
<1>4. draft \in Drafts
  <2>1. Current.path \in Nat /\ Current.doc.text \in Seq(Nat) /\ NoParent \in Seq(Names)
    BY <1>2 DEF Files, Documents, NoParent
  <2> QED BY <2>1 DEF WholeFileDraft, Drafts, ChunkId
<1>5. FileHeld(<<draft>>, Current)
  <2>1. /\ draft.id[2] = Current.doc.text /\ draft.id[3] = 1
        /\ draft.path = Current.path /\ draft.origin = 1
    BY DEF WholeFileDraft, ChunkId
  <2> HIDE DEF draft
  <2> QED BY <1>2, <2>1, WholeFileHolds
<1> HIDE DEF draft
<1>6. <<draft>> \in Seq(Drafts) /\ drafts' = drafts \o <<draft>>
  BY <1>1, <1>4
<1>7. FileHeld(drafts \o <<draft>>, Current)
  BY <1>1, <1>5, <1>6, HeldStaysHeld
<1>8. cutting' = FALSE /\ parts' = <<>>
  BY <1>1, <1>3 DEF ChunkTypeOK
<1> QED BY <1>1, <1>6, <1>7, <1>8, EndFileKeeps

LEMMA ChunkStepKeepsInv == ChunkInv /\ [ChunkNext]_<<chunkVars, splitVars>> => ChunkInv'
<1> SUFFICES ASSUME ChunkInv, [ChunkNext]_<<chunkVars, splitVars>> PROVE ChunkInv'
  OBVIOUS
<1>1. CASE UNCHANGED <<chunkVars, splitVars>>
  <2>1. UNCHANGED <<corpus, at, symbols, next, drafts, source, start, parts, cutting>>
    BY <1>1 DEF chunkVars, splitVars
  <2>2. Current' = Current /\ FileSymbols' = FileSymbols
    BY <2>1 DEF Current, FileSymbols
  <2>3. SplitInv => SplitInv'
    BY <2>1, StutterSplit DEF splitVars
  <2>4. ChunkTypeOK' /\ Splitting'
    BY <2>1, <2>2, <2>3 DEF ChunkInv, ChunkTypeOK, Splitting
  <2>5. FilesHeld' /\ SymbolsHeld' /\ ParentsInRows(symbols)'
    BY <2>1, <2>2 DEF ChunkInv, FilesHeld, SymbolsHeld
  <2> QED BY <2>4, <2>5 DEF ChunkInv
<1> QED BY <1>1, TakeSymbolKeeps, CutKeeps, KeepPartsKeeps, TakeWholeFileKeeps DEF ChunkNext

\* What the chunks hold, after every step of the loops over files, symbols and
\* parts.
THEOREM ChunkInvariance == ChunkSpec => []ChunkInv
  BY ChunkInitHasInv, ChunkStepKeepsInv, PTL DEF ChunkSpec

LEMMA InvKeepsText == ChunkInv => NoTextLost
<1> SUFFICES ASSUME ChunkInv, Chunked, NEW f \in 1 .. Len(corpus)
             PROVE  FileHeld(drafts, corpus[f])
  BY DEF NoTextLost, FileHeld, LineHeld
<1>1. f < at
  BY DEF ChunkInv, ChunkTypeOK, Chunked
<1> QED BY <1>1 DEF ChunkInv, FilesHeld

\* Every nonempty line of a symbol, or of a file without symbols or not parsed,
\* is in a chunk at its place, for all files, block sizes, overlaps and limits.
THEOREM EveryTextIsChunked == ChunkSpec => []NoTextLost
BY InvKeepsText, ChunkInvariance, PTL

LEMMA InvFindsClasses == ChunkInv => MembersFindTheirClass
<1> SUFFICES ASSUME ChunkInv, NEW i \in 1 .. Len(symbols),
                    symbols[i].symbol.parent # NoParent,
                    \A j, k \in {j \in 1 .. Len(symbols) :
                                symbols[j].symbol.name = symbols[i].symbol.parent} : j = k
             PROVE  /\ ParentLink(i) # 0
                    /\ symbols[ParentLink(i)].symbol.type = "class"
                    /\ symbols[ParentLink(i)].path = symbols[i].path
  BY DEF MembersFindTheirClass
<1> DEFINE bearers == {j \in 1 .. Len(symbols) :
                        symbols[j].symbol.name = symbols[i].symbol.parent}
<1>1. Len(symbols) \in Nat
  BY DEF ChunkInv, ChunkTypeOK
<1>2. PICK c \in 1 .. Len(symbols) : IsClassOf(symbols, i, c)
  BY DEF ChunkInv, ParentsInRows
<1>3. c \in bearers /\ \A j, k \in bearers : j = k
  BY <1>2 DEF IsClassOf
<1>4. Max(bearers) \in bearers
  <2>1. bearers \in SUBSET (1 .. Len(symbols)) /\ bearers # {}
    BY <1>3
  <2> HIDE DEF bearers
  <2> QED BY <1>1, <2>1, LastPosition
<1>5. ParentLink(i) = Max(bearers)
  BY <1>3 DEF ParentLink, SelectLastInSeq
<1>6. ParentLink(i) = c
  <2> HIDE DEF bearers
  <2> QED BY <1>3, <1>4, <1>5
<1> QED BY <1>2, <1>6 DEF IsClassOf

\* The class a member names is a symbol of its own file, so where the name is
\* borne once the link by name finds it, for all documents and all limits.
THEOREM ClassesAreFound == ChunkSpec => []MembersFindTheirClass
BY InvFindsClasses, ChunkInvariance, PTL
=============================================================================
