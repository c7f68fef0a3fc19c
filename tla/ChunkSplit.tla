----------------------------- MODULE ChunkSplit -----------------------------
(***************************************************************************)
(* The loop of _split_chunk_text: cutting the source of one symbol into    *)
(* overlapping parts of at most MaxLines lines, a part with too many       *)
(* characters being halved once.                                           *)
(*                                                                         *)
(* A line is represented by its length, so a text is a sequence of natural *)
(* numbers; an empty line is 0, and equal lengths stand for equal lines.   *)
(* Each step is one turn of the loop.                                      *)
(***************************************************************************)
EXTENDS Naturals, Sequences

CONSTANTS
  MaxLines,     \* CODEPILOT_INDEXING_CHUNK_MAX_LINES
  MaxChars,     \* CODEPILOT_INDEXING_CHUNK_MAX_CHARS
  OverlapLines  \* CODEPILOT_INDEXING_CHUNK_OVERLAP_LINES

\* The settings are not validated; the code needs at least one line per part.
ASSUME ChunkLimits ==
  MaxLines \in Nat \ {0} /\ MaxChars \in Nat /\ OverlapLines \in Nat

VARIABLES
  source,   \* the lines being split
  start,    \* lines before the next part
  parts,    \* the parts cut so far: first and last line, counted from 1
  cutting   \* the loop is running

splitVars == <<source, start, parts, cutting>>

Lesser(a, b) == IF a < b THEN a ELSE b
Greater(a, b) == IF a < b THEN b ELSE a

\* Characters of lines first .. last joined by newlines.
Chars(first, last) ==
  LET total[k \in Nat] == IF k < first THEN 0 ELSE total[k - 1] + source[k]
  IN  total[last] + (last - first)

WindowEnd == Lesser(start + MaxLines, Len(source))

PartEnd ==
  IF Chars(start + 1, WindowEnd) > MaxChars /\ WindowEnd - start > 1
    THEN start + Greater(1, (WindowEnd - start) \div 2) ELSE WindowEnd

\* Slip: the next part starts one line after the end of the last one.
SlipNextStartGap(end) == Greater(end - OverlapLines, end + 1)

\* Python's end - overlap_lines may be negative; the maximum is the same.
NextStart(end) ==
  Greater(IF end > OverlapLines THEN end - OverlapLines ELSE 0, start + 1)

BeginSplit(lines) ==
  /\ source' = lines
  /\ start' = 0
  /\ parts' = <<>>
  /\ cutting' = TRUE

CutPart ==
  /\ cutting
  /\ parts' = Append(parts, [first |-> start + 1, last |-> PartEnd])
  /\ cutting' = (PartEnd < Len(source))
  /\ start' = IF PartEnd < Len(source) THEN NextStart(PartEnd) ELSE start
  /\ UNCHANGED source

Texts == {lines \in Seq(Nat) : lines # <<>>}

SplitInit ==
  /\ source \in Texts
  /\ start = 0
  /\ parts = <<>>
  /\ cutting = TRUE

SplitSpec == SplitInit /\ [][CutPart]_splitVars
----------------------------------------------------------------------------
(* Properties.                                                             *)

Part == [first : Nat \ {0}, last : Nat]

SplitTypeOK ==
  /\ source \in Texts
  /\ start \in Nat
  /\ parts \in Seq(Part)
  /\ cutting \in BOOLEAN

\* Whatever the overlap and the size limits, every line of the source is in
\* some part once the loop has ended: no text is silently left unsearchable.
NoLineSkipped ==
  ~cutting =>
    \A i \in 1 .. Len(source) :
      \E k \in 1 .. Len(parts) : parts[k].first <= i /\ i <= parts[k].last

=============================================================================
