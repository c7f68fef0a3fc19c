------------------------------ MODULE Chunking ------------------------------
(***************************************************************************)
(* The part of index_repository that turns the accepted files of a         *)
(* revision into symbols and chunk drafts: ParserRegistry.parse,           *)
(* _materialize_file around the loop of ChunkSplit, and                    *)
(* _apply_symbol_parent_links.  Files are taken one after another.         *)
(***************************************************************************)
EXTENDS ChunkSplit, Parsing

VARIABLES
  corpus,   \* the accepted files of the revision: path and document
  at,       \* the file being indexed
  symbols,  \* the symbol rows of all files so far
  next,     \* the symbol of the current file whose source comes next
  drafts    \* the chunk drafts of all files so far

chunkVars == <<corpus, at, symbols, next, drafts>>

Current == corpus[at]
FileSymbols == Parse(Current.doc)

\* _line_slice
Slice(text, first, last) == SubSeq(text, first, Lesser(last, Len(text)))

Blank(lines) == \A i \in 1 .. Len(lines) : lines[i] = 0

\* splitlines() after "\n".join(lines) loses one empty line at the end.
Rejoined(lines) ==
  IF Len(lines) > 1 /\ lines[Len(lines)] = 0 THEN SubSeq(lines, 1, Len(lines) - 1)
                                             ELSE lines

\* The source of a symbol is its slice, or the whole file if that is blank.
SourceOf(text, symbol) ==
  LET slice == Slice(text, symbol.first, symbol.last)
  IN  IF ~Blank(slice) THEN Rejoined(slice)
      ELSE IF text = <<>> THEN <<0>> ELSE text

\* What the source's first line is in the file.  The code does not keep it:
\* a chunk's start_line and end_line count from the symbol's first line.
Origin(text, symbol) ==
  IF Blank(Slice(text, symbol.first, symbol.last)) THEN 1 ELSE symbol.first

\* uuid5 over revision, path, content hash, part lines and part number.
ChunkId(path, lines, first, last, number) == <<path, lines, first, last, number>>

Draft(path, symbol, origin, lines, first, last, number) ==
  [id |-> ChunkId(path, lines, first, last, number), path |-> path,
   symbol |-> symbol, origin |-> origin]

PartDrafts(symbol) ==
  [k \in 1 .. Len(parts) |->
    Draft(Current.path, symbol.name, Origin(Current.doc.text, symbol),
          SubSeq(source, parts[k].first, parts[k].last), parts[k].first, parts[k].last, k)]

\* A file without symbols is one chunk, whatever its size; its identifier is
\* computed with the line numbers 1 and 1.
WholeFileDraft ==
  [id     |-> ChunkId(Current.path, Current.doc.text, 1, 1, 1),
   path   |-> Current.path, symbol |-> NoParent, origin |-> 1]

EndFile ==
  /\ at' = at + 1
  /\ symbols' = symbols \o [i \in 1 .. Len(FileSymbols) |->
                              [path |-> Current.path, symbol |-> FileSymbols[i]]]
  /\ next' = 1
  /\ UNCHANGED corpus

\* The loop over parsed.symbols starts on a symbol.
TakeSymbol ==
  /\ at <= Len(corpus)
  /\ ~cutting /\ parts = <<>>
  /\ next <= Len(FileSymbols)
  /\ BeginSplit(SourceOf(Current.doc.text, FileSymbols[next]))
  /\ UNCHANGED chunkVars

Cut ==
  /\ CutPart
  /\ UNCHANGED chunkVars

\* Slip: only the first part of a split symbol is kept.
SlipKeepParts ==
  /\ ~cutting /\ parts # <<>>
  /\ drafts' = Append(drafts, PartDrafts(FileSymbols[next])[1])
  /\ IF next < Len(FileSymbols)
       THEN /\ next' = next + 1
            /\ UNCHANGED <<corpus, at, symbols>>
       ELSE EndFile
  /\ source' = <<>> /\ parts' = <<>>
  /\ UNCHANGED <<start, cutting>>

KeepParts ==
  /\ ~cutting /\ parts # <<>>
  /\ drafts' = drafts \o PartDrafts(FileSymbols[next])
  /\ IF next < Len(FileSymbols)
       THEN /\ next' = next + 1
            /\ UNCHANGED <<corpus, at, symbols>>
       ELSE EndFile
  /\ source' = <<>> /\ parts' = <<>>
  /\ UNCHANGED <<start, cutting>>

\* Slip: a file that parses but declares nothing is skipped.
SlipTakeWholeFile ==
  /\ at <= Len(corpus)
  /\ FileSymbols = <<>>
  /\ EndFile
  /\ UNCHANGED <<drafts, splitVars>>

TakeWholeFile ==
  /\ at <= Len(corpus)
  /\ FileSymbols = <<>>
  /\ drafts' = Append(drafts, WholeFileDraft)
  /\ EndFile
  /\ UNCHANGED splitVars

ChunkNext == TakeSymbol \/ Cut \/ KeepParts \/ TakeWholeFile

Chunked == at > Len(corpus)

\* An index job on any accepted files.
ChunkInit ==
  /\ corpus \in Seq([path : Nat, doc : Documents])
  /\ at = 1 /\ symbols = <<>> /\ next = 1 /\ drafts = <<>>
  /\ source = <<>> /\ start = 0 /\ parts = <<>> /\ cutting = FALSE

ChunkSpec == ChunkInit /\ [][ChunkNext]_<<chunkVars, splitVars>>

----------------------------------------------------------------------------
\* Slip: the class is looked up by the symbol's own name.
SlipParentLink(i) ==
  SelectLastInSeq(symbols, LAMBDA row : row.symbol.name = symbols[i].symbol.name)

\* _apply_symbol_parent_links runs once over the symbols of all files: of
\* several with the parent's qualified name, the last one wins; 0 for none.
ParentLink(i) ==
  IF symbols[i].symbol.parent = NoParent THEN 0
  ELSE SelectLastInSeq(symbols, LAMBDA row : row.symbol.name = symbols[i].symbol.parent)

\* Two drafts with one identifier fail the INSERT of code_chunks.
IdsCollide == \E i, j \in 1 .. Len(drafts) : i < j /\ drafts[i].id = drafts[j].id
----------------------------------------------------------------------------
(* Properties.                                                             *)

\* Line i of a file is in a draft at its place.
Holds(draft, path, text, i) ==
  LET lines == draft.id[2]
      place == i - (draft.origin + draft.id[3] - 1) + 1
  IN  /\ draft.path = path
      /\ place \in 1 .. Len(lines)
      /\ lines[place] = text[i]

\* Every line that is not empty and belongs to some symbol is in a chunk, and
\* so is every such line of a file that was not or could not be parsed: blocks,
\* parts and the whole-file chunk together leave nothing out.
NoTextLost ==
  Chunked =>
    \A f \in 1 .. Len(corpus) :
      LET text == corpus[f].doc.text
          found == Parse(corpus[f].doc)
      IN  \A i \in 1 .. Len(text) :
            /\ text[i] # 0
            /\ \/ found = <<>> \/ FallbackUsed(corpus[f].doc)
               \/ \E k \in 1 .. Len(found) : found[k].first <= i /\ i <= found[k].last
            => \E d \in 1 .. Len(drafts) : Holds(drafts[d], corpus[f].path, text, i)

\* The parsers name a class once for itself and once for each member, and the
\* link is found by name alone over all files: where no other symbol of the
\* revision bears the name of its class, a member is linked to that class, in
\* its own file.  (A second symbol of the name may take the member over.)
MembersFindTheirClass ==
  Chunked =>
    \A i \in 1 .. Len(symbols) :
      LET member == symbols[i]
          bearers == {j \in 1 .. Len(symbols) : symbols[j].symbol.name = member.symbol.parent}
      IN  member.symbol.parent # NoParent /\ (\A j, k \in bearers : j = k) =>
            /\ ParentLink(i) # 0
            /\ symbols[ParentLink(i)].symbol.type = "class"
            /\ symbols[ParentLink(i)].path = member.path
=============================================================================
