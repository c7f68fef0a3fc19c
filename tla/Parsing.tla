------------------------------- MODULE Parsing -------------------------------
(***************************************************************************)
(* ParserRegistry: which symbols, with which line ranges, are extracted    *)
(* from a file.  Names are model values or strings; a qualified name is    *)
(* the tuple of the names it joins.                                        *)
(*                                                                         *)
(* A document is what the parsers look at:                                 *)
(*   lang      "python", "regex" (the languages with a RegexParser) or     *)
(*             "other" (no parser, or no known suffix)                     *)
(*   text      its lines, as in ChunkSplit                                 *)
(*   nodes     the top-level statements of a Python file, each with the    *)
(*             names it binds, its lines and, for a class, its body        *)
(*   broken    ast.parse raises SyntaxError                                *)
(*   declares  a line that is neither blank nor an import matches one of   *)
(*             the symbol patterns of the language's profile               *)
(***************************************************************************)
EXTENDS Naturals, Sequences, SequencesExt

CONSTANT BlockLines  \* 120 in _fallback_parsed_file

ASSUME BlocksHaveLines == BlockLines \in Nat \ {0}

\* What ast.parse gives: a statement has at least one line, and of a class
\* body only the statements themselves are looked at.
Statements(bodies) ==
  [kind : STRING, names : Seq(STRING), first : Nat \ {0}, last : Nat, body : bodies]

Documents ==
  [lang : {"python", "regex", "other"}, text : Seq(Nat),
   nodes : Seq(Statements(Seq(Statements({<<>>})))), broken : BOOLEAN, declares : BOOLEAN]

NoParent == <<>>

Symbol(type, qualified, first, last, parent) ==
  [type |-> type, name |-> qualified, first |-> first, last |-> last, parent |-> parent]

\* Blocks of BlockLines lines, the last one shorter; one symbol for an
\* empty file.
FallbackSymbols(text) ==
  IF text = <<>> THEN <<Symbol("text_chunk", <<"stem">>, 1, 1, NoParent)>>
  ELSE [b \in 1 .. (Len(text) + BlockLines - 1) \div BlockLines |->
         LET first == (b - 1) * BlockLines + 1
             last == IF b * BlockLines < Len(text) THEN b * BlockLines ELSE Len(text)
         IN  Symbol("text_chunk", <<"stem", first, last>>, first, last, NoParent)]

\* _python_constant_symbols: one symbol per name on the left-hand sides.
ConstantSymbols(node, parent) ==
  [i \in 1 .. Len(node.names) |->
     Symbol("assignment", parent \o <<node.names[i]>>, node.first, node.last, parent)]

FunctionSymbols(node, parent) ==
  <<Symbol(IF parent = NoParent THEN "function" ELSE "method",
           parent \o node.names, node.first, node.last, parent)>>

\* Of a class body only functions and assignments are looked at.
ClassSymbols(node) ==
  LET member(child) == CASE child.kind = "def"    -> FunctionSymbols(child, node.names)
                         [] child.kind = "assign" -> ConstantSymbols(child, node.names)
                         [] OTHER                 -> <<>>
  IN  <<Symbol("class", node.names, node.first, node.last, NoParent)>>
        \o FlattenSeq([i \in 1 .. Len(node.body) |-> member(node.body[i])])

\* Top-level statements of other kinds (if, for, with, expressions) give no
\* symbol; their lines reach no chunk unless the file gives none at all.
PythonSymbols(nodes) ==
  LET of(node) == CASE node.kind = "import" ->
                         <<Symbol("import", node.names, node.first, node.last, NoParent)>>
                    [] node.kind = "class"  -> ClassSymbols(node)
                    [] node.kind = "def"    -> FunctionSymbols(node, NoParent)
                    [] node.kind = "assign" -> ConstantSymbols(node, NoParent)
                    [] OTHER                -> <<>>
  IN  FlattenSeq([i \in 1 .. Len(nodes) |-> of(nodes[i])])

\* No pattern of any profile has the group "kind" that RegexParser._parse
\* reads from a match, so the first declaration raises IndexError and parse
\* falls back; a file without a declaration yields imports only.
RegexFallsBack(doc) == doc.declares

FallbackUsed(doc) ==
  \/ doc.lang = "other"
  \/ doc.lang = "python" /\ doc.broken
  \/ doc.lang = "regex" /\ RegexFallsBack(doc)

Parse(doc) ==
  IF FallbackUsed(doc) THEN FallbackSymbols(doc.text)
  ELSE IF doc.lang = "python" THEN PythonSymbols(doc.nodes) ELSE <<>>
=============================================================================
