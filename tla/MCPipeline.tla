----------------------------- MODULE MCPipeline -----------------------------
(***************************************************************************)
(* Instances of Pipeline for TLC: files that differ in every way the scan  *)
(* and the parsers look at, and checkouts that meet each limit, below it,  *)
(* at it and above it.                                                     *)
(***************************************************************************)
EXTENDS Pipeline

Node(kind, names, first, last, body) ==
  [kind |-> kind, names |-> names, first |-> first, last |-> last, body |-> body]

Doc(lang, text, nodes) ==
  [lang |-> lang, text |-> text, nodes |-> nodes, broken |-> FALSE, declares |-> FALSE]

\* A class longer than a part, with a method and a constant, and a statement
\* that gives no symbol.
ClassDoc(name) ==
  Doc("python", <<5, 4, 3, 9>>,
      <<Node("class", <<name>>, 1, 3,
             <<Node("def", <<"get">>, 2, 2, <<>>), Node("assign", <<"size">>, 3, 3, <<>>),
               Node("other", <<>>, 3, 3, <<>>)>>),
        Node("other", <<>>, 4, 4, <<>>)>>)

\* One import written twice.
TwiceDoc == Doc("python", <<4, 4>>,
                <<Node("import", <<"os">>, 1, 1, <<>>), Node("import", <<"os">>, 2, 2, <<>>)>>)

\* A function with lines too long for one part, and a module-level constant.
DefDoc == Doc("python", <<8, 13, 2>>,
              <<Node("def", <<"run">>, 1, 2, <<>>), Node("assign", <<"LIMIT">>, 3, 3, <<>>)>>)

MCDocument ==
     1 :> ClassDoc("Shape")
  @@ 2 :> Doc("other", <<2, 0, 3>>, <<>>)
  @@ 3 :> Doc("regex", <<7>>, <<>>)
  @@ 4 :> [Doc("python", <<0, 6>>, <<>>) EXCEPT !.broken = TRUE]
  @@ 5 :> TwiceDoc
  @@ 6 :> Doc("python", <<>>, <<>>)
  @@ 7 :> [Doc("regex", <<3, 3>>, <<>>) EXCEPT !.declares = TRUE]
  @@ 8 :> DefDoc
  @@ 9 :> Doc("other", <<1>>, <<>>)
  @@ 10 :> Doc("other", <<1>>, <<>>)
  @@ 11 :> Doc("other", <<1>>, <<>>)

File(path, size, traits) == [path |-> path, size |-> size, traits |-> traits]
Plain(path) == File(path, 1, {})
Odd(path, trait) == File(path, 1, {trait})

\* Checkouts whose files are all accepted.
PlainCheckouts ==
  {{Plain(1)}, {Plain(2), Plain(3), Plain(4)}, {Plain(5)}, {Plain(6), Plain(7), Plain(3)},
   {Plain(8), Plain(2)}, {Plain(1), Plain(3)}, {}}

\* Checkouts with files the scan excludes, or never walks.
MixedCheckouts ==
  {{Plain(6), Odd(9, "secret"), Odd(10, "binary")},
   {Plain(3), File(9, 1, {"symlink", "secret"}), Odd(10, "noStat")},
   {Plain(3), Odd(9, "symlink"), File(10, 4, {"gone"})},
   {Plain(3), Odd(9, "pruned"), Odd(10, "pruned"), Odd(11, "pruned")},
   {Odd(9, "ignored"), Odd(10, "big"), Odd(11, "unreadable")},
   {Odd(9, "media"), Odd(10, "notUtf8"), Odd(11, "manyLines")}}

\* Checkouts above some limit.
ExcessiveCheckouts ==
  {{File(2, 0, {}), Plain(3), Plain(4), Plain(6)},
   {Plain(3), File(4, 3, {})},
   {Plain(3), Odd(9, "symlink"), Odd(10, "symlink")},
   {Plain(3), Odd(9, "longPath")}, {Plain(3), Odd(9, "deepPath")},
   {Plain(3), File(9, 1, {"symlink", "outside"})}}

MCCheckouts == PlainCheckouts \cup MixedCheckouts \cup ExcessiveCheckouts
TwiceCheckouts == {{Plain(5)}}
=============================================================================
