--------------------------- MODULE MCClientProgram --------------------------
(* Values for the constants of ClientProgram. *)
EXTENDS ClientProgram

MCTextLen == [d \in {"x", "y"} |-> IF d = "x" THEN 3 ELSE 4]

\* Files and directories, with and without an extension.
MCBodies == {<<"x">>, <<"x", ".">>}

\* Up to four arguments, of the options that differ and one directory; and what the
\* user types to name the other.
MCArguments == {Option(n) : n \in {"r", "d", "w", ""}} \cup {Input("x")}
MCCommandLines ==
  UNION {[1..n -> MCArguments] : n \in 0..3}
    \cup {<<Option("r"), Input("x"), Option("d"), Input("y")>>,
          <<Option("d"), Input("y"), Option("w"), Option("r")>>,
          <<Option("t")>>, <<Option("t"), Input("x")>>}

Line_(kind, text, name, value) ==
  [kind |-> kind, text |-> text, name |-> name, value |-> value]
MCLines ==
  {Line_("setting", <<"a", ">", "b", "\n">>, <<"a">>, <<"b">>),
   Line_("setting", <<" ", "a", " ", ">", "a", ".", "a", " ", "#", "?", "\n">>, <<"a">>, <<"a", ".", "a">>),
   Line_("setting", <<"b", ">", "a", "b", "\n">>, <<"b">>, <<"a", "b">>),
   Line_("blank", <<"\n">>, <<>>, <<>>),
   Line_("blank", <<" ", "#", ">", "\n">>, <<>>, <<>>),
   Line_("malformed", <<"a", "b", "\n">>, <<>>, <<>>),
   Line_("malformed", <<"a", ">", "#", "b", "\n">>, <<>>, <<>>),
   Line_("malformed", <<"a", ">", "b", "?", "\n">>, <<>>, <<>>),
   Line_("malformed", <<">", "a", "\n">>, <<>>, <<>>),
   Line_("unreadable", <<"?", "\n">>, <<>>, <<>>)}
MCLastLines ==
  {Line_("malformed", <<"a", ">", "b">>, <<>>, <<>>),
   Line_("malformed", <<"a">>, <<>>, <<>>),
   Line_("unended", <<"#", "a">>, <<>>, <<>>)}
MCFiles ==
  UNION {[1..n -> MCLines] : n \in 0..2}
    \cup {<<l, m>> : l \in MCLines, m \in MCLastLines}

MCUsualLines ==
  {<<Option("r"), Input("x"), Option("w")>>, <<Option("r"), Input("y")>>,
   <<Option("d"), Input("x")>>,
   <<Option("w")>>, <<Option("t")>>}
MCUsualFile == <<Line_("setting", <<"a", ">", "b", "\n">>, <<"a">>, <<"b">>)>>

MCLongBodies == {<<"x", "x", "x", "x">>, <<"x", "x", "x", "x", "x", "x", "x">>}

World(may, runs, notes) == [may |-> may, runs |-> runs, notes |-> notes]
New == World({"new"}, 1, 1)
Pieces == World({"pieces"}, 1, 1)
MCWorlds ==
  {New, World({"loss", "stop"}, 3, 2),
   World({"delay", "duplicate"}, 2, 2), Pieces,
   World({"rude"}, 2, 1), World({"rude"}, 1, 2), World({"long"}, 1, 3)}
MCPieces == {Pieces}
MCNew == {New}
MCTyped == {World({"new", "rude"}, 1, 1)}
=============================================================================
