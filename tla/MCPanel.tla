------------------------------ MODULE MCPanel -------------------------------
(* Two repositories, two branches, two files, two threads besides the window's. *)
EXTENDS RightPanel, TLC

CONSTANTS w1, w2, f, g

\* The list has room for six: each of "a", "ab" and "c" is read whole, in part or
\* for one entry and then refused, as the others were opened before; "x" is too deep.
MCDisk == [w \in {w1, w2} |->
  IF w = w1
    THEN [d \in {Top, "a", "ab", "c", "x"} |->
            CASE d = Top -> <<"f", "c", "a">> [] d = "a" -> <<"v", "ab">> [] d = "x" -> <<"p">>
              [] d = "ab" -> <<"x", "y">> [] OTHER -> <<"z", "u">>]
  ELSE [d \in {Top} |-> <<"g">>]]

\* The empty query and one that one file and one folder's file answer.
MCNames == Files \cup {"f", "c", "a", "ab", "x", "y", "v", "z", "u", "p", "g"}
MCQueries == {MCNames, {f, "a", "ab"}}

\* Any two calls, also while a refresh or the other is under way or someone changes
\* the repository; and on the tree alone a longer walk.
MCBudgets == {[calls |-> 2, tree |-> 0, edits |-> 1, hurry |-> 1],
              [calls |-> 2, tree |-> 0, edits |-> 0, hurry |-> 2],
              [calls |-> 1, tree |-> 2, edits |-> 1, hurry |-> 1],
              [calls |-> 0, tree |-> 6, edits |-> 0, hurry |-> 1],
              [calls |-> 0, tree |-> 8, edits |-> 0, hurry |-> 0]}

\* f has two hunks with lines to fold before, between and after the changes; g
\* is a file git does not know.
MCPrinted == [n \in Files |->
  IF n = f
    THEN [lines |-> <<HunkHead(3, 3), Line(" "), Line(" "), Line("-"), Line("+"), Line("+"),
                      Line(" "), Line(" "), Line(" "), Line(" "), Line("-"), HunkHead(20, 21),
                      Line("+"), Line(" "), Line("\\"), Line(" "), Line(" ")>>,
          count |-> 0]
  ELSE [lines |-> <<>>, count |-> 2]]

MCLoose == [w \in {w1, w2} |-> IF w = w1 THEN {f, g} ELSE {}]

AnyThread == Permutations(Threads)
=============================================================================
