----------------------------- MODULE ReviewPanel -----------------------------
(* What ReviewPanel computes: the rows of a file's diff, and the tree of     *)
(* files beside the review.  Its state is in RightPanel.                     *)
(*   A line of a diff is a mark and, for the head of a hunk, the two numbers *)
(* it names; what the line says is left out, and with it the changed lines   *)
(* that parse_file_diff takes for the names of the files ("---", "+++") and  *)
(* drops.                                                                    *)
(*   The tree is a list of entries in pre-order that grows when a folder is  *)
(* opened for the first time, and the rows shown of it.  disk maps a folder  *)
(* to what is in it, in the order the system lists it; the workspace itself  *)
(* is the folder Top.                                                        *)
EXTENDS Integers, Sequences
LOCAL INSTANCE SequencesExt

CONSTANTS ContextLines,    \* 3
          MaxDiffRows,     \* 4000
          MaxTreeDepth,    \* 6
          MaxTreeEntries,  \* 3000
          Top

HunkHead(old, new) == [mark |-> "@@", old |-> old, new |-> new]
Line(mark) == [mark |-> mark, old |-> 0, new |-> 0]

(***************************************************************************)
(* parse_file_diff                                                         *)
(***************************************************************************)
EmptyParse == [hunks |-> <<>>, full |-> FALSE]

\* Mutant: a removed line is counted on both sides.
NumberBoth(previous) ==
  [old |-> previous.old + IF previous.kind = "+" THEN 0 ELSE 1, new |-> previous.new + 1]

(* A row is numbered from the row before it, the first from the head.        *)
Number(previous) ==
  [old |-> previous.old + IF previous.kind = "+" THEN 0 ELSE 1,
   new |-> previous.new + IF previous.kind = "-" THEN 0 ELSE 1]

RowOf(hunk, mark) ==
  LET at == IF hunk.rows = <<>> THEN [old |-> hunk.old, new |-> hunk.new]
            ELSE Number(hunk.rows[Len(hunk.rows)])
  IN [kind |-> mark, old |-> at.old, new |-> at.new]

ParseLine(parse, line) ==
  LET n == Len(parse.hunks)
      grown == [parse.hunks[n] EXCEPT !.rows = Append(@, RowOf(parse.hunks[n], line.mark))]
  IN IF parse.full THEN parse
     ELSE IF line.mark = "@@"
       THEN [parse EXCEPT !.hunks = Append(@, [id |-> n, old |-> line.old, new |-> line.new,
                                               rows |-> <<>>])]
     ELSE IF n = 0 \/ line.mark = "\\" THEN parse
     ELSE [hunks |-> [parse.hunks EXCEPT ![n] = grown],
           full |-> Len(grown.rows) >= MaxDiffRows]

Hunks(lines) ==
  SelectSeq(FoldLeft(ParseLine, EmptyParse, lines).hunks, LAMBDA h : h.rows # <<>>)

(* A file git knows nothing of is one hunk of added lines.                   *)
NewFile(count) ==
  IF count = 0 THEN <<>>
  ELSE << [id |-> 0, old |-> 0, new |-> 1,
           rows |-> [i \in 1..(IF count < MaxDiffRows THEN count ELSE MaxDiffRows) |->
                       [kind |-> "+", old |-> 0, new |-> i]]] >>

(* What is shown of a file: a change without a hunk (of its mode, or of a    *)
(* binary file) is shown like a file git does not know.                      *)
ParseFile(lines, count) ==
  IF Hunks(lines) = <<>> THEN NewFile(count) ELSE Hunks(lines)

(***************************************************************************)
(* project_file_diff                                                       *)
(***************************************************************************)
Banner(hunk, skipped) == [kind |-> "banner", hunk |-> hunk.id, skipped |-> skipped]
\* A removed line has no new number and an added one no old number.
Shown(hunk, i) ==
  LET row == hunk.rows[i]
  IN [kind |-> row.kind, hunk |-> hunk.id,
      old |-> IF row.kind = "+" THEN 0 ELSE row.old,
      new |-> IF row.kind = "-" THEN 0 ELSE row.new]

(* The changed rows with the context around them.                           *)
Kept(rows) ==
  {i \in DOMAIN rows : \E c \in DOMAIN rows :
     rows[c].kind # " " /\ i \in (c - ContextLines)..(c + ContextLines)}

Fold(hunk) ==
  LET kept == Kept(hunk.rows)
      step(acc, i) ==
        IF i \notin kept THEN [acc EXCEPT !.skipped = @ + 1]
        ELSE [out |-> (IF acc.skipped > 0 THEN Append(acc.out, Banner(hunk, acc.skipped))
                       ELSE acc.out) \o <<Shown(hunk, i)>>,
              skipped |-> 0]
      all == FoldLeft(step, [out |-> <<>>, skipped |-> 0], [i \in DOMAIN hunk.rows |-> i])
  IN IF all.skipped > 0 THEN Append(all.out, Banner(hunk, all.skipped)) ELSE all.out

ProjectHunk(hunk, expanded) ==
  <<Banner(hunk, 0)>> \o
  IF hunk.id \in expanded THEN [i \in DOMAIN hunk.rows |-> Shown(hunk, i)] ELSE Fold(hunk)

Project(hunks, expanded) ==
  FoldLeft(LAMBDA out, hunk : out \o ProjectHunk(hunk, expanded), <<>>, hunks)

(***************************************************************************)
(* reset_tree                                                              *)
(***************************************************************************)
Entry(disk, path, depth) ==
  [path |-> path, depth |-> depth, folder |-> path \in DOMAIN disk,
   expanded |-> FALSE, loaded |-> FALSE]

\* The folders first.  The order of the names within the two is left out.
Children(disk, paths, depth) ==
  LET entries == [i \in DOMAIN paths |-> Entry(disk, paths[i], depth)]
  IN SelectSeq(entries, LAMBDA e : e.folder) \o SelectSeq(entries, LAMBDA e : ~e.folder)

(***************************************************************************)
(* rebuild_tree: open[d] says whether the last row at depth d is open      *)
(***************************************************************************)
Row(e) == [path |-> e.path, depth |-> e.depth, expanded |-> e.expanded]

ShowEntry(acc, e) ==
  IF e.depth > 0 /\ ~acc.open[e.depth - 1] THEN acc
  ELSE [rows |-> Append(acc.rows, Row(e)), open |-> [acc.open EXCEPT ![e.depth] = e.expanded]]

Rebuild(entries) ==
  FoldLeft(ShowEntry, [rows |-> <<>>, open |-> [d \in 0..(MaxTreeDepth + 1) |-> FALSE]],
           entries).rows

NoTree == [entries |-> <<>>, rows |-> <<>>]

ResetTree(disk) ==
  LET entries == Children(disk, disk[Top], 0)
  IN [entries |-> entries, rows |-> Rebuild(entries)]

(***************************************************************************)
(* toggle_tree_folder                                                      *)
(***************************************************************************)
\* Reading stops with the entry that fills the list; one is always read.
Read(paths, room) ==
  LET most == IF room < 1 THEN 1 ELSE room
  IN SubSeq(paths, 1, IF Len(paths) < most THEN Len(paths) ELSE most)

Load(disk, entries, at) ==
  LET e == entries[at]
      children == Children(disk, Read(disk[e.path], MaxTreeEntries - Len(entries)), e.depth + 1)
  IN [SubSeq(entries, 1, at) EXCEPT ![at].loaded = TRUE] \o children
     \o SubSeq(entries, at + 1, Len(entries))

\* Mutant: a folder that makes the list too long stays open.
RefusedFolderOpen(entries, at) == entries

RefusedFolder(entries, at) == [entries EXCEPT ![at].expanded = FALSE]

ToggleFolder(disk, tree, path) ==
  LET at == {i \in DOMAIN tree.entries : tree.entries[i].path = path}
      i == CHOOSE j \in at : \A k \in at : j <= k
      loaded == IF tree.entries[i].loaded THEN tree.entries ELSE Load(disk, tree.entries, i)
      toggled == [loaded EXCEPT ![i].expanded = ~@]
  IN IF at = {} \/ ~tree.entries[i].folder \/ tree.entries[i].depth >= MaxTreeDepth THEN tree
     ELSE IF toggled[i].expanded /\ Len(toggled) > MaxTreeEntries
       THEN [tree EXCEPT !.entries = RefusedFolder(toggled, i)]
     ELSE [entries |-> toggled, rows |-> Rebuild(toggled)]
==============================================================================
