----------------------------- MODULE RightPanel -----------------------------
(* The review and file panel of the desktop: RightPanelController and its    *)
(* ReviewPanel.  The user's calls run on the user interface's thread, the    *)
(* work with git on threads of their own; one mutex guards both objects, a   *)
(* publication copies what it shows under the mutex and posts the copy to    *)
(* the window afterwards.  git and the disk are external.                    *)
EXTENDS ReviewPanel, FiniteSets
LOCAL INSTANCE SequencesExt

CONSTANTS Workspaces, Branches, Files,
          Disk,        \* [Workspaces -> a disk]
          Loose,       \* [Workspaces -> the files changed at first]
          Printed,     \* [Files -> what git prints of the file: its lines, or how many it has]
          Threads, UI, \* the threads that may run at once, and the window's
          NoFile, NoBranch,
          Queries,     \* what may be typed into a filter: the names it is found in
          AllNames,    \* the empty query
          Budgets      \* bounds: [calls, tree, edits, hurry], how many calls there are, how
                       \* many on the tree of files, how many changes from outside, and
                       \* how many calls are made while another is under way

ASSUME PanelAssumption == Workspaces # {} /\ Branches # {} /\ Threads # {}

VARIABLES repo,      \* [Workspaces -> the repository]
          panel,     \* ReviewPanel
          ctl,       \* the controller's own fields
          todo,      \* [Threads \cup {UI} -> steps still to take]
          note,      \* [Threads \cup {UI} -> the copy still to be posted]
          window,    \* what the user sees
          told,      \* ghost: what the toasts said of a push, with what was made
          moved,     \* ghost: [Workspaces -> the branch was changed outside since the last look]
          alone,     \* ghost: no call was made while another was under way
          budget     \* the calls still allowed

vars == <<repo, panel, ctl, todo, note, window, told, moved, alone, budget>>

Nothing == [show |-> "nothing"]
NoPanel == [ws |-> CHOOSE w \in Workspaces : TRUE, branch |-> NoBranch, files |-> {},
            diffs |-> <<>>, tree |-> NoTree]

(***************************************************************************)
(* ReviewPanel                                                             *)
(***************************************************************************)
\* What git calls changed: in the index or in the work tree.
Status(r) == r.staged \cup r.loose

\* set_workspace and refresh: everything is read again, the tree is closed.
Look(w) ==
  [ws |-> w, branch |-> repo[w].head, files |-> Status(repo[w]), diffs |-> <<>>,
   tree |-> ResetTree(Disk[w])]

\* parse_file_diff: a file is parsed once until the next refresh.
Parsed(f) ==
  IF f \in DOMAIN panel.diffs THEN panel.diffs
  ELSE [g \in DOMAIN panel.diffs \cup {f} |->
          IF g = f THEN [hunks |-> ParseFile(Printed[f].lines, Printed[f].count), expanded |-> {}]
          ELSE panel.diffs[g]]

\* What git does: add -A, commit, push, restore --worktree (a file git does not
\* know is left alone).
Staged(r) == [r EXCEPT !.staged = @ \cup r.loose, !.loose = {}]
Committed(r) == [r EXCEPT !.staged = {}, !.made[r.head] = @ + 1]
Pushed(r, b) == [r EXCEPT !.pushed[b] = r.made[b]]
Restored(r, unknown) == [r EXCEPT !.loose = @ \cap unknown]

(***************************************************************************)
(* Publications: what is copied, and what the window makes of it           *)
(***************************************************************************)
Review == [show |-> "review", branch |-> panel.branch,
           files |-> panel.files \cap ctl.reviewFilter, selected |-> ctl.selected]
Filtered(rows, query) == SelectSeq(rows, LAMBDA row : row.path \in query)
TreeRows == [show |-> "tree", rows |-> Filtered(panel.tree.rows, ctl.treeFilter)]
Tabs == [show |-> "tabs", tabs |-> ctl.tabs, active |-> ctl.active]
DiffOf(diffs, f) ==
  [show |-> "diff", of |-> f, rows |-> Project(diffs[f].hunks, diffs[f].expanded)]

Apply(w, e) ==
  CASE e.show = "review" ->
         [w EXCEPT !.branch = e.branch, !.files = e.files, !.selected = e.selected]
    [] e.show = "tree" -> [w EXCEPT !.tree = e.rows]
    [] e.show = "tabs" -> [w EXCEPT !.tabs = e.tabs, !.active = e.active]
    [] e.show = "file" -> [w EXCEPT !.file = <<e.path, e.readable>>]
    [] e.show = "diff" -> [w EXCEPT !.diff = <<e>>]
    [] OTHER -> w

(***************************************************************************)
(* The programs of the threads                                             *)
(***************************************************************************)
Do(name) == [do |-> name]
PublishReview == <<Do("review"), Do("post")>>
PublishTree == <<Do("tree"), Do("paths"), Do("post")>>
PublishTabs == <<Do("tabs"), Do("post")>>
Refresh == <<Do("load")>> \o PublishReview \o PublishTree \o <<Do("diff")>>

\* The window has asked for a first refresh of the workspace it starts with.
Init ==
  /\ repo = [w \in Workspaces |->
       [head |-> CHOOSE b \in Branches : TRUE, loose |-> Loose[w], staged |-> {},
        made |-> [b \in Branches |-> 0], pushed |-> [b \in Branches |-> 0]]]
  /\ panel = NoPanel
  /\ ctl = [ws |-> CHOOSE w \in Workspaces : TRUE, selected |-> NoFile, paths |-> <<>>,
            tabs |-> <<>>, active |-> "launcher",
            reviewFilter |-> AllNames, treeFilter |-> AllNames]
  /\ todo = [t \in Threads \cup {UI} |-> IF t = CHOOSE s \in Threads : TRUE THEN Refresh ELSE <<>>]
  /\ note = [t \in Threads \cup {UI} |-> Nothing]
  /\ window = [branch |-> NoBranch, files |-> {}, selected |-> NoFile, diff |-> <<>>,
               tree |-> <<>>, file |-> <<>>, tabs |-> <<>>, active |-> "launcher"]
  /\ told = {}
  /\ moved = [w \in Workspaces |-> FALSE]
  /\ alone = TRUE
  /\ budget \in Budgets

\* run_async: a thread of its own; the place of one that ends can be taken.
Free(t) == {s \in Threads : todo[s] = <<>> \/ (s = t /\ Len(todo[t]) = 1)}
Rest(t) == [todo EXCEPT ![t] = Tail(@)]
Spawn(t, s, program) == todo' = [Rest(t) EXCEPT ![s] = program]

At(t, name) == todo[t] # <<>> /\ Head(todo[t]).do = name
Ghosts == <<told, moved, alone, budget>>

\* refresh, under the mutex.
LoadPanel(t) ==
  /\ At(t, "load")
  /\ panel' = Look(ctl.ws)
  /\ LET first == IF panel'.files = {} THEN NoFile ELSE CHOOSE f \in panel'.files : TRUE
     IN ctl' = [ctl EXCEPT !.selected = IF @ \in panel'.files THEN @ ELSE first]
  /\ moved' = [moved EXCEPT ![ctl.ws] = FALSE]
  /\ todo' = Rest(t)
  /\ UNCHANGED <<repo, note, window, told, alone, budget>>

Copy(t) ==
  /\ \/ At(t, "review") /\ note' = [note EXCEPT ![t] = Review]
     \/ At(t, "tree") /\ note' = [note EXCEPT ![t] = TreeRows]
     \/ At(t, "tabs") /\ note' = [note EXCEPT ![t] = Tabs]
  /\ todo' = Rest(t)
  /\ UNCHANGED <<repo, panel, ctl, window, Ghosts>>

\* tree_view_paths_ is replaced before the rows are posted.
KeepPaths(t) ==
  /\ At(t, "paths")
  /\ ctl' = [ctl EXCEPT !.paths = [i \in DOMAIN note[t].rows |-> note[t].rows[i].path]]
  /\ todo' = Rest(t)
  /\ UNCHANGED <<repo, panel, note, window, Ghosts>>

\* Events are taken in the order they are posted; that the window's thread may
\* still be busy with a call is left out.
Post(t) ==
  /\ At(t, "post")
  /\ window' = Apply(window, note[t])
  /\ note' = [note EXCEPT ![t] = Nothing]
  /\ todo' = Rest(t)
  /\ UNCHANGED <<repo, panel, ctl, Ghosts>>

\* Mutant: the rows of the file selected first stay.
KeepDiff(t) ==
  /\ At(t, "diff")
  /\ IF ctl.selected = NoFile \/ window.diff # <<>> THEN todo' = Rest(t)
     ELSE \E s \in Free(t) : Spawn(t, s, <<[do |-> "lines", file |-> ctl.selected]>>)
  /\ UNCHANGED <<repo, panel, ctl, note, window, Ghosts>>

\* publish_diff: another thread reads the rows of the file selected now.
PublishDiff(t) ==
  /\ At(t, "diff")
  /\ IF ctl.selected = NoFile THEN todo' = Rest(t)
     ELSE \E s \in Free(t) : Spawn(t, s, <<[do |-> "lines", file |-> ctl.selected]>>)
  /\ UNCHANGED <<repo, panel, ctl, note, window, Ghosts>>

DiffLines(t) ==
  /\ At(t, "lines")
  /\ LET file == Head(todo[t]).file
     IN /\ panel' = [panel EXCEPT !.diffs = Parsed(file)]
        /\ note' = [note EXCEPT ![t] = DiffOf(Parsed(file), file)]
  /\ todo' = [todo EXCEPT ![t] = <<Do("post")>>]
  /\ UNCHANGED <<repo, ctl, window, Ghosts>>

ToggleHunk(t) ==
  /\ At(t, "hunk")
  /\ LET file == Head(todo[t]).file
         h == Head(todo[t]).hunk
         open == Parsed(file)[file].expanded
     IN panel' = [panel EXCEPT !.diffs =
          [Parsed(file) EXCEPT ![file].expanded = IF h \in open THEN open \ {h} ELSE open \cup {h}]]
  /\ todo' = Rest(t)
  /\ UNCHANGED <<repo, ctl, note, window, Ghosts>>

ToggleTree(t) ==
  /\ At(t, "toggle")
  /\ panel' = [panel EXCEPT !.tree = ToggleFolder(Disk[panel.ws], @, Head(todo[t]).path)]
  /\ todo' = Rest(t)
  /\ UNCHANGED <<repo, ctl, note, window, Ghosts>>

\* Only a file of the tree can be read; a binary or a large one is not.
ReadTreeFile(t) ==
  /\ At(t, "file")
  /\ LET path == Head(todo[t]).path
         listed == \E i \in DOMAIN panel.tree.entries :
                     panel.tree.entries[i].path = path /\ ~panel.tree.entries[i].folder
     IN \E text \in BOOLEAN :
          note' = [note EXCEPT ![t] = [show |-> "file", path |-> path,
                                       readable |-> listed /\ text]]
  /\ todo' = Rest(t)
  /\ UNCHANGED <<repo, panel, ctl, window, Ghosts>>

(***************************************************************************)
(* git under the mutex.  What succeeds is followed by a refresh and a toast *)
(***************************************************************************)
\* A failure leaves the panel as it was.
Outcome(t, ok, claim) ==
  todo' = [todo EXCEPT ![t] = IF ok THEN <<[do |-> "refresh", claim |-> claim]>> ELSE <<>>]

RefreshAndTell(t) ==
  /\ At(t, "refresh")
  /\ told' = told \cup Head(todo[t]).claim
  /\ \E s \in Free(t) : Spawn(t, s, Refresh)
  /\ UNCHANGED <<repo, panel, ctl, note, window, moved, alone, budget>>

\* Mutant: the panel learns of its new branch with the next refresh.
CheckoutUntold(t) ==
  /\ At(t, "checkout")
  /\ \E ok \in BOOLEAN :
       /\ repo' = IF ok THEN [repo EXCEPT ![panel.ws].head = Head(todo[t]).branch] ELSE repo
       /\ panel' = panel
       /\ Outcome(t, ok, {})
  /\ UNCHANGED <<ctl, note, window, Ghosts>>

\* git refuses a checkout that would overwrite a change.
Checkout(t) ==
  /\ At(t, "checkout")
  /\ \E ok \in BOOLEAN :
       /\ ok \/ Status(repo[panel.ws]) # {}
       /\ repo' = IF ok THEN [repo EXCEPT ![panel.ws].head = Head(todo[t]).branch] ELSE repo
       /\ panel' = IF ok THEN [panel EXCEPT !.branch = Head(todo[t]).branch] ELSE panel
       /\ Outcome(t, ok, {})
  /\ UNCHANGED <<ctl, note, window, Ghosts>>

StageAll(t) ==
  /\ At(t, "stage")
  /\ \E ok \in BOOLEAN :
       /\ repo' = IF ok THEN [repo EXCEPT ![panel.ws] = Staged(@)] ELSE repo
       /\ Outcome(t, ok, {})
  /\ UNCHANGED <<panel, ctl, note, window, Ghosts>>

\* A restore that fails may have restored some of the files.
DiscardUnstaged(t) ==
  /\ At(t, "discard")
  /\ \E kept \in SUBSET repo[panel.ws].loose, ok \in BOOLEAN :
       /\ repo' = [repo EXCEPT ![panel.ws] = Restored(@, kept)]
       /\ Outcome(t, ok, {})
  /\ UNCHANGED <<panel, ctl, note, window, Ghosts>>

\* What is staged stays staged when git does not commit it (always when there is no
\* message or nothing staged), what is committed stays so when the push fails.
CommitAndPush(t) ==
  /\ At(t, "commit")
  /\ LET staged == Staged(repo[panel.ws])
         done == Committed(staged)
         commits == Head(todo[t]).message /\ staged.staged # {}
         says == [ws |-> panel.ws, branch |-> panel.branch, made |-> staged.head,
                  number |-> done.made[staged.head], known |-> ~moved[panel.ws]]
     IN \/ /\ repo' \in {repo, [repo EXCEPT ![panel.ws] = staged]}
           /\ Outcome(t, FALSE, {})
        \/ /\ commits /\ ~Head(todo[t]).push
           /\ repo' = [repo EXCEPT ![panel.ws] = done]
           /\ Outcome(t, TRUE, {})
        \/ /\ commits /\ Head(todo[t]).push
           /\ \E ok \in BOOLEAN :
                /\ ok => panel.branch # NoBranch
                /\ repo' = [repo EXCEPT ![panel.ws] =
                              IF ok THEN Pushed(done, panel.branch) ELSE done]
                /\ Outcome(t, ok, {says})
  /\ UNCHANGED <<panel, ctl, note, window, Ghosts>>

(***************************************************************************)
(* The user, on the thread of the window                                   *)
(***************************************************************************)
Quiet == \A t \in Threads \cup {UI} : todo[t] = <<>>

Call(kind) ==
  /\ todo[UI] = <<>> /\ budget[kind] > 0 /\ (Quiet \/ budget.hurry > 0)
  /\ budget' = [budget EXCEPT ![kind] = @ - 1, !.hurry = IF Quiet THEN @ ELSE @ - 1]
  /\ alone' = (alone /\ Quiet)
  /\ UNCHANGED <<repo, panel, note, window, told, moved>>

OnThread(program) ==
  \E t \in Threads : todo[t] = <<>> /\ todo' = [todo EXCEPT ![t] = program]

Here(program) == todo' = [todo EXCEPT ![UI] = program]

SetWorkspace ==
  /\ Call("calls")
  /\ \E w \in Workspaces : ctl' = [ctl EXCEPT !.ws = w]
  /\ OnThread(Refresh)

SelectReviewFile ==
  /\ Call("calls")
  /\ \E f \in window.files : ctl' = [ctl EXCEPT !.selected = f]
  /\ Here(PublishReview \o <<Do("diff")>>)

SelectHunk ==
  /\ Call("calls")
  /\ ctl.selected # NoFile /\ window.diff # <<>>
  /\ \E h \in {window.diff[1].rows[i].hunk : i \in DOMAIN window.diff[1].rows} :
       OnThread(<<[do |-> "hunk", file |-> ctl.selected, hunk |-> h], Do("diff")>>)
  /\ UNCHANGED ctl

\* The row is looked up among the paths published last, which need not be shown.
SelectTreeItem ==
  /\ Call("tree")
  /\ \E i \in DOMAIN window.tree \cap DOMAIN ctl.paths :
       IF \E r \in DOMAIN panel.tree.rows :
            panel.tree.rows[r].path = ctl.paths[i] /\ ctl.paths[i] \in DOMAIN Disk[panel.ws]
         THEN OnThread(<<[do |-> "toggle", path |-> ctl.paths[i]]>> \o PublishTree)
       ELSE OnThread(<<[do |-> "file", path |-> ctl.paths[i]], Do("post")>>)
  /\ UNCHANGED ctl

SetReviewFilter ==
  /\ Call("calls")
  /\ \E query \in Queries : ctl' = [ctl EXCEPT !.reviewFilter = query]
  /\ Here(PublishReview)

SetTreeFilter ==
  /\ Call("tree")
  /\ \E query \in Queries : ctl' = [ctl EXCEPT !.treeFilter = query]
  /\ Here(PublishTree)

GitCall ==
  /\ Call("calls")
  /\ \/ \E b \in Branches : OnThread(<<[do |-> "checkout", branch |-> b]>>)
     \/ OnThread(<<Do("stage")>>)
     \/ OnThread(<<Do("discard")>>)
     \/ \E message, push \in BOOLEAN :
          OnThread(<<[do |-> "commit", message |-> message, push |-> push]>>)
  /\ UNCHANGED ctl

OpenTab ==
  /\ Call("calls")
  /\ \E tab \in {"review", "openFile"} :
       LET first == IF panel.files = {} THEN NoFile ELSE CHOOSE f \in panel.files : TRUE
       IN /\ ctl' = [ctl EXCEPT !.tabs = IF \E i \in DOMAIN @ : @[i] = tab THEN @
                                         ELSE Append(@, tab),
                                !.active = tab,
                                !.selected = IF tab = "review" /\ @ = NoFile THEN first ELSE @]
          /\ Here(PublishTabs \o IF tab = "review" THEN PublishReview \o <<Do("diff")>> ELSE <<>>)

CloseTab ==
  /\ Call("calls")
  /\ \E tab \in {"review", "openFile"} :
       LET left == SelectSeq(ctl.tabs, LAMBDA other : other # tab)
       IN ctl' = [ctl EXCEPT !.tabs = left,
                    !.active = IF @ # tab THEN @
                               ELSE IF left = <<>> THEN "launcher" ELSE left[Len(left)]]
  /\ Here(PublishTabs)

(***************************************************************************)
(* The agent's processes, in the workspace the window is on                *)
(***************************************************************************)
Outside ==
  /\ budget.edits > 0
  /\ \/ /\ \E f \in Files \ repo[ctl.ws].loose :
             repo' = [repo EXCEPT ![ctl.ws].loose = @ \cup {f}]
        /\ UNCHANGED moved
     \/ /\ \E b \in Branches \ {repo[ctl.ws].head} : repo' = [repo EXCEPT ![ctl.ws].head = b]
        /\ moved' = [moved EXCEPT ![ctl.ws] = TRUE]
  /\ budget' = [budget EXCEPT !.edits = @ - 1]
  /\ UNCHANGED <<panel, ctl, todo, note, window, told, alone>>

Step(t) ==
  \/ LoadPanel(t) \/ Copy(t) \/ KeepPaths(t) \/ Post(t) \/ PublishDiff(t) \/ DiffLines(t)
  \/ ToggleHunk(t) \/ ToggleTree(t) \/ ReadTreeFile(t) \/ RefreshAndTell(t) \/ Checkout(t) \/ StageAll(t)
  \/ DiscardUnstaged(t) \/ CommitAndPush(t)

Next ==
  \/ \E t \in Threads \cup {UI} : Step(t)
  \/ SetWorkspace \/ SelectReviewFile \/ SelectHunk \/ SelectTreeItem \/ GitCall
  \/ SetReviewFilter \/ SetTreeFilter \/ OpenTab \/ CloseTab \/ Outside

Spec == Init /\ [][Next]_vars

(***************************************************************************)
(* Properties                                                              *)
(***************************************************************************)
(* A toast that says a commit was pushed to a branch is true: the commit was *)
(* made on that branch and has reached it, although checkouts, refreshes and *)
(* changes of the workspace come between.  Only a branch changed by someone  *)
(* else since the panel last looked can make it wrong.                       *)
PushedIsCommitted ==
  \A t \in told : t.known =>
    t.made = t.branch /\ repo[t.ws].pushed[t.branch] >= t.number

(* Once a call has been carried out completely before the next was made, the *)
(* window shows what the panel holds: branch, selection, tabs, the files and *)
(* the tree as they are filtered now, and the rows of the selected file as   *)
(* they are folded now.                                                      *)
QuietPanelIsShown ==
  alone /\ Quiet =>
    /\ window.branch = panel.branch /\ window.selected = ctl.selected
    /\ window.files = panel.files \cap ctl.reviewFilter
    /\ window.tree = Filtered(panel.tree.rows, ctl.treeFilter)
    /\ window.tabs = ctl.tabs /\ window.active = ctl.active
    /\ ctl.selected # NoFile =>
         /\ ctl.selected \in DOMAIN panel.diffs
         /\ window.diff = <<DiffOf(panel.diffs, ctl.selected)>>

(* Whatever folders were opened, closed and refused, and in whatever order,  *)
(* the tree is in pre-order: a file follows its folder, which was read, and  *)
(* is there once.  A folder that was read is short of a file only when the   *)
(* list is full, and no row is missing whose folders are all open.  (That    *)
(* the rows of a closed folder are hidden does not hold.)                    *)
ParentOf(entries, i) ==
  {j \in 1..(i - 1) : entries[j].depth = entries[i].depth - 1
     /\ \A k \in (j + 1)..(i - 1) : entries[k].depth >= entries[i].depth}

InTree(disk, entries, i) ==
  IF entries[i].depth = 0 THEN \E k \in DOMAIN disk[Top] : disk[Top][k] = entries[i].path
  ELSE \E j \in ParentOf(entries, i) : LET folder == entries[j].path IN
         entries[j].loaded /\ \E k \in DOMAIN disk[folder] : disk[folder][k] = entries[i].path

Ancestors(entries, i) ==
  {j \in 1..(i - 1) : entries[j].depth < entries[i].depth
     /\ \A k \in (j + 1)..(i - 1) : entries[k].depth > entries[j].depth}

TreeIsWhole ==
  LET entries == panel.tree.entries
      rows == panel.tree.rows
  IN \A i \in DOMAIN entries :
       /\ entries[i].loaded => \/ Len(entries) >= MaxTreeEntries
                               \/ \A k \in DOMAIN Disk[panel.ws][entries[i].path] :
                                    \E j \in DOMAIN entries :
                                      entries[j].path = Disk[panel.ws][entries[i].path][k]
       /\ InTree(Disk[panel.ws], entries, i)
       /\ \A j \in DOMAIN entries : entries[i].path = entries[j].path => i = j
       /\ (\A j \in Ancestors(entries, i) : entries[j].expanded) =>
            \E k \in DOMAIN rows : rows[k] = Row(entries[i])

(* However the hunks of a file are folded, its rows account for what git     *)
(* printed: every added and removed line is shown, in order and with the     *)
(* number a count from the hunk's head gives it, and the lines said to be    *)
(* folded are as many as are missing.  (Lines that read like a file's header *)
(* are lost, and so is what follows MaxDiffRows rows.)                       *)
HunkLines(lines, k) ==
  {i \in DOMAIN lines : lines[i].mark \in {" ", "-", "+"}
     /\ Cardinality({j \in 1..i : lines[j].mark = "@@"}) = k}

Counted(lines, k, i) ==
  LET head == CHOOSE j \in DOMAIN lines : lines[j].mark = "@@"
                /\ Cardinality({l \in 1..j : lines[l].mark = "@@"}) = k
      before(marks) == Cardinality({j \in HunkLines(lines, k) : j < i /\ lines[j].mark \in marks})
  IN [kind |-> lines[i].mark, hunk |-> k - 1,
      old |-> IF lines[i].mark = "+" THEN 0 ELSE lines[head].old + before({" ", "-"}),
      new |-> IF lines[i].mark = "-" THEN 0 ELSE lines[head].new + before({" ", "+"})]

Changed(rows) == SelectSeq(rows, LAMBDA r : r.kind \in {"+", "-"})

Accounted(lines, k, rows) ==
  LET all == [n \in 1..Cardinality(HunkLines(lines, k)) |->
                Counted(lines, k, CHOOSE i \in HunkLines(lines, k) :
                  Cardinality({j \in HunkLines(lines, k) : j <= i}) = n)]
      mine == SelectSeq(rows, LAMBDA r : r.hunk = k - 1)
      shown == SelectSeq(mine, LAMBDA r : r.kind # "banner")
      banners == SelectSeq(mine, LAMBDA r : r.kind = "banner")
  IN /\ Changed(shown) = Changed(all)
     /\ \A i \in DOMAIN shown : \E j \in DOMAIN all : shown[i] = all[j]
     /\ Len(shown) + FoldLeft(LAMBDA sum, r : sum + r.skipped, 0, banners) = Len(all)

EveryChangeIsShown ==
  \A t \in Threads : note[t].show = "diff" =>
    LET lines == Printed[note[t].of].lines
        heads == Cardinality({i \in DOMAIN lines : lines[i].mark = "@@"})
    IN Len(lines) <= MaxDiffRows =>
         \A k \in 1..heads : Accounted(lines, k, note[t].rows)
=============================================================================
