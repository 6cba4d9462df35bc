---------------------------- MODULE DesktopProofs ---------------------------
(* What TLAPS proves of the desktop client.  Of its review panel, for any    *)
(* workspaces, branches and files, any number of threads and any contents   *)
(* of the files: a toast that says a commit was pushed is true, and a panel *)
(* at rest is on the screen.  Of its controller, for any sessions, rays and *)
(* workspaces and any saved trees: when nothing is under way, what is shown *)
(* is the conversation the next message goes to.                            *)
EXTENDS RightPanel, Desktop, SequenceTheorems, TLAPS

Everyone == Threads \cup {UI}

(***************************************************************************)
(* The invariant.  What is pushed was made, the panel knows the branch      *)
(* unless someone else changed it, and what a toast is going to say is true *)
(* already when its commit has returned.                                    *)
(***************************************************************************)
IsRepo(r) ==
  /\ DOMAIN r = {"head", "loose", "staged", "made", "pushed"}
  /\ r.head \in Branches
  /\ r.made \in [Branches -> Nat] /\ r.pushed \in [Branches -> Nat]

PushedWasMade(r) == \A b \in Branches : r.pushed[b] <= r.made[b]

Repos == /\ DOMAIN repo = Workspaces
         /\ \A w \in Workspaces : IsRepo(repo[w]) /\ PushedWasMade(repo[w])

CtlFields == {"ws", "selected", "paths", "tabs", "active", "reviewFilter", "treeFilter"}

Panels == /\ DOMAIN panel = {"ws", "branch", "files", "diffs", "tree"}
          /\ panel.ws \in Workspaces
          /\ DOMAIN ctl = CtlFields
          /\ ctl.ws \in Workspaces
          /\ moved \in [Workspaces -> BOOLEAN]

BranchIsKnown == ~moved[panel.ws] => panel.branch \in {NoBranch, repo[panel.ws].head}

\* A claim that is true of the repositories rs stays true while pushes go on.
TrueOf(rs, claim) ==
  claim.known =>
    /\ claim.made = claim.branch
    /\ claim.ws \in Workspaces /\ claim.branch \in Branches /\ claim.number \in Nat
    /\ rs[claim.ws].pushed[claim.branch] >= claim.number

StepOK(rs, step) ==
  /\ step.do = "checkout" => step.branch \in Branches
  /\ step.do = "refresh" => \A claim \in step.claim : TrueOf(rs, claim)

Program(rs, p) ==
  /\ p \in Seq({p[i] : i \in DOMAIN p})
  /\ \A i \in DOMAIN p : StepOK(rs, p[i])

Programs(rs, f) == /\ DOMAIN f = Everyone
                   /\ \A t \in Everyone : Program(rs, f[t])

Told == \A claim \in told : TrueOf(repo, claim)

PanelInv == Repos /\ Panels /\ BranchIsKnown /\ Programs(repo, todo) /\ Told
-----------------------------------------------------------------------------
(* Programs *)

(* A sequence whose members come from some set is one of its own members.  *)
LEMMA OwnMembers == ASSUME NEW S, NEW p \in Seq(S) PROVE p \in Seq({p[i] : i \in DOMAIN p})
<1> DEFINE T == {p[i] : i \in DOMAIN p}
<1>1. PICK n \in Nat : p \in [1..n -> S]
  BY SeqDef
<1>2. p \in [1..n -> T]
  BY <1>1
<1> QED
  BY <1>2, SeqDef

(* Nothing to do, and one step.                                            *)
LEMMA EmptyRuns == ASSUME NEW rs PROVE Program(rs, <<>>)
BY DEF Program

LEMMA OneStepRuns == ASSUME NEW rs, NEW s, StepOK(rs, s) PROVE Program(rs, <<s>>)
<1> DEFINE p == <<s>>
<1>1. p \in Seq({s}) /\ DOMAIN p = {1} /\ p[1] = s
  OBVIOUS
<1>2. p \in Seq({p[i] : i \in DOMAIN p})
  BY <1>1, OwnMembers
<1> QED
  BY <1>1, <1>2 DEF Program

(* Two steps and three.                                                    *)
LEMMA ShortRuns ==
  ASSUME NEW rs, NEW s, NEW t, StepOK(rs, s), StepOK(rs, t)
  PROVE  /\ Program(rs, <<s, t>>)
         /\ \A u : StepOK(rs, u) => Program(rs, <<s, t, u>>)
<1>1. Program(rs, <<s, t>>)
  <2> DEFINE p == <<s, t>>
  <2>1. p \in Seq({s, t}) /\ DOMAIN p = 1..2 /\ p[1] = s /\ p[2] = t
    OBVIOUS
  <2> HIDE DEF p
  <2>2. p \in Seq({p[i] : i \in DOMAIN p}) /\ \A i \in DOMAIN p : StepOK(rs, p[i])
    BY <2>1, OwnMembers
  <2>3. Program(rs, p)
    BY <2>2 DEF Program
  <2> QED
    BY <2>3 DEF p
<1>2. ASSUME NEW u, StepOK(rs, u) PROVE Program(rs, <<s, t, u>>)
  <2> DEFINE p == <<s, t, u>>
  <2>1. p \in Seq({s, t, u}) /\ DOMAIN p = 1..3 /\ p[1] = s /\ p[2] = t /\ p[3] = u
    OBVIOUS
  <2> HIDE DEF p
  <2>2. p \in Seq({p[i] : i \in DOMAIN p}) /\ \A i \in DOMAIN p : StepOK(rs, p[i])
    BY <1>2, <2>1, OwnMembers
  <2>3. Program(rs, p)
    BY <2>2 DEF Program
  <2> QED
    BY <2>3 DEF p
<1> QED
  BY <1>1, <1>2

(* What remains of a program, and two programs one after the other.        *)
LEMMA TailRuns ==
  ASSUME NEW rs, NEW p, Program(rs, p), p # <<>>
  PROVE  StepOK(rs, Head(p)) /\ Program(rs, Tail(p))
<1> DEFINE T == {p[i] : i \in DOMAIN p}
<1>1. p \in Seq(T)
  BY DEF Program
<1>2. Head(p) \in T /\ Tail(p) \in Seq(T)
  BY <1>1, HeadTailProperties
<1>3. \A i \in DOMAIN Tail(p) : Tail(p)[i] \in T
  BY <1>2
<1>4. \A x \in T : StepOK(rs, x)
  BY DEF Program
<1>5. Tail(p) \in Seq({Tail(p)[i] : i \in DOMAIN Tail(p)})
  BY <1>2, OwnMembers
<1> HIDE DEF T
<1>6. Program(rs, Tail(p))
  BY <1>3, <1>4, <1>5 DEF Program
<1> QED
  BY <1>2, <1>4, <1>6

LEMMA JoinRuns ==
  ASSUME NEW rs, NEW p, NEW q, Program(rs, p), Program(rs, q)
  PROVE  Program(rs, p \o q)
<1> DEFINE T == {p[i] : i \in DOMAIN p} \cup {q[i] : i \in DOMAIN q}
           r == p \o q
<1>1. p \in Seq(T) /\ q \in Seq(T)
  BY SeqDef DEF Program
<1>2. \A x \in T : StepOK(rs, x)
  BY DEF Program
<1> HIDE DEF T
<1>3. r \in Seq(T)
  BY <1>1
<1> HIDE DEF r
<1>4. \A i \in DOMAIN r : r[i] \in T
  BY <1>3
<1>5. r \in Seq({r[i] : i \in DOMAIN r})
  BY <1>3, OwnMembers
<1>6. Program(rs, r)
  BY <1>2, <1>4, <1>5 DEF Program
<1> QED
  BY <1>6 DEF r

(* While pushes go on, a program stays what it is.                         *)
Grows(rs, new) ==
  \A w \in Workspaces, b \in Branches :
    /\ rs[w].pushed[b] \in Nat /\ new[w].pushed[b] \in Nat
    /\ new[w].pushed[b] >= rs[w].pushed[b]

LEMMA ClaimStays ==
  ASSUME NEW rs, NEW new, Grows(rs, new), NEW c, TrueOf(rs, c)
  PROVE  TrueOf(new, c)
BY DEF Grows, TrueOf

LEMMA ProgramStays ==
  ASSUME NEW rs, NEW new, Grows(rs, new), NEW p, Program(rs, p)
  PROVE  Program(new, p)
<1>1. ASSUME NEW i \in DOMAIN p PROVE StepOK(new, p[i])
  BY ClaimStays DEF Program, StepOK
<1> QED
  BY <1>1 DEF Program

(* What the window publishes, and a refresh.                               *)
LEMMA PlainRuns ==
  ASSUME NEW rs
  PROVE  /\ Program(rs, PublishReview) /\ Program(rs, PublishTree)
         /\ Program(rs, PublishTabs) /\ Program(rs, Refresh)
         /\ Program(rs, <<Do("diff")>>) /\ Program(rs, <<Do("post")>>)
<1>1. ASSUME NEW s, s.do \notin {"checkout", "refresh"} PROVE StepOK(rs, s)
  BY <1>1 DEF StepOK
<1>2. /\ StepOK(rs, Do("load")) /\ StepOK(rs, Do("review")) /\ StepOK(rs, Do("post"))
      /\ StepOK(rs, Do("tree")) /\ StepOK(rs, Do("paths")) /\ StepOK(rs, Do("tabs"))
      /\ StepOK(rs, Do("diff"))
  BY <1>1 DEF Do
<1>3. ASSUME NEW s, NEW t, StepOK(rs, s), StepOK(rs, t) PROVE Program(rs, <<s, t>>)
  BY <1>3, ShortRuns
<1>4. Program(rs, PublishReview) /\ Program(rs, PublishTabs)
  BY <1>2, <1>3 DEF PublishReview, PublishTabs
<1>5. Program(rs, PublishTree)
  BY <1>2, ShortRuns DEF PublishTree
<1>6. Program(rs, <<Do("load")>>) /\ Program(rs, <<Do("diff")>>) /\ Program(rs, <<Do("post")>>)
  BY <1>2, OneStepRuns
<1>7. Program(rs, Refresh)
  BY <1>4, <1>5, <1>6, JoinRuns DEF Refresh
<1> QED
  BY <1>4, <1>5, <1>6, <1>7
-----------------------------------------------------------------------------
(* Threads *)

(* A thread that gets another program.                                     *)
LEMMA NewProgram ==
  ASSUME NEW rs, NEW f, Programs(rs, f), NEW t \in Everyone, NEW p, Program(rs, p)
  PROVE  Programs(rs, [f EXCEPT ![t] = p])
BY DEF Programs

(* A thread that has taken a step, and one that has started another.       *)
LEMMA RestRuns ==
  ASSUME NEW rs, Programs(rs, todo), NEW t \in Everyone, NEW name, At(t, name)
  PROVE  Programs(rs, Rest(t)) /\ StepOK(rs, Head(todo[t]))
<1>1. Program(rs, Tail(todo[t])) /\ StepOK(rs, Head(todo[t]))
  BY TailRuns DEF Programs, At
<1> QED
  BY <1>1, NewProgram DEF Rest

LEMMA SpawnRuns ==
  ASSUME NEW rs, Programs(rs, todo), NEW t \in Everyone, NEW name, At(t, name),
         NEW s \in Free(t), NEW p, Program(rs, p), Spawn(t, s, p)
  PROVE  Programs(rs, todo')
<1>1. Programs(rs, Rest(t)) /\ s \in Everyone
  BY RestRuns DEF Free, Everyone
<1>2. Programs(rs, [Rest(t) EXCEPT ![s] = p])
  BY <1>1, NewProgram
<1> QED
  BY <1>2 DEF Spawn
-----------------------------------------------------------------------------
(* Steps *)

(* A step that changes neither a repository nor the branch the panel knows. *)
LEMMA CalmKeeps ==
  ASSUME PanelInv, UNCHANGED <<repo, told, moved>>,
         DOMAIN panel' = DOMAIN panel, panel'.ws = panel.ws, panel'.branch = panel.branch,
         DOMAIN ctl' = DOMAIN ctl, ctl'.ws \in Workspaces, Programs(repo, todo')
  PROVE  PanelInv'
BY DEF PanelInv, Repos, Panels, BranchIsKnown, Programs, Program, StepOK, Told, TrueOf

(* What a program of the user's calls may be made of.                      *)
LEMMA CallRuns ==
  ASSUME PanelInv, NEW p, Program(repo, p)
  PROVE  /\ OnThread(p) => Programs(repo, todo')
         /\ Here(p) => Programs(repo, todo')
BY NewProgram DEF PanelInv, OnThread, Here, Everyone

(* git: what one command does to a repository.                             *)
Pushes(r, new) == \A b \in Branches : new.pushed[b] >= r.pushed[b]
Advances(r, new) == IsRepo(new) /\ PushedWasMade(new) /\ new.head = r.head /\ Pushes(r, new)

LEMMA GitSteps ==
  ASSUME NEW r, IsRepo(r), PushedWasMade(r)
  PROVE  /\ Advances(r, Staged(r)) /\ Advances(r, Committed(r))
         /\ \A x : Advances(r, Restored(r, x))
         /\ \A b : /\ Advances(r, Pushed(r, b))
                   /\ b \in Branches => Pushed(r, b).pushed[b] = r.made[b]
<1> USE DEF IsRepo, PushedWasMade, Pushes, Advances
<1>1. Advances(r, Staged(r))
  BY DEF Staged
<1>2. ASSUME NEW c, c = Committed(r) PROVE Advances(r, c)
  <2>1. /\ DOMAIN c = DOMAIN r /\ c.head = r.head /\ c.pushed = r.pushed
        /\ c.made = [r.made EXCEPT ![r.head] = r.made[r.head] + 1]
    BY <1>2 DEF Committed
  <2>2. /\ c.made \in [Branches -> Nat]
        /\ \A b \in Branches : c.made[b] >= r.made[b]
    BY <2>1
  <2> QED
    BY <2>1, <2>2
<1>3. ASSUME NEW x PROVE Advances(r, Restored(r, x))
  BY DEF Restored
<1>4. ASSUME NEW b, NEW c, c = Pushed(r, b)
      PROVE  Advances(r, c) /\ (b \in Branches => c.pushed[b] = r.made[b])
  <2>1. /\ DOMAIN c = DOMAIN r /\ c.head = r.head /\ c.made = r.made
        /\ c.pushed = [r.pushed EXCEPT ![b] = r.made[b]]
    BY <1>4 DEF Pushed
  <2>2. CASE b \in Branches
    BY <2>1, <2>2
  <2>3. CASE b \notin Branches
    <3>1. [r.pushed EXCEPT ![b] = r.made[b]] = r.pushed
      BY <2>3
    <3>2. c.pushed = r.pushed
      BY <2>1, <3>1
    <3>3. DOMAIN c = DOMAIN r /\ c.head = r.head /\ c.made = r.made
      BY <2>1
    <3> QED
      BY ONLY <2>3, <3>2, <3>3, IsRepo(r), PushedWasMade(r)
         DEF IsRepo, PushedWasMade, Pushes, Advances
  <2> QED
    BY <2>2, <2>3
<1> QED
  BY ONLY <1>1, <1>2, <1>3, <1>4

LEMMA AdvancesOn ==
  ASSUME NEW r, NEW s, NEW u, IsRepo(r), Advances(r, s), Advances(s, u)
  PROVE  Advances(r, u)
BY DEF Advances, Pushes, IsRepo

(* One repository changes and keeps its branch, or the panel learns of it;  *)
(* what is pushed stays pushed.                                            *)
LEMMA GitKeeps ==
  ASSUME PanelInv, NEW w \in Workspaces, NEW r, IsRepo(r), PushedWasMade(r),
         repo' = [repo EXCEPT ![w] = r], Pushes(repo[w], r),
         UNCHANGED <<told, ctl>>, moved' \in [Workspaces -> BOOLEAN],
         DOMAIN panel' = DOMAIN panel, panel'.ws = panel.ws,
         BranchIsKnown', Programs(repo', todo')
  PROVE  PanelInv'
<1>1. Grows(repo, repo')
  BY DEF PanelInv, Repos, IsRepo, Grows, Pushes
<1>2. Told'
  BY <1>1, ClaimStays DEF PanelInv, Told
<1>3. Repos' /\ Panels'
  BY DEF PanelInv, Repos, Panels
<1> QED
  BY <1>2, <1>3 DEF PanelInv
-----------------------------------------------------------------------------
(* PushedIsCommitted *)

LEMMA PanelInit == Init => PanelInv
<1> SUFFICES ASSUME Init PROVE PanelInv
  OBVIOUS
<1>1. (CHOOSE b \in Branches : TRUE) \in Branches /\ (CHOOSE w \in Workspaces : TRUE) \in Workspaces
  BY PanelAssumption
<1>2. Repos
  BY <1>1 DEF Init, Repos, IsRepo, PushedWasMade
<1>3. Panels /\ BranchIsKnown /\ Told
  BY <1>1 DEF Init, Panels, CtlFields, BranchIsKnown, Told, NoPanel
<1>4. Programs(repo, todo)
  BY EmptyRuns, PlainRuns DEF Init, Programs, Everyone
<1> QED
  BY <1>2, <1>3, <1>4 DEF PanelInv

(* The steps of a thread that publish, fold and read.                      *)
LEMMA PublishingKeeps ==
  ASSUME PanelInv, NEW t \in Everyone,
         \/ Copy(t) \/ KeepPaths(t) \/ Post(t) \/ PublishDiff(t) \/ DiffLines(t)
         \/ ToggleHunk(t) \/ ToggleTree(t) \/ ReadTreeFile(t)
  PROVE  PanelInv'
<1>1. Programs(repo, Rest(t)) \/ \A name : ~At(t, name)
  BY RestRuns DEF PanelInv
<1>2. CASE Copy(t) \/ KeepPaths(t) \/ Post(t) \/ ToggleHunk(t) \/ ToggleTree(t) \/ ReadTreeFile(t)
  <2>1. todo' = Rest(t) /\ \E name : At(t, name)
    BY <1>2 DEF Copy, KeepPaths, Post, ToggleHunk, ToggleTree, ReadTreeFile
  <2>2. /\ UNCHANGED <<repo, told, moved>>
        /\ DOMAIN panel' = DOMAIN panel /\ panel'.ws = panel.ws /\ panel'.branch = panel.branch
        /\ DOMAIN ctl' = DOMAIN ctl /\ ctl'.ws = ctl.ws
    BY <1>2 DEF Copy, KeepPaths, Post, ToggleHunk, ToggleTree, ReadTreeFile, Ghosts,
                PanelInv, Panels, CtlFields
  <2> QED
    BY <1>1, <2>1, <2>2, CalmKeeps DEF PanelInv, Panels
<1>3. CASE PublishDiff(t)
  <2>1. Programs(repo, todo')
    <3>1. CASE ctl.selected = NoFile
      BY <1>1, <1>3, <3>1 DEF PublishDiff
    <3>2. CASE ctl.selected # NoFile
      <4> DEFINE p == <<[do |-> "lines", file |-> ctl.selected]>>
      <4>1. Program(repo, p)
        <5>1. StepOK(repo, [do |-> "lines", file |-> ctl.selected])
          BY DEF StepOK
        <5> QED
          BY <5>1, OneStepRuns
      <4>2. PICK s \in Free(t) : Spawn(t, s, p)
        BY <1>3, <3>2 DEF PublishDiff
      <4> HIDE DEF p
      <4> QED
        BY <1>3, <4>1, <4>2, SpawnRuns DEF PublishDiff, PanelInv
    <3> QED
      BY <3>1, <3>2
  <2> QED
    BY <1>3, <2>1, CalmKeeps DEF PublishDiff, Ghosts, PanelInv, Panels
<1>4. CASE DiffLines(t)
  <2>1. Programs(repo, [todo EXCEPT ![t] = <<Do("post")>>])
    BY PlainRuns, NewProgram DEF PanelInv
  <2> QED
    BY <1>4, <2>1, CalmKeeps DEF DiffLines, Ghosts, PanelInv, Panels
<1> QED
  BY <1>2, <1>3, <1>4

(* A refresh of the panel, and the toast after it.                         *)
LEMMA LoadKeeps == ASSUME PanelInv, NEW t \in Everyone, LoadPanel(t) PROVE PanelInv'
<1>1. Programs(repo, todo')
  BY RestRuns DEF PanelInv, LoadPanel
<1>2. /\ panel'.ws = ctl.ws /\ panel'.branch = repo[ctl.ws].head
      /\ DOMAIN panel' = DOMAIN panel
      /\ DOMAIN ctl' = DOMAIN ctl /\ ctl'.ws = ctl.ws
      /\ moved' = [moved EXCEPT ![ctl.ws] = FALSE]
      /\ UNCHANGED <<repo, told>>
  BY DEF LoadPanel, Look, PanelInv, Panels
<1> QED
  BY <1>1, <1>2 DEF PanelInv, Repos, Panels, BranchIsKnown, Programs, Program, StepOK, Told, TrueOf

LEMMA ToastKeeps == ASSUME PanelInv, NEW t \in Everyone, RefreshAndTell(t) PROVE PanelInv'
<1>1. Programs(repo, todo')
  BY SpawnRuns, PlainRuns DEF PanelInv, RefreshAndTell
<1>2. StepOK(repo, Head(todo[t])) /\ Head(todo[t]).do = "refresh"
  BY RestRuns DEF PanelInv, RefreshAndTell, At
<1>3. Told'
  BY <1>2 DEF RefreshAndTell, StepOK, PanelInv, Told, TrueOf
<1> QED
  BY <1>1, <1>3 DEF RefreshAndTell, PanelInv, Repos, Panels, BranchIsKnown, Programs, Program,
                    StepOK, TrueOf

(* What a git command leaves to do.                                        *)
Leaves(t, claim) ==
  \/ todo' = [todo EXCEPT ![t] = <<>>]
  \/ todo' = [todo EXCEPT ![t] = <<[do |-> "refresh", claim |-> claim]>>]

LEMMA OutcomeRuns ==
  ASSUME NEW rs, Programs(rs, todo), NEW t \in Everyone, NEW claim,
         \A c \in claim : TrueOf(rs, c), Leaves(t, claim)
  PROVE  Programs(rs, todo')
<1> DEFINE p == <<[do |-> "refresh", claim |-> claim]>>
<1>1. StepOK(rs, [do |-> "refresh", claim |-> claim])
  BY DEF StepOK
<1>2. Program(rs, p)
  BY <1>1, OneStepRuns
<1> HIDE DEF p
<1>3. Programs(rs, [todo EXCEPT ![t] = p]) /\ Programs(rs, [todo EXCEPT ![t] = <<>>])
  BY <1>2, EmptyRuns, NewProgram
<1> QED
  BY <1>3 DEF Leaves, p

(* What was left to do while one repository changed.                       *)
LEMMA WaitingRuns ==
  ASSUME PanelInv, NEW w \in Workspaces, NEW r, IsRepo(r), NEW new,
         new = [repo EXCEPT ![w] = r], Pushes(repo[w], r)
  PROVE  Programs(new, todo)
<1>1. Grows(repo, new)
  BY DEF PanelInv, Repos, IsRepo, Grows, Pushes
<1> QED
  BY <1>1, ProgramStays DEF PanelInv, Programs

LEMMA CheckoutKeeps == ASSUME PanelInv, NEW t \in Everyone, Checkout(t) PROVE PanelInv'
<1> DEFINE w == panel.ws
<1>1. PICK ok \in BOOLEAN :
        /\ repo' = IF ok THEN [repo EXCEPT ![w].head = Head(todo[t]).branch] ELSE repo
        /\ panel' = IF ok THEN [panel EXCEPT !.branch = Head(todo[t]).branch] ELSE panel
        /\ Leaves(t, {})
  BY DEF Checkout, Outcome, Leaves
<1>2. w \in Workspaces /\ IsRepo(repo[w]) /\ PushedWasMade(repo[w])
  BY DEF PanelInv, Repos, Panels
<1>3. UNCHANGED <<told, ctl, moved>>
  BY DEF Checkout, Ghosts
<1>4. Head(todo[t]).branch \in Branches
  BY RestRuns DEF Checkout, At, PanelInv, StepOK
<1>5. CASE ok
  <2> DEFINE r == [repo[w] EXCEPT !.head = Head(todo[t]).branch]
  <2>1. IsRepo(r) /\ PushedWasMade(r) /\ r.pushed = repo[w].pushed
        /\ r.head = Head(todo[t]).branch
    BY <1>2, <1>4 DEF IsRepo, PushedWasMade
  <2>2. repo' = [repo EXCEPT ![w] = r]
    BY <1>1, <1>5
  <2> HIDE DEF r
  <2>3. Pushes(repo[w], r)
    BY <1>2, <2>1 DEF IsRepo, Pushes
  <2>4. Programs(repo', todo)
    BY <1>2, <2>1, <2>2, <2>3, WaitingRuns
  <2>5. Programs(repo', todo')
    BY <1>1, <2>4, OutcomeRuns
  <2>6. /\ DOMAIN panel' = DOMAIN panel /\ panel'.ws = w
        /\ panel'.branch = Head(todo[t]).branch
    BY <1>1, <1>5 DEF PanelInv, Panels
  <2>7. BranchIsKnown'
    BY <1>2, <2>1, <2>2, <2>6 DEF BranchIsKnown, PanelInv, Repos
  <2>8. moved' \in [Workspaces -> BOOLEAN]
    BY <1>3 DEF PanelInv, Panels
  <2> QED
    BY <1>2, <1>3, <2>1, <2>2, <2>3, <2>5, <2>6, <2>7, <2>8, GitKeeps
<1>6. CASE ~ok
  BY <1>1, <1>3, <1>6, OutcomeRuns, CalmKeeps DEF PanelInv, Panels
<1> QED
  BY <1>5, <1>6

(* A command that leaves the branch of the panel's workspace alone.        *)
LEMMA CommandKeeps ==
  ASSUME PanelInv, NEW t \in Everyone, NEW r, Advances(repo[panel.ws], r),
         repo' = [repo EXCEPT ![panel.ws] = r],
         UNCHANGED <<told, ctl, panel, moved>>,
         NEW claim, \A c \in claim : TrueOf(repo', c), Leaves(t, claim)
  PROVE  PanelInv'
<1>1. panel.ws \in Workspaces
  BY DEF PanelInv, Panels
<1>2. Programs(repo', todo)
  BY <1>1, WaitingRuns DEF Advances
<1>3. Programs(repo', todo')
  BY <1>2, OutcomeRuns
<1>4. BranchIsKnown'
  BY <1>1 DEF PanelInv, BranchIsKnown, Repos, Advances
<1>5. moved' \in [Workspaces -> BOOLEAN]
  BY DEF PanelInv, Panels
<1> QED
  BY <1>1, <1>3, <1>4, <1>5, GitKeeps DEF Advances

(* A command that git refuses.                                             *)
LEMMA RefusedKeeps ==
  ASSUME PanelInv, NEW t \in Everyone, UNCHANGED <<repo, told, ctl, panel, moved>>,
         Leaves(t, {})
  PROVE  PanelInv'
<1>1. Programs(repo, todo')
  BY OutcomeRuns DEF PanelInv
<1> QED
  BY <1>1, CalmKeeps DEF PanelInv, Panels

LEMMA StageKeeps == ASSUME PanelInv, NEW t \in Everyone, StageAll(t) PROVE PanelInv'
<1>1. IsRepo(repo[panel.ws]) /\ PushedWasMade(repo[panel.ws])
  BY DEF PanelInv, Repos, Panels
<1>2. Advances(repo[panel.ws], Staged(repo[panel.ws]))
  BY <1>1, GitSteps
<1>3. /\ Leaves(t, {}) /\ UNCHANGED <<told, ctl, panel, moved>>
      /\ \/ repo' = repo
         \/ repo' = [repo EXCEPT ![panel.ws] = Staged(repo[panel.ws])]
  BY DEF StageAll, Outcome, Leaves, Ghosts
<1>4. CASE repo' = repo
  BY <1>3, <1>4, RefusedKeeps
<1> QED
  BY <1>2, <1>3, <1>4, CommandKeeps

LEMMA DiscardKeeps == ASSUME PanelInv, NEW t \in Everyone, DiscardUnstaged(t) PROVE PanelInv'
<1>1. IsRepo(repo[panel.ws]) /\ PushedWasMade(repo[panel.ws])
  BY DEF PanelInv, Repos, Panels
<1>2. PICK kept : repo' = [repo EXCEPT ![panel.ws] = Restored(repo[panel.ws], kept)]
  BY DEF DiscardUnstaged
<1>3. Advances(repo[panel.ws], Restored(repo[panel.ws], kept))
  BY <1>1, GitSteps
<1>4. Leaves(t, {}) /\ UNCHANGED <<told, ctl, panel, moved>>
  BY DEF DiscardUnstaged, Outcome, Leaves, Ghosts
<1> QED
  BY <1>2, <1>3, <1>4, CommandKeeps

LEMMA CommitKeeps == ASSUME PanelInv, NEW t \in Everyone, CommitAndPush(t) PROVE PanelInv'
<1> DEFINE w == panel.ws
           staged == Staged(repo[w])
           done == Committed(staged)
           says == [ws |-> w, branch |-> panel.branch, made |-> staged.head,
                    number |-> done.made[staged.head], known |-> ~moved[w]]
           pushed == Pushed(done, panel.branch)
<1>1. w \in Workspaces /\ IsRepo(repo[w]) /\ PushedWasMade(repo[w])
  BY DEF PanelInv, Repos, Panels
<1>2. UNCHANGED <<told, ctl, panel, moved>>
  BY DEF CommitAndPush, Ghosts
<1>3. \/ repo' = repo /\ Leaves(t, {})
      \/ repo' = [repo EXCEPT ![w] = staged] /\ Leaves(t, {})
      \/ repo' = [repo EXCEPT ![w] = done] /\ Leaves(t, {})
      \/ /\ panel.branch # NoBranch
         /\ repo' = [repo EXCEPT ![w] = pushed] /\ Leaves(t, {says})
  BY DEF CommitAndPush, Outcome, Leaves
<1>4. /\ says.ws = w /\ says.branch = panel.branch /\ says.made = staged.head
      /\ says.number = done.made[staged.head] /\ (says.known => ~moved[w])
  OBVIOUS
<1>5. Advances(repo[w], staged)
  BY <1>1, GitSteps
<1> HIDE DEF staged, says
<1>6. Advances(staged, done)
  BY <1>5, GitSteps DEF Advances
<1>7. Advances(repo[w], done)
  BY <1>1, <1>5, <1>6, AdvancesOn
<1> HIDE DEF done
<1>8. /\ Advances(done, pushed)
      /\ panel.branch \in Branches => pushed.pushed[panel.branch] = done.made[panel.branch]
  BY <1>6, GitSteps DEF Advances
<1>9. Advances(repo[w], pushed)
  BY <1>1, <1>7, <1>8, AdvancesOn
<1> HIDE DEF pushed
<1>10. panel.branch # NoBranch => TrueOf([repo EXCEPT ![w] = pushed], says)
  <2>1. ~moved[w] => panel.branch \in {NoBranch, repo[w].head}
    BY DEF PanelInv, BranchIsKnown
  <2>2. staged.head = repo[w].head /\ repo[w].head \in Branches /\ DOMAIN repo = Workspaces
        /\ done.made \in [Branches -> Nat]
    BY <1>1, <1>5, <1>7 DEF Advances, IsRepo, PanelInv, Repos
  <2>3. [repo EXCEPT ![w] = pushed][w] = pushed
    BY <1>1, <2>2
  <2>4. ASSUME panel.branch # NoBranch, ~moved[w]
        PROVE  /\ staged.head = panel.branch /\ panel.branch \in Branches
               /\ pushed.pushed[panel.branch] = done.made[panel.branch]
               /\ done.made[panel.branch] \in Nat
    BY <1>8, <2>1, <2>2, <2>4
  <2> DEFINE rs == [repo EXCEPT ![w] = pushed]
  <2> HIDE DEF rs, w
  <2>5. rs[w].pushed = pushed.pushed
    BY <2>3 DEF rs
  <2>6. w \in Workspaces
    BY <1>1
  <2>7. panel.branch # NoBranch => TrueOf(rs, says)
    BY <1>4, <2>4, <2>5, <2>6 DEF TrueOf
  <2> QED
    BY <2>7 DEF rs, w
<1>11. CASE repo' = [repo EXCEPT ![w] = staged] /\ Leaves(t, {})
  BY <1>2, <1>5, <1>11, CommandKeeps
<1>12. CASE repo' = [repo EXCEPT ![w] = done] /\ Leaves(t, {})
  BY <1>2, <1>7, <1>12, CommandKeeps
<1>13. CASE /\ panel.branch # NoBranch
            /\ repo' = [repo EXCEPT ![w] = pushed] /\ Leaves(t, {says})
  <2>1. \A c \in {says} : TrueOf(repo', c)
    BY <1>10, <1>13
  <2> QED
    BY <1>2, <1>9, <1>13, <2>1, CommandKeeps
<1>14. CASE repo' = repo /\ Leaves(t, {})
  BY <1>2, <1>14, RefusedKeeps
<1> QED
  BY <1>3, <1>11, <1>12, <1>13, <1>14

LEMMA PanelKept == PanelInv /\ [Next]_vars => PanelInv'
<1> SUFFICES ASSUME PanelInv, [Next]_vars PROVE PanelInv'
  OBVIOUS
<1>1. ASSUME NEW t \in Everyone, Step(t) PROVE PanelInv'
  BY ONLY <1>1, PanelInv, PublishingKeeps, LoadKeeps, ToastKeeps, CheckoutKeeps, StageKeeps, DiscardKeeps,
     CommitKeeps DEF Step
<1>2. /\ DOMAIN ctl = CtlFields /\ ctl.ws \in Workspaces
      /\ DOMAIN panel = {"ws", "branch", "files", "diffs", "tree"}
  BY DEF PanelInv, Panels
<1>3. ASSUME NEW kind, Call(kind), DOMAIN ctl' = DOMAIN ctl, ctl'.ws \in Workspaces, Programs(repo, todo')
      PROVE  PanelInv'
  BY <1>3, CalmKeeps DEF Call
<1>4. CASE SetWorkspace
  <2>1. DOMAIN ctl' = DOMAIN ctl /\ ctl'.ws \in Workspaces
    BY <1>2, <1>4 DEF SetWorkspace
  <2> QED
    BY <1>3, <1>4, <2>1, PlainRuns, CallRuns DEF SetWorkspace
<1>5. Program(repo, PublishReview \o <<Do("diff")>>)
  BY PlainRuns, JoinRuns
<1>6. CASE SelectReviewFile
  <2>1. DOMAIN ctl' = DOMAIN ctl /\ ctl'.ws = ctl.ws
    BY <1>2, <1>6 DEF SelectReviewFile
  <2> QED
    BY <1>2, <1>3, <1>5, <1>6, <2>1, CallRuns DEF SelectReviewFile
<1>7. CASE SelectHunk
  <2>1. PICK h : OnThread(<<[do |-> "hunk", file |-> ctl.selected, hunk |-> h], Do("diff")>>)
    BY <1>7 DEF SelectHunk
  <2>2. /\ StepOK(repo, [do |-> "hunk", file |-> ctl.selected, hunk |-> h])
        /\ StepOK(repo, Do("diff"))
    BY DEF StepOK, Do
  <2>3. Program(repo, <<[do |-> "hunk", file |-> ctl.selected, hunk |-> h], Do("diff")>>)
    BY <2>2, ShortRuns
  <2>4. Programs(repo, todo')
    BY <2>1, <2>3, CallRuns
  <2> QED
    BY <1>2, <1>3, <1>7, <2>4 DEF SelectHunk
<1>8. CASE SelectTreeItem
  <2>1. PICK path : \/ OnThread(<<[do |-> "toggle", path |-> path]>> \o PublishTree)
                    \/ OnThread(<<[do |-> "file", path |-> path], Do("post")>>)
    BY <1>8 DEF SelectTreeItem
  <2>2. /\ StepOK(repo, [do |-> "toggle", path |-> path])
        /\ StepOK(repo, [do |-> "file", path |-> path]) /\ StepOK(repo, Do("post"))
    BY DEF StepOK, Do
  <2>3. /\ Program(repo, <<[do |-> "toggle", path |-> path]>> \o PublishTree)
        /\ Program(repo, <<[do |-> "file", path |-> path], Do("post")>>)
    BY <2>2, OneStepRuns, ShortRuns, PlainRuns, JoinRuns
  <2>4. Programs(repo, todo')
    BY <2>1, <2>3, CallRuns
  <2> QED
    BY <1>2, <1>3, <1>8, <2>4 DEF SelectTreeItem
<1>9. CASE GitCall
  <2>1. ASSUME NEW b \in Branches PROVE Program(repo, <<[do |-> "checkout", branch |-> b]>>)
    BY OneStepRuns DEF StepOK
  <2>2. ASSUME NEW message, NEW push
        PROVE  Program(repo, <<[do |-> "commit", message |-> message, push |-> push]>>)
    BY OneStepRuns DEF StepOK
  <2>3. Program(repo, <<Do("stage")>>) /\ Program(repo, <<Do("discard")>>)
    BY OneStepRuns DEF StepOK, Do
  <2>4. Programs(repo, todo')
    BY <1>9, <2>1, <2>2, <2>3, CallRuns DEF GitCall
  <2> QED
    BY <1>2, <1>3, <1>9, <2>4 DEF GitCall
<1>10. CASE OpenTab \/ CloseTab
  <2>1. DOMAIN ctl' = DOMAIN ctl /\ ctl'.ws = ctl.ws
    BY <1>2, <1>10 DEF OpenTab, CloseTab, CtlFields
  <2>2. /\ Program(repo, PublishTabs \o (PublishReview \o <<Do("diff")>>))
        /\ Program(repo, PublishTabs \o <<>>) /\ Program(repo, PublishTabs)
    BY <1>5, PlainRuns, EmptyRuns, JoinRuns
  <2>3. Programs(repo, todo')
    BY <1>10, <2>2, CallRuns DEF OpenTab, CloseTab
  <2> QED
    BY <1>2, <1>3, <1>10, <2>1, <2>3 DEF OpenTab, CloseTab
<1>11. CASE SetReviewFilter \/ SetTreeFilter
  <2>1. DOMAIN ctl' = DOMAIN ctl /\ ctl'.ws = ctl.ws
    BY <1>2, <1>11 DEF SetReviewFilter, SetTreeFilter, CtlFields
  <2>2. Programs(repo, todo')
    BY <1>11, PlainRuns, CallRuns DEF SetReviewFilter, SetTreeFilter
  <2> QED
    BY <1>2, <1>3, <1>11, <2>1, <2>2 DEF SetReviewFilter, SetTreeFilter
<1>12. CASE Outside
  <2> DEFINE w == ctl.ws
  <2>1. w \in Workspaces /\ IsRepo(repo[w]) /\ PushedWasMade(repo[w])
    BY <1>2 DEF PanelInv, Repos
  <2>2. UNCHANGED <<panel, ctl, todo, told>>
    BY <1>12 DEF Outside
  <2>3. CASE \E b \in Branches : /\ repo' = [repo EXCEPT ![w].head = b]
                               /\ moved' = [moved EXCEPT ![w] = TRUE]
    <3>1. PICK b \in Branches : /\ repo' = [repo EXCEPT ![w].head = b]
                               /\ moved' = [moved EXCEPT ![w] = TRUE]
      BY <2>3
    <3>2. PICK r : r = [repo[w] EXCEPT !.head = b]
      OBVIOUS
    <3>3. /\ IsRepo(r) /\ PushedWasMade(r) /\ Pushes(repo[w], r)
          /\ repo' = [repo EXCEPT ![w] = r]
      BY <2>1, <3>1, <3>2 DEF IsRepo, PushedWasMade, Pushes
    <3>4. Programs(repo', todo')
      BY <2>1, <2>2, <3>3, WaitingRuns
    <3>5. BranchIsKnown' /\ moved' \in [Workspaces -> BOOLEAN]
      BY <2>1, <2>2, <3>1, <3>3 DEF BranchIsKnown, PanelInv, Panels, Repos
    <3> QED
      BY <2>1, <2>2, <3>3, <3>4, <3>5, GitKeeps
  <2>4. CASE \E f \in Files : repo' = [repo EXCEPT ![w].loose = @ \cup {f}] /\ UNCHANGED moved
    <3>1. PICK f : repo' = [repo EXCEPT ![w].loose = @ \cup {f}]
      BY <2>4
    <3>2. PICK r : r = [repo[w] EXCEPT !.loose = @ \cup {f}]
      OBVIOUS
    <3>3. /\ IsRepo(r) /\ PushedWasMade(r) /\ Pushes(repo[w], r) /\ r.head = repo[w].head
          /\ repo' = [repo EXCEPT ![w] = r]
      BY <2>1, <3>1, <3>2 DEF IsRepo, PushedWasMade, Pushes
    <3>4. Programs(repo', todo')
      BY <2>1, <2>2, <3>3, WaitingRuns
    <3>5. BranchIsKnown' /\ moved' \in [Workspaces -> BOOLEAN]
      BY <2>1, <2>2, <2>4, <3>3 DEF BranchIsKnown, PanelInv, Panels, Repos
    <3> QED
      BY <2>1, <2>2, <3>3, <3>4, <3>5, GitKeeps
  <2> QED
    BY <1>12, <2>3, <2>4 DEF Outside
<1>13. CASE UNCHANGED vars
  BY <1>2, <1>13, CalmKeeps DEF vars, PanelInv
<1> QED
  BY ONLY [Next]_vars, <1>1, <1>4, <1>6, <1>7, <1>8, <1>9, <1>10, <1>12, <1>13, <1>11
     DEF Next, Everyone

(* A toast that says a commit was pushed is true.                          *)
THEOREM PushedWasCommitted == Spec => []PushedIsCommitted
<1>1. PanelInv => PushedIsCommitted
  BY DEF PanelInv, Told, TrueOf, PushedIsCommitted
<1> QED
  BY <1>1, PanelInit, PanelKept, PTL DEF Spec
-----------------------------------------------------------------------------
(* QuietPanelIsShown.  While no call was made before the one ahead of it    *)
(* had ended, one thread at most has something to do, and what the window   *)
(* does not show yet is what that thread will still publish.                *)

Names(p) == [i \in DOMAIN p |-> p[i].do]

ReviewShown == /\ window.branch = panel.branch
               /\ window.files = panel.files \cap ctl.reviewFilter
               /\ window.selected = ctl.selected
TreeShown == window.tree = Filtered(panel.tree.rows, ctl.treeFilter)
TabsShown == window.tabs = ctl.tabs /\ window.active = ctl.active
DiffShown == ctl.selected # NoFile =>
               /\ ctl.selected \in DOMAIN panel.diffs
               /\ window.diff = <<DiffOf(panel.diffs, ctl.selected)>>

\* The window shows all of the panel but the parts named.
ShownBut(parts) == /\ "review" \in parts \/ ReviewShown
                   /\ "tree" \in parts \/ TreeShown
                   /\ "tabs" \in parts \/ TabsShown
                   /\ "diff" \in parts \/ DiffShown

(* The part still missing for each program p, with the copy n to be posted. *)
Refreshing(x, n) ==
  \/ /\ x \in {<<"refresh">>, <<"load", "review", "post", "tree", "paths", "post", "diff">>,
               <<"review", "post", "tree", "paths", "post", "diff">>}
     /\ ShownBut({"review", "tree", "diff"})
  \/ /\ x = <<"post", "tree", "paths", "post", "diff">> /\ n = Review
     /\ ShownBut({"review", "tree", "diff"})
  \/ /\ x = <<"tree", "paths", "post", "diff">>
     /\ ShownBut({"tree", "diff"})
  \/ /\ x \in {<<"paths", "post", "diff">>, <<"post", "diff">>} /\ n = TreeRows
     /\ ShownBut({"tree", "diff"})

Choosing(x, n) ==
  \/ x = <<"review", "post", "diff">> /\ ShownBut({"review", "diff"})
  \/ x = <<"post", "diff">> /\ n = Review /\ ShownBut({"review", "diff"})
  \/ x = <<"review", "post">> /\ ShownBut({"review"})
  \/ x = <<"post">> /\ n = Review /\ ShownBut({"review"})
  \/ x = <<"tabs", "post", "review", "post", "diff">> /\ ShownBut({"tabs", "review", "diff"})
  \/ /\ x = <<"post", "review", "post", "diff">> /\ n = Tabs
     /\ ShownBut({"tabs", "review", "diff"})
  \/ x = <<"tabs", "post">> /\ ShownBut({"tabs"})
  \/ x = <<"post">> /\ n = Tabs /\ ShownBut({"tabs"})

Browsing(x, n) ==
  \/ /\ x \in {<<"toggle", "tree", "paths", "post">>, <<"tree", "paths", "post">>}
     /\ ShownBut({"tree"})
  \/ x \in {<<"paths", "post">>, <<"post">>} /\ n = TreeRows /\ ShownBut({"tree"})
  \/ x = <<"file", "post">> /\ ShownBut({})
  \/ x = <<"post">> /\ n.show = "file" /\ ShownBut({})

Folding(x, p, n) ==
  \/ x \in {<<"diff">>, <<"hunk", "diff">>} /\ ShownBut({"diff"})
  \/ x = <<"lines">> /\ p[1].file = ctl.selected /\ ShownBut({"diff"})
  \/ /\ x = <<"post">> /\ ctl.selected \in DOMAIN panel.diffs
     /\ n = DiffOf(panel.diffs, ctl.selected) /\ ShownBut({"diff"})

PanelAtRest(x) ==
  x \in {<<>>, <<"checkout">>, <<"stage">>, <<"discard">>, <<"commit">>} /\ ShownBut({})

Stage(p, n) == \/ Refreshing(Names(p), n) \/ Choosing(Names(p), n) \/ Browsing(Names(p), n)
               \/ Folding(Names(p), p, n) \/ PanelAtRest(Names(p))

Only(t) == \A s \in Everyone \ {t} : todo[s] = <<>>

Screens == /\ DOMAIN note = Everyone
           /\ DOMAIN window = {"branch", "files", "selected", "diff", "tree", "file", "tabs",
                               "active"}

CalmInv == Screens /\ (alone => \E t \in Everyone : Only(t) /\ Stage(todo[t], note[t]))

(* Two sequences that make a third, and the lengths the programs have.     *)
LEMMA Joined ==
  ASSUME NEW S, NEW p \in Seq(S), NEW q \in Seq(S), NEW r \in Seq(S),
         Len(r) = Len(p) + Len(q), \A i \in 1..Len(p) : r[i] = p[i],
         \A i \in 1..Len(q) : r[Len(p) + i] = q[i]
  PROVE  p \o q = r
<1>1. p \o q \in Seq(S) /\ Len(p \o q) = Len(r)
  BY ConcatProperties
<1>2. ASSUME NEW i \in 1..Len(r) PROVE (p \o q)[i] = r[i]
  <2>1. CASE i \in 1..Len(p)
    BY <2>1, ConcatProperties
  <2>2. CASE i \notin 1..Len(p)
    <3>1. i - Len(p) \in 1..Len(q) /\ i = Len(p) + (i - Len(p))
      BY <2>2
    <3>2. r[i] = q[i - Len(p)]
      BY <3>1
    <3> QED
      BY <2>2, <3>2, ConcatProperties
  <2> QED
    BY <2>1, <2>2
<1> QED
  BY <1>1, <1>2, SeqEqual
LEMMA Join12 ==
  ASSUME NEW a, NEW b, NEW c
  PROVE  <<a>> \o <<b, c>> = <<a, b, c>>
<1> DEFINE S == {a, b, c}
           p == <<a>>
           q == <<b, c>>
           r == <<a, b, c>>
<1>1. /\ p \in Seq(S) /\ q \in Seq(S) /\ r \in Seq(S)
      /\ Len(p) = 1 /\ Len(q) = 2 /\ Len(r) = 3
      /\ \A i \in 1..1 : r[i] = p[i]
      /\ \A i \in 1..2 : r[1 + i] = q[i]
  OBVIOUS
<1> HIDE DEF S, p, q, r
<1>2. /\ Len(r) = Len(p) + Len(q)
      /\ \A i \in 1..Len(p) : r[i] = p[i]
      /\ \A i \in 1..Len(q) : r[Len(p) + i] = q[i]
  BY <1>1
<1>3. p \o q = r
  BY ONLY <1>1, <1>2, Joined
<1> QED
  BY <1>3 DEF p, q, r

LEMMA Join13 ==
  ASSUME NEW a, NEW b, NEW c, NEW d
  PROVE  <<a>> \o <<b, c, d>> = <<a, b, c, d>>
<1> DEFINE S == {a, b, c, d}
           p == <<a>>
           q == <<b, c, d>>
           r == <<a, b, c, d>>
<1>1. /\ p \in Seq(S) /\ q \in Seq(S) /\ r \in Seq(S)
      /\ Len(p) = 1 /\ Len(q) = 3 /\ Len(r) = 4
      /\ \A i \in 1..1 : r[i] = p[i]
      /\ \A i \in 1..3 : r[1 + i] = q[i]
  OBVIOUS
<1> HIDE DEF S, p, q, r
<1>2. /\ Len(r) = Len(p) + Len(q)
      /\ \A i \in 1..Len(p) : r[i] = p[i]
      /\ \A i \in 1..Len(q) : r[Len(p) + i] = q[i]
  BY <1>1
<1>3. p \o q = r
  BY ONLY <1>1, <1>2, Joined
<1> QED
  BY <1>3 DEF p, q, r

LEMMA Join21 ==
  ASSUME NEW a, NEW b, NEW c
  PROVE  <<a, b>> \o <<c>> = <<a, b, c>>
<1> DEFINE S == {a, b, c}
           p == <<a, b>>
           q == <<c>>
           r == <<a, b, c>>
<1>1. /\ p \in Seq(S) /\ q \in Seq(S) /\ r \in Seq(S)
      /\ Len(p) = 2 /\ Len(q) = 1 /\ Len(r) = 3
      /\ \A i \in 1..2 : r[i] = p[i]
      /\ \A i \in 1..1 : r[2 + i] = q[i]
  OBVIOUS
<1> HIDE DEF S, p, q, r
<1>2. /\ Len(r) = Len(p) + Len(q)
      /\ \A i \in 1..Len(p) : r[i] = p[i]
      /\ \A i \in 1..Len(q) : r[Len(p) + i] = q[i]
  BY <1>1
<1>3. p \o q = r
  BY ONLY <1>1, <1>2, Joined
<1> QED
  BY <1>3 DEF p, q, r

LEMMA Join23 ==
  ASSUME NEW a, NEW b, NEW c, NEW d, NEW e
  PROVE  <<a, b>> \o <<c, d, e>> = <<a, b, c, d, e>>
<1> DEFINE S == {a, b, c, d, e}
           p == <<a, b>>
           q == <<c, d, e>>
           r == <<a, b, c, d, e>>
<1>1. /\ p \in Seq(S) /\ q \in Seq(S) /\ r \in Seq(S)
      /\ Len(p) = 2 /\ Len(q) = 3 /\ Len(r) = 5
      /\ \A i \in 1..2 : r[i] = p[i]
      /\ \A i \in 1..3 : r[2 + i] = q[i]
  OBVIOUS
<1> HIDE DEF S, p, q, r
<1>2. /\ Len(r) = Len(p) + Len(q)
      /\ \A i \in 1..Len(p) : r[i] = p[i]
      /\ \A i \in 1..Len(q) : r[Len(p) + i] = q[i]
  BY <1>1
<1>3. p \o q = r
  BY ONLY <1>1, <1>2, Joined
<1> QED
  BY <1>3 DEF p, q, r

LEMMA Join33 ==
  ASSUME NEW a, NEW b, NEW c, NEW d, NEW e, NEW f
  PROVE  <<a, b, c>> \o <<d, e, f>> = <<a, b, c, d, e, f>>
<1> DEFINE S == {a, b, c, d, e, f}
           p == <<a, b, c>>
           q == <<d, e, f>>
           r == <<a, b, c, d, e, f>>
<1>1. /\ p \in Seq(S) /\ q \in Seq(S) /\ r \in Seq(S)
      /\ Len(p) = 3 /\ Len(q) = 3 /\ Len(r) = 6
      /\ \A i \in 1..3 : r[i] = p[i]
      /\ \A i \in 1..3 : r[3 + i] = q[i]
  OBVIOUS
<1> HIDE DEF S, p, q, r
<1>2. /\ Len(r) = Len(p) + Len(q)
      /\ \A i \in 1..Len(p) : r[i] = p[i]
      /\ \A i \in 1..Len(q) : r[Len(p) + i] = q[i]
  BY <1>1
<1>3. p \o q = r
  BY ONLY <1>1, <1>2, Joined
<1> QED
  BY <1>3 DEF p, q, r

LEMMA Join61 ==
  ASSUME NEW a, NEW b, NEW c, NEW d, NEW e, NEW f, NEW g
  PROVE  <<a, b, c, d, e, f>> \o <<g>> = <<a, b, c, d, e, f, g>>
<1> DEFINE S == {a, b, c, d, e, f, g}
           p == <<a, b, c, d, e, f>>
           q == <<g>>
           r == <<a, b, c, d, e, f, g>>
<1>1. /\ p \in Seq(S) /\ q \in Seq(S) /\ r \in Seq(S)
      /\ Len(p) = 6 /\ Len(q) = 1 /\ Len(r) = 7
      /\ \A i \in 1..6 : r[i] = p[i]
      /\ \A i \in 1..1 : r[6 + i] = q[i]
  OBVIOUS
<1> HIDE DEF S, p, q, r
<1>2. /\ Len(r) = Len(p) + Len(q)
      /\ \A i \in 1..Len(p) : r[i] = p[i]
      /\ \A i \in 1..Len(q) : r[Len(p) + i] = q[i]
  BY <1>1
<1>3. p \o q = r
  BY ONLY <1>1, <1>2, Joined
<1> QED
  BY <1>3 DEF p, q, r

(* The names of a program and of what remains of it.                        *)
LEMMA NamesRemain ==
  ASSUME NEW rs, NEW p, Program(rs, p), p # <<>>
  PROVE  Names(p) # <<>> /\ Names(p)[1] = Head(p).do /\ Names(Tail(p)) = Tail(Names(p))
<1>1. PICK n \in Nat : DOMAIN p = 1..n /\ Len(p) = n
  BY DEF Program
<1>2. n > 0 /\ Head(p) = p[1]
  BY <1>1 DEF Program
<1>3. Names(p) \in Seq({p[i].do : i \in DOMAIN p}) /\ Len(Names(p)) = n
  BY <1>1, SeqDef DEF Names
<1>4. /\ DOMAIN Tail(p) = 1..(n - 1) /\ \A i \in 1..(n - 1) : Tail(p)[i] = p[i + 1]
      /\ DOMAIN Tail(Names(p)) = 1..(n - 1)
      /\ \A i \in 1..(n - 1) : Tail(Names(p))[i] = Names(p)[i + 1]
  BY <1>1, <1>2, <1>3 DEF Program
<1>5. \A i \in 1..(n - 1) : i + 1 \in DOMAIN p
  BY <1>1
<1>6. \A i \in 1..(n - 1) : Tail(Names(p))[i] = Tail(p)[i].do
  BY <1>4, <1>5 DEF Names
<1>7. Names(p) # <<>>
  BY <1>2, <1>3
<1>8. Tail(Names(p)) = [i \in 1..(n - 1) |-> Tail(Names(p))[i]]
  <2>1. PICK T : Tail(Names(p)) \in Seq(T)
    BY <1>3, <1>7, HeadTailProperties
  <2>2. \A q : q \in Seq(T) => \E m \in Nat : q \in [1..m -> T]
    BY SeqDef
  <2>3. PICK m \in Nat : Tail(Names(p)) \in [1..m -> T]
    BY <2>1, <2>2
  <2> QED
    BY <1>4, <2>3
<1>9. Tail(Names(p)) = [i \in 1..(n - 1) |-> Tail(p)[i].do]
  BY <1>6, <1>8
<1>10. Names(p)[1] = p[1].do
  BY <1>1, <1>2 DEF Names
<1> QED
  BY <1>2, <1>4, <1>9, <1>10, <1>7 DEF Names

LEMMA Tails ==
  /\ Tail(<<"load", "review", "post", "tree", "paths", "post", "diff">>)
       = <<"review", "post", "tree", "paths", "post", "diff">>
  /\ Tail(<<"review", "post", "tree", "paths", "post", "diff">>)
       = <<"post", "tree", "paths", "post", "diff">>
  /\ Tail(<<"post", "tree", "paths", "post", "diff">>) = <<"tree", "paths", "post", "diff">>
  /\ Tail(<<"tree", "paths", "post", "diff">>) = <<"paths", "post", "diff">>
  /\ Tail(<<"paths", "post", "diff">>) = <<"post", "diff">>
  /\ Tail(<<"post", "diff">>) = <<"diff">>
  /\ Tail(<<"review", "post", "diff">>) = <<"post", "diff">>
  /\ Tail(<<"tabs", "post", "review", "post", "diff">>) = <<"post", "review", "post", "diff">>
  /\ Tail(<<"post", "review", "post", "diff">>) = <<"review", "post", "diff">>
  /\ Tail(<<"tabs", "post">>) = <<"post">> /\ Tail(<<"review", "post">>) = <<"post">>
  /\ Tail(<<"toggle", "tree", "paths", "post">>) = <<"tree", "paths", "post">>
  /\ Tail(<<"tree", "paths", "post">>) = <<"paths", "post">>
  /\ Tail(<<"paths", "post">>) = <<"post">>
  /\ Tail(<<"file", "post">>) = <<"post">>
  /\ Tail(<<"hunk", "diff">>) = <<"diff">>
  /\ \A x : Tail(<<x>>) = <<>>
OBVIOUS

LEMMA PlainNames ==
  /\ Names(<<>>) = <<>>
  /\ \A s : Names(<<s>>) = <<s.do>>
  /\ \A s, u : Names(<<s, u>>) = <<s.do, u.do>>
  /\ Names(Refresh) = <<"load", "review", "post", "tree", "paths", "post", "diff">>
  /\ Names(PublishReview \o <<Do("diff")>>) = <<"review", "post", "diff">>
  /\ Names(PublishTabs \o (PublishReview \o <<Do("diff")>>))
       = <<"tabs", "post", "review", "post", "diff">>
  /\ Names(PublishTabs \o <<>>) = <<"tabs", "post">>
  /\ Names(PublishTabs) = <<"tabs", "post">>
  /\ Names(PublishReview) = <<"review", "post">>
  /\ Names(PublishTree) = <<"tree", "paths", "post">>
  /\ \A s : Names(<<s>> \o PublishTree) = <<s.do, "tree", "paths", "post">>
<1>1. PublishReview \o <<Do("diff")>> = <<Do("review"), Do("post"), Do("diff")>>
  BY Join21 DEF PublishReview
<1>2. PublishTabs \o <<>> = <<Do("tabs"), Do("post")>> /\ PublishTabs = <<Do("tabs"), Do("post")>>
  BY DEF PublishTabs
<1>3. \A s : <<s>> \o PublishTree = <<s, Do("tree"), Do("paths"), Do("post")>>
  BY Join13 DEF PublishTree
<1>4. PublishTabs \o (PublishReview \o <<Do("diff")>>)
        = <<Do("tabs"), Do("post"), Do("review"), Do("post"), Do("diff")>>
  BY <1>1, Join23 DEF PublishTabs
<1>5. Refresh = <<Do("load"), Do("review"), Do("post"), Do("tree"), Do("paths"), Do("post"),
                  Do("diff")>>
  <2>1. <<Do("load")>> \o PublishReview = <<Do("load"), Do("review"), Do("post")>>
    BY Join12 DEF PublishReview
  <2>2. <<Do("load")>> \o PublishReview \o PublishTree
          = <<Do("load"), Do("review"), Do("post"), Do("tree"), Do("paths"), Do("post")>>
    <3>1. \A x, y : x = <<Do("load"), Do("review"), Do("post")>>
                    /\ y = <<Do("tree"), Do("paths"), Do("post")>> =>
            x \o y = <<Do("load"), Do("review"), Do("post"), Do("tree"), Do("paths"), Do("post")>>
      BY Join33
    <3> QED
      BY <2>1, <3>1 DEF PublishTree
  <2> QED
    BY <2>2, Join61 DEF Refresh
<1>6. /\ Names(<<>>) = <<>>
      /\ \A s : Names(<<s>>) = <<s.do>>
      /\ \A s, u : Names(<<s, u>>) = <<s.do, u.do>>
  BY DEF Names
<1>7. ASSUME NEW x, x = Refresh
      PROVE  Names(x) = <<"load", "review", "post", "tree", "paths", "post", "diff">>
  BY <1>5, <1>7 DEF Names, Do
<1>8. ASSUME NEW x, x = PublishTabs \o (PublishReview \o <<Do("diff")>>)
      PROVE  Names(x) = <<"tabs", "post", "review", "post", "diff">>
  <2>1. x = <<Do("tabs"), Do("post"), Do("review"), Do("post"), Do("diff")>>
    BY <1>4, <1>8
  <2> QED
    BY ONLY <2>1 DEF Names, Do
<1>9. ASSUME NEW s, NEW x, x = <<s>> \o PublishTree
      PROVE  Names(x) = <<s.do, "tree", "paths", "post">>
  <2>1. x = <<s, Do("tree"), Do("paths"), Do("post")>>
    BY <1>3, <1>9
  <2> QED
    BY ONLY <2>1 DEF Names, Do
<1>10. ASSUME NEW x, x = PublishReview \o <<Do("diff")>>
       PROVE  Names(x) = <<"review", "post", "diff">>
  <2>1. x = <<Do("review"), Do("post"), Do("diff")>>
    BY <1>1, <1>10
  <2> QED
    BY ONLY <2>1 DEF Names, Do
<1>11. Names(PublishTabs \o <<>>) = <<"tabs", "post">> /\ Names(PublishTabs) = <<"tabs", "post">>
  BY <1>2 DEF Names, Do
<1>12. Names(PublishReview) = <<"review", "post">>
  BY DEF Names, Do, PublishReview
<1>13. Names(PublishTree) = <<"tree", "paths", "post">>
  BY DEF Names, Do, PublishTree
<1> QED
  BY <1>6, <1>7, <1>8, <1>9, <1>10, <1>11, <1>12, <1>13

(* The step of the one thread that has something to do: what was left to be *)
(* shown, and what is left of its program.                                  *)
LEMMA OneActs ==
  ASSUME PanelInv, CalmInv, alone, NEW u \in Everyone, Step(u)
  PROVE  /\ Only(u) /\ Stage(todo[u], note[u])
         /\ todo[u] # <<>> /\ Names(todo[u]) # <<>>
         /\ Names(todo[u])[1] = Head(todo[u]).do
         /\ Names(Tail(todo[u])) = Tail(Names(todo[u]))
<1>1. todo[u] # <<>>
  BY DEF Step, At, LoadPanel, Copy, KeepPaths, Post, PublishDiff, DiffLines, ToggleHunk,
         ToggleTree, ReadTreeFile, RefreshAndTell, Checkout, StageAll, DiscardUnstaged,
         CommitAndPush
<1>2. Only(u) /\ Stage(todo[u], note[u])
  BY <1>1 DEF CalmInv, Only
<1>3. Program(repo, todo[u])
  BY DEF PanelInv, Programs
<1> QED
  BY <1>1, <1>2, <1>3, NamesRemain

(* Where a program stands tells what is not shown.                          *)
LEMMA PanelPlaces ==
  ASSUME NEW p, NEW n, Stage(p, n), Names(p) # <<>>
  PROVE  LET x == Names(p) IN
         /\ x[1] \in {"load", "refresh"} => ShownBut({"review", "tree", "diff"})
         /\ x[1] = "load" =>
              x = <<"load", "review", "post", "tree", "paths", "post", "diff">>
         /\ x[1] \in {"refresh", "checkout", "stage", "discard", "commit", "lines", "diff"} =>
              x = <<x[1]>>
         /\ x[1] \in {"checkout", "stage", "discard", "commit"} => ShownBut({})
         /\ x[1] \in {"diff", "hunk", "lines"} => ShownBut({"diff"})
         /\ x[1] = "hunk" => x = <<"hunk", "diff">>
         /\ x[1] = "lines" => p[1].file = ctl.selected
         /\ x[1] = "toggle" => x = <<"toggle", "tree", "paths", "post">> /\ ShownBut({"tree"})
         /\ x[1] = "file" => x = <<"file", "post">> /\ ShownBut({})
         /\ x[1] = "review" =>
              \/ /\ x = <<"review", "post", "tree", "paths", "post", "diff">>
                 /\ ShownBut({"review", "tree", "diff"})
              \/ x = <<"review", "post", "diff">> /\ ShownBut({"review", "diff"})
              \/ x = <<"review", "post">> /\ ShownBut({"review"})
         /\ x[1] = "tree" =>
              \/ x = <<"tree", "paths", "post", "diff">> /\ ShownBut({"tree", "diff"})
              \/ x = <<"tree", "paths", "post">> /\ ShownBut({"tree"})
         /\ x[1] = "paths" =>
              /\ n = TreeRows
              /\ \/ x = <<"paths", "post", "diff">> /\ ShownBut({"tree", "diff"})
                 \/ x = <<"paths", "post">> /\ ShownBut({"tree"})
         /\ x[1] = "tabs" =>
              \/ /\ x = <<"tabs", "post", "review", "post", "diff">>
                 /\ ShownBut({"tabs", "review", "diff"})
              \/ x = <<"tabs", "post">> /\ ShownBut({"tabs"})
         /\ x[1] = "post" =>
              \/ /\ x = <<"post", "tree", "paths", "post", "diff">> /\ n = Review
                 /\ ShownBut({"review", "tree", "diff"})
              \/ x = <<"post", "diff">> /\ n = TreeRows /\ ShownBut({"tree", "diff"})
              \/ x = <<"post", "diff">> /\ n = Review /\ ShownBut({"review", "diff"})
              \/ /\ x = <<"post", "review", "post", "diff">> /\ n = Tabs
                 /\ ShownBut({"tabs", "review", "diff"})
              \/ x = <<"post">> /\ n = Review /\ ShownBut({"review"})
              \/ x = <<"post">> /\ n = Tabs /\ ShownBut({"tabs"})
              \/ x = <<"post">> /\ n = TreeRows /\ ShownBut({"tree"})
              \/ x = <<"post">> /\ n.show = "file" /\ ShownBut({})
              \/ /\ x = <<"post">> /\ ctl.selected \in DOMAIN panel.diffs
                 /\ n = DiffOf(panel.diffs, ctl.selected) /\ ShownBut({"diff"})
<1> DEFINE x == Names(p)
<1>1. CASE Refreshing(x, n)
  BY <1>1 DEF Refreshing
<1>2. CASE Choosing(x, n)
  BY <1>2 DEF Choosing
<1>3. CASE Browsing(x, n)
  BY <1>3 DEF Browsing
<1>4. CASE Folding(x, p, n)
  BY <1>4 DEF Folding
<1>5. CASE PanelAtRest(x)
  BY <1>5 DEF PanelAtRest
<1> QED
  BY <1>1, <1>2, <1>3, <1>4, <1>5 DEF Stage

(* What posting a copy shows, and what it leaves shown.                     *)
LEMMA Posted ==
  ASSUME Screens, NEW n, window' = Apply(window, n), UNCHANGED <<panel, ctl>>
  PROVE  /\ n = Review => /\ ReviewShown' /\ (TreeShown => TreeShown')
                          /\ (TabsShown => TabsShown') /\ (DiffShown => DiffShown')
         /\ n = TreeRows => /\ TreeShown' /\ (ReviewShown => ReviewShown')
                            /\ (TabsShown => TabsShown') /\ (DiffShown => DiffShown')
         /\ n = Tabs => /\ TabsShown' /\ (ReviewShown => ReviewShown')
                        /\ (TreeShown => TreeShown') /\ (DiffShown => DiffShown')
         /\ n.show = "file" => /\ (ReviewShown => ReviewShown') /\ (TreeShown => TreeShown')
                               /\ (TabsShown => TabsShown') /\ (DiffShown => DiffShown')
         /\ (/\ n = DiffOf(panel.diffs, ctl.selected)
             /\ ctl.selected \in DOMAIN panel.diffs) =>
              /\ DiffShown' /\ (ReviewShown => ReviewShown')
              /\ (TreeShown => TreeShown') /\ (TabsShown => TabsShown')
<1> USE DEF ReviewShown, TreeShown, TabsShown, DiffShown
<1>1. CASE n = Review
  <2>1. window' = [window EXCEPT !.branch = panel.branch,
                                 !.files = panel.files \cap ctl.reviewFilter,
                                 !.selected = ctl.selected]
    BY <1>1 DEF Apply, Review
  <2>2. n.show = "review"
    BY <1>1 DEF Review
  <2> QED
    BY <2>1, <2>2 DEF Screens, TreeRows, Tabs, DiffOf
<1>2. CASE n = TreeRows
  <2>1. window' = [window EXCEPT !.tree = Filtered(panel.tree.rows, ctl.treeFilter)]
    BY <1>2 DEF Apply, TreeRows
  <2>2. n.show = "tree"
    BY <1>2 DEF TreeRows
  <2> QED
    BY <2>1, <2>2 DEF Screens, Review, Tabs, DiffOf
<1>3. CASE n = Tabs
  <2>1. window' = [window EXCEPT !.tabs = ctl.tabs, !.active = ctl.active]
    BY <1>3 DEF Apply, Tabs
  <2>2. n.show = "tabs"
    BY <1>3 DEF Tabs
  <2> QED
    BY <2>1, <2>2 DEF Screens, Review, TreeRows, DiffOf
<1>4. CASE n.show = "file"
  <2>1. window' = [window EXCEPT !.file = <<n.path, n.readable>>]
    BY <1>4 DEF Apply
  <2> QED
    BY <1>4, <2>1 DEF Screens, Review, TreeRows, Tabs, DiffOf
<1>5. CASE n = DiffOf(panel.diffs, ctl.selected)
  <2>1. n.show = "diff"
    BY <1>5 DEF DiffOf
  <2>2. window' = [window EXCEPT !.diff = <<n>>]
    BY <2>1 DEF Apply
  <2> QED
    BY <1>5, <2>1, <2>2 DEF Screens, Review, TreeRows, Tabs
<1> QED
  BY <1>1, <1>2, <1>3, <1>4, <1>5

LEMMA ScreensKept == PanelInv /\ Screens /\ [Next]_vars => Screens'
<1> SUFFICES ASSUME Screens, [Next]_vars PROVE Screens'
  OBVIOUS
<1>1. CASE UNCHANGED <<note, window>>
  BY <1>1 DEF Screens
<1>2. ASSUME NEW t \in Everyone, Step(t) PROVE Screens'
  <2>1. DOMAIN note' = DOMAIN note
    BY <1>2 DEF Step, LoadPanel, Copy, KeepPaths, Post, PublishDiff, DiffLines, ToggleHunk,
         ToggleTree, ReadTreeFile, RefreshAndTell, Checkout, StageAll, DiscardUnstaged,
         CommitAndPush
  <2>2. window' = window \/ window' = Apply(window, note[t])
    BY <1>2 DEF Step, LoadPanel, Copy, KeepPaths, Post, PublishDiff, DiffLines, ToggleHunk,
         ToggleTree, ReadTreeFile, RefreshAndTell, Checkout, StageAll, DiscardUnstaged,
         CommitAndPush
  <2>3. \A e : DOMAIN Apply(window, e) = DOMAIN window
    BY DEF Apply
  <2> QED
    BY <2>1, <2>2, <2>3 DEF Screens
<1>3. CASE SetWorkspace \/ SelectReviewFile \/ SelectHunk \/ SelectTreeItem \/ GitCall
           \/ SetReviewFilter \/ SetTreeFilter \/ OpenTab \/ CloseTab \/ Outside
  BY <1>1, <1>3 DEF SetWorkspace, SelectReviewFile, SelectHunk, SelectTreeItem, GitCall,
       SetReviewFilter, SetTreeFilter, OpenTab, CloseTab, Outside, Call
<1> QED
  BY <1>1, <1>2, <1>3 DEF Next, vars, Everyone

Active(t) == Only(t) /\ Stage(todo[t], note[t])

(* A thread that copies, posts or notes what is shown.                      *)
LEMMA PublishingCalm ==
  ASSUME PanelInv, CalmInv, alone, NEW u \in Everyone,
         Copy(u) \/ KeepPaths(u) \/ Post(u) \/ ReadTreeFile(u)
  PROVE  Active(u)'
<1> DEFINE x == Names(todo[u])
           p == todo[u]
           n == note[u]
<1>1. /\ Only(u) /\ Stage(p, n) /\ x # <<>> /\ p # <<>> /\ x[1] = Head(p).do
      /\ Names(Tail(p)) = Tail(x)
  BY OneActs DEF Step
<1>2. /\ DOMAIN todo = Everyone /\ DOMAIN note = Everyone /\ Screens
      /\ DOMAIN ctl = CtlFields
  BY DEF PanelInv, Panels, Programs, CalmInv, Screens
<1>3. todo' = Rest(u)
  BY DEF Copy, KeepPaths, Post, ReadTreeFile
<1>4. Only(u)' /\ Names(todo'[u]) = Tail(x)
  BY <1>1, <1>2, <1>3 DEF Only, Rest
<1>5. ASSUME UNCHANGED <<panel, window>>, ctl'.selected = ctl.selected, ctl'.tabs = ctl.tabs,
             ctl'.active = ctl.active, ctl'.reviewFilter = ctl.reviewFilter,
             ctl'.treeFilter = ctl.treeFilter
      PROVE  /\ Review' = Review /\ TreeRows' = TreeRows /\ Tabs' = Tabs
             /\ \A parts : ShownBut(parts)' <=> ShownBut(parts)
  BY <1>5 DEF Review, TreeRows, Tabs, ShownBut, ReviewShown, TreeShown, TabsShown, DiffShown
<1>6. CASE Copy(u)
  <2>1. UNCHANGED <<panel, ctl, window>>
    BY <1>6 DEF Copy
  <2>2. CASE At(u, "review") /\ note' = [note EXCEPT ![u] = Review]
    <3>1. x[1] = "review" /\ note'[u] = Review
      BY <1>1, <1>2, <2>2 DEF At
    <3>2. \/ /\ x' = <<"post", "tree", "paths", "post", "diff">>
             /\ ShownBut({"review", "tree", "diff"})
          \/ x' = <<"post", "diff">> /\ ShownBut({"review", "diff"})
          \/ x' = <<"post">> /\ ShownBut({"review"})
      BY <1>1, <1>4, <3>1, PanelPlaces, Tails
    <3>3. Refreshing(x, n)' \/ Choosing(x, n)'
      BY <1>5, <2>1, <3>1, <3>2 DEF Refreshing, Choosing
    <3> QED
      BY <1>4, <3>3 DEF Stage, Active
  <2>3. CASE At(u, "tree") /\ note' = [note EXCEPT ![u] = TreeRows]
    <3>1. x[1] = "tree" /\ note'[u] = TreeRows
      BY <1>1, <1>2, <2>3 DEF At
    <3>2. \/ x' = <<"paths", "post", "diff">> /\ ShownBut({"tree", "diff"})
          \/ x' = <<"paths", "post">> /\ ShownBut({"tree"})
      BY <1>1, <1>4, <3>1, PanelPlaces, Tails
    <3>3. Refreshing(x, n)' \/ Browsing(x, n)'
      BY <1>5, <2>1, <3>1, <3>2 DEF Refreshing, Browsing
    <3> QED
      BY <1>4, <3>3 DEF Stage, Active
  <2>4. CASE At(u, "tabs") /\ note' = [note EXCEPT ![u] = Tabs]
    <3>1. x[1] = "tabs" /\ note'[u] = Tabs
      BY <1>1, <1>2, <2>4 DEF At
    <3>2. \/ /\ x' = <<"post", "review", "post", "diff">>
             /\ ShownBut({"tabs", "review", "diff"})
          \/ x' = <<"post">> /\ ShownBut({"tabs"})
      BY <1>1, <1>4, <3>1, PanelPlaces, Tails
    <3>3. Choosing(x, n)'
      BY <1>5, <2>1, <3>1, <3>2 DEF Choosing
    <3> QED
      BY <1>4, <3>3 DEF Stage, Active
  <2> QED
    BY <1>6, <2>2, <2>3, <2>4 DEF Copy
<1>7. CASE KeepPaths(u)
  <2>1. /\ UNCHANGED <<panel, window, note>> /\ ctl'.selected = ctl.selected
        /\ ctl'.tabs = ctl.tabs /\ ctl'.active = ctl.active
        /\ ctl'.reviewFilter = ctl.reviewFilter /\ ctl'.treeFilter = ctl.treeFilter
    BY <1>2, <1>7 DEF KeepPaths, CtlFields
  <2>2. x[1] = "paths"
    BY <1>1, <1>7 DEF KeepPaths, At
  <2>3. /\ n = TreeRows
        /\ \/ x' = <<"post", "diff">> /\ ShownBut({"tree", "diff"})
           \/ x' = <<"post">> /\ ShownBut({"tree"})
    BY <1>1, <1>4, <2>2, PanelPlaces, Tails
  <2>4. Refreshing(x, n)' \/ Browsing(x, n)'
    BY <1>5, <2>1, <2>3 DEF Refreshing, Browsing
  <2> QED
    BY <1>4, <2>4 DEF Stage, Active
<1>8. CASE ReadTreeFile(u)
  <2>1. UNCHANGED <<panel, ctl, window>>
    BY <1>8 DEF ReadTreeFile
  <2>2. x[1] = "file" /\ note'[u].show = "file"
    BY <1>1, <1>2, <1>8 DEF ReadTreeFile, At
  <2>3. x' = <<"post">> /\ ShownBut({})
    BY <1>1, <1>4, <2>2, PanelPlaces, Tails
  <2>4. Browsing(x, n)'
    BY <1>5, <2>1, <2>2, <2>3 DEF Browsing
  <2> QED
    BY <1>4, <2>4 DEF Stage, Active
<1>9. CASE Post(u)
  <2>1. /\ UNCHANGED <<panel, ctl>> /\ window' = Apply(window, n) /\ x[1] = "post"
    BY <1>1, <1>9 DEF Post, At
  <2>2. \/ x = <<"post", "tree", "paths", "post", "diff">> /\ ShownBut({"tree", "diff"})'
        \/ x = <<"post", "diff">> /\ ShownBut({"diff"})'
        \/ x = <<"post", "review", "post", "diff">> /\ ShownBut({"review", "diff"})'
        \/ x = <<"post">> /\ ShownBut({})'
    BY <1>1, <1>2, <2>1, PanelPlaces, Posted DEF ShownBut
  <2>3. \/ x' = <<"tree", "paths", "post", "diff">> /\ ShownBut({"tree", "diff"})'
        \/ x' = <<"diff">> /\ ShownBut({"diff"})'
        \/ x' = <<"review", "post", "diff">> /\ ShownBut({"review", "diff"})'
        \/ x' = <<>> /\ ShownBut({})'
    BY <1>4, <2>2, Tails
  <2>4. \/ Refreshing(x, n)' \/ Folding(x, p, n)'
        \/ Choosing(x, n)' \/ PanelAtRest(x)'
    BY <2>3 DEF Refreshing, Folding, Choosing, PanelAtRest
  <2> QED
    BY <1>4, <2>4 DEF Stage, Active
<1> QED
  BY <1>6, <1>7, <1>8, <1>9

(* A thread that changes the panel, or starts the next one.                 *)
LEMMA ChangingCalm ==
  ASSUME PanelInv, CalmInv, alone, NEW u \in Everyone,
         \/ LoadPanel(u) \/ DiffLines(u) \/ ToggleHunk(u) \/ ToggleTree(u)
         \/ Checkout(u) \/ StageAll(u) \/ DiscardUnstaged(u) \/ CommitAndPush(u)
  PROVE  Active(u)'
<1> DEFINE x == Names(todo[u])
           p == todo[u]
           n == note[u]
<1>1. /\ Only(u) /\ Stage(p, n) /\ x # <<>> /\ p # <<>> /\ x[1] = Head(p).do
      /\ Names(Tail(p)) = Tail(x)
  BY OneActs DEF Step
<1>2. /\ DOMAIN todo = Everyone /\ DOMAIN note = Everyone /\ Screens
      /\ DOMAIN ctl = CtlFields
      /\ DOMAIN panel = {"ws", "branch", "files", "diffs", "tree"}
  BY DEF PanelInv, Panels, Programs, CalmInv, Screens
<1>3. ASSUME todo' = Rest(u) PROVE Only(u)' /\ x' = Tail(x)
  BY <1>1, <1>2, <1>3 DEF Only, Rest
<1>4. ASSUME NEW q, todo' = [todo EXCEPT ![u] = q] PROVE Only(u)' /\ x' = Names(q) /\ p' = q
  BY <1>1, <1>2, <1>4 DEF Only
<1> USE DEF ReviewShown, TreeShown, TabsShown, DiffShown
<1>5. CASE LoadPanel(u)
  <2>1. x[1] = "load" /\ todo' = Rest(u)
    BY <1>1, <1>5 DEF LoadPanel, At
  <2>2. UNCHANGED window /\ ctl'.tabs = ctl.tabs /\ ctl'.active = ctl.active
    BY <1>2, <1>5 DEF LoadPanel, CtlFields
  <2>3. ShownBut({"review", "tree", "diff"})'
    BY <1>1, <2>1, <2>2, PanelPlaces DEF ShownBut
  <2>4. x' = <<"review", "post", "tree", "paths", "post", "diff">>
    BY <1>1, <1>3, <2>1, PanelPlaces, Tails
  <2>5. Refreshing(x, n)'
    BY <2>3, <2>4 DEF Refreshing
  <2> QED
    BY <1>3, <2>1, <2>5 DEF Stage, Active
<1>6. CASE DiffLines(u)
  <2>1. x[1] = "lines" /\ p[1] = Head(p)
    BY <1>1, <1>6 DEF DiffLines, At
  <2>2. Head(p).file = ctl.selected /\ ShownBut({"diff"})
    BY <1>1, <2>1, PanelPlaces
  <2>3. /\ UNCHANGED <<window, ctl>> /\ todo' = [todo EXCEPT ![u] = <<Do("post")>>]
        /\ panel' = [panel EXCEPT !.diffs = Parsed(ctl.selected)]
        /\ note'[u] = DiffOf(Parsed(ctl.selected), ctl.selected)
    BY <1>2, <1>6, <2>2 DEF DiffLines
  <2>4. /\ panel'.diffs = Parsed(ctl.selected) /\ panel'.branch = panel.branch
        /\ panel'.files = panel.files /\ panel'.tree = panel.tree
        /\ ctl.selected \in DOMAIN Parsed(ctl.selected)
    BY <1>2, <2>3 DEF Parsed
  <2>5. ShownBut({"diff"})'
    BY <2>2, <2>3, <2>4 DEF ShownBut
  <2>6. Only(u)' /\ x' = <<"post">>
    BY <1>4, <2>3, PlainNames DEF Do
  <2>7. Folding(x, p, n)'
    BY <2>3, <2>4, <2>5, <2>6 DEF Folding
  <2> QED
    BY <2>6, <2>7 DEF Stage, Active
<1>7. CASE ToggleHunk(u)
  <2>1. x[1] = "hunk" /\ todo' = Rest(u)
    BY <1>1, <1>7 DEF ToggleHunk, At
  <2>2. /\ UNCHANGED <<window, ctl>> /\ panel'.branch = panel.branch
        /\ panel'.files = panel.files /\ panel'.tree = panel.tree
    BY <1>2, <1>7 DEF ToggleHunk
  <2>3. ShownBut({"diff"})'
    BY <1>1, <2>1, <2>2, PanelPlaces DEF ShownBut
  <2>4. x' = <<"diff">>
    BY <1>1, <1>3, <2>1, PanelPlaces, Tails
  <2>5. Folding(x, p, n)'
    BY <2>3, <2>4 DEF Folding
  <2> QED
    BY <1>3, <2>1, <2>5 DEF Stage, Active
<1>8. CASE ToggleTree(u)
  <2>1. x[1] = "toggle" /\ todo' = Rest(u)
    BY <1>1, <1>8 DEF ToggleTree, At
  <2>2. /\ UNCHANGED <<window, ctl>> /\ panel'.branch = panel.branch
        /\ panel'.files = panel.files /\ panel'.diffs = panel.diffs
    BY <1>2, <1>8 DEF ToggleTree
  <2>3. ShownBut({"tree"})'
    BY <1>1, <2>1, <2>2, PanelPlaces DEF ShownBut
  <2>4. x' = <<"tree", "paths", "post">>
    BY <1>1, <1>3, <2>1, PanelPlaces, Tails
  <2>5. Browsing(x, n)'
    BY <2>3, <2>4 DEF Browsing
  <2> QED
    BY <1>3, <2>1, <2>5 DEF Stage, Active
<1>9. CASE Checkout(u) \/ StageAll(u) \/ DiscardUnstaged(u) \/ CommitAndPush(u)
  <2>1. x[1] \in {"checkout", "stage", "discard", "commit"} /\ ShownBut({})
    BY <1>1, <1>9, PanelPlaces DEF Checkout, StageAll, DiscardUnstaged, CommitAndPush, At
  <2>2. UNCHANGED <<window, ctl>>
    BY <1>9 DEF Checkout, StageAll, DiscardUnstaged, CommitAndPush
  <2>3. PICK claim : Leaves(u, claim)
    BY <1>9 DEF Checkout, StageAll, DiscardUnstaged, CommitAndPush, Outcome, Leaves
  <2>4. \/ todo' = [todo EXCEPT ![u] = <<[do |-> "refresh", claim |-> claim]>>]
        \/ todo' = [todo EXCEPT ![u] = <<>>] /\ UNCHANGED panel
    <3>1. CASE Checkout(u)
      <4>1. PICK ok \in BOOLEAN :
              /\ panel' = IF ok THEN [panel EXCEPT !.branch = Head(todo[u]).branch] ELSE panel
              /\ Outcome(u, ok, {})
        BY <3>1 DEF Checkout
      <4>2. CASE ok
        <5>1. todo' = [todo EXCEPT ![u] = <<[do |-> "refresh", claim |-> {}]>>]
          BY <4>1, <4>2 DEF Outcome
        <5>2. todo'[u] # <<>>
          BY <1>2, <5>1
        <5> QED
          BY <1>2, <2>3, <5>2 DEF Leaves
      <4>3. CASE ~ok
        BY <4>1, <4>3 DEF Outcome
      <4> QED
        BY <4>2, <4>3
    <3>2. CASE StageAll(u) \/ DiscardUnstaged(u) \/ CommitAndPush(u)
      BY <2>3, <3>2 DEF StageAll, DiscardUnstaged, CommitAndPush, Leaves
    <3> QED
      BY <1>9, <3>1, <3>2
  <2>5. /\ panel'.files = panel.files /\ panel'.tree = panel.tree
    BY <1>2, <1>9 DEF Checkout, StageAll, DiscardUnstaged, CommitAndPush
  <2>6. CASE todo' = [todo EXCEPT ![u] = <<>>] /\ UNCHANGED panel
    <3>1. ShownBut({})' /\ Only(u)' /\ x' = <<>>
      BY <1>4, <2>1, <2>2, <2>6, PlainNames DEF ShownBut
    <3>2. PanelAtRest(x)'
      BY <3>1 DEF PanelAtRest
    <3> QED
      BY <3>1, <3>2 DEF Stage, Active
  <2>7. CASE todo' = [todo EXCEPT ![u] = <<[do |-> "refresh", claim |-> claim]>>]
    <3>1. Only(u)' /\ x' = <<"refresh">>
      BY <1>4, <2>7, PlainNames
    <3>2. ShownBut({"review", "tree", "diff"})'
      BY <2>1, <2>2 DEF ShownBut
    <3>3. Refreshing(x, n)'
      BY <3>1, <3>2 DEF Refreshing
    <3> QED
      BY <3>1, <3>3 DEF Stage, Active
  <2> QED
    BY <2>4, <2>6, <2>7
<1> QED
  BY <1>5, <1>6, <1>7, <1>8, <1>9

(* A thread that starts the next one, and ends.                             *)
LEMMA HandingCalm ==
  ASSUME PanelInv, CalmInv, alone, NEW u \in Everyone, PublishDiff(u) \/ RefreshAndTell(u)
  PROVE  \E t \in Everyone : Active(t)'
<1> DEFINE x == Names(todo[u])
           p == todo[u]
<1>1. /\ Only(u) /\ Stage(p, note[u]) /\ x # <<>> /\ p # <<>> /\ x[1] = Head(p).do
      /\ Names(Tail(p)) = Tail(x) /\ x[1] \in {"diff", "refresh"}
  BY OneActs DEF Step, PublishDiff, RefreshAndTell, At
<1>2. DOMAIN todo = Everyone
  BY DEF PanelInv, Programs
<1>3. Names(Tail(p)) = <<>>
  <2>1. x = <<x[1]>>
    BY <1>1, PanelPlaces
  <2> QED
    BY <1>1, <2>1, Tails
<1>4. Tail(p) = <<>>
  <2>1. Program(repo, p)
    BY DEF PanelInv, Programs
  <2>2. Program(repo, Tail(p))
    BY <1>1, <2>1, TailRuns
  <2> QED
    BY <1>3, <2>2, NamesRemain
<1>5. UNCHANGED <<panel, ctl, window>>
  BY DEF PublishDiff, RefreshAndTell
<1>6. \A parts : ShownBut(parts)' <=> ShownBut(parts)
  BY <1>5 DEF ShownBut, ReviewShown, TreeShown, TabsShown, DiffShown
<1>7. ASSUME NEW s \in Free(u), NEW q, Spawn(u, s, q)
      PROVE  s \in Everyone /\ Only(s)' /\ todo'[s] = q
  BY <1>1, <1>2, <1>4, <1>7 DEF Free, Spawn, Rest, Only, Everyone
<1>8. CASE PublishDiff(u)
  <2>1. x[1] = "diff" /\ ShownBut({"diff"})
    BY <1>1, <1>8, PanelPlaces DEF PublishDiff, At
  <2>2. CASE ctl.selected = NoFile
    <3>1. todo' = Rest(u)
      BY <1>8, <2>2 DEF PublishDiff
    <3>2. Only(u)' /\ todo'[u] = <<>>
      BY <1>1, <1>2, <1>4, <3>1 DEF Only, Rest
    <3>3. ShownBut({})
      BY <2>1, <2>2 DEF ShownBut, DiffShown
    <3>4. PanelAtRest(x)'
      BY <1>6, <3>2, <3>3, PlainNames DEF PanelAtRest
    <3> QED
      BY <3>2, <3>4 DEF Stage, Active
  <2>3. CASE ctl.selected # NoFile
    <3> DEFINE q == <<[do |-> "lines", file |-> ctl.selected]>>
    <3>1. PICK s \in Free(u) : Spawn(u, s, q)
      BY <1>8, <2>3 DEF PublishDiff
    <3>2. s \in Everyone /\ Only(s)' /\ todo'[s] = q
      BY <1>7, <3>1
    <3>3. Names(q) = <<"lines">> /\ q[1].file = ctl.selected
      BY PlainNames
    <3>4. Folding(Names(todo[s]), todo[s], note[s])'
      BY <1>5, <1>6, <2>1, <3>2, <3>3 DEF Folding
    <3> QED
      BY <3>2, <3>4 DEF Stage, Active
  <2> QED
    BY <2>2, <2>3
<1>9. CASE RefreshAndTell(u)
  <2>1. x[1] = "refresh" /\ ShownBut({"review", "tree", "diff"})
    BY <1>1, <1>9, PanelPlaces DEF RefreshAndTell, At
  <2>2. PICK s \in Free(u) : Spawn(u, s, Refresh)
    BY <1>9 DEF RefreshAndTell
  <2>3. s \in Everyone /\ Only(s)' /\ todo'[s] = Refresh
    BY <1>7, <2>2
  <2>4. Refreshing(Names(todo[s]), note[s])'
    BY <1>6, <2>1, <2>3, PlainNames DEF Refreshing
  <2> QED
    BY <2>3, <2>4 DEF Stage, Active
<1> QED
  BY <1>8, <1>9

(* The user's calls.  One made while another is under way ends the claim.   *)
LEMMA CallsCalm ==
  ASSUME PanelInv, CalmInv, alone',
         \/ SetWorkspace \/ SelectReviewFile \/ SelectHunk \/ SelectTreeItem \/ GitCall
         \/ SetReviewFilter \/ SetTreeFilter \/ OpenTab \/ CloseTab
  PROVE  \E t \in Everyone : Active(t)'
<1>1. alone /\ Quiet /\ UNCHANGED <<panel, note, window>>
  BY DEF SetWorkspace, SelectReviewFile, SelectHunk, SelectTreeItem, GitCall, SetReviewFilter,
         SetTreeFilter, OpenTab, CloseTab, Call
<1>2. /\ DOMAIN todo = Everyone
      /\ DOMAIN ctl = CtlFields
  BY DEF PanelInv, Panels, Programs
<1>3. ShownBut({})
  <2>1. PICK t \in Everyone : Stage(todo[t], note[t])
    BY <1>1 DEF CalmInv
  <2>2. Names(todo[t]) = <<>>
    BY <1>1, PlainNames DEF Quiet, Everyone
  <2> QED
    BY <2>1, <2>2 DEF Stage, Refreshing, Choosing, Browsing, Folding, PanelAtRest
<1>4. ASSUME NEW q, OnThread(q) \/ Here(q)
      PROVE  \E t \in Everyone : Only(t)' /\ todo'[t] = q
  <2>1. PICK t \in Everyone : todo' = [todo EXCEPT ![t] = q]
    BY <1>4 DEF OnThread, Here, Everyone
  <2>2. Only(t)' /\ todo'[t] = q
    BY <1>1, <1>2, <2>1 DEF Only, Quiet, Everyone
  <2> QED
    BY <2>2
<1>5. ASSUME NEW q, OnThread(q) \/ Here(q),
             \A t \in Everyone : todo'[t] = q => Stage(todo[t], note[t])'
      PROVE  \E t \in Everyone : Active(t)'
  BY <1>4, <1>5 DEF Active
<1> USE DEF ReviewShown, TreeShown, TabsShown, DiffShown
<1>6. CASE SetWorkspace
  <2>1. /\ ctl'.selected = ctl.selected /\ ctl'.tabs = ctl.tabs /\ ctl'.active = ctl.active
        /\ OnThread(Refresh)
    BY <1>2, <1>6 DEF SetWorkspace, CtlFields
  <2>2. ShownBut({"review", "tree", "diff"})'
    BY <1>1, <1>3, <2>1 DEF ShownBut
  <2>3. \A t \in Everyone : todo'[t] = Refresh => Refreshing(Names(todo[t]), note[t])'
    BY <2>2, PlainNames DEF Refreshing
  <2> QED
    BY <1>5, <2>1, <2>3 DEF Stage
<1>7. CASE SelectReviewFile
  <2> DEFINE q == PublishReview \o <<Do("diff")>>
  <2>1. /\ ctl'.tabs = ctl.tabs /\ ctl'.active = ctl.active /\ Here(q)
        /\ ctl'.treeFilter = ctl.treeFilter
    BY <1>2, <1>7 DEF SelectReviewFile, CtlFields
  <2>2. ShownBut({"review", "diff"})'
    BY <1>1, <1>3, <2>1 DEF ShownBut
  <2>3. Names(q) = <<"review", "post", "diff">>
    BY PlainNames
  <2> HIDE DEF q
  <2>4. \A t \in Everyone : todo'[t] = q => Choosing(Names(todo[t]), note[t])'
    BY <2>2, <2>3 DEF Choosing
  <2> QED
    BY <1>5, <2>1, <2>4 DEF Stage
<1>8. CASE SelectHunk
  <2>1. PICK h : OnThread(<<[do |-> "hunk", file |-> ctl.selected, hunk |-> h], Do("diff")>>)
    BY <1>8 DEF SelectHunk
  <2> DEFINE q == <<[do |-> "hunk", file |-> ctl.selected, hunk |-> h], Do("diff")>>
  <2>2. ShownBut({"diff"})'
    BY <1>1, <1>3, <1>8 DEF ShownBut, SelectHunk
  <2>3. Names(q) = <<"hunk", "diff">>
    BY PlainNames DEF Do
  <2> HIDE DEF q
  <2>4. \A t \in Everyone : todo'[t] = q => Folding(Names(todo[t]), todo[t], note[t])'
    BY <2>2, <2>3 DEF Folding
  <2> QED
    BY <1>5, <2>1, <2>4 DEF Stage, q
<1>9. CASE SelectTreeItem
  <2>1. PICK path : \/ OnThread(<<[do |-> "toggle", path |-> path]>> \o PublishTree)
                    \/ OnThread(<<[do |-> "file", path |-> path], Do("post")>>)
    BY <1>9 DEF SelectTreeItem
  <2>2. ShownBut({})' /\ ShownBut({"tree"})'
    BY <1>1, <1>3, <1>9 DEF ShownBut, SelectTreeItem
  <2>3. ASSUME NEW q, OnThread(q),
               Names(q) \in {<<"toggle", "tree", "paths", "post">>, <<"file", "post">>}
        PROVE  \E t \in Everyone : Active(t)'
    <3>1. \A t \in Everyone : todo'[t] = q => Browsing(Names(todo[t]), note[t])'
      BY <2>2, <2>3 DEF Browsing
    <3> QED
      BY <1>5, <2>3, <3>1 DEF Stage
  <2>4. /\ Names(<<[do |-> "toggle", path |-> path]>> \o PublishTree)
             = <<"toggle", "tree", "paths", "post">>
        /\ Names(<<[do |-> "file", path |-> path], Do("post")>>) = <<"file", "post">>
    BY PlainNames DEF Do
  <2> QED
    BY <2>1, <2>3, <2>4
<1>10. CASE GitCall
  <2>1. PICK s : OnThread(<<s>>) /\ s.do \in {"checkout", "stage", "discard", "commit"}
    <3>1. Do("stage").do = "stage" /\ Do("discard").do = "discard"
      BY DEF Do
    <3>2. CASE \E b \in Branches : OnThread(<<[do |-> "checkout", branch |-> b]>>)
      <4>1. PICK b : OnThread(<<[do |-> "checkout", branch |-> b]>>)
        BY <3>2
      <4> QED
        BY <4>1
    <3>3. CASE OnThread(<<Do("stage")>>)
      BY <3>1, <3>3
    <3>4. CASE OnThread(<<Do("discard")>>)
      BY <3>1, <3>4
    <3>5. CASE \E message, push \in BOOLEAN :
                 OnThread(<<[do |-> "commit", message |-> message, push |-> push]>>)
      <4>1. PICK message, push \in BOOLEAN :
                 OnThread(<<[do |-> "commit", message |-> message, push |-> push]>>)
        BY <3>5
      <4> QED
        BY <4>1
    <3> QED
      BY <1>10, <3>2, <3>3, <3>4, <3>5 DEF GitCall
  <2>2. ShownBut({})'
    BY <1>1, <1>3, <1>10 DEF ShownBut, GitCall
  <2>3. Names(<<s>>) = <<s.do>>
    BY PlainNames
  <2>4. \A t \in Everyone : todo'[t] = <<s>> => PanelAtRest(Names(todo[t]))'
    BY <2>1, <2>2, <2>3 DEF PanelAtRest
  <2> QED
    BY <1>5, <2>1, <2>4 DEF Stage
<1>11. CASE OpenTab
  <2> DEFINE q == PublishTabs \o (PublishReview \o <<Do("diff")>>)
             r == PublishTabs \o <<>>
  <2>1. /\ Here(q) \/ (Here(r) /\ ctl'.selected = ctl.selected)
        /\ ctl'.reviewFilter = ctl.reviewFilter /\ ctl'.treeFilter = ctl.treeFilter
    BY <1>2, <1>11 DEF OpenTab, CtlFields
  <2>2. Names(q) = <<"tabs", "post", "review", "post", "diff">> /\ Names(r) = <<"tabs", "post">>
    BY PlainNames
  <2> HIDE DEF q, r
  <2>3. CASE Here(q)
    <3>1. ShownBut({"tabs", "review", "diff"})'
      BY <1>1, <1>3, <2>1 DEF ShownBut
    <3>2. \A t \in Everyone : todo'[t] = q => Choosing(Names(todo[t]), note[t])'
      BY <2>2, <3>1 DEF Choosing
    <3> QED
      BY <1>5, <2>3, <3>2 DEF Stage
  <2>4. CASE Here(r) /\ ctl'.selected = ctl.selected
    <3>1. ShownBut({"tabs"})'
      BY <1>1, <1>3, <2>1, <2>4 DEF ShownBut
    <3>2. \A t \in Everyone : todo'[t] = r => Choosing(Names(todo[t]), note[t])'
      BY <2>2, <3>1 DEF Choosing
    <3> QED
      BY <1>5, <2>4, <3>2 DEF Stage
  <2> QED
    BY <2>1, <2>3, <2>4
<1>12. CASE CloseTab
  <2>1. /\ ctl'.selected = ctl.selected /\ Here(PublishTabs)
        /\ ctl'.reviewFilter = ctl.reviewFilter /\ ctl'.treeFilter = ctl.treeFilter
    BY <1>2, <1>12 DEF CloseTab, CtlFields
  <2>2. ShownBut({"tabs"})'
    BY <1>1, <1>3, <2>1 DEF ShownBut
  <2>3. \A t \in Everyone : todo'[t] = PublishTabs => Choosing(Names(todo[t]), note[t])'
    BY <2>2, PlainNames DEF Choosing
  <2> QED
    BY <1>5, <2>1, <2>3 DEF Stage
<1>13. CASE SetReviewFilter
  <2>1. /\ ctl'.selected = ctl.selected /\ ctl'.tabs = ctl.tabs /\ ctl'.active = ctl.active
        /\ ctl'.treeFilter = ctl.treeFilter /\ Here(PublishReview)
    BY <1>2, <1>13 DEF SetReviewFilter, CtlFields
  <2>2. ShownBut({"review"})'
    BY <1>1, <1>3, <2>1 DEF ShownBut
  <2>3. \A t \in Everyone : todo'[t] = PublishReview => Choosing(Names(todo[t]), note[t])'
    BY <2>2, PlainNames DEF Choosing
  <2> QED
    BY <1>5, <2>1, <2>3 DEF Stage
<1>14. CASE SetTreeFilter
  <2>1. /\ ctl'.selected = ctl.selected /\ ctl'.tabs = ctl.tabs /\ ctl'.active = ctl.active
        /\ ctl'.reviewFilter = ctl.reviewFilter /\ Here(PublishTree)
    BY <1>2, <1>14 DEF SetTreeFilter, CtlFields
  <2>2. ShownBut({"tree"})'
    BY <1>1, <1>3, <2>1 DEF ShownBut
  <2>3. \A t \in Everyone : todo'[t] = PublishTree => Browsing(Names(todo[t]), note[t])'
    BY <2>2, PlainNames DEF Browsing
  <2> QED
    BY <1>5, <2>1, <2>3 DEF Stage
<1> QED
  BY <1>6, <1>7, <1>8, <1>9, <1>10, <1>11, <1>12, <1>13, <1>14

LEMMA CalmKept == PanelInv /\ CalmInv /\ [Next]_vars => CalmInv'
<1> SUFFICES ASSUME PanelInv, CalmInv, [Next]_vars, alone'
             PROVE  \E t \in Everyone : Active(t)'
  BY ScreensKept DEF CalmInv, Active, Everyone
<1>1. ASSUME NEW t \in Everyone, Step(t) PROVE \E s \in Everyone : Active(s)'
  <2>1. alone
    BY <1>1 DEF Step, LoadPanel, Copy, KeepPaths, Post, PublishDiff, DiffLines, ToggleHunk,
         ToggleTree, ReadTreeFile, RefreshAndTell, Checkout, StageAll, DiscardUnstaged,
         CommitAndPush, Ghosts
  <2>2. CASE Copy(t) \/ KeepPaths(t) \/ Post(t) \/ ReadTreeFile(t)
    BY <2>1, <2>2, PublishingCalm
  <2>3. CASE \/ LoadPanel(t) \/ DiffLines(t) \/ ToggleHunk(t) \/ ToggleTree(t)
             \/ Checkout(t) \/ StageAll(t) \/ DiscardUnstaged(t) \/ CommitAndPush(t)
    BY <2>1, <2>3, ChangingCalm
  <2>4. CASE PublishDiff(t) \/ RefreshAndTell(t)
    BY <2>1, <2>4, HandingCalm
  <2> QED
    BY <1>1, <2>2, <2>3, <2>4 DEF Step
<1>2. CASE UNCHANGED <<panel, ctl, todo, note, window, alone>>
  <2>1. PICK t \in Everyone : Active(t)
    BY <1>2 DEF CalmInv, Active
  <2>2. Active(t)'
    BY <1>2, <2>1 DEF Active, Only, Stage, Refreshing, Choosing, Browsing, Folding, PanelAtRest,
         ShownBut, ReviewShown, TreeShown, TabsShown, DiffShown, Review, TreeRows, Tabs
  <2> QED
    BY <2>2
<1>3. CASE \/ SetWorkspace \/ SelectReviewFile \/ SelectHunk \/ SelectTreeItem \/ GitCall
           \/ SetReviewFilter \/ SetTreeFilter \/ OpenTab \/ CloseTab
  BY <1>3, CallsCalm
<1>4. Outside \/ UNCHANGED vars => UNCHANGED <<panel, ctl, todo, note, window, alone>>
  BY DEF Outside, vars
<1> QED
  BY ONLY [Next]_vars, <1>1, <1>2, <1>3, <1>4 DEF Next, Everyone

LEMMA CalmInit == Init => CalmInv
<1> SUFFICES ASSUME Init PROVE CalmInv
  OBVIOUS
<1>1. Screens
  BY DEF Init, Screens, Everyone
<1>2. ShownBut({"review", "tree", "diff"})
  BY DEF Init, ShownBut, TabsShown
<1> DEFINE first == CHOOSE s \in Threads : TRUE
<1>3. \A t \in Everyone : todo[t] = IF t = first THEN Refresh ELSE <<>>
  BY DEF Init, Everyone
<1>4. first \in Everyone
  BY PanelAssumption DEF Everyone
<1> HIDE DEF first
<1>5. Refreshing(Names(todo[first]), note[first])
  BY <1>2, <1>3, <1>4, PlainNames DEF Refreshing
<1> QED
  BY <1>1, <1>3, <1>4, <1>5 DEF CalmInv, Only, Stage

(* Once a call has been carried out before the next was made, the window    *)
(* shows what the panel holds, whatever git did and however many threads    *)
(* there are.                                                               *)
THEOREM QuietPanelIsTrue == Spec => []QuietPanelIsShown
<1>1. CalmInv => QuietPanelIsShown
  <2> SUFFICES ASSUME CalmInv, alone, Quiet PROVE ShownBut({})
    BY DEF QuietPanelIsShown, ShownBut, ReviewShown, TreeShown, TabsShown, DiffShown
  <2>1. PICK t \in Everyone : Stage(todo[t], note[t])
    BY DEF CalmInv
  <2>2. Names(todo[t]) = <<>>
    BY PlainNames DEF Quiet, Everyone
  <2> QED
    BY <2>1, <2>2 DEF Stage, Refreshing, Choosing, Browsing, Folding, PanelAtRest
<1> QED
  BY <1>1, PanelInit, PanelKept, CalmInit, CalmKept, PTL DEF Spec

(***************************************************************************)
(* The client itself.  The invariant: whatever is going to be painted, and  *)
(* what is on the screen if no callback posted after it clears it, is       *)
(* accounted for: the turn of a message of the worker's ray, of one that    *)
(* failed, or of one that is still under way.                               *)
(***************************************************************************)
CmdKinds == {"none", "navigation-save", "switch-workspace", "open-session", "new-session",
             "chat", "settings-save", "settings-load", "config-validate"}
EventKinds == {"pending", "paint", "finish", "stopped", "clear", "bind", "settings", "connected"}
SomeRay == Rays \cup {NoRay}
SomeTree == Trees \cup {NoNavigation}

Commands ==
  {c \in [kind : CmdKinds, m : Nat, ray : SomeRay, place : Places \cup {NoPlace},
          tree : SomeTree, projected : BOOLEAN] : c.kind = "chat" => c.m \in Messages}

Events == [kind : EventKinds, stale : BOOLEAN, m : Nat, done : BOOLEAN, flag : BOOLEAN,
           ray : SomeRay, tree : SomeTree]

Queues == [commands : Seq(Commands), held : Seq(Commands), waiting : Seq(Commands),
           initializing : BOOLEAN,
           backend : {"connecting", "attached", "offline", "connected"}]

Workers == [pc : {"idle", "sent", "turn", "bound", "finish"}, cmd : Commands,
            ready : BOOLEAN, ray : SomeRay, place : Places]

Daemons == [state : [Places -> {"starting", "ready", "failed"}],
            log : [Rays -> Seq(Nat)], at : [Rays -> Places \cup {NoPlace}],
            finished : SUBSET Nat, saved : [Places -> SomeTree]]

Lefts == [sends : 0 .. Sends, picks : Nat, stops : Nat, changes : Nat, faults : Nat]

DesktopTypes ==
  /\ tree \in Trees
  /\ view \in [turn : Nat, generating : BOOLEAN, empty : BOOLEAN]
  /\ events \in Seq(Events) /\ interrupted \in BOOLEAN
  /\ queue \in Queues /\ worker \in Workers /\ daemon \in Daemons
  /\ fate \in [Messages -> {"unsent", "sent", "failed", "carried out"}]
  /\ left \in Lefts

\* The messages in a list of commands, and all that are under way.
ChatsIn(cs) == {cs[i].m : i \in {j \in 1 .. Len(cs) : cs[j].kind = "chat"}}
Queued(q) == ChatsIn(q.commands) \cup ChatsIn(q.held) \cup ChatsIn(q.waiting)
Carried(w) ==
  IF w.pc \in {"sent", "turn"} /\ w.cmd.kind = "chat" THEN {w.cmd.m} ELSE {}

Said(d, r) == IF r = NoRay THEN {} ELSE ToSet(d.log[r])

\* The turns that may be on the screen: those of the ray, the failed and those under way.
AccountedFor ==
  {0} \cup Said(daemon, worker.ray) \cup {m \in Messages : fate[m] = "failed"}
      \cup Queued(queue) \cup Carried(worker)

ClearedAfter(es, i) == \E j \in 1 .. Len(es) : j > i /\ es[j].kind = "clear"

\* What the callbacks es and the turn on the screen will show is in A.
Ours(es, turn, A) ==
  /\ \A i \in 1 .. Len(es) :
       es[i].kind \in {"pending", "paint"} /\ ~ClearedAfter(es, i) => es[i].m \in A
  /\ ~ClearedAfter(es, 0) => turn \in A

ShownOurs == Ours(events, view.turn, AccountedFor)

\* The ray a turn runs in is the worker's, or will be when the turn ends.
WorkerKeeps ==
  /\ worker.pc = "turn" =>
       /\ worker.cmd.kind = "chat" /\ worker.cmd.ray \in Rays
       /\ worker.cmd.m \in ToSet(daemon.log[worker.cmd.ray])
       /\ worker.ray \in {NoRay, worker.cmd.ray}
  /\ worker.pc = "bound" => worker.cmd.m \in Said(daemon, worker.ray)
  /\ worker.pc = "sent" /\ worker.cmd.kind = "open-session" => worker.ray # NoRay

DesktopInv == DesktopTypes /\ ShownOurs /\ WorkerKeeps

(***************************************************************************)
(* Commands and the queue.                                                 *)
(***************************************************************************)
LEMMA CommandFields ==
  ASSUME NEW c \in Commands
  PROVE  /\ c.kind \in CmdKinds /\ c.m \in Nat /\ c.ray \in SomeRay
         /\ c.place \in Places \cup {NoPlace} /\ c.tree \in SomeTree
         /\ c.projected \in BOOLEAN
         /\ c.kind = "chat" => c.m \in Messages
BY DEF Commands

LEMMA CmdTyped ==
  ASSUME NEW k \in CmdKinds, k # "chat"
  PROVE  Cmd(k) \in Commands /\ Cmd(k).kind = k
BY DEF Cmd, Commands, SomeRay, SomeTree

LEMMA CommandsMade ==
  /\ \A t \in Trees : SaveNavigation(t) \in Commands /\ SaveNavigation(t).kind # "chat"
  /\ \A p \in Places : SwitchWorkspace(p) \in Commands /\ SwitchWorkspace(p).kind # "chat"
  /\ \A p \in Places : NewSession(p) \in Commands /\ NewSession(p).kind # "chat"
  /\ \A r \in SomeRay, p \in Places :
       OpenSession(r, p) \in Commands /\ OpenSession(r, p).kind # "chat"
  /\ \A m \in Messages : /\ [Cmd("chat") EXCEPT !.m = m] \in Commands
                         /\ [Cmd("chat") EXCEPT !.m = m].kind = "chat"
                         /\ [Cmd("chat") EXCEPT !.m = m].m = m
<1>1. Messages \subseteq Nat BY DesktopAssumption DEF Messages
<1>2. \A t \in Trees : SaveNavigation(t) \in Commands /\ SaveNavigation(t).kind # "chat"
  BY DEF SaveNavigation, Cmd, Commands, CmdKinds, SomeRay, SomeTree
<1>3. \A p \in Places : SwitchWorkspace(p) \in Commands /\ SwitchWorkspace(p).kind # "chat"
  BY DEF SwitchWorkspace, Cmd, Commands, CmdKinds, SomeRay, SomeTree
<1>4. \A p \in Places : NewSession(p) \in Commands /\ NewSession(p).kind # "chat"
  BY DEF NewSession, Cmd, Commands, CmdKinds, SomeRay, SomeTree
<1>5. \A r \in SomeRay, p \in Places :
       OpenSession(r, p) \in Commands /\ OpenSession(r, p).kind # "chat"
  BY DEF OpenSession, Cmd, Commands, CmdKinds, SomeRay, SomeTree
<1>6. \A m \in Messages : /\ [Cmd("chat") EXCEPT !.m = m] \in Commands
                         /\ [Cmd("chat") EXCEPT !.m = m].kind = "chat"
                         /\ [Cmd("chat") EXCEPT !.m = m].m = m
  BY <1>1 DEF Cmd, Commands, CmdKinds, SomeRay, SomeTree
<1> QED BY <1>2, <1>3, <1>4, <1>5, <1>6

LEMMA ChatsOfTwo ==
  ASSUME NEW a \in Seq(Commands), NEW b \in Seq(Commands)
  PROVE  /\ a \o b \in Seq(Commands)
         /\ ChatsIn(a \o b) = ChatsIn(a) \cup ChatsIn(b)
<1> DEFINE c == a \o b
<1>1. /\ c \in Seq(Commands) /\ Len(c) = Len(a) + Len(b)
      /\ \A i \in 1 .. Len(c) : c[i] = IF i <= Len(a) THEN a[i] ELSE b[i - Len(a)]
      /\ Len(a) \in Nat /\ Len(b) \in Nat
  BY ConcatProperties
<1>2. ChatsIn(c) \subseteq ChatsIn(a) \cup ChatsIn(b)
  <2> SUFFICES ASSUME NEW i \in 1 .. Len(c), c[i].kind = "chat"
               PROVE  c[i].m \in ChatsIn(a) \cup ChatsIn(b)
    BY DEF ChatsIn
  <2>1. CASE i <= Len(a)
    <3>1. i \in 1 .. Len(a) /\ c[i] = a[i] BY <1>1, <2>1
    <3> QED BY <3>1 DEF ChatsIn
  <2>2. CASE i > Len(a)
    <3>1. i - Len(a) \in 1 .. Len(b) /\ c[i] = b[i - Len(a)] BY <1>1, <2>2
    <3> QED BY <3>1 DEF ChatsIn
  <2> QED BY <1>1, <2>1, <2>2
<1>3. ChatsIn(a) \subseteq ChatsIn(c)
  <2> SUFFICES ASSUME NEW i \in 1 .. Len(a), a[i].kind = "chat"
               PROVE  a[i].m \in ChatsIn(c)
    BY DEF ChatsIn
  <2>1. i \in 1 .. Len(c) /\ c[i] = a[i] BY <1>1
  <2> QED BY <2>1 DEF ChatsIn
<1>4. ChatsIn(b) \subseteq ChatsIn(c)
  <2> SUFFICES ASSUME NEW i \in 1 .. Len(b), b[i].kind = "chat"
               PROVE  b[i].m \in ChatsIn(c)
    BY DEF ChatsIn
  <2>1. i + Len(a) \in 1 .. Len(c) /\ c[i + Len(a)] = b[i] BY <1>1
  <2> QED BY <2>1 DEF ChatsIn
<1> QED BY <1>1, <1>2, <1>3, <1>4

LEMMA ChatsOfOne ==
  ASSUME NEW c \in Commands
  PROVE  /\ <<c>> \in Seq(Commands)
         /\ ChatsIn(<<c>>) = IF c.kind = "chat" THEN {c.m} ELSE {}
<1>1. Len(<<c>>) = 1 /\ <<c>>[1] = c /\ 1 .. 1 = {1} BY SMT
<1>2. <<c>> \in Seq(Commands) BY SMT
<1> QED BY <1>1, <1>2 DEF ChatsIn

LEMMA ChatsOfNone == <<>> \in Seq(Commands) /\ ChatsIn(<<>>) = {}
BY EmptySeq DEF ChatsIn

LEMMA ChatsAppended ==
  ASSUME NEW a \in Seq(Commands), NEW c \in Commands
  PROVE  /\ Append(a, c) \in Seq(Commands)
         /\ ChatsIn(Append(a, c)) =
              ChatsIn(a) \cup (IF c.kind = "chat" THEN {c.m} ELSE {})
<1>1. Append(a, c) = a \o <<c>> BY AppendIsConcat
<1> QED BY <1>1, ChatsOfTwo, ChatsOfOne

LEMMA ChatsOfTail ==
  ASSUME NEW a \in Seq(Commands), a # <<>>
  PROVE  /\ Head(a) \in Commands /\ Tail(a) \in Seq(Commands)
         /\ ChatsIn(a) = ChatsIn(Tail(a)) \cup
              (IF Head(a).kind = "chat" THEN {Head(a).m} ELSE {})
<1>1. Head(a) \in Commands /\ Tail(a) \in Seq(Commands) BY HeadTailProperties
<1>2. a = <<Head(a)>> \o Tail(a) BY SMT
<1>3. <<Head(a)>> \in Seq(Commands) BY <1>1, ChatsOfOne
<1>4. ChatsIn(a) = ChatsIn(<<Head(a)>>) \cup ChatsIn(Tail(a)) BY <1>1, <1>2, <1>3, ChatsOfTwo
<1>5. ChatsIn(<<Head(a)>>) = IF Head(a).kind = "chat" THEN {Head(a).m} ELSE {}
  BY <1>1, ChatsOfOne
<1> QED BY <1>1, <1>4, <1>5

LEMMA Enqueued ==
  ASSUME NEW q \in Queues, NEW cs \in Seq(Commands)
  PROVE  /\ Enqueue(q, cs) \in Queues /\ EnqueueUser(q, cs) \in Queues
         /\ Queued(Enqueue(q, cs)) = Queued(q) \cup ChatsIn(cs)
         /\ Queued(EnqueueUser(q, cs)) = Queued(q) \cup ChatsIn(cs)
<1>1. /\ q.commands \in Seq(Commands) /\ q.held \in Seq(Commands)
  BY DEF Queues
<1>2. /\ q.commands \o cs \in Seq(Commands) /\ q.held \o cs \in Seq(Commands)
      /\ ChatsIn(q.commands \o cs) = ChatsIn(q.commands) \cup ChatsIn(cs)
      /\ ChatsIn(q.held \o cs) = ChatsIn(q.held) \cup ChatsIn(cs)
  BY <1>1, ChatsOfTwo
<1>3. Enqueue(q, cs) \in Queues /\ Queued(Enqueue(q, cs)) = Queued(q) \cup ChatsIn(cs)
  BY <1>2 DEF Enqueue, Queues, Queued
<1>4. [q EXCEPT !.held = @ \o cs] \in Queues
      /\ Queued([q EXCEPT !.held = @ \o cs]) = Queued(q) \cup ChatsIn(cs)
  BY <1>2 DEF Queues, Queued
<1> QED BY <1>3, <1>4 DEF EnqueueUser

LEMMA Initialized ==
  ASSUME NEW q \in Queues
  PROVE  /\ FinishInitialization(q) \in Queues
         /\ Queued(FinishInitialization(q)) = Queued(q)
<1>1. /\ q.commands \in Seq(Commands) /\ q.held \in Seq(Commands)
  BY DEF Queues
<1>2. /\ q.commands \o q.held \in Seq(Commands)
      /\ ChatsIn(q.commands \o q.held) = ChatsIn(q.commands) \cup ChatsIn(q.held)
  BY <1>1, ChatsOfTwo
<1> DEFINE f == [q EXCEPT !.initializing = FALSE, !.commands = @ \o q.held, !.held = <<>>]
<1>3. f \in Queues /\ f.commands = q.commands \o q.held /\ f.held = <<>>
      /\ f.waiting = q.waiting
  BY <1>2, ChatsOfNone DEF Queues
<1>4. Queued(f) = Queued(q) BY <1>2, <1>3, ChatsOfNone DEF Queued
<1> QED BY <1>3, <1>4 DEF FinishInitialization

LEMMA PushedFront ==
  ASSUME NEW q \in Queues, NEW c \in Commands
  PROVE  /\ PushFront(q, c) \in Queues
         /\ Queued(PushFront(q, c)) = Queued(q) \cup (IF c.kind = "chat" THEN {c.m} ELSE {})
<1>1. q.commands \in Seq(Commands) BY DEF Queues
<1> DEFINE own == IF c.kind = "chat" THEN {c.m} ELSE {}
<1>3. <<c>> \in Seq(Commands) /\ ChatsIn(<<c>>) = own BY ChatsOfOne
<1>4. /\ <<c>> \o q.commands \in Seq(Commands)
      /\ ChatsIn(<<c>> \o q.commands) = ChatsIn(<<c>>) \cup ChatsIn(q.commands)
  BY <1>1, <1>3, ChatsOfTwo
<1> HIDE DEF own
<1>2. /\ <<c>> \o q.commands \in Seq(Commands)
      /\ ChatsIn(<<c>> \o q.commands) = ChatsIn(q.commands) \cup own
  BY <1>3, <1>4
<1> USE DEF own
<1> QED BY <1>2 DEF PushFront, Queues, Queued

LEMMA Deferred ==
  ASSUME NEW q \in Queues, NEW c \in Commands
  PROVE  /\ DeferUntilStartupReady(q, c) \in Queues
         /\ Queued(DeferUntilStartupReady(q, c)) =
              Queued(q) \cup (IF c.kind = "chat" THEN {c.m} ELSE {})
<1>1. q.waiting \in Seq(Commands) BY DEF Queues
<1>2. /\ Append(q.waiting, c) \in Seq(Commands)
      /\ ChatsIn(Append(q.waiting, c)) =
           ChatsIn(q.waiting) \cup (IF c.kind = "chat" THEN {c.m} ELSE {})
  BY <1>1, ChatsAppended
<1> QED BY <1>2 DEF DeferUntilStartupReady, Queues, Queued

LEMMA Released ==
  ASSUME NEW q \in Queues
  PROVE  /\ ReleaseStartupCommands(q) \in Queues
         /\ Queued(ReleaseStartupCommands(q)) = Queued(q)
<1>1. q.commands \in Seq(Commands) /\ q.waiting \in Seq(Commands) BY DEF Queues
<1>2. /\ q.commands \o q.waiting \in Seq(Commands)
      /\ ChatsIn(q.commands \o q.waiting) = ChatsIn(q.commands) \cup ChatsIn(q.waiting)
  BY <1>1, ChatsOfTwo
<1> DEFINE f == ReleaseStartupCommands(q)
<1>3. f \in Queues /\ f.commands = q.commands \o q.waiting /\ f.waiting = <<>>
      /\ f.held = q.held
  BY <1>2, ChatsOfNone DEF Queues, ReleaseStartupCommands
<1>4. Queued(f) = Queued(q) BY <1>2, <1>3, ChatsOfNone DEF Queued
<1> QED BY <1>3, <1>4

LEMMA TakenFrom ==
  ASSUME queue \in Queues, queue.commands # <<>>
  PROVE  /\ Next1 \in Commands /\ Taken \in Queues
         /\ Queued(queue) = Queued(Taken) \cup (IF Next1.kind = "chat" THEN {Next1.m} ELSE {})
<1>1. queue.commands \in Seq(Commands) BY DEF Queues
<1>2. /\ Next1 \in Commands /\ Tail(queue.commands) \in Seq(Commands)
      /\ ChatsIn(queue.commands) = ChatsIn(Tail(queue.commands)) \cup
              (IF Next1.kind = "chat" THEN {Next1.m} ELSE {})
  BY <1>1, ChatsOfTail DEF Next1
<1> QED BY <1>2 DEF Taken, Queues, Queued

(***************************************************************************)
(* The callbacks.                                                          *)
(***************************************************************************)
LEMMA EventTyped ==
  ASSUME NEW k \in EventKinds
  PROVE  Event(k) \in Events /\ Event(k).kind = k
BY DEF Event, Events, SomeRay, SomeTree

LEMMA EventsMade ==
  /\ \A m \in Nat : LET e == [Event("pending") EXCEPT !.m = m]
                   IN e \in Events /\ e.kind = "pending" /\ e.m = m
  /\ \A r \in Rays : LET e == [Event("bind") EXCEPT !.ray = r]
                    IN e \in Events /\ e.kind = "bind"
  /\ \A t \in SomeTree : LET e == [Event("settings") EXCEPT !.tree = t]
                        IN e \in Events /\ e.kind = "settings"
<1>1. \A m \in Nat : LET e == [Event("pending") EXCEPT !.m = m]
                    IN e \in Events /\ e.kind = "pending" /\ e.m = m
  BY DEF Event, Events, EventKinds, SomeRay, SomeTree
<1>3. \A r \in Rays : LET e == [Event("bind") EXCEPT !.ray = r]
                     IN e \in Events /\ e.kind = "bind"
  BY DEF Event, Events, EventKinds, SomeRay, SomeTree
<1>4. \A t \in SomeTree : LET e == [Event("settings") EXCEPT !.tree = t]
                         IN e \in Events /\ e.kind = "settings"
  BY DEF Event, Events, EventKinds, SomeRay, SomeTree
<1> QED BY <1>1, <1>3, <1>4

LEMMA PaintMade ==
  ASSUME NEW m \in Nat, NEW done \in BOOLEAN, NEW flag \in BOOLEAN
  PROVE  LET e == [Event("paint") EXCEPT !.m = m, !.done = done, !.flag = flag]
         IN e \in Events /\ e.kind = "paint" /\ e.m = m
BY DEF Event, Events, EventKinds, SomeRay, SomeTree

LEMMA RaisedEvents ==
  ASSUME NEW es \in Seq(Events)
  PROVE  /\ Raised(es) \in Seq(Events) /\ Len(Raised(es)) = Len(es)
         /\ \A i \in 1 .. Len(es) : /\ Raised(es)[i].kind = es[i].kind
                                    /\ Raised(es)[i].m = es[i].m
<1>1. DOMAIN es = 1 .. Len(es) /\ Len(es) \in Nat BY LenProperties
<1>2. \A i \in 1 .. Len(es) : es[i] \in Events BY ElementOfSeq
<1>3. Raised(es) \in [1 .. Len(es) -> Events] BY <1>1, <1>2 DEF Raised, Events
<1>4. Raised(es) \in Seq(Events) /\ Len(Raised(es)) = Len(es)
  BY <1>1, <1>3, SeqDef, LenProperties, IsASeq
<1> QED BY <1>1, <1>2, <1>4 DEF Raised, Events

LEMMA OursGrows ==
  ASSUME NEW es, NEW turn, NEW A, NEW B, Ours(es, turn, A), A \subseteq B
  PROVE  Ours(es, turn, B)
BY DEF Ours

LEMMA OursRaised ==
  ASSUME NEW es \in Seq(Events), NEW turn, NEW A, Ours(es, turn, A)
  PROVE  Ours(Raised(es), turn, A)
BY RaisedEvents DEF Ours, ClearedAfter

LEMMA OursShown ==
  ASSUME NEW es, NEW turn, NEW other, NEW A, Ours(es, turn, A), other \in A
  PROVE  Ours(es, other, A)
BY DEF Ours

LEMMA OursAppended ==
  ASSUME NEW es \in Seq(Events), NEW e \in Events, NEW turn, NEW A, Ours(es, turn, A),
         e.kind \in {"pending", "paint"} => e.m \in A
  PROVE  Append(es, e) \in Seq(Events) /\ Ours(Append(es, e), turn, A)
<1> DEFINE fs == Append(es, e)
<1>1. /\ fs \in Seq(Events) /\ Len(fs) = Len(es) + 1 /\ Len(es) \in Nat
      /\ fs[Len(es) + 1] = e /\ \A i \in 1 .. Len(es) : fs[i] = es[i]
  BY AppendProperties
<1>2. \A i \in 0 .. Len(es) : ClearedAfter(es, i) => ClearedAfter(fs, i)
  BY <1>1 DEF ClearedAfter
<1>3. ASSUME NEW i \in 1 .. Len(fs), fs[i].kind \in {"pending", "paint"}, ~ClearedAfter(fs, i)
      PROVE  fs[i].m \in A
  <2>1. CASE i = Len(fs) BY <1>1, <1>3, <2>1
  <2>2. CASE i # Len(fs)
    <3>1. i \in 1 .. Len(es) /\ fs[i] = es[i] BY <1>1, <2>2
    <3> QED BY <1>2, <1>3, <3>1 DEF Ours
  <2> QED BY <2>1, <2>2
<1>4. ~ClearedAfter(fs, 0) => turn \in A
  <2>1. 0 \in 0 .. Len(es) BY <1>1
  <2> QED BY <1>2, <2>1 DEF Ours
<1> QED BY <1>1, <1>3, <1>4 DEF Ours

\* After a "clear" nothing posted before it matters.
LEMMA OursCleared ==
  ASSUME NEW es \in Seq(Events), NEW e \in Events, NEW turn, NEW A, e.kind = "clear"
  PROVE  Append(es, e) \in Seq(Events) /\ Ours(Append(es, e), turn, A)
<1> DEFINE fs == Append(es, e)
<1>1. /\ fs \in Seq(Events) /\ Len(fs) = Len(es) + 1 /\ Len(es) \in Nat
      /\ fs[Len(es) + 1] = e
  BY AppendProperties
<1>2. \A i \in 0 .. Len(es) : ClearedAfter(fs, i)
  BY <1>1 DEF ClearedAfter
<1> QED BY <1>1, <1>2 DEF Ours

\* Running the first callback: what it paints is ours unless it is cleared.
LEMMA OursRun ==
  ASSUME NEW es \in Seq(Events), es # <<>>, NEW turn, NEW other, NEW A, Ours(es, turn, A),
         \/ other = turn /\ Head(es).kind # "clear"
         \/ Head(es).kind \in {"pending", "paint"} /\ other = Head(es).m
         \/ other \in A
  PROVE  /\ Head(es) \in Events /\ Tail(es) \in Seq(Events)
         /\ Ours(Tail(es), other, A)
<1> DEFINE fs == Tail(es)
<1>1. /\ Head(es) \in Events /\ fs \in Seq(Events) /\ Len(es) \in Nat /\ Len(es) >= 1
      /\ Len(fs) = Len(es) - 1 /\ Head(es) = es[1]
      /\ \A i \in 1 .. Len(fs) : fs[i] = es[i + 1]
  BY HeadTailProperties, EmptySeq
<1>2. ASSUME NEW i \in 0 .. Len(fs), ClearedAfter(es, i + 1)
      PROVE  ClearedAfter(fs, i)
  <2>1. PICK j \in 1 .. Len(es) : j > i + 1 /\ es[j].kind = "clear" BY <1>2 DEF ClearedAfter
  <2>2. j - 1 \in 1 .. Len(fs) /\ j - 1 > i /\ fs[j - 1] = es[j] BY <1>1, <2>1
  <2> QED BY <2>1, <2>2 DEF ClearedAfter
<1>3. ASSUME NEW i \in 1 .. Len(fs), fs[i].kind \in {"pending", "paint"}, ~ClearedAfter(fs, i)
      PROVE  fs[i].m \in A
  <2>1. i + 1 \in 1 .. Len(es) /\ fs[i] = es[i + 1] /\ i \in 0 .. Len(fs) BY <1>1
  <2> QED BY <1>2, <1>3, <2>1 DEF Ours
<1>4. ASSUME ~ClearedAfter(fs, 0) PROVE other \in A
  <2>1. 1 \in 1 .. Len(es) /\ 0 \in 0 .. Len(fs) /\ 0 + 1 = 1 BY <1>1
  <2>2. ~ClearedAfter(es, 1) BY <1>2, <1>4, <2>1
  <2>3. CASE Head(es).kind # "clear" /\ other = turn
    <3>1. ~ClearedAfter(es, 0) BY <1>1, <2>2, <2>3 DEF ClearedAfter
    <3> QED BY <3>1, <2>3 DEF Ours
  <2>4. CASE Head(es).kind \in {"pending", "paint"} /\ other = Head(es).m
    BY <1>1, <2>1, <2>2, <2>4 DEF Ours
  <2> QED BY <2>3, <2>4
<1> QED BY <1>1, <1>3, <1>4 DEF Ours

(***************************************************************************)
(* What most steps have in common.                                         *)
(***************************************************************************)
LEMMA Spent ==
  ASSUME NEW l \in Lefts
  PROVE  /\ l.sends > 0 => [l EXCEPT !.sends = @ - 1] \in Lefts
         /\ l.picks > 0 => [l EXCEPT !.picks = @ - 1] \in Lefts
         /\ l.stops > 0 => [l EXCEPT !.stops = @ - 1] \in Lefts
         /\ l.changes > 0 => [l EXCEPT !.changes = @ - 1] \in Lefts
         /\ l.faults > 0 => [l EXCEPT !.faults = @ - 1] \in Lefts
<1>1. /\ l.sends > 0 => l.sends - 1 \in 0 .. Sends
      /\ l.picks > 0 => l.picks - 1 \in Nat
      /\ l.stops > 0 => l.stops - 1 \in Nat
      /\ l.changes > 0 => l.changes - 1 \in Nat
      /\ l.faults > 0 => l.faults - 1 \in Nat
  BY DesktopAssumption DEF Lefts
<1>2. l.sends > 0 => [l EXCEPT !.sends = @ - 1] \in Lefts BY <1>1 DEF Lefts
<1>3. l.picks > 0 => [l EXCEPT !.picks = @ - 1] \in Lefts BY <1>1 DEF Lefts
<1>4. l.stops > 0 => [l EXCEPT !.stops = @ - 1] \in Lefts BY <1>1 DEF Lefts
<1>5. l.changes > 0 => [l EXCEPT !.changes = @ - 1] \in Lefts BY <1>1 DEF Lefts
<1>6. l.faults > 0 => [l EXCEPT !.faults = @ - 1] \in Lefts BY <1>1 DEF Lefts
<1> QED BY <1>2, <1>3, <1>4, <1>5, <1>6

LEMMA Fields ==
  ASSUME DesktopTypes
  PROVE  /\ Messages \subseteq Nat /\ worker.ray \in SomeRay /\ worker.place \in Places
         /\ worker.cmd \in Commands /\ queue.commands \in Seq(Commands)
         /\ view.turn \in Nat /\ left.sends \in 0 .. Sends
         /\ 0 \in AccountedFor
         /\ queue \in Queues /\ events \in Seq(Events)
<1>1. queue \in Queues /\ events \in Seq(Events) /\ worker \in Workers /\ left \in Lefts
  BY DEF DesktopTypes
<1>2. view.turn \in Nat BY DEF DesktopTypes
<1>3. Messages \subseteq Nat BY DesktopAssumption DEF Messages
<1>4. worker.ray \in SomeRay /\ worker.place \in Places /\ worker.cmd \in Commands
  BY <1>1 DEF Workers
<1>5. queue.commands \in Seq(Commands) BY <1>1 DEF Queues
<1>6. left.sends \in 0 .. Sends BY <1>1 DEF Lefts
<1>7. 0 \in AccountedFor BY DEF AccountedFor
<1> QED BY <1>1, <1>2, <1>3, <1>4, <1>5, <1>6, <1>7

\* A step that leaves the worker and the daemons alone.
LEMMA ClickKeeps ==
  ASSUME DesktopInv, UNCHANGED <<worker, daemon>>,
         Queued(queue) \subseteq Queued(queue'),
         \A m \in Messages : fate[m] = "failed" => fate'[m] = "failed" \/ m \in Queued(queue')
  PROVE  AccountedFor \subseteq AccountedFor' /\ WorkerKeeps'
<1>1. WorkerKeeps' BY DEF DesktopInv, WorkerKeeps, Said
<1>2. Said(daemon, worker.ray)' = Said(daemon, worker.ray) /\ Carried(worker)' = Carried(worker)
  BY DEF Said, Carried
<1>3. AccountedFor' = {0} \cup Said(daemon, worker.ray)
           \cup {m \in Messages : fate'[m] = "failed"} \cup Queued(queue') \cup Carried(worker)
  BY <1>2 DEF AccountedFor
<1>4. AccountedFor \subseteq AccountedFor' BY <1>3 DEF AccountedFor
<1> QED BY <1>1, <1>4

(***************************************************************************)
(* Clicks.                                                                 *)
(***************************************************************************)
LEMMA SendMessageOurs ==
  ASSUME DesktopInv, SendMessage
  PROVE  DesktopInv'
<1> DEFINE m == Old - left.sends
           chat == [Cmd("chat") EXCEPT !.m = m]
           named == view.empty /\ tree.selected # NoSession
           titled == IF named /\ tree.selected \notin Titled
                       THEN Enqueue(queue, <<SaveNavigation(tree)>>) ELSE queue
<1>1. m \in Messages
  BY Fields, DesktopAssumption DEF DesktopInv, SendMessage, Old, Messages
<1>2. chat \in Commands /\ chat.kind = "chat" /\ chat.m = m BY <1>1, CommandsMade
<1>3. <<chat>> \in Seq(Commands) /\ ChatsIn(<<chat>>) = {m} BY <1>2, ChatsOfOne
<1>4. titled \in Queues /\ Queued(queue) \subseteq Queued(titled)
  <2>1. queue \in Queues /\ tree \in Trees BY DEF DesktopInv, DesktopTypes
  <2>2. <<SaveNavigation(tree)>> \in Seq(Commands) BY <2>1, CommandsMade, ChatsOfOne
  <2>3. /\ Enqueue(queue, <<SaveNavigation(tree)>>) \in Queues
        /\ Queued(queue) \subseteq Queued(Enqueue(queue, <<SaveNavigation(tree)>>))
    BY <2>1, <2>2, Enqueued
  <2> QED BY <2>1, <2>3
<1>5. queue' = EnqueueUser(titled, <<chat>>) BY DEF SendMessage
<1>6. queue' \in Queues /\ Queued(queue') = Queued(titled) \cup {m}
  BY <1>3, <1>4, <1>5, Enqueued
<1>7. /\ view' = [turn |-> m, generating |-> TRUE, empty |-> FALSE]
      /\ fate' = [fate EXCEPT ![m] = "sent"]
      /\ interrupted' = FALSE /\ events' = Raised(events)
      /\ left' = [left EXCEPT !.sends = @ - 1] /\ left.sends > 0
      /\ UNCHANGED <<tree, worker, daemon>>
  BY DEF SendMessage
<1>8. DesktopTypes'
  <2>1. events' \in Seq(Events) BY <1>7, RaisedEvents DEF DesktopInv, DesktopTypes
  <2>2. view' \in [turn : Nat, generating : BOOLEAN, empty : BOOLEAN]
    BY <1>1, <1>7, Fields DEF DesktopInv
  <2>3. fate' \in [Messages -> {"unsent", "sent", "failed", "carried out"}]
    BY <1>7 DEF DesktopInv, DesktopTypes
  <2>4. left' \in Lefts
    BY <1>7, Spent DEF DesktopInv, DesktopTypes
  <2> QED BY <1>6, <1>7, <2>1, <2>2, <2>3, <2>4 DEF DesktopInv, DesktopTypes
<1>9. AccountedFor \subseteq AccountedFor' /\ WorkerKeeps'
  <2>1. \A t \in Messages : fate[t] = "failed" => fate'[t] = "failed" \/ t \in Queued(queue')
    BY <1>6, <1>7 DEF DesktopInv, DesktopTypes
  <2> QED BY <1>4, <1>6, <1>7, <2>1, ClickKeeps
<1>10. ShownOurs'
  <2>1. m \in AccountedFor' BY <1>6 DEF AccountedFor
  <2>2. Ours(events', view.turn, AccountedFor')
    BY <1>7, <1>9, OursGrows, OursRaised DEF DesktopInv, DesktopTypes, ShownOurs
  <2> QED BY <1>7, <2>1, <2>2, OursShown DEF ShownOurs
<1> QED BY <1>8, <1>9, <1>10 DEF DesktopInv

LEMMA StopGenerationOurs ==
  ASSUME DesktopInv, StopGeneration
  PROVE  DesktopInv'
<1>1. /\ interrupted' = TRUE /\ events' = Append(events, Event("stopped"))
      /\ left' = [left EXCEPT !.stops = @ - 1] /\ left.stops > 0
      /\ UNCHANGED <<tree, view, queue, worker, daemon, fate>>
  BY DEF StopGeneration
<1>2. AccountedFor \subseteq AccountedFor' /\ WorkerKeeps' BY <1>1, ClickKeeps
<1>3. Event("stopped") \in Events /\ Event("stopped").kind = "stopped"
  BY EventTyped DEF EventKinds
<1>4. events' \in Seq(Events) /\ Ours(events', view.turn, AccountedFor')
  BY <1>1, <1>2, <1>3, OursGrows, OursAppended DEF DesktopInv, DesktopTypes, ShownOurs
<1>5. left' \in Lefts
  BY <1>1, Spent DEF DesktopInv, DesktopTypes
<1> QED BY <1>1, <1>2, <1>4, <1>5 DEF DesktopInv, DesktopTypes, ShownOurs

LEMMA SaveSettingsOurs ==
  ASSUME DesktopInv, SaveSettings
  PROVE  DesktopInv'
<1>1. /\ queue' = Enqueue(queue, <<Cmd("settings-save")>>)
      /\ left' = [left EXCEPT !.changes = @ - 1] /\ left.changes > 0
      /\ UNCHANGED <<tree, view, events, interrupted, worker, daemon, fate>>
  BY DEF SaveSettings
<1>2. <<Cmd("settings-save")>> \in Seq(Commands) BY CmdTyped, ChatsOfOne DEF CmdKinds
<1>3. queue' \in Queues /\ Queued(queue) \subseteq Queued(queue')
  <2>1. queue \in Queues BY DEF DesktopInv, DesktopTypes
  <2> QED BY <1>1, <1>2, <2>1, Enqueued
<1>4. AccountedFor \subseteq AccountedFor' /\ WorkerKeeps' BY <1>1, <1>3, ClickKeeps
<1>5. Ours(events', view'.turn, AccountedFor')
  BY <1>1, <1>4, OursGrows DEF DesktopInv, ShownOurs
<1>6. left' \in Lefts
  BY <1>1, Spent DEF DesktopInv, DesktopTypes
<1> QED BY <1>1, <1>3, <1>4, <1>5, <1>6 DEF DesktopInv, DesktopTypes, ShownOurs

\* Picking or creating a session: a new tree and three commands.
LEMMA PickOurs ==
  ASSUME DesktopInv, NEW t \in Trees, NEW cs \in Seq(Commands),
         tree' = t, queue' = Enqueue(queue, cs), events' = Raised(events),
         left' = [left EXCEPT !.picks = @ - 1], left.picks > 0,
         UNCHANGED <<view, interrupted, worker, daemon, fate>>
  PROVE  DesktopInv'
<1>1. queue' \in Queues /\ Queued(queue) \subseteq Queued(queue')
  <2>1. queue \in Queues BY DEF DesktopInv, DesktopTypes
  <2> QED BY <2>1, Enqueued
<1>2. AccountedFor \subseteq AccountedFor' /\ WorkerKeeps' BY <1>1, ClickKeeps
<1>3. events' \in Seq(Events) BY RaisedEvents DEF DesktopInv, DesktopTypes
<1>4. Ours(events', view'.turn, AccountedFor')
  BY <1>2, OursGrows, OursRaised DEF DesktopInv, DesktopTypes, ShownOurs
<1>5. left' \in Lefts
  BY Spent DEF DesktopInv, DesktopTypes
<1> QED BY <1>1, <1>2, <1>3, <1>4, <1>5 DEF DesktopInv, DesktopTypes, ShownOurs

LEMMA Three ==
  ASSUME NEW a \in Commands, NEW b \in Commands, NEW c \in Commands
  PROVE  <<a, b, c>> \in Seq(Commands)
BY SMT

\* The parts of a tree, and trees put together again.
LEMMA TreeParts ==
  ASSUME NEW t \in Trees
  PROVE  /\ DOMAIN t = {"ray", "selected"}
         /\ DOMAIN t.ray \subseteq Sessions
         /\ t.ray \in [DOMAIN t.ray -> SomeRay]
         /\ t.selected \in DOMAIN t.ray \cup {NoSession}
         /\ t = [ray |-> t.ray, selected |-> t.selected]
<1>1. PICK S \in SUBSET Sessions : t \in [ray : [S -> Rays \cup {NoRay}], selected : S \cup {NoSession}]
  BY DEF Trees
<1> QED BY <1>1 DEF SomeRay

LEMMA TreeMade ==
  ASSUME NEW S \in SUBSET Sessions, NEW f \in [S -> SomeRay], NEW s \in S \cup {NoSession}
  PROVE  [ray |-> f, selected |-> s] \in Trees
BY DEF Trees, SomeRay

LEMMA SelectNavigationOurs ==
  ASSUME DesktopInv, NEW s \in Sessions, SelectNavigation(s)
  PROVE  DesktopInv'
<1> DEFINE t == [tree EXCEPT !.selected = s]
           cs == <<SaveNavigation(t), SwitchWorkspace(PlaceOf[s]),
                   OpenSession(t.ray[s], PlaceOf[s])>>
<1>1. tree \in Trees BY DEF DesktopInv, DesktopTypes
<1>2. s \in DOMAIN tree.ray BY DEF SelectNavigation
<1>3. t = [ray |-> tree.ray, selected |-> s] BY <1>1, TreeParts
<1>4. t \in Trees BY <1>1, <1>2, <1>3, TreeParts, TreeMade
<1>5. t.ray[s] \in SomeRay /\ PlaceOf[s] \in Places
  BY <1>1, <1>2, <1>3, TreeParts, DesktopAssumption
<1>6. cs \in Seq(Commands)
  <2>1. SaveNavigation(t) \in Commands BY <1>4, CommandsMade
  <2>2. SwitchWorkspace(PlaceOf[s]) \in Commands BY <1>5, CommandsMade
  <2>3. OpenSession(t.ray[s], PlaceOf[s]) \in Commands BY <1>5, CommandsMade
  <2> QED BY <2>1, <2>2, <2>3, Three
<1>7. /\ tree' = t /\ queue' = Enqueue(queue, cs) /\ events' = Raised(events)
      /\ left' = [left EXCEPT !.picks = @ - 1] /\ left.picks > 0
      /\ UNCHANGED <<view, interrupted, worker, daemon, fate>>
  BY DEF SelectNavigation
<1> HIDE DEF t, cs
<1> QED BY <1>4, <1>6, <1>7, PickOurs

LEMMA QuickCreateOurs ==
  ASSUME DesktopInv, NEW s \in Sessions, QuickCreate(s)
  PROVE  DesktopInv'
<1> DEFINE f == [u \in DOMAIN tree.ray \cup {s} |-> IF u = s THEN NoRay ELSE tree.ray[u]]
           t == [ray |-> f, selected |-> s]
           cs == <<SaveNavigation(t), SwitchWorkspace(PlaceOf[s]), NewSession(PlaceOf[s])>>
<1>1. tree \in Trees BY DEF DesktopInv, DesktopTypes
<1>2. DOMAIN tree.ray \cup {s} \in SUBSET Sessions BY <1>1, TreeParts
<1>3. f \in [DOMAIN tree.ray \cup {s} -> SomeRay] BY <1>1, TreeParts DEF SomeRay
<1>4. t \in Trees BY <1>2, <1>3, TreeMade
<1>5. PlaceOf[s] \in Places BY DesktopAssumption
<1>6. cs \in Seq(Commands)
  <2>1. SaveNavigation(t) \in Commands BY <1>4, CommandsMade
  <2>2. SwitchWorkspace(PlaceOf[s]) \in Commands /\ NewSession(PlaceOf[s]) \in Commands
    BY <1>5, CommandsMade
  <2> QED BY <2>1, <2>2, Three
<1>7. /\ tree' = t /\ queue' = Enqueue(queue, cs) /\ events' = Raised(events)
      /\ left' = [left EXCEPT !.picks = @ - 1] /\ left.picks > 0
      /\ UNCHANGED <<view, interrupted, worker, daemon, fate>>
  BY DEF QuickCreate
<1> HIDE DEF t, cs
<1> QED BY <1>4, <1>6, <1>7, PickOurs

LEMMA BackendConnectsOurs ==
  ASSUME DesktopInv, NEW ok \in BOOLEAN, BackendConnects(ok)
  PROVE  DesktopInv'
<1>1. UNCHANGED <<tree, view, interrupted, worker, daemon, fate>> BY DEF BackendConnects
<1>2. /\ queue' \in Queues /\ Queued(queue) \subseteq Queued(queue')
  <2>1. queue' \in {queue} \cup {[queue EXCEPT !.backend = b] : b \in {"attached", "offline"}}
    BY DEF BackendConnects
  <2>2. \A b \in {"attached", "offline"} :
          LET q == [queue EXCEPT !.backend = b]
          IN q \in Queues /\ q.commands = queue.commands /\ q.held = queue.held
             /\ q.waiting = queue.waiting
    BY DEF DesktopInv, DesktopTypes, Queues
  <2>3. queue \in Queues BY DEF DesktopInv, DesktopTypes
  <2>4. queue' \in Queues /\ queue'.commands = queue.commands /\ queue'.held = queue.held
        /\ queue'.waiting = queue.waiting
    BY <2>1, <2>2, <2>3
  <2> QED BY <2>4 DEF Queued
<1>3. AccountedFor \subseteq AccountedFor' /\ WorkerKeeps' BY <1>1, <1>2, ClickKeeps
<1>4. Event("connected") \in Events /\ Event("connected").kind = "connected"
  BY EventTyped DEF EventKinds
<1>5. events' \in {events, Append(events, Event("connected"))} BY DEF BackendConnects
<1>6. Ours(events, view.turn, AccountedFor') /\ events \in Seq(Events)
  BY <1>3, OursGrows DEF DesktopInv, DesktopTypes, ShownOurs
<1>7. events' \in Seq(Events) /\ Ours(events', view.turn, AccountedFor')
  BY <1>4, <1>5, <1>6, OursAppended
<1>8. left' \in Lefts
  BY Spent DEF BackendConnects, DesktopInv, DesktopTypes
<1> QED BY <1>1, <1>2, <1>3, <1>7, <1>8 DEF DesktopInv, DesktopTypes, ShownOurs

(***************************************************************************)
(* Callbacks.                                                              *)
(***************************************************************************)
LEMMA BindTyped ==
  ASSUME tree \in Trees, queue \in Queues, NEW e \in Events, BindRay(e)
  PROVE  /\ tree' \in Trees /\ queue' \in Queues
         /\ Queued(queue) \subseteq Queued(queue')
<1> DEFINE t == [tree EXCEPT !.ray[tree.selected] = e.ray]
<1>1. CASE tree.selected = NoSession \/ tree.ray[tree.selected] = e.ray
  BY <1>1 DEF BindRay
<1>2. CASE ~(tree.selected = NoSession \/ tree.ray[tree.selected] = e.ray)
  <2>1. tree' = t /\ queue' = Enqueue(queue, <<SaveNavigation(t)>>) BY <1>2 DEF BindRay
  <2>2. tree.selected \in DOMAIN tree.ray /\ e.ray \in SomeRay
    BY <1>2, TreeParts DEF Events
  <2> DEFINE f == [tree.ray EXCEPT ![tree.selected] = e.ray]
  <2>3. t = [ray |-> f, selected |-> tree.selected] BY TreeParts
  <2>4. f \in [DOMAIN tree.ray -> SomeRay] BY <2>2, TreeParts
  <2>5. t \in Trees
    <3> HIDE DEF f, t
    <3> QED BY <2>2, <2>3, <2>4, TreeParts, TreeMade
  <2>6. <<SaveNavigation(t)>> \in Seq(Commands) BY <2>5, CommandsMade, ChatsOfOne
  <2> HIDE DEF t
  <2> QED BY <2>1, <2>5, <2>6, Enqueued
<1> QED BY <1>1, <1>2

LEMMA ShownTyped ==
  ASSUME NEW t \in SomeTree
  PROVE  ShownTree(t) \in SomeTree
<1>1. CASE t = NoNavigation BY <1>1 DEF ShownTree, SomeTree
<1>2. CASE t # NoNavigation
  <2>1. t \in Trees BY <1>2 DEF SomeTree
  <2>2. [t EXCEPT !.selected = NoSession] = [ray |-> t.ray, selected |-> NoSession]
    BY <2>1, TreeParts
  <2>3. [t EXCEPT !.selected = NoSession] \in Trees BY <2>1, <2>2, TreeParts, TreeMade
  <2> QED BY <2>1, <2>3 DEF ShownTree, SomeTree
<1> QED BY <1>1, <1>2

LEMMA SettingsTyped ==
  ASSUME tree \in Trees, queue \in Queues, events \in Seq(Events), events # <<>>,
         NEW e \in Events, ApplySettings(e)
  PROVE  /\ tree' \in Trees /\ queue' \in Queues
         /\ Queued(queue) \subseteq Queued(queue')
         /\ events' \in {Tail(events), Raised(Tail(events))}
<1> DEFINE t == ShownTree(e.tree)
           opens == t # NoNavigation /\ t.selected # NoSession
           opening == IF opens THEN <<SwitchWorkspace(PlaceOf[t.selected]),
                                 OpenSession(t.ray[t.selected], PlaceOf[t.selected])>>
                      ELSE <<>>
<1>1. t \in SomeTree BY ShownTyped DEF Events
<1>2. /\ tree' = IF t = NoNavigation THEN tree ELSE t
      /\ queue' = FinishInitialization(Enqueue(queue, opening))
      /\ events' = IF opens THEN Raised(Tail(events)) ELSE Tail(events)
  BY DEF ApplySettings
<1>3. tree' \in Trees BY <1>1, <1>2 DEF SomeTree
<1>4. opening \in Seq(Commands)
  <2>1. CASE ~opens BY <2>1, ChatsOfNone
  <2>2. CASE opens
    <3>1. t \in Trees BY <1>1, <2>2 DEF SomeTree
    <3>2. t.selected \in DOMAIN t.ray /\ DOMAIN t.ray \subseteq Sessions
      BY <2>2, <3>1, TreeParts
    <3>3. PlaceOf[t.selected] \in Places /\ t.ray[t.selected] \in SomeRay
      BY <3>1, <3>2, TreeParts, DesktopAssumption
    <3>4. /\ SwitchWorkspace(PlaceOf[t.selected]) \in Commands
          /\ OpenSession(t.ray[t.selected], PlaceOf[t.selected]) \in Commands
      BY <3>3, CommandsMade
    <3>5. \A a \in Commands, b \in Commands : <<a, b>> \in Seq(Commands) BY SMT
    <3> QED BY <2>2, <3>4, <3>5
  <2> QED BY <2>1, <2>2
<1> HIDE DEF opening
<1>5. /\ Enqueue(queue, opening) \in Queues
      /\ Queued(queue) \subseteq Queued(Enqueue(queue, opening))
  BY <1>4, Enqueued
<1>6. queue' \in Queues /\ Queued(queue) \subseteq Queued(queue')
  BY <1>2, <1>5, Initialized
<1> QED BY <1>2, <1>3, <1>6

LEMMA PaintedTyped ==
  ASSUME view \in [turn : Nat, generating : BOOLEAN, empty : BOOLEAN], NEW e \in Events
  PROVE  /\ Painted(e) \in [turn : Nat, generating : BOOLEAN, empty : BOOLEAN]
         /\ \/ Painted(e).turn = view.turn /\ e.kind # "clear"
            \/ e.kind \in {"pending", "paint"} /\ Painted(e).turn = e.m
            \/ Painted(e).turn = 0
<1>1. CASE e.kind = "pending" /\ ~e.stale BY <1>1 DEF Painted, Events
<1>2. CASE e.kind = "paint" /\ ~e.stale BY <1>2 DEF Painted, Events
<1>3. CASE e.kind = "finish" /\ ~e.stale BY <1>3 DEF Painted, Events
<1>4. CASE e.kind = "stopped" BY <1>4 DEF Painted, Events
<1>5. CASE e.kind = "clear" BY <1>5 DEF Painted, Events
<1>6. CASE e.kind \notin {"stopped", "clear"} /\ ~(e.kind \in {"pending", "paint", "finish"} /\ ~e.stale)
  BY <1>6 DEF Painted, Events
<1> QED BY <1>1, <1>2, <1>3, <1>4, <1>5, <1>6

LEMMA RunEventOurs ==
  ASSUME DesktopInv, RunEvent
  PROVE  DesktopInv'
<1> DEFINE e == Head(events)
<1>1. /\ queue \in Queues /\ events \in Seq(Events) /\ tree \in Trees
      /\ view \in [turn : Nat, generating : BOOLEAN, empty : BOOLEAN]
      /\ events # <<>> /\ Ours(events, view.turn, AccountedFor)
  BY DEF DesktopInv, DesktopTypes, RunEvent, ShownOurs
<1>2. e \in Events /\ Tail(events) \in Seq(Events) BY <1>1, HeadTailProperties
<1>3. /\ view' = Painted(e)
      /\ UNCHANGED <<interrupted, worker, daemon, fate, left>>
  BY DEF RunEvent
<1>4. /\ tree' \in Trees /\ queue' \in Queues /\ Queued(queue) \subseteq Queued(queue')
      /\ events' \in {Tail(events), Raised(Tail(events))}
  <2>1. CASE e.kind = "bind"
    <3>1. BindRay(e) /\ events' = Tail(events) BY <2>1 DEF RunEvent
    <3> QED BY <1>1, <1>2, <3>1, BindTyped
  <2>2. CASE e.kind = "settings"
    <3>1. ApplySettings(e) BY <2>2 DEF RunEvent
    <3> QED BY <1>1, <1>2, <3>1, SettingsTyped
  <2>3. CASE e.kind = "connected"
    <3> DEFINE p == PushFront(queue, Cmd("config-validate"))
    <3>1. /\ queue' = [p EXCEPT !.backend = "connected"]
          /\ events' = Tail(events) /\ UNCHANGED tree
      BY <2>3 DEF RunEvent
    <3>2. Cmd("config-validate") \in Commands BY CmdTyped DEF CmdKinds
    <3>3. p \in Queues /\ Queued(queue) \subseteq Queued(p) BY <1>1, <3>2, PushedFront
    <3> HIDE DEF p
    <3>4. /\ queue' \in Queues /\ queue'.commands = p.commands /\ queue'.held = p.held
          /\ queue'.waiting = p.waiting
      BY <3>1, <3>3 DEF Queues
    <3>5. Queued(queue') = Queued(p) BY <3>4 DEF Queued
    <3> QED BY <1>1, <3>1, <3>3, <3>4, <3>5
  <2>4. CASE e.kind \notin {"bind", "settings", "connected"}
    <3>1. events' = Tail(events) /\ UNCHANGED <<tree, queue>> BY <2>4 DEF RunEvent
    <3> QED BY <1>1, <3>1
  <2> QED BY <2>1, <2>2, <2>3, <2>4
<1>5. AccountedFor \subseteq AccountedFor' /\ WorkerKeeps' BY <1>3, <1>4, ClickKeeps
<1>6. view' \in [turn : Nat, generating : BOOLEAN, empty : BOOLEAN]
  BY <1>1, <1>2, <1>3, PaintedTyped
<1>7. Ours(Tail(events), view'.turn, AccountedFor')
  <2>1. Ours(events, view.turn, AccountedFor') BY <1>1, <1>5, OursGrows
  <2>2. 0 \in AccountedFor' BY DEF AccountedFor
  <2>3. \/ view'.turn = view.turn /\ e.kind # "clear"
        \/ e.kind \in {"pending", "paint"} /\ view'.turn = e.m
        \/ view'.turn \in AccountedFor'
    BY <1>1, <1>2, <1>3, <2>2, PaintedTyped
  <2> QED BY <1>1, <2>1, <2>3, OursRun
<1>8. events' \in Seq(Events) /\ Ours(events', view'.turn, AccountedFor')
  BY <1>2, <1>4, <1>7, RaisedEvents, OursRaised
<1> QED BY <1>3, <1>4, <1>5, <1>6, <1>8 DEF DesktopInv, DesktopTypes, ShownOurs

(***************************************************************************)
(* The worker takes a command.                                             *)
(***************************************************************************)
LEMMA ActivateWorkspaceOurs ==
  ASSUME DesktopInv, NEW p \in Places, NEW ok \in BOOLEAN, ActivateWorkspace(p, ok)
  PROVE  DesktopInv'
<1>1. /\ queue \in Queues /\ events \in Seq(Events) /\ worker \in Workers /\ left \in Lefts
      /\ Ours(events, view.turn, AccountedFor)
      /\ queue.commands # <<>> /\ Next1.kind = "switch-workspace" /\ worker.pc = "idle"
      /\ UNCHANGED <<tree, view, interrupted, daemon, fate>>
  BY DEF DesktopInv, DesktopTypes, ActivateWorkspace, ShownOurs, Idle
<1>2. Taken \in Queues /\ Queued(Taken) = Queued(queue) BY <1>1, TakenFrom
<1>3. left' \in Lefts BY <1>1, Spent DEF ActivateWorkspace
<1>4. CASE p = worker.place \/ ~ok
  <2>1. queue' = Taken /\ UNCHANGED <<worker, events>> BY <1>4 DEF ActivateWorkspace
  <2>2. AccountedFor \subseteq AccountedFor' /\ WorkerKeeps' BY <1>1, <1>2, <2>1, ClickKeeps
  <2>3. Ours(events', view'.turn, AccountedFor') BY <1>1, <2>1, <2>2, OursGrows
  <2> QED BY <1>1, <1>2, <1>3, <2>1, <2>2, <2>3 DEF DesktopInv, DesktopTypes, ShownOurs
<1>5. CASE ~(p = worker.place \/ ~ok)
  <2>1. /\ worker' = [worker EXCEPT !.place = p, !.ray = NoRay, !.ready = FALSE]
        /\ events' = Append(events, Event("clear"))
        /\ queue' = PushFront(Taken, Cmd("config-validate"))
    BY <1>5 DEF ActivateWorkspace
  <2>2. worker' \in Workers /\ worker'.pc = "idle" BY <1>1, <2>1 DEF Workers, SomeRay
  <2>3. queue' \in Queues
    <3>1. Cmd("config-validate") \in Commands BY CmdTyped DEF CmdKinds
    <3> QED BY <1>2, <2>1, <3>1, PushedFront
  <2>4. events' \in Seq(Events) /\ Ours(events', view'.turn, AccountedFor')
    <3>1. Event("clear") \in Events /\ Event("clear").kind = "clear"
      BY EventTyped DEF EventKinds
    <3> QED BY <1>1, <2>1, <3>1, OursCleared
  <2>5. WorkerKeeps' BY <2>2 DEF WorkerKeeps
  <2> QED BY <1>1, <1>3, <2>2, <2>3, <2>4, <2>5 DEF DesktopInv, DesktopTypes, ShownOurs
<1> QED BY <1>4, <1>5

LEMMA DeferEarlyOurs ==
  ASSUME DesktopInv, DeferEarly
  PROVE  DesktopInv'
<1>1. /\ queue \in Queues /\ Ours(events, view.turn, AccountedFor) /\ queue.commands # <<>>
      /\ queue' = DeferUntilStartupReady(Taken, Next1)
      /\ UNCHANGED <<tree, view, events, interrupted, worker, daemon, fate, left>>
  BY DEF DesktopInv, DesktopTypes, DeferEarly, ShownOurs
<1>2. /\ Next1 \in Commands /\ Taken \in Queues
      /\ Queued(queue) = Queued(Taken) \cup (IF Next1.kind = "chat" THEN {Next1.m} ELSE {})
  BY <1>1, TakenFrom
<1>3. queue' \in Queues /\ Queued(queue') = Queued(queue) BY <1>1, <1>2, Deferred
<1>4. AccountedFor \subseteq AccountedFor' /\ WorkerKeeps' BY <1>1, <1>3, ClickKeeps
<1>5. Ours(events', view'.turn, AccountedFor') BY <1>1, <1>4, OursGrows
<1> QED BY <1>1, <1>3, <1>4, <1>5 DEF DesktopInv, DesktopTypes, ShownOurs

LEMMA ChangeSessionOurs ==
  ASSUME DesktopInv, ChangeSession
  PROVE  DesktopInv'
<1>1. /\ queue \in Queues /\ events \in Seq(Events) /\ worker \in Workers
      /\ Ours(events, view.turn, AccountedFor)
      /\ queue.commands # <<>> /\ Next1.kind \in {"new-session", "open-session"}
      /\ worker.pc = "idle" /\ queue' = Taken
      /\ UNCHANGED <<tree, view, interrupted, daemon, fate, left>>
  BY DEF DesktopInv, DesktopTypes, ChangeSession, ShownOurs, Idle
<1>2. Next1 \in Commands /\ Taken \in Queues /\ Queued(Taken) = Queued(queue)
  BY <1>1, TakenFrom
<1>3. CASE Elsewhere(Next1)
  <2>1. UNCHANGED <<worker, events>> BY <1>3 DEF ChangeSession
  <2>2. AccountedFor \subseteq AccountedFor' /\ WorkerKeeps' BY <1>1, <1>2, <2>1, ClickKeeps
  <2>3. Ours(events', view'.turn, AccountedFor') BY <1>1, <2>1, <2>2, OursGrows
  <2> QED BY <1>1, <1>2, <2>1, <2>2, <2>3 DEF DesktopInv, DesktopTypes, ShownOurs
<1>4. CASE ~Elsewhere(Next1)
  <2>1. /\ events' = Append(events, Event("clear"))
        /\ worker' = IF Next1.kind = "new-session" \/ Next1.ray = NoRay
                       THEN [worker EXCEPT !.ray = NoRay]
                       ELSE [Becomes("sent", Next1) EXCEPT !.ray = Next1.ray]
    BY <1>4 DEF ChangeSession
  <2>2. Next1.ray \in SomeRay BY <1>2, CommandFields
  <2>3. /\ worker' \in Workers /\ worker'.pc \in {"idle", "sent"}
        /\ worker'.pc = "sent" => worker'.ray # NoRay
    BY <1>1, <1>2, <2>1, <2>2 DEF Workers, SomeRay, Becomes
  <2>4. events' \in Seq(Events) /\ Ours(events', view'.turn, AccountedFor')
    <3>1. Event("clear") \in Events /\ Event("clear").kind = "clear"
      BY EventTyped DEF EventKinds
    <3> QED BY <1>1, <2>1, <3>1, OursCleared
  <2>5. WorkerKeeps' BY <2>3 DEF WorkerKeeps
  <2> QED BY <1>1, <1>2, <2>3, <2>4, <2>5 DEF DesktopInv, DesktopTypes, ShownOurs
<1> QED BY <1>3, <1>4

\* A step of the worker after which nothing is lost that was under way.
LEMMA WorkKeeps ==
  ASSUME DesktopInv, worker'.ray = worker.ray, daemon'.log = daemon.log,
         \A m \in Messages : fate[m] = "failed" => fate'[m] = "failed",
         Queued(queue) \cup Carried(worker) \subseteq
           Queued(queue') \cup Carried(worker') \cup {m \in Messages : fate'[m] = "failed"}
  PROVE  AccountedFor \subseteq AccountedFor'
<1>1. Said(daemon', worker'.ray) = Said(daemon, worker.ray) BY DEF Said
<1>2. AccountedFor' = {0} \cup Said(daemon', worker'.ray)
        \cup {m \in Messages : fate'[m] = "failed"} \cup Queued(queue') \cup Carried(worker')
  BY DEF AccountedFor
<1> QED BY <1>1, <1>2 DEF AccountedFor

LEMMA TakeCommandOurs ==
  ASSUME DesktopInv, TakeCommand
  PROVE  DesktopInv'
<1> DEFINE cmd == Next1
           pending == cmd.kind = "chat" /\ ~cmd.projected
           c == [cmd EXCEPT !.projected = @ \/ pending]
<1>1. /\ queue \in Queues /\ events \in Seq(Events) /\ worker \in Workers
      /\ Ours(events, view.turn, AccountedFor) /\ queue.commands # <<>>
      /\ worker.pc = "idle" /\ queue' = Taken /\ worker' = Becomes("sent", c)
      /\ cmd.kind # "open-session"
      /\ events' = IF pending
           THEN Append(Raised(events), [Event("pending") EXCEPT !.m = cmd.m])
           ELSE events
      /\ UNCHANGED <<tree, view, interrupted, daemon, fate, left>>
  BY DEF DesktopInv, DesktopTypes, TakeCommand, ShownOurs, Idle
<1>2. /\ cmd \in Commands /\ Taken \in Queues
      /\ Queued(queue) = Queued(Taken) \cup (IF cmd.kind = "chat" THEN {cmd.m} ELSE {})
  BY <1>1, TakenFrom
<1>3. c \in Commands /\ c.kind = cmd.kind /\ c.m = cmd.m
  BY <1>2 DEF Commands
<1>4. /\ worker' \in Workers /\ worker'.pc = "sent" /\ worker'.cmd = c
      /\ worker'.ray = worker.ray
  BY <1>1, <1>3 DEF Workers, Becomes
<1>5. /\ Carried(worker) = {}
      /\ Carried(worker') = IF cmd.kind = "chat" THEN {cmd.m} ELSE {}
  <2> HIDE DEF c
  <2>1. worker.pc = "idle" BY <1>1
  <2>2. worker'.cmd.kind = cmd.kind /\ worker'.cmd.m = cmd.m BY <1>3, <1>4
  <2> QED BY <2>1, <2>2, <1>4 DEF Carried
<1> HIDE DEF c
<1>6. AccountedFor \subseteq AccountedFor' BY <1>1, <1>2, <1>4, <1>5, WorkKeeps
<1>7. events' \in Seq(Events) /\ Ours(events', view'.turn, AccountedFor')
  <2>1. Ours(events, view.turn, AccountedFor') BY <1>1, <1>6, OursGrows
  <2>2. CASE ~pending BY <1>1, <2>1, <2>2
  <2>3. CASE pending
    <3> DEFINE e == [Event("pending") EXCEPT !.m = cmd.m]
    <3>1. e \in Events /\ e.m = cmd.m BY <1>2, CommandFields, EventsMade
    <3>2. cmd.m \in AccountedFor' BY <1>5, <2>3 DEF AccountedFor
    <3>3. Raised(events) \in Seq(Events) /\ Ours(Raised(events), view.turn, AccountedFor')
      BY <1>1, <2>1, RaisedEvents, OursRaised
    <3>4. events' = Append(Raised(events), e) BY <1>1, <2>3
    <3> HIDE DEF e
    <3> QED BY <1>1, <3>1, <3>2, <3>3, <3>4, OursAppended
  <2> QED BY <2>2, <2>3
<1>8. WorkerKeeps' BY <1>1, <1>3, <1>4 DEF WorkerKeeps
<1> QED BY <1>1, <1>2, <1>4, <1>7, <1>8 DEF DesktopInv, DesktopTypes, ShownOurs

LEMMA TickOurs ==
  ASSUME DesktopInv, Tick
  PROVE  DesktopInv'
<1>1. /\ worker \in Workers /\ Ours(events, view.turn, AccountedFor) /\ worker.pc = "idle"
      /\ worker' = Becomes("sent", Cmd("config-validate"))
      /\ UNCHANGED <<tree, view, events, interrupted, queue, daemon, fate, left>>
  BY DEF DesktopInv, DesktopTypes, Tick, ShownOurs, Idle
<1>2. Cmd("config-validate") \in Commands /\ Cmd("config-validate").kind = "config-validate"
  BY CmdTyped DEF CmdKinds
<1>3. /\ worker' \in Workers /\ worker'.pc = "sent" /\ worker'.ray = worker.ray
      /\ worker'.cmd.kind = "config-validate"
  BY <1>1, <1>2 DEF Workers, Becomes
<1>4. Carried(worker) = {} BY <1>1 DEF Carried
<1>5. AccountedFor \subseteq AccountedFor' BY <1>1, <1>3, <1>4, WorkKeeps
<1>6. Ours(events', view'.turn, AccountedFor') BY <1>1, <1>5, OursGrows
<1>7. WorkerKeeps' BY <1>3 DEF WorkerKeeps
<1> QED BY <1>1, <1>3, <1>6, <1>7 DEF DesktopInv, DesktopTypes, ShownOurs

(***************************************************************************)
(* Answers.                                                                *)
(***************************************************************************)
LEMMA DoneTyped ==
  ASSUME worker \in Workers
  PROVE  /\ Done \in Workers /\ Done.pc = "idle" /\ Done.ray = worker.ray
         /\ Carried(Done) = {}
         /\ \A b \in BOOLEAN : /\ [Done EXCEPT !.ready = b] \in Workers
                               /\ [Done EXCEPT !.ready = b].pc = "idle"
                               /\ [Done EXCEPT !.ready = b].ray = worker.ray
<1>1. Cmd("none") \in Commands BY CmdTyped DEF CmdKinds
<1>2. Done \in Workers /\ Done.pc = "idle" /\ Done.ray = worker.ray
  BY <1>1 DEF Done, Becomes, Workers
<1>3. Carried(Done) = {} BY <1>2 DEF Carried
<1>4. ASSUME NEW b \in BOOLEAN
      PROVE  /\ [Done EXCEPT !.ready = b] \in Workers /\ [Done EXCEPT !.ready = b].pc = "idle"
             /\ [Done EXCEPT !.ready = b].ray = worker.ray
  BY <1>2 DEF Workers
<1> QED BY <1>2, <1>3, <1>4

\* The worker is idle after a step that neither shows nor clears anything.
LEMMA IdleAgain ==
  ASSUME DesktopInv, worker' \in Workers, worker'.pc \in {"idle", "finish"},
         worker'.ray = worker.ray, queue' \in Queues, daemon' \in Daemons,
         daemon'.log = daemon.log, left' \in Lefts,
         fate' \in [Messages -> {"unsent", "sent", "failed", "carried out"}],
         UNCHANGED <<tree, view, events, interrupted>>,
         \A m \in Messages : fate[m] = "failed" => fate'[m] = "failed",
         Queued(queue) \cup Carried(worker) \subseteq
           Queued(queue') \cup {m \in Messages : fate'[m] = "failed"}
  PROVE  DesktopInv'
<1>1. AccountedFor \subseteq AccountedFor' BY WorkKeeps
<1>2. Ours(events', view'.turn, AccountedFor') BY <1>1, OursGrows DEF DesktopInv, ShownOurs
<1>3. WorkerKeeps' BY DEF WorkerKeeps
<1> QED BY <1>2, <1>3 DEF DesktopInv, DesktopTypes, ShownOurs

LEMMA RefusedOurs ==
  ASSUME DesktopInv, Refused
  PROVE  DesktopInv'
<1> DEFINE c == AfterRequest(worker.cmd)
           q == DeferUntilStartupReady(queue, c)
<1>1. /\ worker \in Workers /\ queue \in Queues /\ daemon \in Daemons /\ left \in Lefts
      /\ worker.pc = "sent" /\ queue' = PushFront(q, Cmd("config-validate"))
      /\ worker' = [Done EXCEPT !.ready = FALSE]
      /\ fate \in [Messages -> {"unsent", "sent", "failed", "carried out"}]
      /\ UNCHANGED <<tree, view, events, interrupted, daemon, fate, left>>
  BY DEF DesktopInv, DesktopTypes, Refused
<1>2. c \in Commands /\ c.kind = worker.cmd.kind /\ c.m = worker.cmd.m
  <2>1. worker.cmd \in Commands BY <1>1 DEF Workers
  <2>2. EmptyTree \in SomeTree
    <3>1. [s \in {} |-> NoRay] \in [{} -> SomeRay] /\ {} \in SUBSET Sessions BY DEF SomeRay
    <3>2. NoSession \in {} \cup {NoSession} BY SMT
    <3> QED BY <3>1, <3>2, TreeMade DEF EmptyTree, SomeTree
  <2> QED BY <2>1, <2>2 DEF AfterRequest, Commands
<1> HIDE DEF c
<1>3. /\ q \in Queues
      /\ Queued(q) = Queued(queue) \cup (IF c.kind = "chat" THEN {c.m} ELSE {})
  BY <1>1, <1>2, Deferred
<1> HIDE DEF q
<1>4. queue' \in Queues /\ Queued(q) \subseteq Queued(queue')
  <2>1. Cmd("config-validate") \in Commands BY CmdTyped DEF CmdKinds
  <2> QED BY <1>1, <1>3, <2>1, PushedFront
<1>5. Queued(queue) \cup Carried(worker) \subseteq Queued(queue')
  BY <1>2, <1>3, <1>4 DEF Carried
<1>6. worker' \in Workers /\ worker'.pc = "idle" /\ worker'.ray = worker.ray
  BY <1>1, DoneTyped
<1> QED BY <1>1, <1>4, <1>5, <1>6, IdleAgain

\* Giving a command up: a message in it has failed.
LEMMA GivenUpOurs ==
  ASSUME DesktopInv, worker.pc \in {"sent", "turn"}, GivenUp,
         daemon' \in Daemons, daemon'.log = daemon.log, left' \in Lefts
  PROVE  DesktopInv'
<1>1. /\ worker \in Workers /\ queue \in Queues
      /\ fate \in [Messages -> {"unsent", "sent", "failed", "carried out"}]
      /\ worker' = IF worker.cmd.kind = "chat" THEN [worker EXCEPT !.pc = "finish"] ELSE Done
      /\ queue' = IF worker.cmd.kind = "settings-load" THEN FinishInitialization(queue)
                  ELSE queue
      /\ fate' = IF worker.cmd.kind = "chat" THEN [fate EXCEPT ![worker.cmd.m] = "failed"]
                 ELSE fate
      /\ UNCHANGED <<tree, view, events, interrupted>>
  BY DEF DesktopInv, DesktopTypes, GivenUp
<1>2. queue' \in Queues /\ Queued(queue') = Queued(queue) BY <1>1, Initialized
<1>3. CASE worker.cmd.kind = "chat"
  <2>1. worker' = [worker EXCEPT !.pc = "finish"] /\ fate' = [fate EXCEPT ![worker.cmd.m] = "failed"]
    BY <1>1, <1>3
  <2>2. worker' \in Workers /\ worker'.pc = "finish" /\ worker'.ray = worker.ray
    BY <1>1, <2>1 DEF Workers
  <2>3. worker.cmd.m \in Messages
    <3>1. worker.cmd \in Commands BY <1>1 DEF Workers
    <3> QED BY <1>3, <3>1, CommandFields
  <2>4. /\ fate' \in [Messages -> {"unsent", "sent", "failed", "carried out"}]
        /\ fate'[worker.cmd.m] = "failed"
        /\ \A m \in Messages : fate[m] = "failed" => fate'[m] = "failed"
    BY <1>1, <2>1, <2>3
  <2>5. Carried(worker) \subseteq {m \in Messages : fate'[m] = "failed"}
    BY <2>3, <2>4 DEF Carried
  <2> QED BY <1>1, <1>2, <2>2, <2>4, <2>5, IdleAgain
<1>4. CASE worker.cmd.kind # "chat"
  <2>1. worker' = Done /\ fate' = fate BY <1>1, <1>4
  <2>2. worker' \in Workers /\ worker'.pc = "idle" /\ worker'.ray = worker.ray
    BY <1>1, <2>1, DoneTyped
  <2>3. Carried(worker) = {} BY <1>4 DEF Carried
  <2> QED BY <1>1, <1>2, <2>1, <2>2, <2>3, IdleAgain
<1> QED BY <1>3, <1>4

LEMMA RejectedOurs ==
  ASSUME DesktopInv, Rejected
  PROVE  DesktopInv'
<1>1. /\ worker.pc = "sent" /\ GivenUp /\ UNCHANGED <<daemon, left>>
      /\ daemon \in Daemons /\ left \in Lefts
  BY DEF Rejected, DesktopInv, DesktopTypes
<1> QED BY <1>1, GivenUpOurs

LEMMA AnswerLostOurs ==
  ASSUME DesktopInv, AnswerLost
  PROVE  DesktopInv'
<1>1. /\ worker \in Workers /\ daemon \in Daemons /\ left \in Lefts
      /\ worker.pc \in {"sent", "turn"} /\ GivenUp /\ left.faults > 0
      /\ left' = [left EXCEPT !.faults = @ - 1]
      /\ daemon' = IF worker.pc = "turn"
                     THEN [daemon EXCEPT !.finished = @ \cup {worker.cmd.m}] ELSE daemon
  BY DEF AnswerLost, DesktopInv, DesktopTypes
<1>2. left' \in Lefts BY <1>1, Spent
<1>3. worker.cmd.m \in Nat
  <2>1. worker.cmd \in Commands BY <1>1 DEF Workers
  <2> QED BY <2>1, CommandFields
<1>4. daemon' \in Daemons /\ daemon'.log = daemon.log BY <1>1, <1>3 DEF Daemons
<1> QED BY <1>1, <1>2, <1>4, GivenUpOurs

LEMMA ValidatedOurs ==
  ASSUME DesktopInv, Validated
  PROVE  DesktopInv'
<1>1. /\ worker \in Workers /\ queue \in Queues /\ daemon \in Daemons /\ left \in Lefts
      /\ worker.cmd.kind = "config-validate"
      /\ fate \in [Messages -> {"unsent", "sent", "failed", "carried out"}]
      /\ UNCHANGED <<tree, view, events, interrupted, daemon, fate, left>>
  BY DEF DesktopInv, DesktopTypes, Validated, Asked
<1>2. Carried(worker) = {} BY <1>1 DEF Carried
<1>3. CASE Served /\ ~worker.ready
  <2> DEFINE q == Enqueue(queue, <<Cmd("settings-load")>>)
  <2>1. worker' = [Done EXCEPT !.ready = TRUE] /\ queue' = ReleaseStartupCommands(q)
    BY <1>3 DEF Validated
  <2>2. <<Cmd("settings-load")>> \in Seq(Commands) BY CmdTyped, ChatsOfOne DEF CmdKinds
  <2>3. q \in Queues /\ Queued(queue) \subseteq Queued(q) BY <1>1, <2>2, Enqueued
  <2> HIDE DEF q
  <2>4. queue' \in Queues /\ Queued(queue) \subseteq Queued(queue')
    BY <2>1, <2>3, Released
  <2>5. worker' \in Workers /\ worker'.pc = "idle" /\ worker'.ray = worker.ray
    BY <1>1, <2>1, DoneTyped
  <2> QED BY <1>1, <1>2, <2>4, <2>5, IdleAgain
<1>4. CASE ~(Served /\ ~worker.ready)
  <2>1. worker' = Done /\ UNCHANGED queue BY <1>4 DEF Validated
  <2>2. worker' \in Workers /\ worker'.pc = "idle" /\ worker'.ray = worker.ray
    BY <1>1, <2>1, DoneTyped
  <2> QED BY <1>1, <1>2, <2>1, <2>2, IdleAgain
<1> QED BY <1>3, <1>4

LEMMA SettingsLoadedOurs ==
  ASSUME DesktopInv, SettingsLoaded
  PROVE  DesktopInv'
<1> DEFINE e == [Event("settings") EXCEPT !.tree = daemon.saved[worker.place]]
<1>1. /\ worker \in Workers /\ queue \in Queues /\ daemon \in Daemons
      /\ events \in Seq(Events) /\ Ours(events, view.turn, AccountedFor)
      /\ worker.cmd.kind = "settings-load" /\ events' = Append(events, e) /\ worker' = Done
      /\ UNCHANGED <<tree, view, interrupted, queue, daemon, fate, left>>
  BY DEF DesktopInv, DesktopTypes, SettingsLoaded, Asked, ShownOurs
<1>2. worker' \in Workers /\ worker'.pc = "idle" /\ worker'.ray = worker.ray
  BY <1>1, DoneTyped
<1>3. Carried(worker) = {} BY <1>1 DEF Carried
<1>4. AccountedFor \subseteq AccountedFor' BY <1>1, <1>2, <1>3, WorkKeeps
<1>5. e \in Events /\ e.kind = "settings"
  <2>1. daemon.saved[worker.place] \in SomeTree BY <1>1 DEF Daemons, Workers
  <2> QED BY <2>1, EventsMade
<1>6. Ours(events, view.turn, AccountedFor') BY <1>1, <1>4, OursGrows
<1> HIDE DEF e
<1>7. events' \in Seq(Events) /\ Ours(events', view'.turn, AccountedFor')
  BY <1>1, <1>5, <1>6, OursAppended
<1>8. WorkerKeeps' BY <1>2 DEF WorkerKeeps
<1> QED BY <1>1, <1>2, <1>7, <1>8 DEF DesktopInv, DesktopTypes, ShownOurs

LEMMA NavigationSavedOurs ==
  ASSUME DesktopInv, NavigationSaved
  PROVE  DesktopInv'
<1>1. /\ worker \in Workers /\ queue \in Queues /\ daemon \in Daemons /\ left \in Lefts
      /\ worker.cmd.kind = "navigation-save" /\ worker' = Done
      /\ daemon' = [daemon EXCEPT !.saved[Home] = worker.cmd.tree]
      /\ fate \in [Messages -> {"unsent", "sent", "failed", "carried out"}]
      /\ UNCHANGED <<tree, view, events, interrupted, queue, fate, left>>
  BY DEF DesktopInv, DesktopTypes, NavigationSaved, Asked
<1>2. worker.cmd.tree \in SomeTree
  <2>1. worker.cmd \in Commands BY <1>1 DEF Workers
  <2> QED BY <2>1, CommandFields
<1>3. daemon' \in Daemons /\ daemon'.log = daemon.log BY <1>1, <1>2 DEF Daemons
<1>4. worker' \in Workers /\ worker'.pc = "idle" /\ worker'.ray = worker.ray
  BY <1>1, DoneTyped
<1>5. Carried(worker) = {} BY <1>1 DEF Carried
<1> QED BY <1>1, <1>3, <1>4, <1>5, IdleAgain

LEMMA SettingsSavedOurs ==
  ASSUME DesktopInv, SettingsSaved
  PROVE  DesktopInv'
<1>1. /\ worker \in Workers /\ queue \in Queues /\ daemon \in Daemons /\ left \in Lefts
      /\ worker.cmd.kind = "settings-save" /\ worker' = Done
      /\ daemon' = [daemon EXCEPT !.state[worker.place] = "starting"]
      /\ fate \in [Messages -> {"unsent", "sent", "failed", "carried out"}]
      /\ UNCHANGED <<tree, view, events, interrupted, queue, fate, left>>
  BY DEF DesktopInv, DesktopTypes, SettingsSaved, Asked
<1>3. daemon' \in Daemons /\ daemon'.log = daemon.log BY <1>1 DEF Daemons
<1>4. worker' \in Workers /\ worker'.pc = "idle" /\ worker'.ray = worker.ray
  BY <1>1, DoneTyped
<1>5. Carried(worker) = {} BY <1>1 DEF Carried
<1> QED BY <1>1, <1>3, <1>4, <1>5, IdleAgain

\* A projection is posted: what it shows is accounted for.
LEMMA PhotonsOurs ==
  ASSUME events \in Seq(Events), interrupted \in BOOLEAN, NEW m \in Nat, NEW done \in BOOLEAN,
         NEW w, NEW A, ApplyPhotons(m, done, w), Ours(events, view.turn, A), m \in A
  PROVE  /\ events' \in Seq(Events) /\ Ours(events', view.turn, A)
         /\ worker' = w
<1> DEFINE e == [Event("paint") EXCEPT !.m = m, !.done = done, !.flag = interrupted]
<1>1. events' = Append(Raised(events), e) /\ worker' = w BY DEF ApplyPhotons
<1>2. e \in Events /\ e.m = m BY PaintMade
<1>3. Raised(events) \in Seq(Events) /\ Ours(Raised(events), view.turn, A)
  BY RaisedEvents, OursRaised
<1> HIDE DEF e
<1> QED BY <1>1, <1>2, <1>3, OursAppended

LEMMA SessionOpenedOurs ==
  ASSUME DesktopInv, SessionOpened
  PROVE  DesktopInv'
<1> DEFINE log == IF daemon.at[worker.ray] = worker.place THEN daemon.log[worker.ray] ELSE <<>>
<1>1. /\ worker \in Workers /\ queue \in Queues /\ daemon \in Daemons
      /\ events \in Seq(Events) /\ Ours(events, view.turn, AccountedFor)
      /\ interrupted \in BOOLEAN
      /\ worker.pc = "sent" /\ worker.cmd.kind = "open-session" /\ worker.ray # NoRay
      /\ IF log = <<>> THEN ApplyPhotons(0, FALSE, Done)
         ELSE ApplyPhotons(Last(log), Last(log) \in daemon.finished, Done)
      /\ UNCHANGED <<tree, view, interrupted, queue, daemon, fate, left>>
  BY DEF DesktopInv, DesktopTypes, SessionOpened, Asked, ShownOurs, WorkerKeeps
<1>2. log # <<>> => Last(log) \in Nat /\ Last(log) \in Said(daemon, worker.ray)
  <2> SUFFICES ASSUME log # <<>>
               PROVE  Last(log) \in Nat /\ Last(log) \in Said(daemon, worker.ray)
    OBVIOUS
  <2>1. log = daemon.log[worker.ray] BY SMT
  <2>2. log \in Seq(Nat)
    <3>1. worker.ray \in Rays BY <1>1 DEF Workers, SomeRay
    <3> QED BY <1>1, <2>1, <3>1 DEF Daemons
  <2> HIDE DEF log
  <2>3. Len(log) \in 1 .. Len(log) /\ DOMAIN log = 1 .. Len(log)
    BY <2>2, EmptySeq, LenProperties
  <2>4. Last(log) = log[Len(log)] BY DEF Last
  <2> QED BY <1>1, <2>1, <2>2, <2>3, <2>4, ElementOfSeq DEF Said, ToSet
<1> HIDE DEF log
<1>3. PICK m \in Nat, done \in BOOLEAN : ApplyPhotons(m, done, Done) /\ m \in AccountedFor
  <2>1. CASE log = <<>>
    <3>1. 0 \in AccountedFor /\ 0 \in Nat BY DEF AccountedFor
    <3> QED BY <1>1, <2>1, <3>1
  <2>2. CASE log # <<>>
    <3>1. Last(log) \in AccountedFor BY <1>2, <2>2 DEF AccountedFor
    <3>2. (Last(log) \in daemon.finished) \in BOOLEAN OBVIOUS
    <3> DEFINE over == Last(log) \in daemon.finished
    <3>3. ApplyPhotons(Last(log), over, Done) BY <1>1, <2>2
    <3>4. over \in BOOLEAN BY <3>2
    <3> HIDE DEF over
    <3>5. Last(log) \in Nat BY <1>2, <2>2
    <3> QED BY <3>1, <3>3, <3>4, <3>5
  <2> QED BY <2>1, <2>2
<1>4. /\ events' \in Seq(Events) /\ Ours(events', view.turn, AccountedFor)
      /\ worker' = Done
  BY <1>1, <1>3, PhotonsOurs
<1>5. worker' \in Workers /\ worker'.pc = "idle" /\ worker'.ray = worker.ray
  BY <1>1, <1>4, DoneTyped
<1>6. Carried(worker) = {} BY <1>1 DEF Carried
<1>7. AccountedFor \subseteq AccountedFor' BY <1>1, <1>5, <1>6, WorkKeeps
<1>8. Ours(events', view'.turn, AccountedFor') BY <1>1, <1>4, <1>7, OursGrows
<1>9. WorkerKeeps' BY <1>5 DEF WorkerKeeps
<1> QED BY <1>1, <1>4, <1>5, <1>8, <1>9 DEF DesktopInv, DesktopTypes, ShownOurs

LEMMA TurnStartsOurs ==
  ASSUME DesktopInv, TurnStarts
  PROVE  DesktopInv'
<1> DEFINE r == IF worker.ray # NoRay THEN worker.ray
                ELSE CHOOSE new \in Rays : daemon.at[new] = NoPlace
           m == worker.cmd.m
           c == [worker.cmd EXCEPT !.ray = r]
<1>1. /\ worker \in Workers /\ queue \in Queues /\ daemon \in Daemons
      /\ events \in Seq(Events) /\ Ours(events, view.turn, AccountedFor)
      /\ interrupted \in BOOLEAN /\ worker.pc = "sent" /\ worker.cmd.kind = "chat"
      /\ worker.ray = NoRay => \E new \in Rays : daemon.at[new] = NoPlace
      /\ daemon' = [daemon EXCEPT !.log[r] = Append(@, m),
                                  !.at[r] = IF @ = NoPlace THEN worker.place ELSE @]
      /\ ApplyPhotons(m, FALSE, Becomes("turn", c))
      /\ fate \in [Messages -> {"unsent", "sent", "failed", "carried out"}]
      /\ fate' = [fate EXCEPT ![m] = "carried out"]
      /\ UNCHANGED <<tree, view, interrupted, queue, left>>
  BY DEF DesktopInv, DesktopTypes, TurnStarts, Asked, ShownOurs
<1>2. r \in Rays /\ worker.ray \in {NoRay, r} BY <1>1 DEF Workers, SomeRay
<1> HIDE DEF r
<1>3. m \in Messages /\ m \in Nat /\ worker.cmd \in Commands
  <2>1. worker.cmd \in Commands BY <1>1 DEF Workers
  <2> QED BY <1>1, <2>1, CommandFields
<1>4. c \in Commands /\ c.kind = "chat" /\ c.m = m /\ c.ray = r
  BY <1>1, <1>2, <1>3 DEF Commands, SomeRay
<1> HIDE DEF c
<1>5. m \in AccountedFor
  BY <1>1 DEF AccountedFor, Carried
<1>6. /\ events' \in Seq(Events) /\ Ours(events', view.turn, AccountedFor)
      /\ worker' = Becomes("turn", c)
  BY <1>1, <1>3, <1>5, PhotonsOurs
<1>7. /\ worker' \in Workers /\ worker'.pc = "turn" /\ worker'.cmd = c
      /\ worker'.ray = worker.ray
  BY <1>1, <1>4, <1>6 DEF Workers, Becomes
<1>8. daemon.log[r] \in Seq(Nat) /\ Append(daemon.log[r], m) \in Seq(Nat)
  BY <1>1, <1>2, <1>3, AppendProperties DEF Daemons
<1>9. /\ daemon'.log = [daemon.log EXCEPT ![r] = Append(daemon.log[r], m)]
      /\ daemon' \in Daemons
  BY <1>1, <1>2, <1>8 DEF Daemons, Workers
<1>10. ToSet(daemon'.log[r]) = ToSet(daemon.log[r]) \cup {m}
  <2>1. daemon'.log[r] = Append(daemon.log[r], m) BY <1>1, <1>2, <1>9 DEF Daemons
  <2>2. \A s \in Seq(Nat), e \in Nat : ToSet(Append(s, e)) = ToSet(s) \cup {e}
    <3> SUFFICES ASSUME NEW s \in Seq(Nat), NEW e \in Nat
                 PROVE  ToSet(Append(s, e)) = ToSet(s) \cup {e}
      OBVIOUS
    <3>1. /\ Append(s, e) \in Seq(Nat) /\ Len(Append(s, e)) = Len(s) + 1
          /\ \A i \in 1 .. Len(s) : Append(s, e)[i] = s[i]
          /\ Append(s, e)[Len(s) + 1] = e
      BY AppendProperties
    <3>2. /\ DOMAIN s = 1 .. Len(s) /\ DOMAIN Append(s, e) = 1 .. (Len(s) + 1)
          /\ Len(s) \in Nat
      BY <3>1, LenProperties
    <3>3. 1 .. (Len(s) + 1) = (1 .. Len(s)) \cup {Len(s) + 1} BY <3>2
    <3> QED BY <3>1, <3>2, <3>3 DEF ToSet
  <2> QED BY <1>3, <1>8, <2>1, <2>2
<1>11. Said(daemon, worker.ray) \subseteq Said(daemon', worker'.ray)
  BY <1>2, <1>7, <1>10 DEF Said
<1>12. AccountedFor \subseteq AccountedFor'
  <2>1. Carried(worker') = {m} BY <1>4, <1>7 DEF Carried
  <2>2. Carried(worker) = {m} BY <1>1 DEF Carried
  <2>3. \A t \in Messages : fate[t] = "failed" => fate'[t] = "failed" \/ t = m
    BY <1>1, <1>3
  <2>4. AccountedFor' = {0} \cup Said(daemon', worker'.ray)
          \cup {t \in Messages : fate'[t] = "failed"} \cup Queued(queue') \cup Carried(worker')
    BY DEF AccountedFor
  <2>5. queue' = queue BY <1>1
  <2> QED BY <1>11, <2>1, <2>2, <2>3, <2>4, <2>5 DEF AccountedFor
<1>13. Ours(events', view'.turn, AccountedFor') BY <1>1, <1>6, <1>12, OursGrows
<1>14. WorkerKeeps' BY <1>2, <1>4, <1>7, <1>10 DEF WorkerKeeps
<1>15. fate' \in [Messages -> {"unsent", "sent", "failed", "carried out"}]
  BY <1>1
<1> QED BY <1>1, <1>6, <1>7, <1>9, <1>13, <1>14, <1>15 DEF DesktopInv, DesktopTypes, ShownOurs

LEMMA TurnEndsOurs ==
  ASSUME DesktopInv, TurnEnds
  PROVE  DesktopInv'
<1> DEFINE e == [Event("bind") EXCEPT !.ray = worker.cmd.ray]
<1>1. /\ worker \in Workers /\ queue \in Queues /\ daemon \in Daemons
      /\ events \in Seq(Events) /\ Ours(events, view.turn, AccountedFor)
      /\ worker.pc = "turn" /\ worker.cmd.kind = "chat" /\ worker.cmd.ray \in Rays
      /\ worker.cmd.m \in ToSet(daemon.log[worker.cmd.ray])
      /\ worker.ray \in {NoRay, worker.cmd.ray}
      /\ daemon' = [daemon EXCEPT !.finished = @ \cup {worker.cmd.m}]
      /\ worker' = [worker EXCEPT !.pc = "bound", !.ray = worker.cmd.ray]
      /\ events' = Append(events, e)
      /\ UNCHANGED <<tree, view, interrupted, queue, fate, left>>
  BY DEF DesktopInv, DesktopTypes, TurnEnds, ShownOurs, WorkerKeeps
<1>2. worker.cmd.m \in Nat
  <2>1. worker.cmd \in Commands BY <1>1 DEF Workers
  <2> QED BY <2>1, CommandFields
<1>3. daemon' \in Daemons /\ daemon'.log = daemon.log BY <1>1, <1>2 DEF Daemons
<1>4. /\ worker' \in Workers /\ worker'.pc = "bound" /\ worker'.cmd = worker.cmd
      /\ worker'.ray = worker.cmd.ray
  BY <1>1 DEF Workers, SomeRay
<1>5. worker'.ray # NoRay BY <1>1, <1>4, DesktopAssumption
<1>6. /\ Said(daemon', worker'.ray) = ToSet(daemon.log[worker.cmd.ray])
      /\ Said(daemon, worker.ray) \subseteq Said(daemon', worker'.ray)
      /\ worker.cmd.m \in Said(daemon', worker'.ray)
  BY <1>1, <1>3, <1>4, <1>5 DEF Said
<1>7. AccountedFor \subseteq AccountedFor'
  <2>1. Carried(worker) = {worker.cmd.m} BY <1>1 DEF Carried
  <2>2. AccountedFor' = {0} \cup Said(daemon', worker'.ray)
          \cup {t \in Messages : fate'[t] = "failed"} \cup Queued(queue') \cup Carried(worker')
    BY DEF AccountedFor
  <2>3. queue' = queue /\ fate' = fate BY <1>1
  <2> QED BY <1>6, <2>1, <2>2, <2>3 DEF AccountedFor
<1>8. e \in Events /\ e.kind = "bind" BY <1>1, EventsMade
<1>9. Ours(events, view.turn, AccountedFor') BY <1>1, <1>7, OursGrows
<1> HIDE DEF e
<1>10. events' \in Seq(Events) /\ Ours(events', view'.turn, AccountedFor')
  BY <1>1, <1>8, <1>9, OursAppended
<1>11. WorkerKeeps' BY <1>4, <1>6 DEF WorkerKeeps
<1> QED BY <1>1, <1>3, <1>4, <1>10, <1>11 DEF DesktopInv, DesktopTypes, ShownOurs

LEMMA TurnShownOurs ==
  ASSUME DesktopInv, TurnShown
  PROVE  DesktopInv'
<1>1. /\ worker \in Workers /\ queue \in Queues /\ daemon \in Daemons
      /\ events \in Seq(Events) /\ Ours(events, view.turn, AccountedFor)
      /\ interrupted \in BOOLEAN /\ worker.pc = "bound"
      /\ worker.cmd.m \in Said(daemon, worker.ray)
      /\ ApplyPhotons(worker.cmd.m, TRUE, [worker EXCEPT !.pc = "finish"])
      /\ UNCHANGED <<tree, view, interrupted, queue, daemon, fate, left>>
  BY DEF DesktopInv, DesktopTypes, TurnShown, ShownOurs, WorkerKeeps
<1>2. worker.cmd.m \in Nat
  <2>1. worker.cmd \in Commands BY <1>1 DEF Workers
  <2> QED BY <2>1, CommandFields
<1>3. worker.cmd.m \in AccountedFor BY <1>1 DEF AccountedFor
<1>4. /\ events' \in Seq(Events) /\ Ours(events', view.turn, AccountedFor)
      /\ worker' = [worker EXCEPT !.pc = "finish"]
  BY <1>1, <1>2, <1>3, PhotonsOurs
<1>5. worker' \in Workers /\ worker'.pc = "finish" /\ worker'.ray = worker.ray
  BY <1>1, <1>4 DEF Workers
<1>6. Carried(worker) = {} BY <1>1 DEF Carried
<1>7. AccountedFor \subseteq AccountedFor' BY <1>1, <1>5, <1>6, WorkKeeps
<1>8. Ours(events', view'.turn, AccountedFor') BY <1>1, <1>4, <1>7, OursGrows
<1>9. WorkerKeeps' BY <1>5 DEF WorkerKeeps
<1> QED BY <1>1, <1>4, <1>5, <1>8, <1>9 DEF DesktopInv, DesktopTypes, ShownOurs

LEMMA FinishGenerationUiOurs ==
  ASSUME DesktopInv, FinishGenerationUi
  PROVE  DesktopInv'
<1>1. /\ worker \in Workers /\ queue \in Queues /\ daemon \in Daemons
      /\ events \in Seq(Events) /\ Ours(events, view.turn, AccountedFor)
      /\ worker.pc = "finish" /\ interrupted' = FALSE
      /\ events' = Append(events, Event("finish")) /\ worker' = Done
      /\ UNCHANGED <<tree, view, queue, daemon, fate, left>>
  BY DEF DesktopInv, DesktopTypes, FinishGenerationUi, ShownOurs
<1>2. worker' \in Workers /\ worker'.pc = "idle" /\ worker'.ray = worker.ray
  BY <1>1, DoneTyped
<1>3. Carried(worker) = {} BY <1>1 DEF Carried
<1>4. AccountedFor \subseteq AccountedFor' BY <1>1, <1>2, <1>3, WorkKeeps
<1>5. Event("finish") \in Events /\ Event("finish").kind = "finish"
  BY EventTyped DEF EventKinds
<1>6. Ours(events, view.turn, AccountedFor') BY <1>1, <1>4, OursGrows
<1>7. events' \in Seq(Events) /\ Ours(events', view'.turn, AccountedFor')
  BY <1>1, <1>5, <1>6, OursAppended
<1>8. WorkerKeeps' BY <1>2 DEF WorkerKeeps
<1> QED BY <1>1, <1>2, <1>7, <1>8 DEF DesktopInv, DesktopTypes, ShownOurs

(***************************************************************************)
(* The daemons by themselves, the first state, and the theorem.            *)
(***************************************************************************)
LEMMA DaemonsOurs ==
  ASSUME DesktopInv, NEW p \in Places,
         Reload(p) \/ \E v \in {"ready", "failed", "starting"} : Check(p, v)
  PROVE  DesktopInv'
<1>1. /\ daemon \in Daemons /\ left \in Lefts /\ worker \in Workers /\ queue \in Queues
      /\ Ours(events, view.turn, AccountedFor)
  BY DEF DesktopInv, DesktopTypes, ShownOurs
<1>2. PICK v \in {"ready", "failed", "starting"} : daemon' = [daemon EXCEPT !.state[p] = v]
  BY DEF Reload, Check
<1>3. left' \in Lefts BY <1>1, Spent DEF Reload, Check
<1>4. UNCHANGED <<tree, view, events, interrupted, queue, worker, fate>>
  BY DEF Reload, Check
<1>5. daemon' \in Daemons /\ daemon'.log = daemon.log BY <1>1, <1>2 DEF Daemons
<1>6. AccountedFor \subseteq AccountedFor' BY <1>4, <1>5, WorkKeeps
<1>7. Ours(events', view'.turn, AccountedFor') BY <1>1, <1>4, <1>6, OursGrows
<1>8. WorkerKeeps' BY <1>4, <1>5 DEF DesktopInv, WorkerKeeps, Said
<1> QED BY <1>3, <1>4, <1>5, <1>7, <1>8 DEF DesktopInv, DesktopTypes, ShownOurs

LEMMA DesktopStarts ==
  ASSUME DesktopInit
  PROVE  DesktopInv
<1> DEFINE held(r) == {p \in Places : /\ Stored[p] # NoNavigation
                                      /\ r \in {Stored[p].ray[s] : s \in DOMAIN Stored[p].ray}}
           log == [r \in Rays |->
                     IF \E p \in Places : /\ Stored[p] # NoNavigation
                                          /\ r \in {Stored[p].ray[s] : s \in DOMAIN Stored[p].ray}
                       THEN <<Old>> ELSE <<>>]
           at == [r \in Rays |-> IF held(r) = {} THEN NoPlace
                    ELSE PlaceOf[CHOOSE s \in Sessions : \E p \in held(r) :
                           s \in DOMAIN Stored[p].ray /\ Stored[p].ray[s] = r]]
<1>1. tree \in Trees /\ left \in Lefts BY DesktopAssumption DEF DesktopInit, Lefts
<1>2. /\ view \in [turn : Nat, generating : BOOLEAN, empty : BOOLEAN] /\ view.turn = 0
      /\ events = <<>> /\ interrupted \in BOOLEAN
      /\ fate \in [Messages -> {"unsent", "sent", "failed", "carried out"}]
  BY DEF DesktopInit
<1>3. queue \in Queues
  <2>1. queue = [commands |-> <<>>, held |-> <<>>, waiting |-> <<>>,
                 initializing |-> TRUE, backend |-> "connecting"]
    BY DEF DesktopInit
  <2> QED BY <2>1, ChatsOfNone DEF Queues
<1>4. worker \in Workers /\ worker.pc = "idle"
  <2>1. Cmd("none") \in Commands BY CmdTyped DEF CmdKinds
  <2>2. worker = [pc |-> "idle", cmd |-> Cmd("none"), ready |-> FALSE,
                  ray |-> NoRay, place |-> Home]
    BY DEF DesktopInit
  <2> QED BY <2>1, <2>2, DesktopAssumption DEF Workers, SomeRay
<1>5. daemon \in Daemons
  <2>1. daemon = [state |-> [p \in Places |-> "starting"], log |-> log, at |-> at,
                  finished |-> {Old}, saved |-> Stored]
    BY DEF DesktopInit
  <2>2. Old \in Nat BY DesktopAssumption DEF Old
  <2>3. <<Old>> \in Seq(Nat) /\ <<>> \in Seq(Nat) BY <2>2, EmptySeq
  <2>4. log \in [Rays -> Seq(Nat)] BY <2>3
  <2>5. at \in [Rays -> Places \cup {NoPlace}]
    <3> SUFFICES ASSUME NEW r \in Rays, held(r) # {}
                 PROVE  at[r] \in Places
      OBVIOUS
    <3>1. PICK p \in held(r) : TRUE OBVIOUS
    <3>2. Stored[p] \in Trees /\ \E s \in DOMAIN Stored[p].ray : r = Stored[p].ray[s]
      BY <3>1, DesktopAssumption
    <3>3. \E s \in Sessions : \E q \in held(r) :
            s \in DOMAIN Stored[q].ray /\ Stored[q].ray[s] = r
      BY <3>1, <3>2, TreeParts
    <3> HIDE DEF held
    <3>4. at[r] = PlaceOf[CHOOSE s \in Sessions : \E q \in held(r) :
                            s \in DOMAIN Stored[q].ray /\ Stored[q].ray[s] = r]
      OBVIOUS
    <3> QED BY <3>3, <3>4, DesktopAssumption
  <2>6. Stored \in [Places -> SomeTree] BY DesktopAssumption DEF SomeTree
  <2> HIDE DEF log, at
  <2> QED BY <2>1, <2>2, <2>4, <2>5, <2>6 DEF Daemons
<1>6. events \in Seq(Events) /\ Len(events) = 0 BY <1>2, EmptySeq
<1>7. ShownOurs
  <2>1. 0 \in AccountedFor BY DEF AccountedFor
  <2>2. 1 .. Len(events) = {} BY <1>6
  <2> QED BY <1>2, <2>1, <2>2 DEF ShownOurs, Ours
<1>8. WorkerKeeps BY <1>4 DEF WorkerKeeps
<1> QED BY <1>1, <1>2, <1>3, <1>4, <1>5, <1>6, <1>7, <1>8 DEF DesktopInv, DesktopTypes

LEMMA DesktopSteps ==
  ASSUME DesktopInv, [DesktopNext]_desktopVars
  PROVE  DesktopInv'
<1>1. CASE Clicks
  BY <1>1, SendMessageOurs, StopGenerationOurs, SaveSettingsOurs, SelectNavigationOurs,
     QuickCreateOurs DEF Clicks
<1>2. CASE RunEvent BY <1>2, RunEventOurs
<1>3. CASE Takes
  BY <1>3, ActivateWorkspaceOurs, DeferEarlyOurs, ChangeSessionOurs, TakeCommandOurs, TickOurs
  DEF Takes
<1>4. CASE Answers
  BY <1>4, RefusedOurs, RejectedOurs, AnswerLostOurs, ValidatedOurs, SettingsLoadedOurs,
     NavigationSavedOurs, SettingsSavedOurs, SessionOpenedOurs, TurnStartsOurs, TurnEndsOurs,
     TurnShownOurs, FinishGenerationUiOurs
  DEF Answers
<1>5. CASE \E ok \in BOOLEAN : BackendConnects(ok) BY <1>5, BackendConnectsOurs
<1>6. CASE \E p \in Places : Reload(p) \/ \E v \in {"ready", "failed", "starting"} : Check(p, v)
  BY <1>6, DaemonsOurs
<1>7. CASE UNCHANGED desktopVars
  <2>1. UNCHANGED <<tree, view, events, interrupted, queue, worker, daemon, fate, left>>
    BY <1>7 DEF desktopVars
  <2>2. /\ queue \in Queues /\ worker \in Workers /\ daemon \in Daemons /\ left \in Lefts
        /\ Ours(events, view.turn, AccountedFor)
    BY DEF DesktopInv, DesktopTypes, ShownOurs
  <2>3. AccountedFor \subseteq AccountedFor' BY <2>1, WorkKeeps
  <2>4. Ours(events', view'.turn, AccountedFor') BY <2>1, <2>2, <2>3, OursGrows
  <2>5. WorkerKeeps' BY <2>1 DEF DesktopInv, WorkerKeeps, Said
  <2> QED BY <2>1, <2>4, <2>5 DEF DesktopInv, DesktopTypes, ShownOurs
<1> QED BY <1>1, <1>2, <1>3, <1>4, <1>5, <1>6, <1>7 DEF DesktopNext

LEMMA DesktopQuiet ==
  ASSUME DesktopInv
  PROVE  QuietViewIsOurs
<1> SUFFICES ASSUME Resting, view.turn # 0
             PROVE  \/ worker.ray # NoRay /\ view.turn \in ToSet(daemon.log[worker.ray])
                    \/ view.turn \in Messages /\ fate[view.turn] = "failed"
  BY DEF QuietViewIsOurs
<1>1. /\ worker.pc = "idle" /\ events = <<>> /\ queue.commands = <<>>
      /\ queue.held = <<>> /\ queue.waiting = <<>>
  BY DEF Resting
<1>2. view.turn \in AccountedFor
  <2>1. Len(events) = 0 /\ 1 .. 0 = {} BY <1>1, EmptySeq
  <2>2. ~ClearedAfter(events, 0) BY <2>1 DEF ClearedAfter
  <2> QED BY <2>2 DEF DesktopInv, ShownOurs, Ours
<1>3. Queued(queue) = {} BY <1>1, ChatsOfNone DEF Queued
<1>4. Carried(worker) = {} BY <1>1 DEF Carried
<1> QED BY <1>2, <1>3, <1>4 DEF AccountedFor, Said

(* When nothing is under way, the conversation on the screen is the one the  *)
(* next message goes to, or a message that failed.                           *)
THEOREM QuietViewIsOursHolds == DesktopSpec => []QuietViewIsOurs
<1>1. DesktopInit => DesktopInv BY DesktopStarts
<1>2. DesktopInv /\ [DesktopNext]_desktopVars => DesktopInv' BY DesktopSteps
<1>3. DesktopInv => QuietViewIsOurs BY DesktopQuiet
<1> QED BY <1>1, <1>2, <1>3, PTL DEF DesktopSpec
=============================================================================
