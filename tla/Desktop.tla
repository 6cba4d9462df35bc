------------------------------ MODULE Desktop ------------------------------
(* The desktop client: the window's thread, which handles clicks and runs    *)
(* the callbacks posted to Slint's event loop in order; the controller's     *)
(* worker thread, which takes commands from a queue, carries each out as one *)
(* request to a daemon and posts callbacks; and the daemons, one per         *)
(* workspace, as far as the client can tell them apart.                      *)
(*                                                                           *)
(* A message is its number: 1, 2, ... in the order of sending; Old is the    *)
(* one turn of a conversation an earlier run of the client left behind.      *)
(* Titles, text, settings and the trace are left out.                        *)
EXTENDS Naturals, Sequences, SequencesExt

CONSTANTS
  Sessions, Rays, Places,  \* sessions of the navigation tree, rays, workspaces
  Home,                    \* navigation_workspace_, where the tree is saved
  PlaceOf,                 \* the workspace each session belongs to
  Stored,                  \* the tree each daemon has saved: a tree or NoNavigation
  Example,                 \* the tree the window starts with
  Titled,                  \* sessions whose title a user gave: title_manual
  Restore,                 \* restore_initial_workspace_: no --workspace was given
  NoRay, NoPlace, NoNavigation, NoSession,
  Sends, Picks, Stops, Changes, Faults,     \* bounds
  Backlog                  \* bound of the callbacks not run yet

Old == Sends + 1
Messages == 1 .. Sends
EmptyTree == [ray |-> [s \in {} |-> NoRay], selected |-> NoSession]

\* Trees of sessions, each with the ray it has or none, one of them selected.
Trees ==
  UNION {[ray : [S -> Rays \cup {NoRay}], selected : S \cup {NoSession}] : S \in SUBSET Sessions}

ASSUME DesktopAssumption ==
  /\ Sends \in Nat /\ Picks \in Nat /\ Stops \in Nat /\ Changes \in Nat /\ Faults \in Nat
  /\ NoRay \notin Rays
  /\ Home \in Places /\ PlaceOf \in [Sessions -> Places]
  /\ Example \in Trees /\ Stored \in [Places -> Trees \cup {NoNavigation}]

VARIABLES
  tree,          \* navigation_: [ray: of each session, selected: a session]
  view,          \* the window's properties a reader of the conversation sees
  events,        \* callbacks posted to the event loop and not run yet
  interrupted,   \* generation_interrupted_
  queue,         \* commands_, deferred_user_commands_, startup_deferred_commands_
                 \* with the flag initializing_ and how connecting went
  worker,        \* the worker thread: its step, its command and its own fields
  daemon,        \* the daemons: state, rays, the saved tree
  fate,          \* history: what became of each message
  left           \* what is left of each bound

desktopVars == <<tree, view, events, interrupted, queue, worker, daemon, fate, left>>

Cmd(kind) == [kind |-> kind, m |-> 0, ray |-> NoRay, place |-> NoPlace,
              tree |-> NoNavigation, projected |-> FALSE]
Event(kind) == [kind |-> kind, stale |-> FALSE, m |-> 0, done |-> FALSE,
                flag |-> FALSE, ray |-> NoRay, tree |-> NoNavigation]

(* projection_serial_ is raised: a callback that carries the number of a     *)
(* projection paints nothing from now on.                                    *)
Raised(es) == [i \in DOMAIN es |-> [es[i] EXCEPT !.stale = TRUE]]

DesktopInit ==
  /\ tree = Example
  /\ view = [turn |-> 0, generating |-> FALSE, empty |-> TRUE]
  /\ events = <<>> /\ interrupted = FALSE
  /\ queue = [commands |-> <<>>, held |-> <<>>, waiting |-> <<>>,
              initializing |-> TRUE, backend |-> "connecting"]
  /\ worker = [pc |-> "idle", cmd |-> Cmd("none"), ready |-> FALSE,
               ray |-> NoRay, place |-> Home]
  /\ daemon = [state |-> [p \in Places |-> "starting"],
               log |-> [r \in Rays |->
                          IF \E p \in Places : /\ Stored[p] # NoNavigation
                                               /\ r \in {Stored[p].ray[s] : s \in DOMAIN Stored[p].ray}
                            THEN <<Old>> ELSE <<>>],
               at |-> [r \in Rays |->
                          LET ps == {p \in Places : /\ Stored[p] # NoNavigation
                                                    /\ r \in {Stored[p].ray[s] : s \in DOMAIN Stored[p].ray}}
                          IN IF ps = {} THEN NoPlace
                             ELSE PlaceOf[CHOOSE s \in Sessions : \E p \in ps :
                                            s \in DOMAIN Stored[p].ray /\ Stored[p].ray[s] = r]],
               finished |-> {Old}, saved |-> Stored]
  /\ fate = [m \in Messages |-> "unsent"]
  /\ left = [sends |-> Sends, picks |-> Picks, stops |-> Stops, changes |-> Changes,
             faults |-> Faults]

(***************************************************************************)
(* The queue of commands, under the controller's mutex.                    *)
(***************************************************************************)
Enqueue(q, cs) == [q EXCEPT !.commands = @ \o cs]

EnqueueUser(q, cs) ==
  IF q.initializing THEN [q EXCEPT !.held = @ \o cs] ELSE Enqueue(q, cs)

FinishInitialization(q) ==
  IF ~q.initializing THEN q
  ELSE [q EXCEPT !.initializing = FALSE, !.commands = @ \o q.held, !.held = <<>>]

PushFront(q, c) == [q EXCEPT !.commands = <<c>> \o @]

DeferUntilStartupReady(q, c) == [q EXCEPT !.waiting = Append(@, c)]

\* A mutant: what was put off stays put off.
ReleaseNothing(q) == q

ReleaseStartupCommands(q) ==
  [q EXCEPT !.commands = @ \o q.waiting, !.waiting = <<>>]

SaveNavigation(t) == [Cmd("navigation-save") EXCEPT !.tree = t]
SwitchWorkspace(p) == [Cmd("switch-workspace") EXCEPT !.place = p]
OpenSession(r, p) == [Cmd("open-session") EXCEPT !.ray = r, !.place = p]
NewSession(p) == [Cmd("new-session") EXCEPT !.place = p]

(***************************************************************************)
(* The window's thread: clicks.                                            *)
(***************************************************************************)
(* The composer offers to send only while nothing is being generated.  The  *)
(* first message names its session: the tree is saved.                      *)
SendMessage ==
  /\ left.sends > 0 /\ ~view.generating
  /\ LET m == Old - left.sends
         named == view.empty /\ tree.selected # NoSession
         titled == IF named /\ tree.selected \notin Titled
                     THEN Enqueue(queue, <<SaveNavigation(tree)>>) ELSE queue
     IN /\ queue' = EnqueueUser(titled, <<[Cmd("chat") EXCEPT !.m = m]>>)
        /\ view' = [turn |-> m, generating |-> TRUE, empty |-> FALSE]
        /\ fate' = [fate EXCEPT ![m] = "sent"]
  /\ interrupted' = FALSE /\ events' = Raised(events)
  /\ left' = [left EXCEPT !.sends = @ - 1]
  /\ UNCHANGED <<tree, worker, daemon>>

StopGeneration ==
  /\ left.stops > 0 /\ view.generating
  /\ interrupted' = TRUE
  /\ events' = Append(events, Event("stopped"))
  /\ left' = [left EXCEPT !.stops = @ - 1]
  /\ UNCHANGED <<tree, view, queue, worker, daemon, fate>>

SelectNavigation(s) ==
  /\ left.picks > 0 /\ s \in DOMAIN tree.ray
  /\ LET t == [tree EXCEPT !.selected = s]
     IN /\ tree' = t
        /\ queue' = Enqueue(queue, <<SaveNavigation(t), SwitchWorkspace(PlaceOf[s]),
                                     OpenSession(t.ray[s], PlaceOf[s])>>)
  /\ events' = Raised(events)
  /\ left' = [left EXCEPT !.picks = @ - 1]
  /\ UNCHANGED <<view, interrupted, worker, daemon, fate>>

QuickCreate(s) ==
  /\ left.picks > 0 /\ s \notin DOMAIN tree.ray
  /\ LET t == [ray |-> [u \in DOMAIN tree.ray \cup {s} |->
                        IF u = s THEN NoRay ELSE tree.ray[u]],
               selected |-> s]
     IN /\ tree' = t
        /\ queue' = Enqueue(queue, <<SaveNavigation(t), SwitchWorkspace(PlaceOf[s]),
                                     NewSession(PlaceOf[s])>>)
  /\ events' = Raised(events)
  /\ left' = [left EXCEPT !.picks = @ - 1]
  /\ UNCHANGED <<view, interrupted, worker, daemon, fate>>

SaveSettings ==
  /\ left.changes > 0
  /\ queue' = Enqueue(queue, <<Cmd("settings-save")>>)
  /\ left' = [left EXCEPT !.changes = @ - 1]
  /\ UNCHANGED <<tree, view, events, interrupted, worker, daemon, fate>>

(* The thread that connects, once: an event tells the window's thread, or   *)
(* a dialog does and nothing tries again.                                   *)
BackendConnects(ok) ==
  /\ queue.backend = "connecting"
  /\ IF ok THEN /\ queue' = [queue EXCEPT !.backend = "attached"]
                /\ events' = Append(events, Event("connected"))
                /\ UNCHANGED left
     ELSE /\ left.faults > 0
          /\ left' = [left EXCEPT !.faults = @ - 1]
          /\ queue' = [queue EXCEPT !.backend = "offline"]
          /\ UNCHANGED events
  /\ UNCHANGED <<tree, view, interrupted, worker, daemon, fate>>

(***************************************************************************)
(* The window's thread: callbacks, in the order they were posted.          *)
(***************************************************************************)
Painted(e) ==
  CASE e.kind = "pending" /\ ~e.stale ->
         [turn |-> e.m, generating |-> TRUE, empty |-> FALSE]
    [] e.kind = "paint" /\ ~e.stale ->
         [turn |-> e.m, generating |-> ~e.done /\ ~e.flag,
          empty |-> e.m = 0]
    [] e.kind = "finish" /\ ~e.stale -> [view EXCEPT !.generating = FALSE]
    [] e.kind = "stopped" -> [view EXCEPT !.generating = FALSE]
    [] e.kind = "clear" -> [view EXCEPT !.turn = 0, !.empty = TRUE]
    [] OTHER -> view

BindRay(e) ==
  IF tree.selected = NoSession \/ tree.ray[tree.selected] = e.ray
    THEN UNCHANGED <<tree, queue>>
    ELSE LET t == [tree EXCEPT !.ray[tree.selected] = e.ray]
         IN tree' = t /\ queue' = Enqueue(queue, <<SaveNavigation(t)>>)

(* With --workspace given, a session in a workspace other than the worker's  *)
(* at this moment is not selected.                                          *)
ShownTree(t) ==
  IF t # NoNavigation /\ ~Restore
    THEN IF t.selected # NoSession /\ PlaceOf[t.selected] # worker.place
           THEN [t EXCEPT !.selected = NoSession] ELSE t
    ELSE t

(* The tree of the settings replaces the window's, and its selected session *)
(* is opened; only then are the messages typed until now let through.       *)
ApplySettings(e) ==
  LET t == ShownTree(e.tree)
      opens == t # NoNavigation /\ t.selected # NoSession
      opening == IF opens THEN <<SwitchWorkspace(PlaceOf[t.selected]),
                                 OpenSession(t.ray[t.selected], PlaceOf[t.selected])>>
                 ELSE <<>>
  IN /\ tree' = IF t = NoNavigation THEN tree ELSE t
     /\ queue' = FinishInitialization(Enqueue(queue, opening))
     /\ events' = IF opens THEN Raised(Tail(events)) ELSE Tail(events)

RunEvent ==
  /\ events # <<>>
  /\ LET e == Head(events)
     IN /\ view' = Painted(e)
        /\ CASE e.kind = "bind" -> BindRay(e) /\ events' = Tail(events)
             [] e.kind = "settings" -> ApplySettings(e)
             [] e.kind = "connected" ->
                  /\ queue' = [PushFront(queue, Cmd("config-validate")) EXCEPT !.backend = "connected"]
                  /\ events' = Tail(events) /\ UNCHANGED tree
             [] OTHER -> events' = Tail(events) /\ UNCHANGED <<tree, queue>>
  /\ UNCHANGED <<interrupted, worker, daemon, fate, left>>

(***************************************************************************)
(* The worker takes a command.                                             *)
(***************************************************************************)
Idle == worker.pc = "idle" /\ queue.backend = "connected" /\ Len(events) < Backlog
Next1 == Head(queue.commands)
Taken == [queue EXCEPT !.commands = Tail(@)]
Becomes(pc, c) == [worker EXCEPT !.pc = pc, !.cmd = c]

ActivateWorkspace(p, ok) ==
  /\ Idle /\ queue.commands # <<>> /\ Next1.kind = "switch-workspace" /\ p = Next1.place
  /\ IF p = worker.place \/ ~ok
       THEN /\ queue' = Taken /\ UNCHANGED <<worker, events>>
       ELSE /\ worker' = [worker EXCEPT !.place = p, !.ray = NoRay, !.ready = FALSE]
            /\ events' = Append(events, Event("clear"))
            /\ queue' = PushFront(Taken, Cmd("config-validate"))
  /\ IF ok THEN UNCHANGED left
     ELSE /\ left.faults > 0 /\ p # worker.place
          /\ left' = [left EXCEPT !.faults = @ - 1]
  /\ UNCHANGED <<tree, view, interrupted, daemon, fate>>

(* Until the daemon has said it is ready, everything else waits.            *)
DeferEarly ==
  /\ Idle /\ queue.commands # <<>> /\ ~worker.ready
  /\ Next1.kind \notin {"switch-workspace", "config-validate"}
  /\ queue' = DeferUntilStartupReady(Taken, Next1)
  /\ UNCHANGED <<tree, view, events, interrupted, worker, daemon, fate, left>>

Elsewhere(c) == c.place # NoPlace /\ c.place # worker.place

\* A mutant: a new session leaves the old conversation on the screen.
ChangeSessionUncleared ==
  /\ Idle /\ queue.commands # <<>> /\ worker.ready
  /\ Next1.kind \in {"new-session", "open-session"}
  /\ queue' = Taken
  /\ worker' = IF Elsewhere(Next1) THEN worker
               ELSE IF Next1.kind = "new-session" \/ Next1.ray = NoRay
                 THEN [worker EXCEPT !.ray = NoRay]
                 ELSE [Becomes("sent", Next1) EXCEPT !.ray = Next1.ray]
  /\ UNCHANGED <<tree, view, events, interrupted, daemon, fate, left>>

ChangeSession ==
  /\ Idle /\ queue.commands # <<>> /\ worker.ready
  /\ Next1.kind \in {"new-session", "open-session"}
  /\ queue' = Taken
  /\ IF Elsewhere(Next1) THEN UNCHANGED <<worker, events>>
     ELSE /\ events' = Append(events, Event("clear"))
          /\ worker' = IF Next1.kind = "new-session" \/ Next1.ray = NoRay
                         THEN [worker EXCEPT !.ray = NoRay]
                         ELSE [Becomes("sent", Next1) EXCEPT !.ray = Next1.ray]
  /\ UNCHANGED <<tree, view, interrupted, daemon, fate, left>>

TakeCommand ==
  /\ Idle /\ queue.commands # <<>>
  /\ LET cmd == Next1
         pending == cmd.kind = "chat" /\ ~cmd.projected
     IN /\ cmd.kind \notin {"switch-workspace", "new-session", "open-session"}
        /\ worker.ready \/ cmd.kind = "config-validate"
        /\ IF pending
             THEN events' = Append(Raised(events), [Event("pending") EXCEPT !.m = cmd.m])
             ELSE UNCHANGED events
        /\ worker' = Becomes("sent", [cmd EXCEPT !.projected = @ \/ pending])
  /\ queue' = Taken
  /\ UNCHANGED <<tree, view, interrupted, daemon, fate, left>>

(* Nothing to do for a second: the configuration is validated again.  Once  *)
(* the daemon was ready this only renews the status line.                   *)
Tick ==
  /\ Idle /\ queue.commands = <<>> /\ ~worker.ready
  /\ worker' = Becomes("sent", Cmd("config-validate"))
  /\ UNCHANGED <<tree, view, events, interrupted, queue, daemon, fate, left>>

(***************************************************************************)
(* The worker gets its answer.                                             *)
(***************************************************************************)
Asked(kinds) == worker.pc = "sent" /\ worker.cmd.kind \in kinds
Endpoint == IF worker.cmd.kind = "navigation-save" THEN Home ELSE worker.place
Served == daemon.state[Endpoint] = "ready"
Done == Becomes("idle", Cmd("none"))

(* Building the request moved the payload of these two out of the command.  *)
AfterRequest(c) ==
  IF c.kind = "navigation-save" THEN [c EXCEPT !.tree = EmptyTree] ELSE c

(* "Not yet": the command waits for the daemon and is asked again.          *)
Refused ==
  /\ worker.pc = "sent" /\ worker.cmd.kind # "config-validate"
  /\ daemon.state[Endpoint] = "starting"
  /\ queue' = PushFront(DeferUntilStartupReady(queue, AfterRequest(worker.cmd)),
                        Cmd("config-validate"))
  /\ worker' = [Done EXCEPT !.ready = FALSE]
  /\ UNCHANGED <<tree, view, events, interrupted, daemon, fate, left>>

(* Any other failure ends the command; the user sees a dialog.  A request    *)
(* whose answer is lost may have been carried out.                           *)
GivenUp ==
  /\ worker' = IF worker.cmd.kind = "chat" THEN [worker EXCEPT !.pc = "finish"] ELSE Done
  /\ queue' = IF worker.cmd.kind = "settings-load" THEN FinishInitialization(queue) ELSE queue
  /\ fate' = IF worker.cmd.kind = "chat" THEN [fate EXCEPT ![worker.cmd.m] = "failed"] ELSE fate
  /\ UNCHANGED <<tree, view, events, interrupted>>

Rejected ==
  /\ worker.pc = "sent" /\ worker.cmd.kind # "config-validate"
  /\ daemon.state[Endpoint] = "failed"
  /\ GivenUp /\ UNCHANGED <<daemon, left>>

AnswerLost ==
  /\ worker.pc \in {"sent", "turn"} /\ worker.cmd.kind # "config-validate" /\ left.faults > 0
  /\ left' = [left EXCEPT !.faults = @ - 1]
  /\ daemon' = IF worker.pc = "turn" THEN [daemon EXCEPT !.finished = @ \cup {worker.cmd.m}]
               ELSE daemon
  /\ GivenUp

\* A mutant: the settings are loaded again whenever the daemon says it is ready.
ValidatedReloading ==
  /\ Asked({"config-validate"})
  /\ worker' = [Done EXCEPT !.ready = Served]
  /\ queue' = IF Served
                THEN ReleaseStartupCommands(
                       Enqueue(queue, <<Cmd("settings-load"), Cmd("config-validate")>>))
                ELSE queue
  /\ UNCHANGED <<tree, view, events, interrupted, daemon, fate, left>>

Validated ==
  /\ Asked({"config-validate"})
  /\ IF Served /\ ~worker.ready
       THEN /\ worker' = [Done EXCEPT !.ready = TRUE]
            /\ queue' = ReleaseStartupCommands(
                          Enqueue(queue, <<Cmd("settings-load")>>))
       ELSE /\ worker' = Done /\ UNCHANGED queue
  /\ UNCHANGED <<tree, view, events, interrupted, daemon, fate, left>>

SettingsLoaded ==
  /\ Asked({"settings-load"}) /\ Served
  /\ events' = Append(events, [Event("settings") EXCEPT !.tree = daemon.saved[worker.place]])
  /\ worker' = Done
  /\ UNCHANGED <<tree, view, interrupted, queue, daemon, fate, left>>

NavigationSaved ==
  /\ Asked({"navigation-save"}) /\ Served
  /\ daemon' = [daemon EXCEPT !.saved[Home] = worker.cmd.tree]
  /\ worker' = Done
  /\ UNCHANGED <<tree, view, events, interrupted, queue, fate, left>>

(* Settings and providers are written to the file, which is then validated. *)
SettingsSaved ==
  /\ Asked({"settings-save"}) /\ Served
  /\ daemon' = [daemon EXCEPT !.state[worker.place] = "starting"]
  /\ worker' = Done
  /\ UNCHANGED <<tree, view, events, interrupted, queue, fate, left>>

(* apply_photons: the projection is numbered before it is posted.           *)
ApplyPhotons(m, done, w) ==
  /\ events' = Append(Raised(events), [Event("paint") EXCEPT !.m = m, !.done = done,
                                                             !.flag = interrupted])
  /\ worker' = w

SessionOpened ==
  /\ Asked({"open-session"}) /\ Served
  /\ LET log == IF daemon.at[worker.ray] = worker.place THEN daemon.log[worker.ray] ELSE <<>>
     IN IF log = <<>> THEN ApplyPhotons(0, FALSE, Done)
        ELSE ApplyPhotons(Last(log), Last(log) \in daemon.finished, Done)
  /\ UNCHANGED <<tree, view, interrupted, queue, daemon, fate, left>>

(* The daemon takes the message up, in the ray it is given or a new one     *)
(* (Rays bounds how many new ones there are).                              *)
TurnStarts ==
  /\ Asked({"chat"}) /\ Served
  /\ worker.ray = NoRay => \E new \in Rays : daemon.at[new] = NoPlace
  /\ LET r == IF worker.ray # NoRay THEN worker.ray
              ELSE CHOOSE new \in Rays : daemon.at[new] = NoPlace
     IN /\ daemon' = [daemon EXCEPT !.log[r] = Append(@, worker.cmd.m),
                                    !.at[r] = IF @ = NoPlace THEN worker.place ELSE @]
        /\ ApplyPhotons(worker.cmd.m, FALSE, Becomes("turn", [worker.cmd EXCEPT !.ray = r]))
  /\ fate' = [fate EXCEPT ![worker.cmd.m] = "carried out"]
  /\ UNCHANGED <<tree, view, interrupted, queue, left>>

TurnEnds ==
  /\ worker.pc = "turn"
  /\ daemon' = [daemon EXCEPT !.finished = @ \cup {worker.cmd.m}]
  /\ worker' = [worker EXCEPT !.pc = "bound", !.ray = worker.cmd.ray]
  /\ events' = Append(events, [Event("bind") EXCEPT !.ray = worker.cmd.ray])
  /\ UNCHANGED <<tree, view, interrupted, queue, fate, left>>

TurnShown ==
  /\ worker.pc = "bound"
  /\ ApplyPhotons(worker.cmd.m, TRUE, [worker EXCEPT !.pc = "finish"])
  /\ UNCHANGED <<tree, view, interrupted, queue, daemon, fate, left>>

FinishGenerationUi ==
  /\ worker.pc = "finish"
  /\ interrupted' = FALSE
  /\ events' = Append(events, Event("finish"))
  /\ worker' = Done
  /\ UNCHANGED <<tree, view, queue, daemon, fate, left>>

(***************************************************************************)
(* The daemons: a changed configuration is checked, and may be wrong until  *)
(* someone corrects it.                                                     *)
(***************************************************************************)
Reload(p) ==
  /\ left.changes > 0 /\ daemon.state[p] = "ready"
  /\ daemon' = [daemon EXCEPT !.state[p] = "starting"]
  /\ left' = [left EXCEPT !.changes = @ - 1]
  /\ UNCHANGED <<tree, view, events, interrupted, queue, worker, fate>>

Check(p, verdict) ==
  /\ \/ daemon.state[p] = "starting" /\ verdict = "ready" /\ UNCHANGED left
     \/ /\ daemon.state[p] = "starting" /\ verdict = "failed" /\ left.faults > 0
        /\ left' = [left EXCEPT !.faults = @ - 1]
     \/ daemon.state[p] = "failed" /\ verdict = "starting" /\ UNCHANGED left
  /\ daemon' = [daemon EXCEPT !.state[p] = verdict]
  /\ UNCHANGED <<tree, view, events, interrupted, queue, worker, fate>>

Clicks ==
  \/ SendMessage \/ StopGeneration \/ SaveSettings
  \/ \E s \in Sessions : SelectNavigation(s) \/ QuickCreate(s)

Takes ==
  \/ \E p \in Places, ok \in BOOLEAN : ActivateWorkspace(p, ok)
  \/ DeferEarly \/ ChangeSession \/ TakeCommand \/ Tick

Answers ==
  /\ Len(events) < Backlog
  /\ \/ Refused \/ Rejected \/ AnswerLost \/ Validated \/ SettingsLoaded \/ NavigationSaved
     \/ SettingsSaved \/ SessionOpened
     \/ TurnStarts \/ TurnEnds \/ TurnShown \/ FinishGenerationUi

DesktopNext ==
  \/ Clicks \/ RunEvent \/ Takes \/ Answers
  \/ \E ok \in BOOLEAN : BackendConnects(ok)
  \/ \E p \in Places : Reload(p) \/ \E v \in {"ready", "failed", "starting"} : Check(p, v)

DesktopSpec ==
  /\ DesktopInit /\ [][DesktopNext]_desktopVars
  /\ WF_desktopVars(RunEvent) /\ WF_desktopVars(Takes) /\ WF_desktopVars(Answers)
  /\ WF_desktopVars(BackendConnects(TRUE))
  /\ \A p \in Places : WF_desktopVars(Check(p, "ready")) /\ WF_desktopVars(Check(p, "starting"))

Resting ==
  /\ worker.pc = "idle" /\ queue.backend = "connected" /\ events = <<>>
  /\ queue.commands = <<>> /\ queue.held = <<>> /\ queue.waiting = <<>>

(* When nothing is under way, the conversation on the screen is the one the  *)
(* next message goes to, or a message that failed, in whatever order        *)
(* answers, clicks and callbacks came.                                      *)
QuietViewIsOurs ==
  Resting /\ view.turn # 0 =>
    \/ worker.ray # NoRay /\ view.turn \in ToSet(daemon.log[worker.ray])
    \/ view.turn \in Messages /\ fate[view.turn] = "failed"

(* Every message is carried out or fails before the user's eyes, whatever    *)
(* the daemon's state when it was typed: held until the tree is there, put  *)
(* off until the daemon is ready, or asked again after a refusal.           *)
MessagesAreAnswered ==
  \A m \in Messages : fate[m] = "sent" ~> fate[m] # "sent" \/ queue.backend = "offline"

(* Refusals, reloads of the settings and changes of the workspace cause each *)
(* other, but with a single saved tree they come to an end.                 *)
ComesToRest == <>[](Resting \/ queue.backend = "offline")
=============================================================================
