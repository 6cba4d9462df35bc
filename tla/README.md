# Tokmon: verification project

Tokmon is a local agent runtime. A daemon per workspace (`tokmond`) runs the Nyxia
optical runtime; clients (command line, Desktop) talk to it over the Snow protocol;
whatever happens is a *photon* in one SQLite log per user. A *ray* is a causal thread
of photons. A *Lens* turns the photons of a ray into a Surface (`view`), may propose an
*Act*, and carries Acts out (`refract`). The *light path* is the ordered set of mounted
Lenses under a mount *epoch*, each with a *generation*; a *Beam* is one running Act,
with a ticket of the Beam registry.

This directory holds TLA+ models of that system, the TLC instances that check them and
the theorems that TLAPS proves about them. `PROJECT.json` lists components, runs,
mutants, the lines each definition stands for, hazards, findings and theorems.

Contents: 1 Inventory, 2 Modules, 3 Correspondence with the code, 4 Runs and bounds,
5 Fairness, 6 What is proved, 7 Divergences, 8 Not modelled.

## 1. Inventory

| Part | State | Operations | Talks to | What is hard | What makes it correct |
|---|---|---|---|---|---|
| Ray tracing engine (`nyxia/engine/ray_tracing_engine.cpp`, `act_pipeline.cpp`) | `stopping_`, `cancelled_rays_` | `continue_ray`, `advance`, `view`, `refract`, `execute`, `cancel_ray`, `request_stop` | store, light path, registry, Lenses | cancel, stop, remount and failing appends between any two photons of a beat | every start has one end; a cancelled ray stops; `advance` returns |
| Beam registry (`nyxia/mount`) | tickets, closed generations | `acquire`, `release`, `stop_ray`, `stop_generation`, `reopen_generation` | engine, reconcile | a ticket racing a close | no Beam of a closed generation without its stop flag |
| Recovery (`recover_inflight_acts`) | none | at every `open` | store | crashes at any photon, other processes | no started Act is left behind; none is ended twice |
| Remounting and loading (`TokmonRuntime::open`, `reconcile`, `nyxia/light_path`) | active path, recorded configuration, retired Lenses | hash, load, allocate, stage, commit, close, publish, afterglow | allocator, registry, Lenses, Beams | early returns of every append, refusals, artifacts changed in between, crash between commit and publish | readers see one atomic switch after another, under new identities, each path in the order of its needs |
| Photon store (`nyxia/storage`) | photons with a hash chain, allocator row, checkpoint, observers | `append`, `read_*`, `allocate_mount`, `verify`, `subscribe` | everybody | processes sharing the file | identities given out once |
| Daemon lifetime (`apps/tokmond` loop, `protocol/daemon_lifecycle.cpp`, `snow_transport.cpp`) | leases, idle deadline, pin, running flag, instance lock | attach, heartbeat, detach, pin, shutdown, sweep, stop, close, exit | clients | clients that die, leave in any order, come while the loop decides | no client or request loses its daemon; an abandoned daemon ends |
| Snow handler, configuration worker, watcher (`apps/tokmond`) | answers, active rays, cancelled requests, boot state and generations | chat, retry, cancel, deadline; check, open, reconcile, publish the verdict | engine, runtime | a cancel or an edit between two critical sections | cancels are not lost; the state shown is the verdict on the newest edit; everything is answered |
| Admission and approval (`runtime.cpp`, Fallen) | the ray's photons | two policies, binding of an approval, one use, staged approvers | engine, users | an approval used twice, or for another Act or generation | an Act that asks runs only under an unused matching approval |
| Agent loop (Janus, Techor, Rhea) | none: derived from the photons | model call with retries and fallbacks, streams of three protocols, tool call, code frame, termination | engine | failed, cut and interrupted calls; photons read again at every beat | one model call at a time; every result is seen by the model; the deadline covers the schedule |
| Workflows (Clotho), child rays (Aya, `TokmonRuntime::advance`) | derived from photons | define, step, retry, condition, compensate, pause; spawn, join, supervise | engine, Janus, Techor | a result that arrives for an older attempt, a child ended twice | results count for their attempt; a child is told as ended once |
| Optical assembly, wavefront, structural Lenses | a compiled graph per path | compile, propagate, resonate, merge, divide, delay | Lenses | cycles, order of Lenses, budgets, crashes between a delay's commit and its photon | no Lens has its last word on stale light; light reaches all it is connected to; boxes are transparent |
| Worker Lenses (`nyxia/worker`, `apps/tokmon-lens-worker`, SDK adapters) | pipes, process, request counter, handle | launch, view, refract, shutdown, kill | engine | deadlines that kill, frames that lie, text between frames | answers match requests; nothing after the shutdown; calls return |
| Process Lens (Styx) | processes, terminals with ring, reader and watchdog, containers | process.run, pty.open/write/resize/read/close, remote.execute, unmount | engine | threads, deadlines and exits in any order; both builds | every Act ends; nothing is left behind |
| Desktop controller and projection | command queue, sessions, workspaces, serials | submit, select, create, stop, reload, poll; rows and trace of a ray | daemons of several workspaces | two threads with callbacks in between, answers that come late | what is shown belongs to the session picked; messages are answered |
| Review and file panel | diff rows, tree rows, branch, toast | refresh, open, toggle, filter, stage, commit, push, discard | git, file system | detached threads publishing in any order | no push claimed that did not happen; the tree is whole |
| Configuration files, base utilities, CLI's terminal, other built-in Lenses and helpers | none, or an outside resource | parse, hash, encode; files, HTTP, keys | | | see section 8 |

Interactions: all engine work of a daemon happens under `runtime_mutex`, except
`cancel`, the heartbeats and the pings. The lock order is runtime before lifecycle,
request, stream and boot; lifecycle before boot. Processes meet only in the SQLite file
(one per user) and in the instance lock (one per workspace). The Lenses of the agent
keep no state: everything they know they derive from the photons of the ray, at every
beat again, so what they do after a crash is decided by what had been appended.

## 2. Modules

| Module | Models |
|---|---|
| `ActLog` | the three columns of the photon table that decide what became of an Act: `Open`, `Unsettled`, `TerminalsClose` |
| `ActLifecycle` | abstract: the attempts of an Act follow one another, each started once and settled once; `Engine` implements it |
| `Engine`, `MCEngine` | `advance` photon by photon, cancellation, remounting as the registry sees it, recovery, stop, crash; the MC module adds a history variable counting starts after a cancel |
| `AtomicMount` | abstract: a daemon switches between whole paths, identities are never reused; `Mount` implements it |
| `Mount`, `MCMount` | `open` and `reconcile` with every append that may fail, refusals, evidence and authority, edits of configuration and artifacts, crashes, the allocator, Beams |
| `Leases`, `MCLeases` | clients, heartbeats, the maintenance loop, pin, stop, exit; time is what is left of each lease |
| `Tokmond`, `MCTokmond` | chat requests, retries, cancels, deadlines; validation generations and the worker |
| `RayPhotons`, `Beat` | the photons of one ray as the Lenses read them; `advance` over them, with failing appends, crash and cancel, for the modules below |
| `Janus`, `Techor`, `Rhea` | the loop of a turn; the tool catalog and the next tool call; a model call over providers and attempts, and how its stream is read in three protocols |
| `Approval` | the two policies and the decisions recorded for what they ask about |
| `Projection` | rows, closing of a turn and trace as the desktop derives them |
| `Agent`, `MCAgent` | one ray under Janus, Rhea, Techor and clients: composes the five above with `Beat` |
| `Clotho` | next step of a workflow; start and join of the child rays of Aya |
| `Workflow`, `MCWorkflow` | a ray with Janus, Clotho, Aya and Techor, its children advanced after it |
| `Wavefront`, `Assembly`, `Propagation` | cells and laws of a beat; compilation of a path; propagation with resonators and boxes |
| `OpticalRay`, `MCOptics` | beats of a ray under an assembly with delays and failing commits; graphs of relays and nine assemblies, in every order of their Lenses |
| `WorkerProxy` | the proxy, the pipes and the Worker |
| `ProcessRunner`, `PtySession`, `Styx`, `MCStyx` | a process with its loop and threads; terminals; the Lens over the two, with its docker commands; small workloads |
| `Desktop`, `MCDesktop` | the controller: window thread, backend thread, callbacks, daemons as they answer |
| `ReviewPanel`, `RightPanel`, `MCPanel` | folding and numbering of a diff and the tree of files; the panel's threads over both |
| `EngineProofs`, `DaemonProofs`, `MountProofs`, `WorkerProofs`, `StyxProofs`, `DesktopProofs`, `AgentProofs`, `WorkflowProofs` | the theorems |

`Tokmond` is the outer program: a beat in it stands for one pass through the loop of
`Engine`, `WorkerMounts` for one `reconcile` of `Mount`. In `tokmond` both happen under
`runtime_mutex`; the runtime library does not ask for that mutex, and `Engine` and
`Mount` check what it promises without it. `Leases` is the same process from the
outside; a request in it is a holder of `runtime_mutex`. `Agent` and `Workflow` put the
built-in Lenses into the place where `Engine` has any Lens, on the coarser beat of
`Beat`. `OpticalRay` is the same beat from the side of the light that the Lenses
exchange. `WorkerProxy` and `Styx` are what is behind a single call of a Lens.

The modules under `Agent` and `Workflow` are operators over a sequence of photons, as
the Lenses are functions of it; what a Lens recomputes at each beat is a definition, not
a variable. Mutants are operators in the modules, each before the definition it distorts
and marked `Mutant`; no specification uses them. Each is a plausible slip in that code
that makes a property fail.

## 3. Correspondence with the code

* `Engine`: `log` is the table; `proc[d]` the members of the runtime of a process;
  `call[c]` the stack of a thread in `advance`, with a program counter per append.
  An action ends where another thread can move. Every emitter may be refused because the
  engine stops, or fail because the store does, and then returns the way the code
  returns. Lenses are the environment: they propose any Act they may, and `refract`
  ends in any of its five ways. The one Lens is replaced by every remount, so that its
  generation is the epoch.
* `Mount`: `mem[d]` is the runtime, `pc` the place in `reconcile`. A failing append
  takes the early return of that line (`Fails`), with what had happened by then left in
  place. An artifact is a content; `ArtifactHash` is taken at one moment, loading at a
  later one, and an edit may fall between.
* `Leases`: a tick is a heartbeat interval; a client that lives sends one heartbeat per
  tick. `Sweep` and `StopIdle` are the two critical sections of the maintenance loop.
* `Tokmond`: `copy[c]` is where the handler thread of a request is; `boot`, `worker`
  and `verdict` are the validation generations; `runtime.life` counts the runtime
  objects, `runtime.policy` and `runtime.mounted` the configuration in `config_` and the
  one the path was built from.
* `Beat`: one action per stage of a beat: propose and admit, each photon the Lens emits,
  the terminal photon. A crash may come between any two; recovery is part of the restart,
  as it is of `open`.
* `Agent`: the model's answers and the outcomes of tools are inputs; texts, prompts and
  costs are left out, tokens and steps are numbers. `Rhea` has the accumulator of
  `rhea_lens.cpp` event by event: keyed by id when a delta has one, by its index otherwise.
  Time exists only as the attempts and waits that the Act's deadline must cover: Janus works
  the deadline out from the configured values, with the limits of `janus_lens.cpp`, and Rhea
  follows the same values with limits of its own, of which one is that deadline.
* `Workflow`: workflows are graphs of numbered nodes, in the order of their ids, tens for
  the author's and the numbers after them for the copies of a `for_each`; the assumptions
  say that limits are at least one, as the parser makes them, and which Acts are a client's.
* `OpticalRay`: a specification of an assembly is what the YAML says, by names; `Assembly`
  compiles it as `compile_optical_assembly` does and refuses for the same reasons;
  `Propagation` runs one beat. `MCOptics` computes its reference, the value that the
  connections alone determine, from the specification and never from the compiled form.
* `WorkerProxy`: `pc[t]` is where a thread is in `request`; `input` and `output` are the
  pipes; a Worker is the loop of the native host or of the adapters (`LanguageReplies`).
  A deadline may expire whenever a thread reads.
* `ProcessRunner`: the loop of `run_process` pass by pass, with the feeding thread, the
  last drain, the grace and the kill; `Windows` selects the build. `PtySession`: reader,
  watchdog and the operations under their mutex; a close waits for the one, then for the
  other, and then takes what the ring holds, which `pty.close` tells and a destructor throws
  away. `owed` and `spilled` are history: what the reader took and no photon has told, and
  what a call took whose photons failed. Docker: one command after another; each may do its
  work or not, and be cut short. Programs do what they like: they write as fast as they are
  read, and a process in the background may be `apart`, out of reach of a signal to the group.
* `Desktop`: `queue` is the command queue under the controller's mutex, `events` the
  callbacks in the order in which the window takes them; a daemon answers, late or never.
* `RightPanel`: each thread is a program of steps; what it publishes is copied when it is
  posted and applied when the window gets to it. A git command may fail, and one on several
  files may have done some of them. In `ReviewPanel` a diff is line by line, and the tree a
  sequence of entries with their depths, from which the rows shown are rebuilt. A filter is
  the set of names that match it.

## 4. Runs and bounds

| Run | Asks | Bounds, and why they do |
|---|---|---|
| `engine` | one start after a cancel at most; ends close starts; refinement of `ActLifecycle`; what was started is settled | one daemon and caller, two Acts, one with an id a Lens derives; three beats, so that a cancel falls before, between and after starts; two epochs, two crashes (one may hit the recovery from the other), one failing append, one stop |
| `mount_switch` | refinement of `AtomicMount`; Beams follow the path; retired Lenses stop; a path is ordered by needs | two Lenses of which one artifact needs the other, two artifacts, two edits (between any two steps), one fault, one refusal, one crash, one Beam |
| `leases` | served clients, kept graces, an abandoned daemon ends | three clients with three graces, one shorter than a heartbeat; a lease of three ticks as in the code; no other bound |
| `tokmond` | cancels, verdicts, replaced runtimes, answers | a request and its retry, one cancel, one edit, two checks: an edit before, during and after each stage of a check |
| `agent` | one model call at a time; results reach the model; grants are used once; deadlines; told turns | two turns of up to four beats; three schedules: three attempts of which the last wait is cut by the limit, one with each value outside its limits, one whose wait for the first byte is above Janus' limit; answers in the forms of three protocols, whole and in pieces; one disturbance (crash, cancel, remount, failing append) anywhere; two approvers and every scope of a decision |
| `agent_redo` | violation: a command whose outcome is unknown is run again for the same call | one crash while the command runs |
| `workflow` | results belong to attempts; children end once; dark means settled | five workflows (a retried step, a conditional child and a join; two copies of a step and one that compensates; a compensation and a step that Techor rejects, for their parameters are no map; two that must be refused), three requests of clients out of every kind, one disturbance |
| `assembly` | no stale light; light goes everywhere; transparent boxes; delays commit once | every graph of three relays, cyclic ones with and without resonators, and nine assemblies with prisms, apertures, delays and boxes, each in every order of its Lenses; two turns, one failure |
| `worker` | own answers; shutdown last; calls return | two callers, the launch and the stop, three requests, one misbehaviour, a request that fits the pipe and one that does not |
| `styx` | output told; containers removed; Acts end | five workloads: one terminal opened, written to, resized and closed, that prints up to four chunks into a ring of two, so that the ring runs full and over before, between and after the calls; two terminals of which the second finds the name taken, or free again; a process besides an open terminal; three kinds of process Acts; a container after or before a process; a stop at any moment; both builds |
| `desktop` | a quiet view is the picked session's; messages answered; comes to rest | three sessions in two workspaces; one send, one pick, one stop, one change of configuration, one fault: any two of them race |
| `panel` | pushes are real; the quiet panel is shown; the tree is whole; every change is shown | two workspaces, branches, files and threads. Two calls of any kind with an edit of a file from outside, or while two others are under way; or one call with two on the tree; or six or eight on the tree alone. The list has room for six of nine entries on two levels: folders are read whole, in part and not at all, refused, closed over open ones, opened again when the list is full, and clicked below the last level. One diff with two hunks, lines to fold before, between and after the changes, and no line at its end; fold counts other than its own and the limit of rows are not reached |

Deadlock checking is off where the system may come to rest: bounded inputs are used up,
or a daemon is down and no client wants it. `leases` keeps it on. Symmetry is used only
where states differ in names alone: the two Lenses of `mount_switch`, the threads of
`panel`; neither run has a liveness property.

The properties leave out, by name, what the code does not promise: `Dead` and `Blocked`
in `ActsEnd` and `CallsReturn` are a daemon that was killed by the signal of a broken
pipe and a writer whose reader has stopped reading; `Flooded` in `ActsEnd` is a program that
writes as fast as it is drained, for ever. Section 7 says where they come from.

## 5. Fairness

`Engine`: a thread inside `advance` moves on and a Lens call ends (every Act has a
deadline, and the caller's wait is bounded); a dead daemon is started by the next client;
nothing is owed to cancels, remounts or crashes. `Leases`: time passes, the loop goes
round, requests end, living clients send heartbeats from a thread of their own; clients
need not come, leave or die. `Tokmond`: threads run and get `runtime_mutex` when it is
free for good; strong fairness says only that the beats of a ray come to an end, which
`advance` bounds by `max_beats` (proved: `EngineProofs!TypeCorrect`). `WorkerProxy`: the
threads of the daemon run; a kill takes effect; a Worker that is neither dead nor hanging
serves what it reads. Nothing is owed to a Worker that misbehaves: the deadline of the
request is what ends the call. `Styx`: the loop, its threads, docker commands and the
clock go on (a deadline expires eventually); programs owe nothing. `Desktop`: the event
loop and the backend thread run; a daemon that is asked answers or the call fails by its
time-out; the connection comes about once the daemon is there; a check of the
configuration ends. `Agent`, `Workflow`, `OpticalRay`, `Mount` and `RightPanel` are
checked for safety only; that a turn ends is a consequence of the bound on beats.

## 6. What is proved

For every value of the constants, under the named assumptions only:

* `EngineProofs!TypeCorrect`: types, with the budget of beats. The invariant adds what a
  frame holds at each place (`FrameOK`): inside a beat the budget is not used up.
* `EngineProofs!ClosedGenerationsStop`: any number of daemons, callers, remounts. Needs
  that `stop_generation` closes and flags in one critical section and that `acquire`
  refuses under the same lock.
* `EngineProofs!OneEndPerStart`: with one daemon and a window that holds the whole log,
  every terminal photon closes a start. Both hypotheses are needed (section 7).
  `TerminalsCloseStarts` is not inductive; the strengthening says that a ray has one
  writer (`Writers`) and that a caller about to write an end has its Act open in the log,
  as has each Act on the work list of recovery.
* `EngineProofs!OneLateStart`: any number of daemons, callers and crashes, over the history
  variable of `MCEngine`. `LateInv`: two callers of a daemon never share a ray (`OwnRays`); the
  start that came after a cancel was counted once, and leaves only callers that must pass
  the head of the loop, where they see it, before they can start an Act (`Spent`, `LateIsLast`).
* `EngineProofs!TrailIsKept`: with the hypotheses of `OneEndPerStart`, `Engine` implements
  `ActLifecycle`. `Life`: an Act made for one proposal is fresh, running or over (`Stages`),
  fresh while a caller bears it to its start, running while a caller or the work list of
  recovery is about to end it. Each step moves at most one Act, one stage on (`Moves`).
* `DaemonProofs!ClientsAreServed`, `RequestsAreNotCutOff`, `GracesAreKept`: any number of
  clients, any graces, any lease of at least two heartbeats (`LeaseAssumption`; with one,
  a lease may lapse between two heartbeats). `Inv`: a daemon that ended has no attached
  client; an attached client is at most one tick into its lease; the deadline of a daemon
  that is not pinned covers every grace still owed. The first look of the loop at the
  table plays no part in the proof: only the second one decides.
* `WorkerProofs!OwnAnswers`, `NothingAfterShutdown`, `NothingIsLeft`: any number of calling
  threads, requests, faults and frame sizes, if no thread has the name of the launch or
  the stop (`CallersAssumption`). `Inv`: requests are numbered in the order in which they
  get the mutex (`Numbered`), the mutex has one holder (`Exclusive`, `Alone`), a thread
  without an answer has none from before (`NotAnswered`), a finished stop leaves a dead
  Worker and a closed handle (`Gone`), and the answer to the shutdown is looked at by nobody.
* `StyxProofs!ContainersGo`: any workload, whatever docker does, on both builds.
* `StyxProofs!TerminalsAreKept`: any set of terminals, any ring, any workload
  (`RingAssumption`, `NoTerminalAssumption`). Which places of reader and watchdog go with
  which state of a session; an operation in progress is on the registered terminal, or has
  killed the one it is on.
* `StyxProofs!OutputComes`: the same generality. `Accounted`: what a reader ever took is told,
  in its hand, in the ring, overwritten there with `truncated` set, or was taken by a call whose
  photons failed. `ReaderIsJoined`: from the join of the reader on, nothing is in its hand
  and nothing more is added, so what `pty.close` takes last is all there is. `ClosedIsEmpty`:
  it stays so. Without the join the first part fails, as the mutant of the run shows.
* `DaemonProofs!StateIsJudged`, `CancelsAreKept`, `ChatsBeginOpen`: any number of
  requests, copies, edits, checks and deadlines (`TokmondAssumption`). `ConfigInv`: only the
  worker judges, it has nothing to do while a state other than `starting` is shown, and what
  it is about to publish for the last request is a verdict as new as that request.
  `RequestInv`: a copy that has begun holds `runtime_mutex`, so the ray registered for its id
  is its own; a cancel that was answered is recorded, and has darkened that ray or is about
  to. `ReadyIsOpen`: nothing that opened is ever closed.
* `MountProofs!SwitchesAreAtomic`: `Mount` implements `AtomicMount`, for any number of
  daemons on one database, any Lenses and any faults (`MountAssumption`). `MountInv`: what
  was ever shown is below the allocator (`Below`); the epoch and the generations that an
  allocation gave a daemon have not been shown (`Unshown`) and belong to no other daemon
  (`Apart`); the path being built holds kept mounts and staged ones, no generation twice
  (`FrameOK`). Every step but two, the allocation and the publication, only narrows what a
  daemon owns (`Narrows`), which is proved once.
* `MountProofs!BeamsAreNotStale`, `RetiredAreStopped`: any number of callers besides.
  `BeamInv`: a Beam was aimed at a mount that is on the path or closed, and what is
  retired is what the new path lacks; `StopInv`: what is closed has been told to stop, or is
  retired by a reconcile under way.

* `DesktopProofs!PushedWasCommitted`: any number of threads, workspaces, branches and files
  (`PanelAssumption`: there is a workspace, a branch and a thread). `PanelInv`: what is pushed was
  made (`PushedWasMade`); the panel knows the branch of its workspace unless someone else
  moved it (`BranchIsKnown`); and what a toast is about to say is already true when the
  commit returns, and stays true because a branch only ever gets more commits (`ClaimStays`).
* `DesktopProofs!QuietPanelIsTrue`: `CalmInv`. While calls are made one at a time, at most one
  thread has something to do (`Only`), and the place its program is at says which parts of
  the window are behind the panel (`Stage`, `ShownBut`): exactly those that the rest of the
  program still publishes. A filter is part of what is shown: files and rows are those of the
  panel that match it.
* `DesktopProofs!QuietViewIsOursHolds`: any sessions, rays, workspaces and saved trees, any
  number of messages, clicks, changes and faults (`DesktopAssumption`: a tree gives a ray or
  none to each of its sessions and selects one of them or none; a session belongs to a
  workspace). The property speaks of a state in which nothing is under way, so the invariant
  says what holds before (`ShownOurs`): what a callback is going to paint, and what is on the
  screen, unless a callback posted later clears it, is a turn of the worker's ray, of a
  message that failed, or of one still in a queue or with the worker (`AccountedFor`). A step
  that gives the worker another ray either clears the screen in the same step or is the end of
  a turn, whose ray holds its message by then (`WorkerKeeps`); all others only move a message
  from one place to the next (`WorkKeeps`).

* `AgentProofs!ModelIsAskedOnce`, `ResultsAreRead`, `GrantsAreSpent`: any tools, policies,
  answers of the model, schedules, budgets and clients (`KeysAssumption`: an answer is read
  with finitely many keys; `DecidesAssumption`: a decision is one-shot or for the session).
  The three properties are about the last photon of the log, so the invariant says what may
  be appended (`May`) and what the log and the frame of `advance` are then like (`AgentInv`):
  what the model answers follows a request more recent than any result
  (`AnswersWereAsked`); the last request of a turn has completed whenever `advance` looks for
  the next Act (`Answered`), unless a model call failed; a decision that is about to be
  recorded as a grant has all its approvers (`IsWhole`). The photons that Rhea still has to
  emit end with `model.completed` (`AnswerEnds`), so a call that has ended well has told its
  completion; one that an append failed in ends `advance`, and its turn asks no more.
* `AgentProofs!DarkTurnsAreTold`: the same generality. `ToldInv`, on top of `AgentInv`: a
  refusal never names a model call, and as long as a beat works on the turn (`InBeat`) an
  Act of the model that ended as failed has its `model.failed` in the turn. The log that is
  darkened is then settled (`IsSettled`): Janus had nothing to propose, so the turn was
  answered, or waits for a tool or for a model call that failed, and each of these is read
  off the photons in the same way by Janus and by the projection (`SettledIsTold`).
* `WorkflowProofs!WorkflowInvHolds`: any workflows whose limits are at least one
  (`WorkflowsAssumption`), any Acts of clients that are not those of the Lenses themselves
  (`ControlsAssumption`), failing appends, cancels and crashes anywhere. None of the three
  properties below is inductive. `LogInv` is about the log: an Act of a dispatch answers the
  dispatch that asked for it, starts and ends while that is the last one, and ends once; a
  failure is recorded after the end of the step's last attempt; while the steps go one by
  one, no dispatch covers another whose Act has not started (`NothingIsCovered`). `FrameInv`
  is about the call of `advance`: while the Act of a dispatch runs nothing else is
  dispatched, what Clotho is about to record or to dispatch stays due until it is said, and
  the children still to be advanced have no end. Each step appends at most one photon, one
  that it may append (`May`, `StepKept`), and such a photon keeps `LogInv` (`LogKept`).
* `WorkflowProofs!ResultsBelongToTheAttemptHolds`: `Clotho` records the end that follows the
  last dispatch and the last retry (`RecordMay`), and between its view and the photon nothing
  is said about a step (`ToSayStays`). A join is excepted: it has no Act.
* `WorkflowProofs!ChildrenEndOnceHolds`: `advance` collects the children without an end once,
  and ends them one after the other.
* `WorkflowProofs!DarkMeansSettledHolds`: for the workflows that the property is about. A ray
  goes dark when Clotho and Techor propose nothing; a step in flight then has a start
  (`NothingIsCovered`, or Techor would propose it, unless it rejects the dispatch) and no end
  (or Clotho would record it);
  and if none is in flight the limits leave room, so no step is ready (`NothingIsReady`).

The first lemmas of `EngineProofs` say how one more photon changes what is open in a log; the
proof cites them and never looks into the log itself.

Only model-checked: liveness (fairness and ENABLED are outside the prover); what is said of a
fold or a sum over data, where induction over data would be needed (`PathIsOrdered`,
`TreeIsWhole`, `EveryChangeIsShown`, `DeadlineCoversTheSchedule`); the modules that walk a
graph by recursion (`OpticalRay`).

## 7. Divergences

One has a run of its own, `agent_redo`: DESIGN.md:879 and roadmap.zh.md:1097 (PROP-09) say
that an Act with an unknown outcome is not repeated; with the default policy the next turn
runs the command of such an Act again for the same tool call. The others were met while
modelling. The models do what the code does in each; where a property would fail for it, the
property or the instance excludes the case by name, as said here.

**Engine and storage.** Recovery of a second process on the same database ends an Act that
the first is running (runtime.cpp:547; the lock is per workspace, the database per user).
Recovery reads the oldest 4096 photons (runtime.cpp:535, DESIGN.md:2244). An Act whose id
a Lens derives (lens_base.cpp:51) and that had an end is not recovered when its second
attempt crashes; a store failure that loses an end lets it be started twice. A ticket
taken after `stop_ray` is not flagged: the Act runs to its end, the next beat sees the cancel.

**Remounting and loading.** An artifact is hashed at the start of `reconcile` and loaded
later: one that is not locked and changes in between is mounted under the old hash, and for
good if it is changed back. The lock file is not part of the hash; `require_signatures` is
not part of the configuration hash, and kept Lenses are not verified again. Authority grows
by disabling a Lens in one epoch and enabling it in another. A committed epoch whose
publication a crash prevented gets no recovery photon (DESIGN.md:1611);
`lens.afterglow-completed` is written with Beams still active after two seconds.

**Daemon.** A pin is answered while the loop is stopping (main.cpp:1038,
DAEMON-LIFECYCLE.md:23). A client that dies between starting a daemon and attaching leaves
it running; one that starts a daemon while the old one still has the instance lock waits
for nothing (daemon_lifecycle.cpp:252). The policy of a refused candidate is used by a request
that waited (runtime.cpp:672, MODEL-PROVIDER-CONFIGURATION.md:226). A retry while the
request runs, after its failure, or after 1024 other answers, is carried out again
(main.cpp:1018, 1164; DESIGN.md:2348). A deadline that fires when `advance` has just returned
leaves the ray cancelled (main.cpp:1417). The watcher ignores a file that did not exist when
it looked (main.cpp:1658). Slash commands that start a turn are not registered as active, so
neither cancel nor deadline reaches them (main.cpp:733).

**Agent.** A tool call's pieces are joined by id when a delta has one and by index otherwise
(rhea_lens.cpp:304): a stream that names the id once loses the call, and a `content_block`
with `input {}` is told as a call without arguments (BUILTIN-LENSES-DESIGN.md:463, 477). After
`model.failed` Janus stays at `waiting_model`, and Techor may carry out a tool call of an
earlier turn. Cost is emitted in one unit and summed in another, so its budget never
counts. `first_token_timeout_ms` may be configured up to 600000 (config.cpp:333); Janus counts at most
300000 of it (janus_lens.cpp:81), Rhea waits up to the Act's own deadline (rhea_lens.cpp:538),
so earlier attempts may use up the time of later ones although janus_lens.cpp:65 says that the
deadline covers the schedule. So do a Retry-After and a stream that goes on slowly;
`DeadlineCoversTheSchedule` is about what Rhea can be held to without them, within Janus'
limits. The fallbacks that Rhea knows are never named by Janus (janus_lens.cpp:249), hence
`Plans = 1`. A crash in a model call leaves `model.requested` without an end, and the ray waits
for the model for ever (janus_lens.cpp:171). Approval
stages are not used up; results are not correlated with calls; of several calls in one answer
only the last is carried out; a stopped or undecodable code frame blocks later calls.

**Workflows.** A compensation is proposed at every beat while Clotho precedes Techor, so that
its Act does not run (CLO-F-004); of two steps dispatched in one beat Techor starts the second
only; a node whose Act ended as unknown or rejected is in flight until `workflow.retry`; so is one
whose `with` is no map, or lacks its kind or schema, for good: no check of the definition looks
at it (clotho_lens.cpp:110), and Techor only tells a diagnostic of the dispatch
(techor_lens.cpp:340), which `DarkMeansSettled` names as its exception;
a `when` on a step that was never run counts as false for good; the node of a
`child.spawn` is done without waiting for the child; a failed child never satisfies a join
of all; grandchildren are not supervised; a crash between a child's input and
`child.started` leaves an orphan; `/fork` grants kinds of Acts that do not exist.

**Assembly.** The laws that field-calculus.zh.md (1841, 1889) states hold for `set_union` and
`map_union_unique`, not for `priority_then_path` and `top_k`, which a resonator accepts all
the same. A cycle through a CausalDelay is refused as unguarded; one delay per
assembly; `max_cells` of each port is compared with the cells of all (wavefront.cpp:208);
`top_k` cuts before duplicates are removed.

**Worker Lenses.** `refract` emits drafts before it finds an incomplete one
(worker_lens_proxy.cpp:446; field-calculus:1883). A wrong size, id or type does not end the
Worker (:1537), and after text on stdout the proxy may be one answer behind. Writing has no
deadline (roadmap.zh.md:95): `CallsReturn` excludes `Blocked`. A write into the pipe of a
dead Worker is SIGPIPE, which ends the daemon; the constant `Signals` switches it on, the run has
it off. `beam.cancel` and `lens.crashed` are never sent.

**Styx.** `drain_fd` reads while data keep coming (process_runner.cpp:103), so a flooding
program keeps deadline and stop from being looked at, for ever if it goes on
(STY-F-006 asks for floods that time out, BUILTIN-LENSES-DESIGN.md:774, 799): the exception
`Flooded` of `ActsEnd`. STY-F-007 (:775) says that the whole tree ends. Under POSIX the signal
goes to the process group (process_runner.cpp:417): a descendant with a session or group of its
own survives, as the jobs of an interactive shell do, and so does one of a leader that
exits within the grace; `tree_terminated` says true all the same, in `pty.closed` too
(styx_lens.cpp:296). Nothing is claimed of the tree, therefore. What a
terminal has printed and no reader took before a close tells it to stop is lost without a word
(pty_session.cpp:291, 457), and what the last snapshot holds when a destructor closes the
session as well (:120, 467). Input for a program that has exited is SIGPIPE (`Dead`); one in the background
that keeps the input open holds the Act for ever (the third disjunct of `ActsEnd`). After a
stop each docker command is itself cancelled, so a container may be left: the Act says so
(`left`), as `ContainersAreRemoved` allows; a `create` that was cut is never cleaned up (STY-F-004).

**Desktop.** `bind_active_ray` gives the ray to whatever session is selected by then; a retried
settings or navigation save sends an empty payload; the callback that finishes a generation is
dropped if the serial moved on; a stop before the turn is published is lost; held
commands are released in another order; a chat names no workspace; after a failed
switch chats go to the old ray; clicking before the tree is loaded saves the built-in tree over
the user's; a daemon that cannot be started is not retried (`queue.backend = "offline"`, the
exception in `ComesToRest`). Panel: copies may be applied out of order, a tree click is resolved by
index in rows that moved, a push that failed after its commit cannot be retried,
discard and commit act on a workspace that may not be the one shown, folders stay partly loaded.
Rows of a closed folder may be shown: `rebuild_tree` remembers for each depth whether the
folder last shown there is open, and under a closed folder, whose own rows it skips, the deeper
ones go by what an earlier folder left (review_panel.cpp:761), so `TreeIsWhole` says which rows are there, not which are hidden.
The properties of `desktop` and `panel` are stated for quiet states for this reason. Trace and
conversation disagree about `act.rejected` and about a turn with two calls and one result.

## 8. Not modelled

* Parsing and validation of configuration files, encodings, hashing and logging: pure
  functions; their outcomes are inputs of `Tokmond` and `Mount`, hashes are model values.
* The hash chain of the store, `verify` with its checkpoint, `read_query` and the
  observers; the photons of one ray are a sequence without gaps in all modules. The upper end
  of the 63-bit identities is out of reach.
* Built-in Lenses that carry out Acts on an outside resource (files, HTTP, keys): to the
  engine they are calls that complete, fail, are cancelled or pass.
* Child rays in `Engine` (they are in `Workflow`), direct `refract` calls without `advance`.
* Slash commands, settings and history intents of the daemon: one hold of `runtime_mutex` each.
* Prompts, costs, reasoning, the photons of single chunks, templates of workflows, the view
  of Aya, sandbox plans, `process.cancel` (records only).
* Patterns of policies and kinds (sets stand for them), bands and cell encodings.
* In the panel: maximizing it, revealing a file in the system's file manager, the counts and
  sizes of text, and `reset`, which nothing calls.
* Settings pages, layout, text highlighting and rendering of the desktop; the terminal
  interface of the CLI; the SDK libraries beyond the loop that answers frames.
* Two daemons in one `Engine` or `Mount` instance are possible (`Daemons`) but not run: what
  they break is known (section 7).
