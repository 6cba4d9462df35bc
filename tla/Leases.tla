------------------------------- MODULE Leases -------------------------------
(***************************************************************************)
(* The lifetime of a daemon (src/apps/tokmond/main.cpp) as its clients see *)
(* it (src/protocol/daemon_lifecycle.cpp): leases, heartbeats, pinning,    *)
(* the maintenance loop that stops an idle daemon, and the explicit stop.  *)
(*                                                                         *)
(* Time is what is left of each lease and of the idle grace, in ticks; a   *)
(* tick is the interval between two heartbeats.  Every client in the       *)
(* repository attaches with shutdown_when_idle.  Each disjunct of the next *)
(* state is one critical section of lifecycle_mutex or runtime_mutex.      *)
(* Tokmond is the rest of the same process: no name here is one of its.     *)
(***************************************************************************)
EXTENDS Integers, FiniteSets

CONSTANTS
    Clients,
    NoClient,   \* no client
    Ttl,        \* lease_ttl, in heartbeats: 3 in the code
    Idle        \* idle_timeout of each client, in ticks

ASSUME LeaseAssumption ==
    /\ Ttl \in Nat \ {0, 1}
    /\ Idle \in [Clients -> Nat]
    /\ NoClient \notin Clients

VARIABLES
    daemon,     \* the process, and why its running flag is down: see Phases
    lease,      \* client_leases: ticks until expires_at, or None
    idleAt,     \* idle_shutdown_at: ticks left, or None
    pinned,     \* daemon_pinned
    candidate,  \* idle_stop_candidate, computed by the sweep of the loop
    working,    \* the client whose request holds runtime_mutex
    client,     \* where each client is
    beaten,     \* the clients that have sent the heartbeat of this tick
    owed        \* history: what is left of the grace promised to each client

leaseVars == <<daemon, lease, idleAt, pinned, candidate, working, client, beaten,
               owed>>

None == -1    \* std::nullopt, and a client without a lease

\* "idle" and "stopped" are stopping, by the loop and by a client; "closing" no
\* longer listens but still has the instance lock.
Phases == {"none", "running", "idle", "stopped", "closing"}

Listening == daemon \in {"running", "idle", "stopped"}

LeasesInit ==
    /\ daemon = "none"
    /\ lease = [c \in Clients |-> None]
    /\ idleAt = None
    /\ pinned = FALSE /\ candidate = FALSE
    /\ working = NoClient
    /\ client = [c \in Clients |-> "away"]
    /\ beaten = {}
    /\ owed = [c \in Clients |-> 0]
-----------------------------------------------------------------------------
(* Helpers *)

Leased == {c \in Clients : lease[c] # None}

Passed(t) == IF t > 0 THEN t - 1 ELSE t

\* A grace never shortens the one that runs: None is less than any.
Postponed(grace) == IF grace > idleAt THEN grace ELSE idleAt

MayStop == ~pinned /\ Leased = {} /\ idleAt = 0

Moves(c, where) == client' = [client EXCEPT ![c] = where]

Gone(c) == Moves(c, "away") /\ beaten' = beaten \ {c}

\* A client that has a heartbeat thread; its daemon is gone when it is "lost".
Beats(c) == client[c] \in {"attached", "lost"}
-----------------------------------------------------------------------------
(* Clients *)

\* ensure_daemon: the ping is answered; or the client spawns a daemon, which
\* ends at once when another process still has the instance lock.  A client id
\* is not used again while it has a lease.
Ensure(c) ==
    /\ client[c] = "away"
    /\ c \notin Leased
    /\ Moves(c, IF daemon = "closing" THEN "waiting" ELSE "found")
    /\ daemon' = IF daemon = "none" THEN "running" ELSE daemon
    /\ UNCHANGED <<lease, idleAt, pinned, candidate, working, beaten, owed>>

\* The rest of ensure_daemon only polls: nothing is spawned a second time.
Poll(c) ==
    /\ client[c] = "waiting"
    /\ Moves(c, IF Listening THEN "found" ELSE "away")
    /\ UNCHANGED <<daemon, lease, idleAt, pinned, candidate, working, beaten, owed>>

\* daemon.client.attach, refused by a daemon that is stopping.
Attach(c) ==
    /\ client[c] = "found"
    /\ IF daemon = "running"
         THEN /\ lease' = [lease EXCEPT ![c] = Ttl]
              /\ owed' = [owed EXCEPT ![c] = 0]
              /\ beaten' = beaten \cup {c}
              /\ Moves(c, "attached")
         ELSE Gone(c) /\ UNCHANGED <<lease, owed>>
    /\ UNCHANGED <<daemon, idleAt, pinned, candidate, working>>

\* daemon.client.heartbeat, and the attach that follows when there is no lease,
\* as in a daemon that was started again.
Heartbeat(c) ==
    /\ Beats(c) /\ c \notin beaten
    /\ beaten' = beaten \cup {c}
    /\ IF daemon = "running"
         THEN /\ Moves(c, "attached")
              /\ lease' = [lease EXCEPT ![c] = Ttl]
              /\ owed' = [owed EXCEPT ![c] = 0]
         ELSE UNCHANGED <<client, lease, owed>>
    /\ UNCHANGED <<daemon, idleAt, pinned, candidate, working>>

\* Mutant: the client that leaves last decides alone.
DetachOverwrites(c) ==
    /\ Beats(c)
    /\ Gone(c)
    /\ IF daemon = "running"
         THEN /\ lease' = [lease EXCEPT ![c] = None]
              /\ idleAt' = IF pinned THEN idleAt ELSE Idle[c]
              /\ owed' = [owed EXCEPT ![c] = Idle[c]]
         ELSE UNCHANGED <<lease, idleAt, owed>>
    /\ UNCHANGED <<daemon, pinned, candidate, working>>

\* daemon.client.detach, after the heartbeat thread was joined.
Detach(c) ==
    /\ Beats(c)
    /\ Gone(c)
    /\ IF daemon = "running"
         THEN /\ lease' = [lease EXCEPT ![c] = None]
              /\ idleAt' = IF pinned THEN idleAt ELSE Postponed(Idle[c])
              /\ owed' = [owed EXCEPT ![c] = Idle[c]]
         ELSE UNCHANGED <<lease, idleAt, owed>>
    /\ UNCHANGED <<daemon, pinned, candidate, working>>

\* A client dies without a word.
Die(c) ==
    /\ client[c] # "away"
    /\ Gone(c)
    /\ UNCHANGED <<daemon, lease, idleAt, pinned, candidate, working, owed>>

\* daemon.pin: it does not look whether the daemon is stopping.
Pin(c) ==
    /\ client[c] = "found"
    /\ Moves(c, "away")
    /\ Listening
    /\ pinned' = TRUE
    /\ idleAt' = None
    /\ UNCHANGED <<daemon, lease, candidate, working, beaten, owed>>

\* daemon.shutdown.
Shutdown(c) ==
    /\ client[c] = "found"
    /\ Moves(c, "away")
    /\ Listening
    /\ daemon' = "stopped"
    /\ UNCHANGED <<lease, idleAt, pinned, candidate, working, beaten, owed>>

\* A request takes runtime_mutex and keeps it to its end, whatever becomes of
\* its client; one that was read before the server closed may still take it.
Work(c) ==
    /\ client[c] \in {"found", "attached"}
    /\ daemon # "none"
    /\ working = NoClient
    /\ working' = c
    /\ UNCHANGED <<daemon, lease, idleAt, pinned, candidate, client, beaten, owed>>

WorkEnds ==
    /\ working # NoClient
    /\ working' = NoClient
    /\ UNCHANGED <<daemon, lease, idleAt, pinned, candidate, client, beaten, owed>>
-----------------------------------------------------------------------------
(* The daemon *)

\* A tick passes when the living clients have sent their heartbeats, which the
\* handler answers without runtime_mutex.
Tick ==
    /\ \A c \in Clients : Beats(c) => c \in beaten
    /\ beaten' = {}
    /\ lease' = [c \in Clients |-> Passed(lease[c])]
    /\ idleAt' = Passed(idleAt)
    /\ owed' = [c \in Clients |-> Passed(owed[c])]
    /\ UNCHANGED <<daemon, pinned, candidate, working, client>>

\* Mutant: a lease that expires is only dropped.
SweepDrops ==
    /\ daemon = "running"
    /\ ~candidate
    /\ LET expired == {c \in Clients : lease[c] = 0}
       IN /\ lease' = [c \in Clients |-> IF c \in expired THEN None ELSE lease[c]]
          /\ owed' = [c \in Clients |-> IF c \in expired THEN Idle[c] ELSE owed[c]]
          /\ candidate' = (~pinned /\ Leased \subseteq expired /\ idleAt = 0)
    /\ UNCHANGED <<daemon, idleAt, pinned, working, client, beaten>>

\* The first critical section of the loop drops the leases that expired and
\* finds the daemon idle, or not.
Sweep ==
    /\ daemon = "running"
    /\ ~candidate
    /\ LET expired == {c \in Clients : lease[c] = 0}
           graces  == {idleAt} \cup (IF pinned THEN {} ELSE {Idle[c] : c \in expired})
       IN /\ lease' = [c \in Clients |-> IF c \in expired THEN None ELSE lease[c]]
          /\ owed' = [c \in Clients |-> IF c \in expired THEN Idle[c] ELSE owed[c]]
          /\ idleAt' \in {g \in graces : \A h \in graces : g >= h}
          /\ candidate' = (~pinned /\ Leased \subseteq expired /\ idleAt' = 0)
    /\ UNCHANGED <<daemon, pinned, working, client, beaten>>

\* Mutant: what the first critical section found is not looked at again.
StopUnchecked ==
    /\ daemon = "running"
    /\ candidate
    /\ candidate' = FALSE
    /\ daemon' = IF working = NoClient THEN "idle" ELSE daemon
    /\ UNCHANGED <<lease, idleAt, pinned, working, client, beaten, owed>>

\* The second one decides, if it gets runtime_mutex at once.
StopIdle ==
    /\ daemon = "running"
    /\ candidate
    /\ candidate' = FALSE
    /\ daemon' = IF working = NoClient /\ MayStop THEN "idle" ELSE daemon
    /\ UNCHANGED <<lease, idleAt, pinned, working, client, beaten, owed>>

\* snow.stop() closes the endpoint and joins the threads of the clients.
Close ==
    /\ daemon \in {"idle", "stopped"}
    /\ daemon' = "closing"
    /\ UNCHANGED <<lease, idleAt, pinned, candidate, working, client, beaten, owed>>

\* The process ends, and the instance lock with it.
Exit ==
    /\ daemon = "closing"
    /\ working = NoClient
    /\ daemon' = "none"
    /\ lease' = [c \in Clients |-> None]
    /\ owed' = [c \in Clients |-> 0]
    /\ idleAt' = None /\ pinned' = FALSE /\ candidate' = FALSE
    /\ client' = [c \in Clients |-> IF client[c] = "attached" THEN "lost" ELSE client[c]]
    /\ UNCHANGED <<working, beaten>>
-----------------------------------------------------------------------------
LeasesNext ==
    \/ \E c \in Clients : \/ Ensure(c) \/ Poll(c) \/ Attach(c) \/ Heartbeat(c)
                          \/ Detach(c) \/ Die(c) \/ Pin(c) \/ Shutdown(c) \/ Work(c)
    \/ WorkEnds \/ Tick \/ Sweep \/ StopIdle \/ Close \/ Exit

LeasesSpec == LeasesInit /\ [][LeasesNext]_leaseVars

\* Time passes, the loop goes round, requests end, and a living client sends its
\* heartbeats.
LeasesFairness ==
    /\ WF_leaseVars(Tick) /\ WF_leaseVars(Sweep) /\ WF_leaseVars(StopIdle)
    /\ WF_leaseVars(WorkEnds)
    /\ \A c \in Clients : WF_leaseVars(Heartbeat(c))

LeasesFairSpec == LeasesSpec /\ LeasesFairness
-----------------------------------------------------------------------------
(* Properties *)

\* The table and the deadline of the daemon keep their ranges, and a client
\* without a heartbeat thread sends nothing.
TypeOK ==
    /\ daemon \in Phases
    /\ lease \in [Clients -> None..Ttl]
    /\ idleAt \in Nat \cup {None}
    /\ {pinned, candidate} \subseteq BOOLEAN
    /\ working \in Clients \cup {NoClient}
    /\ client \in [Clients -> {"away", "waiting", "found", "attached", "lost"}]
    /\ beaten \subseteq {c \in Clients : Beats(c)}
    /\ owed \in [Clients -> Nat]

\* The loop does not stop a daemon under a client that sends its heartbeats, not
\* even one that attached between the two looks of the loop at the table.
AttachedIsServed == daemon = "idle" => \A c \in Clients : client[c] # "attached"

\* No request, of a client alive or dead, is cut off by any stop.
WorkIsNotCutOff == working # NoClient => daemon # "none"

\* The loop stops a daemon only when the grace of every client that left it, by
\* detaching or by dying, is over: a short one does not cancel a longer one.
GraceIsKept == [][daemon' = "idle" /\ daemon # "idle" =>
                    \A c \in Clients : owed[c] = 0]_leaseVars

\* A daemon that had clients stops when they are gone, by detaching or by dying,
\* whatever requests they left behind, unless a client comes or it is pinned.
Abandoned == /\ daemon = "running" /\ ~pinned
             /\ Leased # {} \/ idleAt # None
             /\ \A c \in Clients : client[c] = "away"

Wanted == pinned \/ \E c \in Clients : client[c] # "away"

AbandonedDaemonStops == Abandoned ~> (Wanted \/ daemon # "running")
=============================================================================
