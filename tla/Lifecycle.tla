----------------------------- MODULE Lifecycle -----------------------------
(***************************************************************************)
(* The life of the server process after its start: the accept loop, the    *)
(* permits, the handlers' tasks, the shutdown signal, the drain with its   *)
(* timeout and the final fsync of main.rs, with the fsync task of aof.rs.  *)
(*                                                                         *)
(* What a command does is left out: a handler that executes may append to  *)
(* the AOF, and what it appends is unsynced until the next sync_data.  A   *)
(* task that is aborted stops where it next awaits, never in the middle of *)
(* execute and append, which do not await.                                 *)
(*                                                                         *)
(* Signals (external, tokio::signal): a listener sees the signals that     *)
(* arrive while it exists.  shutdown_signal() makes its listeners anew in  *)
(* every turn of the accept loop and drops them when the accept branch is  *)
(* taken.                                                                  *)
(***************************************************************************)
EXTENDS Integers, FiniteSets

CONSTANTS
    Clients,          \* connections a client may open
    MaxConnections,   \* config: max_connections
    FsyncMode,        \* config: appendfsync, one of Always, EverySec, No
    None

ASSUME LifecycleAssumption ==
    /\ IsFiniteSet(Clients) /\ None \notin Clients
    /\ MaxConnections \in Nat
    /\ FsyncMode \in {"Always", "EverySec", "No"}

VARIABLES
    main,      \* where main() is
    pending,   \* the accepted connection that waits for a permit
    permits,   \* the permits left in the semaphore
    handler,   \* per connection: its state, or that of its task
    aborted,   \* the tasks abort_all was called on
    noticed,   \* a signal has reached the listener of this turn of the loop
    asked,     \* history: a signal has been sent to the process
    lost,      \* history: it was dropped with its listener, or had none
    fsync,     \* the fsync task: running, or ended
    unsynced,  \* the connections with appends no sync_data has followed
    sync_error \* history: the last sync_data of the fsync task failed

sync_vars == <<fsync, unsynced, sync_error>>

vars == <<main, pending, permits, handler, aborted, noticed, asked, lost, sync_vars>>

TaskStates == {"reading", "executing", "replying"}

Tasks == {c \in Clients : handler[c] \in TaskStates}

Init ==
    /\ main = "accepting" /\ pending = None
    /\ permits = MaxConnections
    /\ handler = [c \in Clients |-> "away"]
    /\ aborted = {}
    /\ noticed = FALSE /\ asked = FALSE /\ lost = FALSE
    /\ fsync = IF FsyncMode = "EverySec" THEN "running" ELSE "ended"
    /\ unsynced = {} /\ sync_error = FALSE

(***************************************************************************)
(* The outside world.  The listening socket takes connections as long as   *)
(* the process lives, also those nobody will accept.                       *)
(***************************************************************************)
Alive == main \notin {"exited", "failed"}

Connect(c) ==
    /\ Alive /\ handler[c] = "away"
    /\ handler' = [handler EXCEPT ![c] = "backlog"]
    /\ UNCHANGED <<main, pending, permits, aborted, noticed, asked, lost, sync_vars>>

(* SIGINT or SIGTERM.  No listener exists while main waits for a permit or *)
(* drains: the signal is gone.                                             *)
Signal ==
    /\ Alive /\ ~asked
    /\ asked' = TRUE
    /\ noticed' = (main = "accepting") /\ lost' = (main # "accepting")
    /\ UNCHANGED <<main, pending, permits, handler, aborted, sync_vars>>

(***************************************************************************)
(* The accept loop.  select! takes any branch that is ready.               *)
(***************************************************************************)
Accept(c) ==
    /\ main = "accepting" /\ handler[c] = "backlog"
    /\ main' = "acquiring" /\ pending' = c
    /\ noticed' = FALSE /\ lost' = (lost \/ noticed)
    /\ UNCHANGED <<permits, handler, aborted, asked, sync_vars>>

(* Mutant: main does not wait for a permit. *)
AcquireWithoutWaiting ==
    /\ main = "acquiring"
    /\ permits' = permits - 1
    /\ handler' = [handler EXCEPT ![pending] = "reading"]
    /\ main' = "accepting" /\ pending' = None
    /\ UNCHANGED <<aborted, noticed, asked, lost, sync_vars>>

(* acquire_owned, and the task of the handler is spawned. *)
Acquire ==
    /\ main = "acquiring" /\ permits > 0
    /\ permits' = permits - 1
    /\ handler' = [handler EXCEPT ![pending] = "reading"]
    /\ main' = "accepting" /\ pending' = None
    /\ UNCHANGED <<aborted, noticed, asked, lost, sync_vars>>

(* Mutant: the semaphore is closed and the loop goes on. *)
ShutdownWithoutBreak ==
    /\ main = "accepting" /\ noticed
    /\ noticed' = FALSE
    /\ UNCHANGED <<main, pending, permits, handler, aborted, asked, lost, sync_vars>>

Shutdown ==
    /\ main = "accepting" /\ noticed
    /\ main' = "draining"
    /\ UNCHANGED <<pending, permits, handler, aborted, noticed, asked, lost, sync_vars>>

(* An error of accept leaves main at once: nothing is drained or synced. *)
AcceptError ==
    /\ main = "accepting"
    /\ main' = "failed"
    /\ UNCHANGED <<pending, permits, handler, aborted, noticed, asked, lost, sync_vars>>

(***************************************************************************)
(* The task of a handler.                                                  *)
(***************************************************************************)
(* The task is over; its permit is dropped with it. *)
End(c) ==
    /\ handler' = [handler EXCEPT ![c] = "away"]
    /\ permits' = permits + 1

(* An aborted task does not go on from an await. *)
Awaits(c, state) == handler[c] = state /\ c \notin aborted /\ main # "failed"

Receive(c) ==
    /\ Awaits(c, "reading")
    /\ handler' = [handler EXCEPT ![c] = "executing"]
    /\ UNCHANGED <<main, pending, permits, aborted, noticed, asked, lost, sync_vars>>

(* Execute, and append or not.  In mode Always append calls sync_data,     *)
(* which covers the whole file, or fails.                                  *)
Execute(c) ==
    /\ handler[c] = "executing"
    /\ handler' = [handler EXCEPT ![c] = "replying"]
    /\ unsynced' \in {unsynced, unsynced \cup {c}} \cup IF FsyncMode = "Always" THEN {{}} ELSE {}
    /\ UNCHANGED <<main, pending, permits, aborted, noticed, asked, lost, fsync, sync_error>>

Send(c) ==
    /\ Awaits(c, "replying")
    /\ handler' = [handler EXCEPT ![c] = "reading"]
    /\ UNCHANGED <<main, pending, permits, aborted, noticed, asked, lost, sync_vars>>

(* The client is gone: decode_async or send_response fails. *)
Disconnect(c) ==
    /\ Awaits(c, "reading") \/ Awaits(c, "replying")
    /\ End(c)
    /\ UNCHANGED <<main, pending, aborted, noticed, asked, lost, sync_vars>>

(* Mutant: the permit is only given back by the last line of the task. *)
PanicKeepsPermit(c) ==
    /\ handler[c] = "executing"
    /\ handler' = [handler EXCEPT ![c] = "away"]
    /\ UNCHANGED <<main, pending, permits, aborted, noticed, asked, lost, sync_vars>>

(* A panic in execute: the permit is dropped as the task unwinds. *)
Panic(c) ==
    /\ handler[c] = "executing"
    /\ End(c)
    /\ UNCHANGED <<main, pending, aborted, noticed, asked, lost, sync_vars>>

Aborted(c) ==
    /\ c \in aborted /\ handler[c] \in {"reading", "replying"}
    /\ End(c)
    /\ UNCHANGED <<main, pending, aborted, noticed, asked, lost, sync_vars>>

(***************************************************************************)
(* The end of main.                                                        *)
(***************************************************************************)
(* Mutant: main does not wait for the tasks. *)
DrainNothing ==
    /\ main = "draining"
    /\ main' = "cancelled"
    /\ UNCHANGED <<pending, permits, handler, aborted, noticed, asked, lost, sync_vars>>

(* join_next has returned every task; the token is cancelled. *)
DrainDone ==
    /\ main = "draining" /\ Tasks = {}
    /\ main' = "cancelled"
    /\ UNCHANGED <<pending, permits, handler, aborted, noticed, asked, lost, sync_vars>>

(* Mutant: no timeout while a task is left. *)
NoTimeout ==
    /\ main = "draining" /\ Tasks = {}
    /\ aborted' = Tasks
    /\ main' = "cancelled"
    /\ UNCHANGED <<pending, permits, handler, noticed, asked, lost, sync_vars>>

(* Ten seconds have passed: abort_all, and the token is cancelled. *)
DrainTimeout ==
    /\ main = "draining"
    /\ aborted' = Tasks
    /\ main' = "cancelled"
    /\ UNCHANGED <<pending, permits, handler, noticed, asked, lost, sync_vars>>

(* sync_data of the fsync task.  An error is logged and that is all. *)
SyncData ==
    \/ unsynced' = {} /\ sync_error' = FALSE
    \/ UNCHANGED unsynced /\ sync_error' = TRUE

(* The fsync task: every second, and a last time when it is cancelled. *)
FsyncTick ==
    /\ fsync = "running" /\ Alive
    /\ SyncData
    /\ UNCHANGED <<main, pending, permits, handler, aborted, noticed, asked, lost, fsync>>

(* The task ends and main exits, whether or not the last one succeeded. *)
FsyncFinal ==
    /\ fsync = "running" /\ main = "cancelled"
    /\ SyncData
    /\ fsync' = "ended"
    /\ UNCHANGED <<main, pending, permits, handler, aborted, noticed, asked, lost>>

Exit ==
    /\ main = "cancelled" /\ fsync = "ended"
    /\ main' = "exited"
    /\ UNCHANGED <<pending, permits, handler, aborted, noticed, asked, lost, sync_vars>>

(* Nothing is left to happen in a process that is gone. *)
Gone == ~Alive /\ UNCHANGED vars

Main == (\E c \in Clients : Accept(c)) \/ Acquire \/ Shutdown \/ DrainDone \/ Exit

Task(c) == Receive(c) \/ Execute(c) \/ Send(c) \/ Disconnect(c) \/ Panic(c) \/ Aborted(c)

Next ==
    \/ \E c \in Clients : Connect(c) \/ Task(c)
    \/ Signal \/ AcceptError
    \/ Main \/ DrainTimeout
    \/ FsyncTick \/ FsyncFinal
    \/ Gone

Spec == Init /\ [][Next]_vars

(***************************************************************************)
(* The runtime polls main and the fsync task whenever they can go on, and  *)
(* the timer of the drain elapses.  select! picks a ready branch at        *)
(* random: a signal that is noticed again and again is taken.  A task that *)
(* executes does not block.  Nothing is assumed of the clients: they may   *)
(* stay connected and silent for ever.                                     *)
(***************************************************************************)
Fairness ==
    /\ WF_vars(Main) /\ SF_vars(Shutdown)
    /\ WF_vars(DrainTimeout) /\ WF_vars(FsyncFinal)
    /\ \A c \in Clients : WF_vars(Execute(c) \/ Panic(c)) /\ WF_vars(Aborted(c))

FairSpec == Spec /\ Fairness

-----------------------------------------------------------------------------
TypeOK ==
    /\ main \in {"accepting", "acquiring", "draining", "cancelled", "exited", "failed"}
    /\ pending \in Clients \cup {None} /\ (pending # None <=> main = "acquiring")
    /\ permits \in 0..MaxConnections
    /\ handler \in [Clients -> {"away", "backlog"} \cup TaskStates]
    /\ aborted \subseteq Clients /\ unsynced \subseteq Clients
    /\ noticed \in BOOLEAN /\ asked \in BOOLEAN /\ lost \in BOOLEAN
    /\ fsync \in {"running", "ended"} /\ sync_error \in BOOLEAN

(* Every permit is in the semaphore or held by exactly one running task,   *)
(* however the tasks end: by a closed connection, a panic in the middle of *)
(* a command or an abort.  Otherwise the server would in time refuse all   *)
(* connections, or allow more than max_connections.                        *)
PermitAccounting == permits + Cardinality(Tasks) = MaxConnections

(* A server that shuts down in mode everysec has all appends on disk,      *)
(* unless the last sync_data failed, which main does not learn: what is    *)
(* not synced when main returns was appended by a task that abort_all      *)
(* caught in the middle of a command, after ten seconds of draining.       *)
CleanExitIsSynced ==
    main = "exited" /\ FsyncMode = "EverySec" /\ ~sync_error => unsynced \subseteq aborted

(* A shutdown that has begun ends, whether or not the clients let go.      *)
DrainEnds == main = "draining" ~> main = "exited"

(* A signal stops the server, whatever its clients do, unless it is lost:  *)
(* it came while main waited for a permit, or select! took a connection    *)
(* that was ready at the same time.  The sender has to send it again.      *)
SignalStopsUnlessLost == asked ~> (~Alive \/ lost)
=============================================================================
