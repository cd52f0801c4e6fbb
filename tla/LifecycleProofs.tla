-------------------------- MODULE LifecycleProofs --------------------------
(***************************************************************************)
(* Machine-checked proofs about Lifecycle, for every finite set of         *)
(* connections, every max_connections and every mode of appendfsync.       *)
(***************************************************************************)
EXTENDS Lifecycle, FiniteSetTheorems, TLAPS

USE DEF sync_vars

(* The connection main holds while it waits for a permit has no task yet. *)
PendingHasNoTask == main = "acquiring" => handler[pending] = "backlog"

(* What the permits need to be accounted for at every step. *)
Accounted == TypeOK /\ PendingHasNoTask /\ PermitAccounting

(* The order of the shutdown.  abort_all is called at most once, by a main *)
(* that drains no longer; from then on every task that is left is one that *)
(* was aborted; the fsync task of mode everysec ends after that, and       *)
(* unless its last sync_data failed, what no sync_data has followed was    *)
(* appended by such a task.                                                *)
ShutdownOrder ==
    /\ main \in {"accepting", "acquiring", "draining", "failed"} => aborted = {}
    /\ main \in {"cancelled", "exited"} => Tasks \subseteq aborted
    /\ main = "exited" => fsync = "ended"
    /\ FsyncMode = "EverySec" /\ fsync = "ended" =>
          /\ main \in {"cancelled", "exited"}
          /\ sync_error \/ unsynced \subseteq aborted

-----------------------------------------------------------------------------
(* The tasks are a finite set. *)
LEMMA TasksFinite == IsFiniteSet(Tasks) /\ Cardinality(Tasks) \in Nat
<1>1. Tasks \in SUBSET Clients
  BY DEF Tasks
<1> QED
  BY <1>1, FS_Subset, FS_CardinalityType, LifecycleAssumption

(* A step that changes the state of one connection changes the number of   *)
(* tasks by one when it makes or ends its task, and not at all otherwise.  *)
LEMMA TasksOfStep ==
  ASSUME TypeOK, NEW c \in Clients, NEW state,
         handler' = [handler EXCEPT ![c] = state]
  PROVE  /\ handler[c] \in TaskStates /\ state \in TaskStates => Tasks' = Tasks
         /\ handler[c] \notin TaskStates /\ state \notin TaskStates => Tasks' = Tasks
         /\ handler[c] \notin TaskStates /\ state \in TaskStates =>
               Cardinality(Tasks') = Cardinality(Tasks) + 1
         /\ handler[c] \in TaskStates /\ state \notin TaskStates =>
               /\ Cardinality(Tasks') = Cardinality(Tasks) - 1
               /\ Tasks' \subseteq Tasks
<1>1. handler'[c] = state /\ \A d \in Clients \ {c} : handler'[d] = handler[d]
  BY DEF TypeOK
<1>2. IsFiniteSet(Tasks)
  BY TasksFinite
<1>3. ASSUME handler[c] \notin TaskStates, state \in TaskStates
      PROVE  Cardinality(Tasks') = Cardinality(Tasks) + 1
  <2>1. Tasks' = Tasks \cup {c} /\ c \notin Tasks
    BY <1>1, <1>3 DEF Tasks
  <2> QED
    BY <2>1, <1>2, FS_AddElement
<1>4. ASSUME handler[c] \in TaskStates, state \notin TaskStates
      PROVE  Cardinality(Tasks') = Cardinality(Tasks) - 1 /\ Tasks' \subseteq Tasks
  <2>1. Tasks' = Tasks \ {c} /\ c \in Tasks
    BY <1>1, <1>4 DEF Tasks
  <2> QED
    BY <2>1, <1>2, FS_RemoveElement
<1>5. (handler[c] \in TaskStates <=> state \in TaskStates) => Tasks' = Tasks
  BY <1>1 DEF Tasks
<1> QED
  BY <1>3, <1>4, <1>5

(* A connection that is away or in the backlog has no task. *)
LEMMA NoTaskStates == "away" \notin TaskStates /\ "backlog" \notin TaskStates
  BY DEF TaskStates

(* The tasks are those of the handlers. *)
LEMMA TasksUnchanged == handler' = handler => Tasks' = Tasks
  BY DEF Tasks

(* A task that ends gives its permit back. *)
LEMMA EndAccounted ==
  ASSUME Accounted, NEW c \in Clients, handler[c] \in TaskStates, End(c),
         UNCHANGED <<main, pending, aborted, noticed, asked, lost, sync_vars>>
  PROVE  Accounted' /\ Tasks' \subseteq Tasks
<1>1. Cardinality(Tasks') = Cardinality(Tasks) - 1 /\ Tasks' \subseteq Tasks
  <2>1. TypeOK /\ handler' = [handler EXCEPT ![c] = "away"]
    BY DEF Accounted, End
  <2> QED
    BY <2>1, TasksOfStep, NoTaskStates
<1>2. permits' = permits + 1 /\ PermitAccounting'
  BY <1>1, TasksFinite, LifecycleAssumption DEF Accounted, TypeOK, End, PermitAccounting
<1>3. Cardinality(Tasks') \in Nat
  BY <1>1, TasksFinite, FS_Subset, FS_CardinalityType
<1>4. permits' \in 0..MaxConnections
  BY <1>2, <1>3, LifecycleAssumption DEF Accounted, TypeOK, PermitAccounting
<1>5. TypeOK'
  BY <1>4 DEF Accounted, TypeOK, End
<1>6. PendingHasNoTask'
  BY NoTaskStates DEF Accounted, TypeOK, End, PendingHasNoTask
<1> QED
  BY <1>1, <1>2, <1>5, <1>6 DEF Accounted

-----------------------------------------------------------------------------
(* The accounting holds when the server starts to accept. *)
LEMMA InitAccounted == Init => Accounted
<1> SUFFICES ASSUME Init PROVE Accounted
  OBVIOUS
<1> USE LifecycleAssumption DEF Init
<1>1. Tasks = {} /\ Cardinality(Tasks) = 0
  <2>1. Tasks = {}
    BY NoTaskStates DEF Tasks
  <2> QED
    BY <2>1, FS_EmptySet
<1>2. PermitAccounting
  BY <1>1 DEF PermitAccounting
<1>3. TypeOK
  <2>1. handler \in [Clients -> {"away", "backlog"} \cup TaskStates]
    OBVIOUS
  <2>2. permits \in 0..MaxConnections /\ fsync \in {"running", "ended"}
    OBVIOUS
  <2> QED
    BY <2>1, <2>2 DEF TypeOK
<1> QED
  BY <1>2, <1>3 DEF Accounted, PendingHasNoTask

(* Every step of the server keeps it. *)
LEMMA NextAccounted == Accounted /\ [Next]_vars => Accounted'
<1> SUFFICES ASSUME Accounted, [Next]_vars PROVE Accounted'
  OBVIOUS
<1> USE LifecycleAssumption
<1>1. ASSUME NEW c \in Clients, Connect(c) PROVE Accounted'
  <2>1. Tasks' = Tasks
    BY <1>1, TasksOfStep, NoTaskStates DEF Accounted, Connect
  <2> QED
    BY <1>1, <2>1 DEF Accounted, TypeOK, PendingHasNoTask, PermitAccounting, Connect
<1>2. ASSUME NEW c \in Clients, Task(c) PROVE Accounted'
  <2>1. CASE Receive(c) \/ Execute(c) \/ Send(c)
    <3>1. Tasks' = Tasks
      BY <2>1, TasksOfStep DEF Accounted, Receive, Execute, Send, Awaits, TaskStates
    <3>2. TypeOK'
      BY <2>1 DEF Accounted, TypeOK, Receive, Execute, Send, Awaits, TaskStates
    <3>3. PendingHasNoTask'
      BY <2>1 DEF Accounted, TypeOK, PendingHasNoTask, Receive, Execute, Send, Awaits
    <3>4. PermitAccounting'
      BY <2>1, <3>1 DEF Accounted, PermitAccounting, Receive, Execute, Send
    <3> QED
      BY <3>2, <3>3, <3>4 DEF Accounted
  <2>2. CASE Disconnect(c) \/ Panic(c) \/ Aborted(c)
    BY <2>2, EndAccounted DEF Disconnect, Panic, Aborted, Awaits, TaskStates
  <2> QED
    BY <1>2, <2>1, <2>2 DEF Task
<1>3. CASE Acquire
  <2>1. pending \in Clients /\ handler[pending] = "backlog" /\ permits' = permits - 1
    BY <1>3 DEF Acquire, Accounted, TypeOK, PendingHasNoTask
  <2>2. Cardinality(Tasks') = Cardinality(Tasks) + 1
    BY <1>3, <2>1, TasksOfStep DEF Acquire, Accounted, TaskStates
  <2>3. PermitAccounting'
    BY <2>1, <2>2, TasksFinite DEF Accounted, TypeOK, PermitAccounting
  <2>4. TypeOK'
    BY <1>3, <2>1 DEF Acquire, Accounted, TypeOK, TaskStates
  <2> QED
    BY <1>3, <2>3, <2>4 DEF Acquire, Accounted, PendingHasNoTask
<1>4. ASSUME NEW c \in Clients, Accept(c) PROVE Accounted'
  BY <1>4, TasksUnchanged DEF Accept, Accounted, TypeOK, PendingHasNoTask, PermitAccounting
<1>5. CASE Signal \/ Shutdown \/ AcceptError \/ DrainDone \/ DrainTimeout \/ Exit
  <2>1. PermitAccounting'
    BY <1>5, TasksUnchanged DEF Signal, Shutdown, AcceptError, DrainDone, DrainTimeout, Exit,
         Accounted, PermitAccounting
  <2>2. TypeOK'
    BY <1>5 DEF Signal, Shutdown, AcceptError, DrainDone, DrainTimeout, Exit, Accounted, TypeOK,
         Tasks
  <2>3. PendingHasNoTask'
    BY <1>5 DEF Signal, Shutdown, AcceptError, DrainDone, DrainTimeout, Exit, Accounted,
         PendingHasNoTask
  <2> QED
    BY <2>1, <2>2, <2>3 DEF Accounted
<1>6. CASE FsyncTick \/ FsyncFinal
  BY <1>6, TasksUnchanged DEF FsyncTick, FsyncFinal, SyncData, Accounted, TypeOK, PendingHasNoTask,
       PermitAccounting
<1>7. CASE Gone \/ UNCHANGED vars
  BY <1>7, TasksUnchanged DEF Gone, vars, Accounted, TypeOK, PendingHasNoTask, PermitAccounting
<1> QED
  BY <1>1, <1>2, <1>3, <1>4, <1>5, <1>6, <1>7 DEF Next, Main

(* TypeOK holds for every number of connections and permits: in particular *)
(* the semaphore never has more permits than max_connections, and a        *)
(* connection waits for a permit exactly while main is in acquire_owned.   *)
THEOREM LifecycleTypeCorrect == Spec => []TypeOK
<1>1. Spec => []Accounted
  BY InitAccounted, NextAccounted, PTL DEF Spec
<1>2. Accounted => TypeOK
  BY DEF Accounted
<1> QED
  BY <1>1, <1>2, PTL

(* No permit is lost or made up, however connections end: closed, aborted  *)
(* in the drain, or by a panic in the middle of a command.                 *)
THEOREM PermitsAreAccounted == Spec => []PermitAccounting
<1>1. Spec => []Accounted
  BY InitAccounted, NextAccounted, PTL DEF Spec
<1>2. Accounted => PermitAccounting
  BY DEF Accounted
<1> QED
  BY <1>1, <1>2, PTL

-----------------------------------------------------------------------------
(* Nothing is aborted or ended at the start. *)
LEMMA InitOrdered == Init => ShutdownOrder
  BY LifecycleAssumption DEF Init, ShutdownOrder

(* Every step keeps the order of the shutdown. *)
LEMMA NextOrdered == Accounted /\ ShutdownOrder /\ [Next]_vars => ShutdownOrder'
<1> SUFFICES ASSUME Accounted, ShutdownOrder, [Next]_vars PROVE ShutdownOrder'
  OBVIOUS
<1>0. TypeOK
  BY DEF Accounted
<1>1. ASSUME NEW c \in Clients, Connect(c) PROVE ShutdownOrder'
  <2>1. Tasks' = Tasks
    BY <1>0, <1>1, TasksOfStep, NoTaskStates DEF Connect
  <2> QED
    BY <1>1, <2>1 DEF Connect, ShutdownOrder
<1>2. ASSUME NEW c \in Clients, Task(c) PROVE ShutdownOrder'
  <2>1. CASE Receive(c) \/ Send(c)
    <3>1. Tasks' = Tasks
      BY <1>0, <2>1, TasksOfStep DEF Receive, Send, Awaits, TaskStates
    <3> QED
      BY <2>1, <3>1 DEF Receive, Send, ShutdownOrder
  <2>2. CASE Execute(c)
    <3>1. Tasks' = Tasks /\ c \in Tasks
      BY <1>0, <2>2, TasksOfStep DEF Execute, Tasks, TaskStates
    <3>2. unsynced' \subseteq unsynced \cup {c}
      BY <2>2 DEF Execute
    <3> QED
      BY <2>2, <3>1, <3>2 DEF Execute, ShutdownOrder
  <2>3. CASE Disconnect(c) \/ Panic(c) \/ Aborted(c)
    <3>1. Tasks' \subseteq Tasks
      BY <2>3, EndAccounted DEF Disconnect, Panic, Aborted, Awaits, TaskStates
    <3> QED
      BY <2>3, <3>1 DEF Disconnect, Panic, Aborted, ShutdownOrder
  <2> QED
    BY <1>2, <2>1, <2>2, <2>3 DEF Task
<1>3. ASSUME NEW c \in Clients, Accept(c) PROVE ShutdownOrder'
  BY <1>3, TasksUnchanged DEF Accept, ShutdownOrder
<1>4. CASE Signal \/ Acquire \/ Shutdown \/ AcceptError
  BY <1>4, TasksUnchanged DEF Signal, Acquire, Shutdown, AcceptError, Alive, ShutdownOrder
<1>5. CASE DrainDone \/ DrainTimeout
  BY <1>5, TasksUnchanged DEF DrainDone, DrainTimeout, ShutdownOrder
<1>6. CASE Exit \/ FsyncTick \/ FsyncFinal
  BY <1>6, TasksUnchanged DEF Exit, FsyncTick, FsyncFinal, SyncData, Alive, ShutdownOrder
<1>7. CASE Gone \/ UNCHANGED vars
  BY <1>7, TasksUnchanged DEF Gone, vars, ShutdownOrder
<1> QED
  BY <1>1, <1>2, <1>3, <1>4, <1>5, <1>6, <1>7 DEF Next, Main

(* In mode everysec main returns only after a sync_data of everything but  *)
(* what tasks appended that the drain had given up, or after one that      *)
(* failed.                                                                 *)
THEOREM CleanExitsAreSynced == Spec => []CleanExitIsSynced
<1>1. Spec => []Accounted
  BY InitAccounted, NextAccounted, PTL DEF Spec
<1>2. Spec /\ []Accounted => []ShutdownOrder
  BY InitOrdered, NextOrdered, PTL DEF Spec
<1>3. ShutdownOrder => CleanExitIsSynced
  BY DEF ShutdownOrder, CleanExitIsSynced
<1> QED
  BY <1>1, <1>2, <1>3, PTL
=============================================================================
