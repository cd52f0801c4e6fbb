----------------------------- MODULE AofProofs -----------------------------
(***************************************************************************)
(* Machine-checked proofs about the append-only file: the types, what a    *)
(* failed append leaves, what a crash cannot take, how long the fsync task *)
(* can let an entry wait.  And that the file implements DurableLog: every  *)
(* step of the server, crashes and failing disks included, is a step of    *)
(* the log or leaves it alone.                                             *)
(***************************************************************************)
EXTENDS Aof, ExecutorStepProofs, Iteration

-----------------------------------------------------------------------------
(***************************************************************************)
(* The inductive invariant, in parts.                                      *)
(***************************************************************************)
Appends == [state : {"no", "flushed", "yes", "failed"}, pos : Nat]

(* The log: the file, the buffer and the counters around them. *)
LogTyped ==
    /\ fsync_mode \in FsyncModes /\ phase \in {"replay", "serving", "failed"}
    /\ file \in Seq(Commands \cup {Torn}) /\ buffer \in Seq(Commands)
    /\ Len(buffer) <= BufferSize
    /\ synced \in 0..Len(file) /\ pos \in 1..(Len(file) + 1)
    /\ logged \in [Clients -> Appends]
    /\ crashes \in 0..MaxCrashes /\ drift \in Nat

(* The BufWriter is empty when there is none. *)
BufferAtRest == phase # "serving" => buffer = <<>>

(* Connections run the commands of Requests, and what has a reply is one. *)
OwnCommands ==
    /\ \A c \in Connections : conn[c].cmd \in Requests \cup {None}
    /\ \A c \in Clients : conn[c].pc = "done" => conn[c].cmd \in Command

(* Where the entry of a command is: in the file before its sync_data, in   *)
(* the synced part after it, and there still when a client knows of it.    *)
EntryAt(p, n) == p \in 1..n /\ file[p] \in Commands

Placed ==
    /\ \A c \in Clients :
          /\ logged[c].state = "flushed" => fsync_mode = "Always" /\ EntryAt(logged[c].pos, Len(file))
          /\ logged[c].state = "yes" /\ fsync_mode = "Always" => EntryAt(logged[c].pos, synced)
    /\ \A a \in acked : EntryAt(a[1], synced) /\ file[a[1]] = a[2]

(* The fsync task is due within a second of the clock, and within a second *)
(* of the oldest entry it has not synced.                                  *)
Timed ==
    /\ next_sync \in Nat /\ oldest \in Nat \cup {None} /\ sync_error \in BOOLEAN
    /\ phase # "serving" => oldest = None
    /\ fsync_mode = "EverySec" /\ phase = "serving" =>
          /\ now <= next_sync /\ next_sync <= now + Sec
          /\ oldest # None /\ ~sync_error => next_sync <= oldest + Sec

-----------------------------------------------------------------------------
(* The executor under the log. *)

(* A step of the server is one of the executor, or leaves it alone, or is  *)
(* a crash.                                                                *)
LEMMA ServerSteps ==
  ASSUME [AofNext]_all_vars
  PROVE  Crash \/ [Next]_vars
<1>1. Connections \subseteq Clients /\ Startup \in Clients
  BY AofAssumption DEF Connections
<1>2. CASE \E c \in Connections : Serve(c) \/ Answer(c)
  BY <1>1, <1>2 DEF Serve, Answer, Next, Connection
<1>3. CASE \E c \in Connections : AppendWrite(c) \/ AppendFails(c) \/ AppendSync(c) \/ AppendSyncFails(c)
  BY <1>3 DEF AppendWrite, AppendFails, AppendSync, AppendSyncFails
<1>4. CASE FsyncTick \/ ReplayTorn \/ ReplayEnd \/ OpenFails \/ Stopped \/ UNCHANGED all_vars
  BY <1>4 DEF FsyncTick, ReplayTorn, ReplayEnd, OpenFails, Stopped, all_vars
<1>5. CASE Evict \/ Clock \/ Replay \/ ReplayNext
  BY <1>1, <1>5 DEF Evict, Clock, Replay, ReplayNext, Next, Connection
<1> QED
  BY <1>2, <1>3, <1>4, <1>5 DEF AofNext

(* A crash leaves a server that has just been started. *)
LEMMA CrashTyped ==
  ASSUME TypeOK, Crash
  PROVE  TypeOK'
<1>1. DataTyped'
  BY DEF Crash, DataTyped
<1>2. ConnTyped'
  <2>1. Idle.pc # "done"
    BY DEF Idle
  <2> QED
    BY <2>1, IdleTyped DEF Crash, ConnTyped
<1>3. RestTyped'
  <2>1. now' \in Nat
    BY TypeParts DEF Crash, RestTyped
  <2>2. [k \in Keys |-> None] \in [Keys -> Nat \cup {None}]
    OBVIOUS
  <2> QED
    BY <2>1, <2>2 DEF Crash, RestTyped, EvictorIdle
<1> QED
  BY <1>1, <1>2, <1>3, TypePartsNext

(* The executor stays typed, crashes included. *)
LEMMA ServerTyped ==
  ASSUME TypeOK, [AofNext]_all_vars
  PROVE  TypeOK'
  BY ServerSteps, CrashTyped, NextTyped

(* The command of a connection is the one it sent, as long as it runs. *)
LEMMA CommandsKept ==
  ASSUME TypeOK, OwnCommands, [AofNext]_all_vars
  PROVE  OwnCommands'
<1>1. conn \in [Clients -> Locals] /\ Connections \subseteq Clients /\ Startup \in Clients \ Connections
  BY TypeParts, AofAssumption DEF ConnTyped, Connections
<1>2. ASSUME NEW c \in Clients, Execute(c) \/ PoisonedCall(c) \/ Reconnect(c) \/ Respond(c),
             c \in Connections => conn'[c].cmd \in Requests \cup {None}
      PROVE  OwnCommands'
  <2>1. \A d \in Clients \ {c} : conn'[d] = conn[d]
    BY <1>2, ConnectionAlone DEF Connection
  <2>2. conn'[c].pc = "done" => conn'[c].cmd \in Command
    <3>1. CASE Execute(c)
      BY <3>1, ExecuteActs, ActsAlone
    <3>2. CASE PoisonedCall(c)
      BY <3>2, PanicLeaves DEF PoisonedCall
    <3>3. CASE Reconnect(c) \/ Respond(c)
      BY <1>1, <3>3 DEF Reconnect, Respond, Idle
    <3> QED
      BY <1>2, <3>1, <3>2, <3>3
  <2> QED
    BY <1>1, <1>2, <2>1, <2>2 DEF OwnCommands
<1>3. CASE \E c \in Connections : Serve(c)
  BY <1>1, <1>2, <1>3 DEF Serve
<1>4. CASE \E c \in Connections : Answer(c)
  <2>1. PICK c \in Connections : Respond(c)
    BY <1>4 DEF Answer
  <2>2. conn'[c].cmd = None
    BY <1>1, <2>1 DEF Respond, Idle
  <2> QED
    BY <1>1, <1>2, <2>1, <2>2
<1>5. CASE Replay \/ ReplayNext
  BY <1>1, <1>2, <1>5 DEF Replay, ReplayNext
<1>6. CASE Crash
  <2>1. \A c \in Clients : conn'[c].pc = "idle" /\ conn'[c].cmd = None
    BY <1>6 DEF Crash, Idle
  <2> QED
    BY <1>1, <2>1 DEF OwnCommands
<1>7. CASE UNCHANGED conn
  BY <1>7 DEF OwnCommands
<1>8. ASSUME NEW c \in Connections,
             AppendWrite(c) \/ AppendFails(c) \/ AppendSync(c) \/ AppendSyncFails(c)
      PROVE  UNCHANGED conn
  BY <1>8 DEF AppendWrite, AppendFails, AppendSync, AppendSyncFails, vars
<1>9. CASE FsyncTick \/ Evict \/ Clock \/ ReplayTorn \/ ReplayEnd \/ OpenFails \/ Stopped
           \/ UNCHANGED all_vars
  <2>1. UNCHANGED conn
    BY <1>9 DEF FsyncTick, Evict, Daemon, EvictSample, EvictFilter, EvictDelete, EvictorPanic, Clock,
                Tick, ReplayTorn, ReplayEnd, OpenFails, Stopped, vars, all_vars
  <2> QED
    BY <1>7, <2>1
<1> QED
  BY <1>3, <1>4, <1>5, <1>6, <1>7, <1>8, <1>9 DEF AofNext

(* What run_handler appends is a command that the replay can execute: a    *)
(* relative deadline becomes a PEXPIREAT whose deadline is a u64.          *)
LEMMA EntryIsCommand ==
  ASSUME TypeOK, OwnCommands, NEW c \in Connections, conn[c].pc = "done"
  PROVE  cmd_bytes(conn[c].cmd) \in Commands
<1> DEFINE cmd == conn[c].cmd
<1>1. cmd \in Requests /\ cmd \in Command
  BY AofAssumption DEF OwnCommands, Connections
<1>2. now \in Nat /\ U64Max \in Nat /\ now \div Ms \in Nat /\ Sec \div Ms \in Nat
  <2>1. now \in Nat /\ U64Max \in Nat /\ Sec \in Nat /\ Ms \in Nat \ {0}
    BY TypeParts, ConstantsAssumption DEF RestTyped
  <2>2. \A t \in Nat, u \in Nat \ {0} : t \div u \in Nat
    OBVIOUS
  <2> QED
    BY <2>1, <2>2
<1>3. \A key, ms : key \in {r.key : r \in Requests \cap ExpireCommand} /\ ms \in Nat
                   => pexpireat(key, ms) \in Commands
  <2>1. \A ms \in Nat : (now \div Ms + ms) % (U64Max + 1) \in U64
    BY <1>2 DEF U64
  <2> QED
    BY <2>1, AofAssumption DEF pexpireat, unix_ms
<1>4. \A n \in Nat : saturating_mul(n, Sec \div Ms) \in Nat
  BY <1>2 DEF saturating_mul
<1>5. CASE cmd.op \notin {"Expire", "PExpire"}
  BY <1>1, <1>5, AofAssumption DEF cmd_bytes
<1>6. CASE cmd.op \in {"Expire", "PExpire"}
  <2>1. cmd \in ExpireCommand
    BY <1>1, <1>6 DEF Command, SetCommand, DeleteCommand, ExistsCommand, PushCommand, TtlCommand,
       GetDelCommand, MSetCommand, PopCommand, LSetCommand, SAddCommand, SRemCommand, SMoveCommand,
       SPopCommand, PersistCommand, ExpireAtCommand, FlushDbCommand, PingCommand, SelectCommand,
       ReadCommand
  <2>2. cmd.ttl \in Nat /\ cmd.key \in {r.key : r \in Requests \cap ExpireCommand}
    BY <1>1, <1>2, <2>1 DEF ExpireCommand, U64
  <2> QED
    BY <1>3, <1>4, <1>6, <2>2 DEF cmd_bytes, convert_expire_to_pexpireat, convert_pexpire_to_pexpireat
<1> QED
  BY <1>5, <1>6

-----------------------------------------------------------------------------
(***************************************************************************)
(* The file and the buffer.                                                *)
(***************************************************************************)
LogOK == LogTyped /\ BufferAtRest /\ NoHoles

(* An append that reaches the file takes the buffer with it. *)
LEMMA AppendWriteLog ==
  ASSUME TypeOK, OwnCommands, LogOK, NEW c \in Connections, AppendWrite(c)
  PROVE  /\ LogOK'
         /\ Len(file') > Len(file)
         /\ \A i \in 1..Len(file) : file'[i] = file[i]
         /\ \A i \in (Len(file) + 1)..Len(file') : file'[i] \in Commands
<1> DEFINE entry == cmd_bytes(conn[c].cmd)
           tail == Append(buffer, entry)
<1>1. entry \in Commands /\ c \in Clients
  BY EntryIsCommand DEF AppendWrite, ToAppend, Connections
<1>2. /\ file' = file \o tail /\ issued' = Append(issued, entry) /\ buffer' = <<>>
      /\ logged' = [logged EXCEPT ![c] =
            [state |-> IF fsync_mode = "Always" THEN "flushed" ELSE "yes", pos |-> Len(file')]]
      /\ UNCHANGED <<fsync_mode, phase, synced, pos, crashes, drift>>
  BY DEF AppendWrite
<1>3. file \in Seq(Commands \cup {Torn}) /\ buffer \in Seq(Commands) /\ tail \in Seq(Commands)
  BY <1>1 DEF LogOK, LogTyped
<1>4. /\ Len(file) \in Nat /\ Len(tail) = Len(buffer) + 1 /\ Len(buffer) \in Nat
      /\ Len(file') = Len(file) + Len(tail)
      /\ file' \in Seq(Commands \cup {Torn})
      /\ \A i \in 1..Len(file) : file'[i] = file[i]
  BY <1>2, <1>3
<1>5. \A i \in (Len(file) + 1)..Len(file') : file'[i] \in Commands
  <2>1. \A i \in (Len(file) + 1)..Len(file') :
           i - Len(file) \in 1..Len(tail) /\ file'[i] = tail[i - Len(file)]
    BY <1>2, <1>3, <1>4
  <2> HIDE DEF tail
  <2>2. \A j \in 1..Len(tail) : tail[j] \in Commands
    BY <1>3, ElementOfSeq
  <2> QED
    BY <2>1, <2>2
<1>6. NoHoles'
  <2>1. (file \o tail) \o <<>> = Append(file \o buffer, entry)
    BY <1>1, <1>3
  <2> QED
    BY <1>2, <2>1 DEF LogOK, NoHoles
<1>7. LogTyped'
  <2>1. logged' \in [Clients -> Appends]
    BY <1>1, <1>2, <1>4 DEF LogOK, LogTyped, Appends
  <2>2. <<>> \in Seq(Commands) /\ Len(<<>>) = 0 /\ BufferSize \in Nat
    BY AofAssumption
  <2> QED
    BY <1>2, <1>4, <2>1, <2>2 DEF LogOK, LogTyped
<1>8. BufferAtRest' /\ Len(file') > Len(file)
  BY <1>2, <1>4 DEF BufferAtRest
<1> HIDE DEF entry, tail
<1> QED
  BY <1>4, <1>5, <1>6, <1>7, <1>8 DEF LogOK

(* An append that fails leaves its entry in the buffer, or none at all. *)
LEMMA AppendFailsLog ==
  ASSUME TypeOK, OwnCommands, LogOK, NEW c \in Connections, AppendFails(c)
  PROVE  LogOK'
<1> DEFINE entry == cmd_bytes(conn[c].cmd)
<1>1. entry \in Commands /\ c \in Clients
  BY EntryIsCommand DEF AppendFails, ToAppend, Connections
<1>2. /\ UNCHANGED <<fsync_mode, phase, file, synced, pos, crashes, drift>>
      /\ logged' = [logged EXCEPT ![c].state = "failed"] /\ phase = "serving"
      /\ \/ Len(buffer) < BufferSize /\ buffer' = Append(buffer, entry) /\ issued' = Append(issued, entry)
         \/ UNCHANGED <<buffer, issued>>
  BY DEF AppendFails, ToAppend
<1>3. file \in Seq(Commands \cup {Torn}) /\ buffer \in Seq(Commands) /\ BufferSize \in Nat
  BY AofAssumption DEF LogOK, LogTyped
<1>4. logged' \in [Clients -> Appends]
  BY <1>1, <1>2 DEF LogOK, LogTyped, Appends
<1>5. NoHoles'
  <2>1. file \o Append(buffer, entry) = Append(file \o buffer, entry)
    BY <1>1, <1>3
  <2> QED
    BY <1>2, <2>1 DEF LogOK, NoHoles
<1>6. buffer' \in Seq(Commands) /\ Len(buffer') <= BufferSize
  <2>1. /\ Append(buffer, entry) \in Seq(Commands) /\ Len(Append(buffer, entry)) = Len(buffer) + 1
        /\ Len(buffer) \in Nat /\ Len(buffer) <= BufferSize
    BY <1>1, <1>3 DEF LogOK, LogTyped
  <2>2. CASE Len(buffer) < BufferSize /\ buffer' = Append(buffer, entry)
    <3>1. Len(buffer) + 1 <= BufferSize
      BY <1>3, <2>1, <2>2
    <3> QED
      BY <2>1, <2>2, <3>1, Zenon
  <2>3. CASE buffer' = buffer
    BY <1>3, <2>1, <2>3, Zenon
  <2> QED
    BY <1>2, <2>2, <2>3
<1> QED
  BY <1>2, <1>4, <1>5, <1>6 DEF LogOK, LogTyped, BufferAtRest

(* A crash keeps the synced part of the file, and no hole. *)
LEMMA CrashLog ==
  ASSUME LogOK, Crash
  PROVE  /\ LogOK'
         /\ \E n \in synced..Len(file) :
               /\ \A i \in 1..n : file'[i] = file[i]
               /\ \/ Len(file') = n
                  \/ Len(file') = n + 1 /\ file'[n + 1] = Torn
<1>1. PICK n \in synced..Len(file), torn \in {FALSE, TornWrites} :
         file' = SubSeq(file, 1, n) \o (IF torn THEN <<Torn>> ELSE <<>>)
  BY DEF Crash
<1>2. file \in Seq(Commands \cup {Torn}) /\ Len(file) \in Nat /\ synced \in 0..Len(file) /\ n \in Nat
  BY DEF LogOK, LogTyped
<1>3. /\ SubSeq(file, 1, n) \in Seq(Commands \cup {Torn}) /\ Len(SubSeq(file, 1, n)) = n
      /\ \A i \in 1..n : SubSeq(file, 1, n)[i] = file[i]
  BY <1>2
<1>4. /\ \/ Len(file') = n
         \/ Len(file') = n + 1 /\ file'[n + 1] = Torn
      /\ file' \in Seq(Commands \cup {Torn})
      /\ \A i \in 1..n : file'[i] = file[i]
  <2> DEFINE kept == SubSeq(file, 1, n)
  <2>1. kept \in Seq(Commands \cup {Torn}) /\ Len(kept) = n /\ \A i \in 1..n : kept[i] = file[i]
    BY <1>3
  <2> HIDE DEF kept
  <2>2. CASE torn
    <3>1. file' = kept \o <<Torn>>
      BY <1>1, <2>2 DEF kept
    <3> QED
      BY <1>2, <2>1, <3>1
  <2>3. CASE ~torn
    <3>1. file' = kept \o <<>>
      BY <1>1, <2>3 DEF kept
    <3> QED
      BY <1>2, <2>1, <3>1
  <2> QED
    BY <2>2, <2>3
<1>5. LogTyped'
  <2>1. /\ phase' = "replay" /\ pos' = 1 /\ buffer' = <<>>
        /\ logged' = [c \in Clients |-> NotLogged]
        /\ crashes' = crashes + 1 /\ crashes < MaxCrashes
        /\ drift' \in {0, drift}
        /\ UNCHANGED <<fsync_mode, synced>>
    BY DEF Crash
  <2>2. logged' \in [Clients -> Appends]
    BY <2>1 DEF NotLogged, Appends
  <2>3. <<>> \in Seq(Commands) /\ Len(<<>>) = 0 /\ BufferSize \in Nat /\ MaxCrashes \in Nat
    BY AofAssumption
  <2>4. synced' \in 0..Len(file') /\ pos' \in 1..(Len(file') + 1)
    BY <1>2, <1>4, <2>1
  <2> QED
    BY <1>4, <2>1, <2>2, <2>3, <2>4 DEF LogOK, LogTyped
<1>6. BufferAtRest' /\ NoHoles'
  BY <1>4 DEF Crash, BufferAtRest, NoHoles
<1> QED
  BY <1>4, <1>5, <1>6 DEF LogOK

(* The steps that leave the entries of the log where they are. *)
Settled == UNCHANGED <<file, buffer, issued, fsync_mode>>

(* They keep the log if the counters around it stay within bounds. *)
LEMMA SettledLog ==
  ASSUME LogOK, Settled,
         synced' \in {synced, Len(file)}, pos' \in 1..(Len(file) + 1), drift' \in {drift, drift + 1, 0},
         logged' \in [Clients -> Appends], crashes' = crashes,
         phase' \in {"replay", "serving", "failed"},
         phase' = phase \/ phase = "replay"
  PROVE  LogOK'
<1>1. Len(file) \in Nat
  BY DEF LogOK, LogTyped
<1> QED
  BY <1>1 DEF LogOK, LogTyped, BufferAtRest, NoHoles, Settled

(* All steps are such, except the appends and the crash. *)
LEMMA SettledSteps ==
  ASSUME LogOK,
         \/ \E c \in Connections : Serve(c) \/ AppendSync(c) \/ AppendSyncFails(c) \/ Answer(c)
         \/ FsyncTick \/ Evict \/ Clock \/ Replay \/ ReplayNext \/ ReplayTorn \/ ReplayEnd
         \/ OpenFails \/ Stopped \/ UNCHANGED all_vars
  PROVE  Settled /\ LogOK'
<1>1. /\ logged \in [Clients -> Appends] /\ Connections \subseteq Clients
      /\ Len(file) \in Nat /\ pos \in 1..(Len(file) + 1)
      /\ phase \in {"replay", "serving", "failed"}
      /\ (phase # "serving" => buffer = <<>>)
  BY DEF LogOK, LogTyped, BufferAtRest, Connections
<1>2. CASE UNCHANGED log_state /\ UNCHANGED <<phase, logged, pos, crashes>> /\ drift' \in {drift, drift + 1}
  BY <1>1, <1>2, SettledLog DEF log_state, Settled
<1>3. ASSUME NEW c \in Connections, AppendSync(c) \/ AppendSyncFails(c) \/ Answer(c)
      PROVE  Settled /\ LogOK'
  <2>1. logged' \in [Clients -> Appends]
    BY <1>1, <1>3 DEF AppendSync, AppendSyncFails, Answer, NotLogged, Appends
  <2>2. Settled /\ synced' \in {synced, Len(file)} /\ UNCHANGED <<phase, pos, crashes, drift>>
    BY <1>3 DEF AppendSync, AppendSyncFails, Answer, log_state, Settled
  <2> QED
    BY <1>1, <2>1, <2>2, SettledLog
<1>4. ASSUME NEW c \in Connections, Serve(c)
      PROVE  Settled /\ LogOK'
  BY <1>2, <1>4 DEF Serve
<1>5. CASE Evict \/ Clock \/ Replay \/ Stopped \/ UNCHANGED all_vars
  BY <1>2, <1>5 DEF Evict, Clock, Replay, Stopped, all_vars, aof_vars
<1>6. CASE FsyncTick
  BY <1>1, <1>6, SettledLog DEF FsyncTick, Settled
<1>7. CASE ReplayNext \/ ReplayTorn \/ OpenFails
  <2>1. pos' \in 1..(Len(file) + 1)
    BY <1>1, <1>7 DEF ReplayNext, ReplayTorn, Replaying, OpenFails
  <2>2. phase' \in {phase, "failed"} /\ phase = "replay"
    BY <1>7 DEF ReplayNext, ReplayTorn, Replaying, OpenFails
  <2> QED
    BY <1>1, <1>7, <2>1, <2>2, SettledLog DEF ReplayNext, ReplayTorn, OpenFails, log_state, Settled
<1>8. CASE ReplayEnd
  <2>1. Settled /\ synced' = synced
    BY <1>1, <1>8 DEF ReplayEnd, AofWriter_new, Settled
  <2> QED
    BY <1>1, <1>8, <2>1, SettledLog DEF ReplayEnd
<1> QED
  BY <1>3, <1>4, <1>5, <1>6, <1>7, <1>8

(* Every step keeps the log. *)
LEMMA LogKept ==
  ASSUME TypeOK, OwnCommands, LogOK, [AofNext]_all_vars
  PROVE  LogOK'
  BY AppendWriteLog, AppendFailsLog, CrashLog, SettledSteps DEF AofNext

-----------------------------------------------------------------------------
(***************************************************************************)
(* The place of an entry.                                                  *)
(***************************************************************************)
(* An entry stays where it is while the file grows and more of it is       *)
(* synced.                                                                 *)
LEMMA EntryStays ==
  ASSUME NEW p, NEW m \in Nat, NEW n \in Nat, m <= n, EntryAt(p, m),
         \A i \in 1..m : file'[i] = file[i]
  PROVE  p \in 1..n /\ file'[p] \in Commands /\ file'[p] = file[p]
  BY DEF EntryAt

(* The steps that neither append nor acknowledge. *)
LEMMA PlacedUntouched ==
  ASSUME LogOK, Placed, UNCHANGED <<file, fsync_mode, acked>>, synced' \in {synced, Len(file)},
         \A c \in Clients : \/ logged'[c] = logged[c]
                            \/ logged'[c].state \in {"no", "failed"}
                            \/ /\ logged'[c].state = "yes" /\ logged'[c].pos = logged[c].pos
                               /\ logged[c].state = "flushed" /\ synced' = Len(file)
  PROVE  Placed'
<1>1. Len(file) \in Nat /\ synced \in Nat /\ synced' \in Nat /\ synced <= synced'
  BY DEF LogOK, LogTyped
<1>2. \A p, n : EntryAt(p, n)' <=> p \in 1..n' /\ file[p] \in Commands
  BY DEF EntryAt
<1>3. \A a \in acked : EntryAt(a[1], synced)' /\ file'[a[1]] = a[2]
  BY <1>1 DEF Placed, EntryAt
<1>4. ASSUME NEW c \in Clients
      PROVE  /\ logged'[c].state = "flushed" => fsync_mode' = "Always" /\ EntryAt(logged[c].pos, Len(file))'
             /\ logged'[c].state = "yes" /\ fsync_mode' = "Always" => EntryAt(logged[c].pos, synced)'
  BY <1>1 DEF Placed, EntryAt
<1> QED
  BY <1>3, <1>4 DEF Placed

(* An append to the file. *)
LEMMA AppendWritePlaced ==
  ASSUME TypeOK, OwnCommands, LogOK, Placed, NEW c \in Connections, AppendWrite(c)
  PROVE  Placed'
<1>1. /\ Len(file) \in Nat /\ synced \in Nat /\ synced <= Len(file) /\ Len(file') \in Nat
      /\ Len(file') > Len(file)
      /\ \A i \in 1..Len(file) : file'[i] = file[i]
      /\ file'[Len(file')] \in Commands
  <2>1. /\ Len(file) \in Nat /\ synced \in Nat /\ synced <= Len(file) /\ Len(file') \in Nat
        /\ Len(file') > Len(file)
        /\ \A i \in 1..Len(file) : file'[i] = file[i]
        /\ \A i \in (Len(file) + 1)..Len(file') : file'[i] \in Commands
    BY AppendWriteLog DEF LogOK, LogTyped
  <2> QED
    BY <2>1
<1>2. /\ logged' = [logged EXCEPT ![c] =
            [state |-> IF fsync_mode = "Always" THEN "flushed" ELSE "yes", pos |-> Len(file')]]
      /\ UNCHANGED <<fsync_mode, synced, acked>>
      /\ c \in Clients /\ logged \in [Clients -> Appends]
  BY DEF AppendWrite, LogOK, LogTyped, Connections
<1>3. \A a \in acked' : EntryAt(a[1], synced)' /\ file'[a[1]] = a[2]
  BY <1>1, <1>2 DEF Placed, EntryAt
<1>4. ASSUME NEW d \in Clients
      PROVE  /\ logged'[d].state = "flushed" => fsync_mode' = "Always" /\ EntryAt(logged[d].pos, Len(file))'
             /\ logged'[d].state = "yes" /\ fsync_mode' = "Always" => EntryAt(logged[d].pos, synced)'
  <2>1. CASE d = c
    <3>1. logged'[c].pos = Len(file') /\ logged'[c].state = IF fsync_mode = "Always" THEN "flushed" ELSE "yes"
      BY <1>2
    <3> QED
      BY <1>1, <1>2, <2>1, <3>1 DEF EntryAt
  <2>2. CASE d # c
    <3>1. logged'[d] = logged[d]
      BY <1>2, <2>2
    <3> QED
      BY <1>1, <1>2, <3>1 DEF Placed, EntryAt
  <2> QED
    BY <2>1, <2>2
<1> QED
  BY <1>3, <1>4 DEF Placed

(* The reply: what a client is told of is in the synced part. *)
LEMMA AnswerPlaced ==
  ASSUME LogOK, Placed, NEW c \in Connections, Answer(c)
  PROVE  Placed'
<1>1. /\ logged' = [logged EXCEPT ![c] = NotLogged]
      /\ acked' = IF fsync_mode = "Always" /\ logged[c].state = "yes"
                  THEN acked \cup {<<logged[c].pos, file[logged[c].pos]>>} ELSE acked
      /\ UNCHANGED <<fsync_mode, file, synced>>
      /\ c \in Clients /\ logged \in [Clients -> Appends]
  BY DEF Answer, log_state, LogOK, LogTyped, Connections
<1>2. \A a \in acked' : EntryAt(a[1], synced)' /\ file'[a[1]] = a[2]
  BY <1>1 DEF Placed, EntryAt
<1>3. \A d \in Clients : logged'[d] = logged[d] \/ logged'[d].state = "no"
  BY <1>1 DEF NotLogged
<1> QED
  BY <1>1, <1>2, <1>3 DEF Placed, EntryAt

(* A crash: the synced part is in the file that is left. *)
LEMMA CrashPlaced ==
  ASSUME LogOK, Placed, Crash
  PROVE  Placed'
<1>1. PICK n \in synced..Len(file) : \A i \in 1..n : file'[i] = file[i]
  BY CrashLog
<1>2. synced \in Nat /\ Len(file) \in Nat /\ n \in Nat /\ synced <= n
  BY DEF LogOK, LogTyped
<1>3. UNCHANGED <<fsync_mode, synced, acked>> /\ \A c \in Clients : logged'[c].state = "no"
  BY DEF Crash, NotLogged
<1>4. \A a \in acked' : EntryAt(a[1], synced)' /\ file'[a[1]] = a[2]
  BY <1>1, <1>2, <1>3 DEF Placed, EntryAt
<1> QED
  BY <1>3, <1>4 DEF Placed

(* Every step. *)
LEMMA PlacesKept ==
  ASSUME TypeOK, OwnCommands, LogOK, Placed, [AofNext]_all_vars
  PROVE  Placed'
<1>1. logged \in [Clients -> Appends] /\ Connections \subseteq Clients
  BY DEF LogOK, LogTyped, Connections
<1>2. ASSUME NEW c \in Connections, AppendFails(c) \/ AppendSyncFails(c)
      PROVE  Placed'
  <2>1. \A d \in Clients : logged'[d] = logged[d] \/ logged'[d].state = "failed"
    BY <1>1, <1>2 DEF AppendFails, AppendSyncFails, Appends
  <2> QED
    BY <1>2, <2>1, PlacedUntouched DEF AppendFails, AppendSyncFails, log_state
<1>3. ASSUME NEW c \in Connections, AppendSync(c)
      PROVE  Placed'
  <2>1. /\ logged[c].state = "flushed" /\ logged'[c].state = "yes" /\ logged'[c].pos = logged[c].pos
        /\ \A d \in Clients \ {c} : logged'[d] = logged[d]
    BY <1>1, <1>3 DEF AppendSync, Appends
  <2> QED
    BY <1>3, <2>1, PlacedUntouched DEF AppendSync
<1>4. ASSUME NEW c \in Connections, Serve(c)
      PROVE  Placed'
  BY <1>4, PlacedUntouched DEF Serve, log_state
<1>5. CASE FsyncTick \/ Evict \/ Clock \/ Replay \/ ReplayNext \/ ReplayTorn \/ ReplayEnd
           \/ OpenFails \/ Stopped \/ UNCHANGED all_vars
  <2>1. UNCHANGED <<file, fsync_mode, acked, logged>> /\ synced' \in {synced, Len(file)}
    BY <1>5 DEF FsyncTick, Evict, Clock, Replay, ReplayNext, ReplayTorn, ReplayEnd, AofWriter_new,
                OpenFails, Stopped, all_vars, aof_vars, log_state
  <2> QED
    BY <2>1, PlacedUntouched
<1> QED
  BY <1>2, <1>3, <1>4, <1>5, AppendWritePlaced, AnswerPlaced, CrashPlaced DEF AofNext

-----------------------------------------------------------------------------
(***************************************************************************)
(* The fsync task.                                                         *)
(***************************************************************************)
(* Steps that do not touch the timer keep it ahead of the clock. *)
LEMMA TimedOnTime ==
  ASSUME TypeOK, Timed, now' \in {now, now + 1}, OnTime,
         UNCHANGED <<fsync_mode, phase, next_sync, oldest, sync_error>>
  PROVE  Timed'
<1>1. now \in Nat /\ Sec \in Nat
  BY TypeParts, ConstantsAssumption DEF RestTyped
<1>2. CASE ~(fsync_mode = "EverySec" /\ phase = "serving")
  BY <1>2 DEF Timed
<1>3. CASE fsync_mode = "EverySec" /\ phase = "serving"
  <2>1. /\ next_sync \in Nat /\ now <= next_sync /\ next_sync <= now + Sec
        /\ now' # now => now < next_sync
    BY <1>3 DEF Timed, OnTime
  <2>2. now' <= next_sync /\ next_sync <= now' + Sec
    <3>1. CASE now' = now
      BY <1>1, <2>1, <3>1
    <3>2. CASE now' = now + 1
      <4>1. now < next_sync
        BY <1>1, <2>1, <3>2
      <4> QED
        BY <1>1, <2>1, <3>2, <4>1
    <3> QED
      BY <3>1, <3>2
  <2> QED
    BY <1>3, <2>2 DEF Timed
<1> QED
  BY <1>2, <1>3

(* Every step. *)
LEMMA TimesKept ==
  ASSUME TypeOK, Timed, [AofNext]_all_vars
  PROVE  Timed'
<1>1. now \in Nat /\ Sec \in Nat
  BY TypeParts, ConstantsAssumption DEF RestTyped
<1>2. CASE UNCHANGED <<now, fsync_mode, phase, next_sync, oldest, sync_error>>
  BY <1>2 DEF Timed
<1>3. ASSUME NEW c \in Connections, AppendFails(c) \/ AppendSync(c) \/ AppendSyncFails(c) \/ Answer(c)
      PROVE  Timed'
  BY <1>2, <1>3 DEF AppendFails, AppendSync, AppendSyncFails, Answer, Respond, Elsewhere, vars, log_state
<1>4. ASSUME NEW c \in Connections, Serve(c)
      PROVE  Timed'
  <2>1. now' \in {now, now + 1}
    BY <1>4, ClockAdvances DEF Serve, Connections, Next, Connection
  <2> QED
    BY <1>4, <2>1, TimedOnTime DEF Serve, log_state
<1>5. CASE Clock
  BY <1>5, TimedOnTime DEF Clock, Tick, log_state
<1>6. ASSUME NEW c \in Connections, AppendWrite(c)
      PROVE  Timed'
  <2>1. /\ phase = "serving"
        /\ oldest' = IF fsync_mode = "EverySec" /\ oldest = None THEN now ELSE oldest
        /\ UNCHANGED <<now, fsync_mode, phase, next_sync, sync_error>>
    BY <1>6 DEF AppendWrite, ToAppend, vars
  <2> QED
    BY <1>1, <2>1 DEF Timed
<1>7. CASE FsyncTick
  <2>1. /\ phase = "serving" /\ now >= next_sync /\ next_sync' = now + Sec
        /\ \/ oldest' = None /\ sync_error' = FALSE
           \/ sync_error' = TRUE /\ oldest' = oldest
        /\ UNCHANGED <<now, fsync_mode, phase>>
    BY <1>7 DEF FsyncTick, vars
  <2>2. next_sync' \in Nat /\ now' <= next_sync' /\ next_sync' <= now' + Sec
    BY <1>1, <2>1
  <2>3. oldest' = None \/ sync_error'
    BY <2>1
  <2>4. oldest' \in Nat \cup {None} /\ sync_error' \in BOOLEAN
    BY <2>1 DEF Timed
  <2> QED
    BY <2>1, <2>2, <2>3, <2>4, Zenon DEF Timed
<1>8. CASE Replay \/ ReplayNext
  <2>1. phase = "replay" /\ UNCHANGED <<fsync_mode, phase, next_sync, oldest, sync_error>>
    BY <1>8 DEF Replay, ReplayNext, Replaying, aof_vars, log_state
  <2> QED
    BY <2>1 DEF Timed
<1>9. CASE ReplayTorn \/ OpenFails
  <2>1. phase = "replay" /\ phase' \in {"replay", "failed"} /\ UNCHANGED <<next_sync, oldest, sync_error>>
    BY <1>9 DEF ReplayTorn, OpenFails, Replaying, log_state
  <2> QED
    BY <2>1 DEF Timed
<1>10. CASE ReplayEnd
  <2>1. /\ phase = "replay" /\ phase' = "serving"
        /\ next_sync' = IF fsync_mode = "EverySec" THEN now ELSE next_sync
        /\ UNCHANGED <<now, fsync_mode, oldest, sync_error>>
    BY <1>10 DEF ReplayEnd, vars
  <2> QED
    BY <1>1, <2>1 DEF Timed
<1>11. CASE Crash
  BY <1>11 DEF Crash, Timed
<1>12. CASE Evict \/ Stopped \/ UNCHANGED all_vars
  BY <1>2, <1>12 DEF Evict, Daemon, EvictSample, EvictFilter, EvictDelete, EvictorPanic, Stopped,
                     all_vars, aof_vars, log_state, vars
<1> QED
  BY <1>3, <1>4, <1>5, <1>6, <1>7, <1>8, <1>9, <1>10, <1>11, <1>12 DEF AofNext

-----------------------------------------------------------------------------
(***************************************************************************)
(* The theorems about the log.                                             *)
(***************************************************************************)
AofInv == TypeOK /\ OwnCommands /\ LogOK /\ Placed /\ Timed /\ faithful \in BOOLEAN

(* The history of faithfulness is a Boolean. *)
LEMMA FaithfulTyped ==
  ASSUME faithful \in BOOLEAN, [AofNext]_all_vars
  PROVE  faithful' \in BOOLEAN
<1>1. ASSUME NEW c \in Connections, Serve(c)
      PROVE  faithful' \in BOOLEAN
  BY <1>1, Zenon DEF Serve
<1>2. CASE ReplayEnd
  BY <1>2, Zenon DEF ReplayEnd
<1>3. ASSUME NEW c \in Connections,
             AppendWrite(c) \/ AppendFails(c) \/ AppendSync(c) \/ AppendSyncFails(c) \/ Answer(c)
      PROVE  faithful' \in {faithful, FALSE}
  BY <1>3 DEF AppendWrite, AppendFails, AppendSync, AppendSyncFails, Answer
<1>4. CASE FsyncTick \/ Evict \/ Clock \/ Crash \/ Replay \/ ReplayNext \/ ReplayTorn \/ OpenFails
           \/ Stopped \/ UNCHANGED all_vars
  <2>1. faithful' = faithful
    BY <1>4 DEF FsyncTick, Evict, Clock, Crash, Replay, ReplayNext, ReplayTorn, OpenFails, Stopped,
                all_vars, aof_vars
  <2> QED
    BY <2>1
<1> QED
  BY <1>1, <1>2, <1>3, <1>4 DEF AofNext

(* The first start finds no file. *)
LEMMA InitAof == AofInit => AofInv
<1> SUFFICES ASSUME AofInit PROVE AofInv
  OBVIOUS
<1>1. TypeOK /\ \A c \in Clients : conn[c].pc = "idle" /\ conn[c].cmd = None
  BY InitTyped DEF AofInit, Init, Idle
<1>2. OwnCommands
  BY <1>1 DEF OwnCommands, Connections
<1>3. <<>> \in Seq(Commands) /\ <<>> \in Seq(Commands \cup {Torn}) /\ Len(<<>>) = 0 /\ <<>> \o <<>> = <<>>
  OBVIOUS
<1>4. \A c \in Clients : logged[c].state = "no"
  BY DEF AofInit, NotLogged
<1>5. LogOK
  <2>1. logged \in [Clients -> Appends]
    BY DEF AofInit, NotLogged, Appends
  <2> QED
    BY <1>3, <2>1, AofAssumption DEF AofInit, LogOK, LogTyped, BufferAtRest, NoHoles
<1>6. Placed /\ Timed
  BY <1>4 DEF AofInit, Placed, Timed
<1> QED
  BY <1>1, <1>2, <1>5, <1>6 DEF AofInv, AofInit

(* Every step of the server keeps the invariant. *)
LEMMA NextAof == AofInv /\ [AofNext]_all_vars => AofInv'
  BY ServerTyped, CommandsKept, LogKept, PlacesKept, TimesKept, FaithfulTyped DEF AofInv

(* The invariant holds of the server with its file, crashes and restarts   *)
(* included.  The theorems below are its consequences.                     *)
THEOREM AofInvariant == AofSpec => []AofInv
  BY InitAof, NextAof, PTL DEF AofSpec

(* The variables of the log have their types at every moment: every entry  *)
(* of the file, the buffer and the history is a command or a cut-off one,  *)
(* the buffer stays within its size and the synced part within the file,   *)
(* through failing disks and crashes.                                      *)
THEOREM AofTypeCorrect == AofSpec => []AofTypeOK
<1>1. AofInv => AofTypeOK
  <2> SUFFICES ASSUME AofInv PROVE AofTypeOK
    OBVIOUS
  <2>1. LogTyped /\ NoHoles
    BY DEF AofInv, LogOK
  <2>2. /\ file \in Seq(Commands \cup {Torn}) /\ buffer \in Seq(Commands \cup {Torn})
        /\ issued \in Seq(Commands \cup {Torn}) /\ Len(file) \in Nat
    <3>1. /\ file \in Seq(Commands \cup {Torn}) /\ buffer \in Seq(Commands \cup {Torn})
          /\ Len(file) \in Nat
      BY <2>1 DEF LogTyped
    <3>2. file \o buffer \in Seq(Commands \cup {Torn})
      BY <3>1
    <3> QED
      BY <2>1, <3>1, <3>2 DEF NoHoles
  <2>3. \A l \in Seq(Commands \cup {Torn}) : Entries(l) \subseteq Commands \cup {Torn}
    BY ElementOfSeq DEF Entries
  <2>4. \A a \in acked : a[1] \in Nat /\ a[2] \in Commands
    BY <2>1 DEF AofInv, Placed, EntryAt, LogTyped
  <2>5. \A c \in Clients : logged[c].state \in {"no", "flushed", "yes", "failed"} /\ logged[c].pos \in Nat
    BY <2>1 DEF LogTyped, Appends
  <2>6. pos \in Nat \ {0}
    BY <2>1, <2>2 DEF LogTyped
  <2>7. \A e \in Entries(file) \cup Entries(buffer) \cup Entries(issued) : e = Torn \/ e \in Commands
    BY <2>2, <2>3
  <2> QED
    BY <2>1, <2>4, <2>5, <2>6, <2>7 DEF AofTypeOK, AofInv, LogTyped, Timed
<1> QED
  BY <1>1, AofInvariant, PTL

(* A failed append leaves no hole in the file and no entry out of order,   *)
(* however many fail and whatever crashes in between.                      *)
THEOREM AppendsLeaveNoHoles == AofSpec => []NoHoles
<1>1. AofInv => NoHoles
  BY DEF AofInv, LogOK
<1> QED
  BY <1>1, AofInvariant, PTL

(* In mode Always no crash takes an acknowledged write, for any number of  *)
(* connections, crashes and failing appends.  By Placed: the entry is in   *)
(* the synced part of the file before the client is told of it.            *)
THEOREM AcknowledgedWritesSurvive == AofSpec => []AckedSurvives
<1>1. AofInv => AckedSurvives
  <2> SUFFICES ASSUME AofInv, NEW a \in acked
               PROVE  a[1] <= Len(file) /\ file[a[1]] = a[2]
    BY DEF AckedSurvives
  <2>1. a[1] \in 1..synced /\ file[a[1]] = a[2]
    BY DEF AofInv, Placed, EntryAt
  <2>2. synced \in 0..Len(file) /\ Len(file) \in Nat
    BY DEF AofInv, LogOK, LogTyped
  <2> QED
    BY <2>1, <2>2
<1> QED
  BY <1>1, AofInvariant, PTL

(* In mode everysec an entry waits a second at most for its sync_data, for *)
(* every resolution of the clock.  By Timed: the task is due within a      *)
(* second of the oldest entry that waits.                                  *)
THEOREM EverySecIsASecond == AofSpec => []EverySecWindow
<1>1. AofInv => EverySecWindow
  <2> SUFFICES ASSUME AofInv, fsync_mode = "EverySec", ~sync_error, oldest # None
               PROVE  now - oldest <= Sec
    BY DEF EverySecWindow
  <2>1. now \in Nat /\ Sec \in Nat
    BY TypeParts, ConstantsAssumption DEF AofInv, RestTyped
  <2>2. oldest \in Nat /\ next_sync \in Nat /\ now <= next_sync /\ next_sync <= oldest + Sec
    BY DEF AofInv, Timed
  <2> QED
    BY <2>1, <2>2
<1> QED
  BY <1>1, AofInvariant, PTL

(* Restarts included, a deadline belongs to a key of the store as long as  *)
(* no connection pops: the replay builds the index as the commands did.    *)
THEOREM RestartsLeaveNoOrphans ==
  ASSUME Commands \cap PopCommand = {}
  PROVE  AofSpec => []NoOrphanTtl
<1>1. AofInit => NoOrphanTtl
  BY DEF AofInit, Init, StoreInit, NoOrphanTtl
<1>2. AofInv /\ NoOrphanTtl /\ [AofNext]_all_vars => NoOrphanTtl'
  <2> SUFFICES ASSUME AofInv, NoOrphanTtl, [AofNext]_all_vars PROVE NoOrphanTtl'
    OBVIOUS
  <2>1. CASE Crash
    BY <2>1 DEF Crash, NoOrphanTtl
  <2>2. CASE [Next]_vars
    <3>1. \A c \in Clients : ~Pop(c)
      BY DEF Pop
    <3> QED
      BY <2>2, <3>1, TypeParts, StepCallsStore, StoreCallNoOrphanTtl DEF AofInv, RestTyped
  <2> QED
    BY <2>1, <2>2, ServerSteps
<1> QED
  BY <1>1, <1>2, AofInvariant, PTL DEF AofSpec

-----------------------------------------------------------------------------
(***************************************************************************)
(* The complete entries of a file.  Complete is defined by recursion over  *)
(* the positions of the file; what it returns is proved by induction over  *)
(* them, for which a set of numbers stands in for the property.            *)
(***************************************************************************)
(* The equation of the recursion. *)
Keeps(l, f) ==
    f = [i \in 0..Len(l) |-> IF i = 0 THEN <<>>
                             ELSE IF l[i] = Torn THEN f[i - 1] ELSE Append(f[i - 1], l[i])]

(* The recursion has a solution. *)
LEMMA KeepsExists ==
  ASSUME NEW T, NEW l \in Seq(T)
  PROVE  \E f : Keeps(l, f)
<1>1. Len(l) \in Nat
  OBVIOUS
<1> DEFINE Upto(n, f) ==
             f = [i \in 0..n |-> IF i = 0 THEN <<>>
                                 ELSE IF l[i] = Torn THEN f[i - 1] ELSE Append(f[i - 1], l[i])]
           S == {n \in Nat : \E f : Upto(n, f)}
<1>2. 0 \in S
  <2> DEFINE f == [i \in 0..0 |-> <<>>]
  <2>1. Upto(0, f)
    OBVIOUS
  <2> QED
    BY <2>1
<1>3. ASSUME NEW n \in S PROVE n + 1 \in S
  <2>1. n \in Nat
    OBVIOUS
  <2>2. PICK f : Upto(n, f)
    OBVIOUS
  <2> DEFINE last == IF l[n + 1] = Torn THEN f[n] ELSE Append(f[n], l[n + 1])
             g == [i \in 0..(n + 1) |-> IF i = n + 1 THEN last ELSE f[i]]
             h == [i \in 0..(n + 1) |-> IF i = 0 THEN <<>>
                                        ELSE IF l[i] = Torn THEN g[i - 1] ELSE Append(g[i - 1], l[i])]
  <2>3. \A i \in 0..n : g[i] = f[i]
    BY <2>1
  <2>4. ASSUME NEW i \in 0..(n + 1) PROVE g[i] = h[i]
    <3>1. CASE i = 0
      BY <2>1, <2>2, <3>1
    <3>2. CASE i = n + 1
      <4>1. i # 0 /\ i - 1 = n /\ n \in 0..n
        BY <2>1, <3>2
      <4> QED
        BY <2>1, <2>3, <3>2, <4>1
    <3>3. CASE i \in 1..n
      <4>1. i \in 0..n /\ i - 1 \in 0..n /\ i # 0 /\ i # n + 1
        BY <2>1, <3>3
      <4>2. f[i] = IF l[i] = Torn THEN f[i - 1] ELSE Append(f[i - 1], l[i])
        BY <2>2, <4>1
      <4> QED
        BY <2>3, <4>1, <4>2
    <3> QED
      BY <2>1, <3>1, <3>2, <3>3
  <2>5. Upto(n + 1, g)
    BY <2>4
  <2> HIDE DEF Upto, g
  <2> QED
    BY <2>1, <2>5
<1> HIDE DEF S
<1>4. S \subseteq Nat
  BY DEF S
<1>5. S = Nat
  BY <1>2, <1>3, <1>4, NumbersByInduction
<1> QED
  BY <1>1, <1>5 DEF S, Keeps

(* Complete, by the number of entries looked at. *)
LEMMA CompleteStep ==
  ASSUME NEW T, NEW l \in Seq(T)
  PROVE  /\ Complete(l, 0) = <<>>
         /\ \A i \in 1..Len(l) :
               Complete(l, i) = IF l[i] = Torn THEN Complete(l, i - 1)
                                               ELSE Append(Complete(l, i - 1), l[i])
<1> DEFINE kept == CHOOSE f : Keeps(l, f)
<1>1. Keeps(l, kept)
  BY KeepsExists
<1>2. \A n : Complete(l, n) = kept[n]
  BY DEF Complete, Keeps
<1> HIDE DEF kept
<1>3. Len(l) \in Nat
  OBVIOUS
<1>4. kept[0] = <<>>
  BY <1>1, <1>3 DEF Keeps
<1>5. ASSUME NEW i \in 1..Len(l)
      PROVE  kept[i] = IF l[i] = Torn THEN kept[i - 1] ELSE Append(kept[i - 1], l[i])
  <2>1. i \in 0..Len(l) /\ i # 0
    BY <1>3
  <2> QED
    BY <1>1, <2>1 DEF Keeps
<1> QED
  BY <1>2, <1>4, <1>5

(* The complete entries are entries. *)
LEMMA CompleteTyped ==
  ASSUME NEW T, NEW l \in Seq(T), NEW n \in 0..Len(l)
  PROVE  Complete(l, n) \in Seq(T)
<1> DEFINE S == {i \in Nat : i <= Len(l) => Complete(l, i) \in Seq(T)}
<1>1. Len(l) \in Nat
  OBVIOUS
<1>2. 0 \in S
  <2>1. Complete(l, 0) = <<>>
    BY CompleteStep
  <2>2. <<>> \in Seq(T)
    OBVIOUS
  <2>3. Complete(l, 0) \in Seq(T)
    BY <2>1, <2>2, Zenon
  <2> QED
    BY <2>3
<1>3. ASSUME NEW i \in S PROVE i + 1 \in S
  <2> SUFFICES ASSUME i + 1 <= Len(l) PROVE Complete(l, i + 1) \in Seq(T)
    OBVIOUS
  <2>1. i + 1 \in 1..Len(l) /\ (i + 1) - 1 = i /\ Complete(l, i) \in Seq(T) /\ l[i + 1] \in T
    BY <1>1
  <2>2. Complete(l, i + 1) = IF l[i + 1] = Torn THEN Complete(l, i) ELSE Append(Complete(l, i), l[i + 1])
    BY <2>1, CompleteStep
  <2> DEFINE s == Complete(l, i)
             e == l[i + 1]
  <2>3. s \in Seq(T) /\ e \in T
    BY <2>1
  <2>4. Complete(l, i + 1) = s \/ Complete(l, i + 1) = Append(s, e)
    BY <2>2
  <2> HIDE DEF s, e
  <2>5. Append(s, e) \in Seq(T)
    BY <2>3
  <2> QED
    BY <2>3, <2>4, <2>5
<1> HIDE DEF S
<1>4. S = Nat
  <2>1. S \subseteq Nat
    BY DEF S
  <2> QED
    BY <1>2, <1>3, <2>1, NumbersByInduction
<1> QED
  BY <1>1, <1>4 DEF S

(* They are determined by the entries looked at. *)
LEMMA CompleteOfPrefix ==
  ASSUME NEW T, NEW l \in Seq(T), NEW m \in Seq(T),
         NEW n \in Nat, n <= Len(l), n <= Len(m), \A i \in 1..n : m[i] = l[i]
  PROVE  Complete(m, n) = Complete(l, n)
<1> DEFINE S == {i \in Nat : i <= n => Complete(m, i) = Complete(l, i)}
<1>1. Len(l) \in Nat /\ Len(m) \in Nat
  OBVIOUS
<1>2. 0 \in S
  BY CompleteStep
<1>3. ASSUME NEW i \in S PROVE i + 1 \in S
  <2> SUFFICES ASSUME i + 1 <= n PROVE Complete(m, i + 1) = Complete(l, i + 1)
    OBVIOUS
  <2>1. /\ i + 1 \in 1..Len(l) /\ i + 1 \in 1..Len(m) /\ (i + 1) - 1 = i
        /\ m[i + 1] = l[i + 1] /\ Complete(m, i) = Complete(l, i)
    BY <1>1
  <2>2. Complete(l, i + 1) = IF l[i + 1] = Torn THEN Complete(l, i) ELSE Append(Complete(l, i), l[i + 1])
    BY <2>1, CompleteStep
  <2>3. Complete(m, i + 1) = IF m[i + 1] = Torn THEN Complete(m, i) ELSE Append(Complete(m, i), m[i + 1])
    BY <2>1, CompleteStep
  <2> QED
    BY <2>1, <2>2, <2>3
<1> HIDE DEF S
<1>4. S = Nat
  <2>1. S \subseteq Nat
    BY DEF S
  <2> QED
    BY <1>2, <1>3, <2>1, NumbersByInduction
<1> QED
  BY <1>4 DEF S

(* A prefix of a sequence is one of the longer sequence. *)
LEMMA PrefixOfAppend ==
  ASSUME NEW T, NEW s \in Seq(T), NEW e \in T, NEW n \in 0..Len(s)
  PROVE  SubSeq(Append(s, e), 1, n) = SubSeq(s, 1, n)
<1> DEFINE t == Append(s, e)
<1>1. t \in Seq(T) /\ Len(t) = Len(s) + 1 /\ Len(s) \in Nat /\ \A i \in 1..Len(s) : t[i] = s[i]
  OBVIOUS
<1> HIDE DEF t
<1>2. /\ SubSeq(t, 1, n) = [i \in 1..n |-> t[i]]
      /\ SubSeq(s, 1, n) = [i \in 1..n |-> s[i]]
  BY <1>1
<1>3. \A i \in 1..n : t[i] = s[i]
  BY <1>1
<1>4. SubSeq(t, 1, n) = SubSeq(s, 1, n)
  BY <1>2, <1>3
<1> QED
  BY <1>4 DEF t

(* Further on in the file there are the same complete entries and more. *)
LEMMA CompleteGrows ==
  ASSUME NEW T, NEW l \in Seq(T), NEW p \in Nat, NEW q \in Nat, p <= q, q <= Len(l)
  PROVE  /\ Len(Complete(l, p)) <= Len(Complete(l, q))
         /\ SubSeq(Complete(l, q), 1, Len(Complete(l, p))) = Complete(l, p)
<1> DEFINE C(i) == Complete(l, i)
           S == {i \in Nat : p + i <= Len(l) => /\ Len(C(p)) <= Len(C(p + i))
                                                /\ SubSeq(C(p + i), 1, Len(C(p))) = C(p)}
<1>1. Len(l) \in Nat /\ p \in 0..Len(l) /\ C(p) \in Seq(T) /\ Len(C(p)) \in Nat
  <2>1. Len(l) \in Nat /\ p \in 0..Len(l)
    OBVIOUS
  <2>2. C(p) \in Seq(T)
    BY <2>1, CompleteTyped
  <2> QED
    BY <2>1, <2>2
<1>2. 0 \in S
  <2>1. SubSeq(C(p), 1, Len(C(p))) = C(p)
    BY <1>1
  <2> HIDE DEF C
  <2>2. p + 0 = p /\ Len(C(p)) <= Len(C(p))
    BY <1>1
  <2> QED
    BY <2>1, <2>2
<1>3. ASSUME NEW i \in S PROVE i + 1 \in S
  <2> SUFFICES ASSUME p + (i + 1) <= Len(l)
               PROVE  /\ Len(C(p)) <= Len(C(p + (i + 1)))
                      /\ SubSeq(C(p + (i + 1)), 1, Len(C(p))) = C(p)
    OBVIOUS
  <2> DEFINE j == p + i
  <2>1. /\ j \in 0..Len(l) /\ j + 1 \in 1..Len(l) /\ (j + 1) - 1 = j /\ p + (i + 1) = j + 1
        /\ j <= Len(l) /\ l[j + 1] \in T
    BY <1>1
  <2>2. Len(C(p)) <= Len(C(j)) /\ SubSeq(C(j), 1, Len(C(p))) = C(p)
    BY <2>1
  <2> HIDE DEF j
  <2>3. C(j) \in Seq(T)
    BY <2>1, CompleteTyped
  <2>4. C(j + 1) = IF l[j + 1] = Torn THEN C(j) ELSE Append(C(j), l[j + 1])
    BY <2>1, CompleteStep
  <2> HIDE DEF C
  <2>5. CASE l[j + 1] = Torn
    BY <2>1, <2>2, <2>4, <2>5
  <2>6. CASE l[j + 1] # Torn
    <3>1. Len(C(j + 1)) = Len(C(j)) + 1 /\ Len(C(j)) \in Nat
      BY <2>1, <2>3, <2>4, <2>6
    <3>2. Len(C(p)) \in 0..Len(C(j))
      BY <1>1, <2>2, <3>1
    <3>3. SubSeq(C(j + 1), 1, Len(C(p))) = SubSeq(C(j), 1, Len(C(p)))
      <4> DEFINE s == C(j)
                 e == l[j + 1]
                 n == Len(C(p))
      <4>1. s \in Seq(T) /\ e \in T /\ n \in 0..Len(s) /\ C(j + 1) = Append(s, e)
        BY <2>1, <2>3, <2>4, <2>6, <3>2
      <4> HIDE DEF s, e, n
      <4>2. SubSeq(Append(s, e), 1, n) = SubSeq(s, 1, n)
        BY <4>1, PrefixOfAppend
      <4> QED
        BY <4>1, <4>2 DEF s, n
    <3>4. Len(C(p)) <= Len(C(j + 1))
      BY <1>1, <2>2, <3>1
    <3> QED
      BY <2>1, <2>2, <3>3, <3>4
  <2> QED
    BY <2>5, <2>6
<1>4. S = Nat
  <2> HIDE DEF S
  <2>1. S \subseteq Nat
    BY DEF S
  <2> QED
    BY <1>2, <1>3, <2>1, NumbersByInduction
<1>5. q - p \in S /\ p + (q - p) = q
  <2> HIDE DEF S
  <2> QED
    BY <1>4
<1> HIDE DEF C
<1>6. Len(C(p)) <= Len(C(q)) /\ SubSeq(C(q), 1, Len(C(p))) = C(p)
  BY <1>1, <1>5
<1> QED
  BY <1>6 DEF C

-----------------------------------------------------------------------------
(***************************************************************************)
(* Two more invariants.  The command that the replay has executed is what  *)
(* the decoder made of the entry it is at; and, unless the server crashes  *)
(* a second time with one in its file, a cut-off entry is the last one     *)
(* when the replay meets it.                                               *)
(***************************************************************************)
AtReplay ==
    phase = "replay" /\ conn[Startup].pc = "done" =>
       pos <= Len(file) /\ conn[Startup].cmd \in Decodes(pos)

TornLast == phase # "serving" => \A i \in 1..(Len(file) - 1) : file[i] # Torn

(* The steps of a server that serves end neither in a replay nor in an     *)
(* error.                                                                  *)
LEMMA ServingStays ==
  ASSUME \/ \E c \in Connections : \/ Serve(c) \/ AppendWrite(c) \/ AppendFails(c)
                                   \/ AppendSync(c) \/ AppendSyncFails(c) \/ Answer(c)
         \/ FsyncTick \/ Evict \/ ReplayEnd
  PROVE  phase' = "serving"
  BY DEF Serve, AppendWrite, AppendFails, ToAppend, AppendSync, AppendSyncFails, Answer, FsyncTick,
         Evict, aof_vars, ReplayEnd

(* The replay is at the entry that it executes. *)
LEMMA AtReplayKept ==
  ASSUME TypeOK, AtReplay, [AofNext]_all_vars
  PROVE  AtReplay'
<1>1. CASE \/ \E c \in Connections : \/ Serve(c) \/ AppendWrite(c) \/ AppendFails(c)
                                     \/ AppendSync(c) \/ AppendSyncFails(c) \/ Answer(c)
           \/ FsyncTick \/ Evict \/ ReplayEnd
  BY <1>1, ServingStays DEF AtReplay
<1>2. CASE Crash
  BY <1>2, AofAssumption DEF Crash, AtReplay, Idle
<1>3. CASE Replay
  BY <1>3 DEF Replay, Replaying, aof_vars, log_state, AtReplay, Decodes
<1>4. CASE ReplayNext
  <2>1. conn'[Startup].pc = "idle"
    BY <1>4, AofAssumption, TypeParts DEF ReplayNext, Respond, Idle, ConnTyped
  <2> QED
    BY <2>1 DEF AtReplay
<1>5. CASE ReplayTorn \/ OpenFails
  BY <1>5 DEF ReplayTorn, OpenFails, vars, AtReplay, Decodes
<1>6. CASE Clock \/ Stopped \/ UNCHANGED all_vars
  BY <1>6 DEF Clock, Tick, Stopped, all_vars, vars, aof_vars, log_state, AtReplay, Decodes
<1> QED
  BY <1>1, <1>2, <1>3, <1>4, <1>5, <1>6 DEF AofNext

(* No entry follows a cut-off one before the server serves. *)
LEMMA TornLastKept ==
  ASSUME ~CrashAfterTorn, LogOK, TornLast, [AofNext]_all_vars
  PROVE  TornLast'
<1>1. CASE \/ \E c \in Connections : \/ Serve(c) \/ AppendWrite(c) \/ AppendFails(c)
                                     \/ AppendSync(c) \/ AppendSyncFails(c) \/ Answer(c)
           \/ FsyncTick \/ Evict \/ ReplayEnd
  BY <1>1, ServingStays DEF TornLast
<1>2. CASE Crash
  <2>1. PICK n \in synced..Len(file) :
           /\ \A i \in 1..n : file'[i] = file[i]
           /\ Len(file') \in {n, n + 1}
    BY <1>2, CrashLog
  <2>2. Len(file) \in Nat /\ synced \in Nat /\ DOMAIN file = 1..Len(file)
    BY DEF LogOK, LogTyped
  <2>3. \A i \in 1..Len(file) : file[i] # Torn
    BY <1>2, <2>2 DEF Crash, Entries
  <2>4. \A i \in 1..(Len(file') - 1) : i \in 1..n /\ i \in 1..Len(file)
    BY <2>1, <2>2
  <2> QED
    BY <2>1, <2>3, <2>4 DEF TornLast
<1>3. CASE Replay \/ ReplayNext \/ ReplayTorn \/ OpenFails \/ Clock \/ Stopped \/ UNCHANGED all_vars
  <2>1. UNCHANGED file /\ (phase = "serving" => phase' = "serving")
    BY <1>3 DEF Replay, ReplayNext, Replaying, ReplayTorn, OpenFails, Clock, Stopped, all_vars, aof_vars,
                log_state
  <2> QED
    BY <2>1 DEF TornLast
<1> QED
  BY <1>1, <1>2, <1>3 DEF AofNext

-----------------------------------------------------------------------------
(***************************************************************************)
(* The refinement: what each step does to the log, to its safe part and to *)
(* what has been applied of it.                                            *)
(***************************************************************************)
Log == Complete(file, Len(file))
Safe == Len(Complete(file, synced))
Applied == Len(Complete(file, pos - 1))

(* The safe part and what has been applied are parts of the log. *)
LEMMA Parts ==
  ASSUME LogOK, NEW n \in 0..Len(file)
  PROVE  /\ Log \in Seq(Commands \cup {Torn}) /\ Len(Log) \in Nat
         /\ Complete(file, n) \in Seq(Commands \cup {Torn}) /\ Len(Complete(file, n)) \in Nat
         /\ Len(Complete(file, n)) <= Len(Log)
         /\ SubSeq(Log, 1, Len(Complete(file, n))) = Complete(file, n)
<1>1. file \in Seq(Commands \cup {Torn}) /\ Len(file) \in Nat /\ Len(file) \in 0..Len(file)
  BY DEF LogOK, LogTyped
<1>2. Log \in Seq(Commands \cup {Torn}) /\ Complete(file, n) \in Seq(Commands \cup {Torn})
  BY <1>1, CompleteTyped DEF Log
<1>3. Len(Log) \in Nat /\ Len(Complete(file, n)) \in Nat
  BY <1>2
<1>4. n \in Nat /\ n <= Len(file) /\ Len(file) <= Len(file)
  BY <1>1
<1>5. /\ Len(Complete(file, n)) <= Len(Log)
      /\ SubSeq(Log, 1, Len(Complete(file, n))) = Complete(file, n)
  BY <1>1, <1>4, CompleteGrows DEF Log
<1> QED
  BY <1>2, <1>3, <1>5

(* An append that reaches the file. *)
LEMMA AppendWriteGrows ==
  ASSUME AofInv, NEW c \in Connections, AppendWrite(c)
  PROVE  /\ phase = "serving" /\ Len(Log') > Len(Log) /\ SubSeq(Log', 1, Len(Log)) = Log
         /\ Safe' = Safe /\ phase' = phase /\ Applied' = Applied
<1> DEFINE T == Commands \cup {Torn}
<1>1. /\ TypeOK /\ OwnCommands /\ LogOK /\ phase = "serving" /\ UNCHANGED <<phase, synced, pos>>
  BY DEF AofInv, AppendWrite, ToAppend
<1>2. /\ LogOK' /\ Len(file') > Len(file)
      /\ \A i \in 1..Len(file) : file'[i] = file[i]
      /\ \A i \in (Len(file) + 1)..Len(file') : file'[i] \in Commands
  BY <1>1, AppendWriteLog
<1>3. /\ file \in Seq(T) /\ Len(file) \in Nat /\ synced \in 0..Len(file) /\ pos - 1 \in 0..Len(file)
  BY <1>1 DEF LogOK, LogTyped
<1>4. file' \in Seq(T) /\ Len(file') \in Nat
  BY <1>2 DEF LogOK, LogTyped
<1>5. \A n \in 0..Len(file) : Complete(file', n) = Complete(file, n)
  <2> SUFFICES ASSUME NEW n \in 0..Len(file) PROVE Complete(file', n) = Complete(file, n)
    OBVIOUS
  <2>1. n \in Nat /\ n <= Len(file) /\ n <= Len(file') /\ \A i \in 1..n : file'[i] = file[i]
    BY <1>2, <1>3, <1>4
  <2> QED
    BY <1>3, <1>4, <2>1, CompleteOfPrefix
<1>6. Complete(file', Len(file)) = Log
  BY <1>3, <1>5 DEF Log
<1>7. Safe' = Safe /\ Applied' = Applied
  BY <1>1, <1>3, <1>5 DEF Safe, Applied
<1> DEFINE last == Len(file') - 1
<1>8. /\ last \in Nat /\ Len(file) <= last /\ last <= Len(file') /\ last \in 0..Len(file')
      /\ last = Len(file') - 1 /\ Len(file') \in 1..Len(file')
      /\ Len(file') \in (Len(file) + 1)..Len(file')
      /\ Len(file) <= Len(file') /\ Len(file') <= Len(file')
  BY <1>2, <1>3, <1>4
<1> HIDE DEF last, T
<1>9. file'[Len(file')] \in Commands /\ file'[Len(file')] # Torn
  BY <1>2, <1>8, AofAssumption, CommandsAssumption
<1> DEFINE before_last == Complete(file', last)
           entry == file'[Len(file')]
<1>10. before_last \in Seq(T) /\ entry \in T
  BY <1>4, <1>8, <1>9, CompleteTyped DEF T
<1>11. Log' = Append(before_last, entry)
  <2>1. Complete(file', Len(file')) = Append(Complete(file', Len(file') - 1), file'[Len(file')])
    BY <1>4, <1>8, <1>9, CompleteStep
  <2> QED
    BY <1>8, <2>1 DEF Log
<1>12. Len(Log) <= Len(before_last)
  BY <1>3, <1>4, <1>6, <1>8, CompleteGrows
<1>13. Len(Log) \in Nat
  BY <1>1, <1>3, Parts
<1> HIDE DEF before_last, entry
<1>14. Len(Log') > Len(Log)
  BY <1>10, <1>11, <1>12, <1>13
<1>15. SubSeq(Log', 1, Len(Log)) = Log
  <2>1. SubSeq(Complete(file', Len(file')), 1, Len(Complete(file', Len(file)))) = Complete(file', Len(file))
    BY <1>3, <1>4, <1>8, CompleteGrows
  <2> QED
    BY <1>6, <2>1 DEF Log
<1> QED
  BY <1>1, <1>7, <1>14, <1>15

(* A successful sync_data. *)
LEMMA SyncSecures ==
  ASSUME LogOK, phase = "serving", synced' = Len(file), UNCHANGED <<file, phase, pos>>
  PROVE  Safe' \in Safe..Len(Log) /\ Log' = Log /\ phase' = phase /\ Applied' = Applied
<1>1. synced \in 0..Len(file)
  BY DEF LogOK, LogTyped
<1>2. Safe \in Nat /\ Safe <= Len(Log) /\ Len(Log) \in Nat
  BY <1>1, Parts DEF Safe
<1>3. Safe' = Len(Log)
  BY DEF Safe, Log
<1>4. Safe' \in Safe..Len(Log)
  BY <1>2, <1>3
<1> QED
  BY <1>4 DEF Log, Applied

(* A crash: what is left is a prefix of the log that has the safe part. *)
LEMMA CrashKeepsPrefix ==
  ASSUME AofInv, Crash
  PROVE  /\ phase # "failed" /\ phase' = "replay"
         /\ \E n \in Safe..Len(Log) : Log' = SubSeq(Log, 1, n)
         /\ Applied' = 0 /\ Safe' = Safe
<1> DEFINE T == Commands \cup {Torn}
<1>1. LogOK /\ phase # "failed" /\ phase' = "replay" /\ pos' = 1 /\ synced' = synced
  BY DEF AofInv, Crash
<1>2. LogOK'
  BY <1>1, CrashLog
<1>3. PICK n \in synced..Len(file) :
         /\ \A i \in 1..n : file'[i] = file[i]
         /\ \/ Len(file') = n
            \/ Len(file') = n + 1 /\ file'[n + 1] = Torn
  BY <1>1, CrashLog
<1>4. file \in Seq(T) /\ Len(file) \in Nat /\ synced \in 0..Len(file)
  BY <1>1 DEF LogOK, LogTyped
<1>5. file' \in Seq(T) /\ Len(file') \in Nat
  BY <1>2 DEF LogOK, LogTyped
<1> HIDE DEF T
<1>6. n \in Nat /\ n \in 0..Len(file) /\ n <= Len(file) /\ n <= Len(file') /\ synced \in Nat /\ synced <= n
  BY <1>3, <1>4, <1>5
<1>7. ASSUME NEW i \in 0..n PROVE Complete(file', i) = Complete(file, i)
  <2>1. i \in Nat /\ i <= Len(file) /\ i <= Len(file') /\ \A j \in 1..i : file'[j] = file[j]
    BY <1>3, <1>4, <1>5, <1>6
  <2> QED
    BY <1>4, <1>5, <2>1, CompleteOfPrefix
<1>8. synced \in 0..n /\ n \in 0..n /\ 0 \in 0..n
  BY <1>6
<1>9. Log' = Complete(file, n)
  <2>1. CASE Len(file') = n
    BY <1>7, <1>8, <2>1 DEF Log
  <2>2. CASE Len(file') = n + 1 /\ file'[n + 1] = Torn
    <3>1. n + 1 \in 1..Len(file') /\ (n + 1) - 1 = n
      BY <1>5, <1>6, <2>2
    <3>2. Complete(file', n + 1) = Complete(file', n)
      BY <1>5, <2>2, <3>1, CompleteStep
    <3> QED
      BY <1>7, <1>8, <2>2, <3>2 DEF Log
  <2> QED
    BY <1>3, <2>1, <2>2
<1>10. Safe' = Safe
  BY <1>1, <1>7, <1>8 DEF Safe
<1>11. Applied' = 0
  <2>1. Complete(file', 0) = <<>>
    BY <1>5, CompleteStep
  <2>2. pos' - 1 = 0
    BY <1>1
  <2> QED
    BY <2>1, <2>2 DEF Applied
<1> DEFINE m == Len(Complete(file, n))
<1>12. m \in Nat /\ m <= Len(Log) /\ SubSeq(Log, 1, m) = Complete(file, n) /\ Len(Log) \in Nat
  BY <1>1, <1>6, Parts
<1>13. Safe <= m /\ Safe \in Nat
  <2>1. Safe <= m
    BY <1>4, <1>6, CompleteGrows DEF Safe
  <2> QED
    BY <1>1, <1>4, <2>1, Parts DEF Safe
<1> HIDE DEF m
<1>14. m \in Safe..Len(Log)
  BY <1>12, <1>13
<1> QED
  BY <1>1, <1>9, <1>10, <1>11, <1>12, <1>14

(* The replay has executed an entry. *)
LEMMA ReplayApplies ==
  ASSUME AofInv, AtReplay, TornLast, ReplayNext
  PROVE  /\ phase = "replay" /\ Applied < Len(Log) /\ Applied' = Applied + 1
         /\ Log' = Log /\ Safe' = Safe /\ phase' = phase
<1> DEFINE T == Commands \cup {Torn}
<1>0. /\ LogOK /\ phase = "replay" /\ pos <= Len(file)
      /\ pos' = IF file[pos] = Torn THEN pos ELSE pos + 1
      /\ UNCHANGED <<file, synced, phase>> /\ conn[Startup].pc = "done"
  BY DEF AofInv, ReplayNext, Replaying, Respond, log_state
<1>2. file[pos] # Torn
  <2>1. conn[Startup].cmd \in Decodes(pos) /\ conn[Startup].cmd # Torn
    BY <1>0, AofAssumption DEF AtReplay, AofInv, OwnCommands
  <2>2. Len(file) \in Nat /\ pos \in 1..Len(file)
    BY <1>0 DEF LogOK, LogTyped
  <2>3. pos < Len(file) => file[pos] # Torn
    BY <1>0, <2>2 DEF TornLast
  <2> QED
    BY <2>1, <2>3 DEF Decodes
<1>1. /\ LogOK /\ phase = "replay" /\ pos <= Len(file) /\ pos' = pos + 1
      /\ UNCHANGED <<file, synced, phase>> /\ conn[Startup].pc = "done"
  BY <1>0, <1>2
<1>3. /\ file \in Seq(T) /\ Len(file) \in Nat /\ pos \in 1..Len(file) /\ pos - 1 \in 0..Len(file)
      /\ pos \in 0..Len(file) /\ pos' - 1 = pos /\ file[pos] \in T
  BY <1>1 DEF LogOK, LogTyped
<1> DEFINE s == Complete(file, pos - 1)
           e == file[pos]
<1>4. Complete(file, pos) = Append(s, e)
  BY <1>2, <1>3, CompleteStep
<1>5. s \in Seq(T) /\ e \in T
  BY <1>3, CompleteTyped
<1>6. Len(Complete(file, pos)) <= Len(Log) /\ Len(Log) \in Nat
  BY <1>1, <1>3, Parts
<1>7. Applied = Len(s) /\ Applied' = Len(Complete(file, pos))
  BY <1>1, <1>3 DEF Applied
<1> HIDE DEF s, e
<1>8. Len(Append(s, e)) = Len(s) + 1 /\ Len(s) \in Nat
  BY <1>5
<1>9. Applied < Len(Log) /\ Applied' = Applied + 1
  BY <1>4, <1>6, <1>7, <1>8
<1> QED
  BY <1>1, <1>9 DEF Log, Safe

(* The replay has passed the cut-off entry at the end, or given up on it. *)
LEMMA TornIsNothing ==
  ASSUME AofInv, TornLast, ReplayTorn
  PROVE  /\ phase = "replay" /\ phase' \in {"replay", "failed"}
         /\ Log' = Log /\ Safe' = Safe /\ Applied' = Applied
<1> DEFINE T == Commands \cup {Torn}
<1>1. /\ LogOK /\ phase = "replay" /\ pos <= Len(file) /\ file[pos] = Torn
      /\ UNCHANGED <<file, synced>>
      /\ \/ pos' \in (pos + 1)..(Len(file) + 1) /\ phase' = phase
         \/ pos' = pos /\ phase' = "failed"
  BY DEF AofInv, ReplayTorn, Replaying, log_state
<1>2. file \in Seq(T) /\ Len(file) \in Nat /\ pos \in 1..Len(file)
  BY <1>1 DEF LogOK, LogTyped
<1>3. pos = Len(file)
  <2>1. pos \notin 1..(Len(file) - 1)
    BY <1>1 DEF TornLast
  <2> QED
    BY <1>2, <2>1
<1>4. Complete(file, pos) = Complete(file, pos - 1)
  BY <1>1, <1>2, CompleteStep
<1>5. pos' = pos \/ pos' - 1 = pos
  BY <1>1, <1>2, <1>3
<1>6. Applied' = Applied
  BY <1>1, <1>4, <1>5 DEF Applied
<1> QED
  BY <1>1, <1>6 DEF Log, Safe

(* The end of the replay: every entry that was left has been applied. *)
LEMMA ServesAll ==
  ASSUME AofInv, ReplayEnd
  PROVE  /\ phase = "replay" /\ Applied = Len(Log) /\ phase' = "serving"
         /\ Log' = Log /\ Safe' = Safe /\ Applied' = Applied
<1>1. /\ LogOK /\ phase = "replay" /\ phase' = "serving" /\ pos > Len(file)
      /\ UNCHANGED <<file, synced, pos>>
  BY DEF AofInv, ReplayEnd, AofWriter_new
<1>2. pos - 1 = Len(file)
  BY <1>1 DEF LogOK, LogTyped
<1> QED
  BY <1>1, <1>2 DEF Log, Safe, Applied

(* Every step of the server is a step of the log or leaves it alone. *)
LEMMA StepKeepsLog ==
  ASSUME AofInv, AtReplay, TornLast, [AofNext]_all_vars
  PROVE  [DL!Next]_DL!logvars
<1> DEFINE Same == Log' = Log /\ Safe' = Safe /\ phase' = phase /\ Applied' = Applied
<1>1. CASE Same
  BY <1>1 DEF DL!logvars, Log, Safe, Applied
<1>2. ASSUME UNCHANGED <<file, synced, pos, phase>>
      PROVE  Same
  BY <1>2 DEF Log, Safe, Applied
<1>3. LogOK
  BY DEF AofInv
<1>4. ASSUME NEW c \in Connections, AppendWrite(c)
      PROVE  DL!Next
  BY <1>4, AppendWriteGrows DEF DL!Next, DL!Grow, Log, Safe, Applied
<1>5. CASE phase = "serving" /\ synced' = Len(file) /\ UNCHANGED <<file, phase, pos>>
  BY <1>3, <1>5, SyncSecures DEF DL!Next, DL!Secure, Log, Safe, Applied
<1>6. CASE Crash
  BY <1>6, CrashKeepsPrefix DEF DL!Next, DL!Crash, Log, Safe, Applied
<1>7. CASE ReplayNext
  BY <1>7, ReplayApplies DEF DL!Next, DL!Apply, Log, Safe, Applied
<1>8. CASE ReplayTorn
  BY <1>8, TornIsNothing DEF DL!Next, DL!Refuse, DL!logvars, Log, Safe, Applied
<1>9. CASE ReplayEnd
  BY <1>9, ServesAll DEF DL!Next, DL!Serve, Log, Safe, Applied
<1>10. CASE OpenFails
  <2>1. phase = "replay" /\ phase' = "failed" /\ UNCHANGED <<file, synced, pos>>
    BY <1>10 DEF OpenFails, log_state
  <2> QED
    BY <2>1 DEF DL!Next, DL!Refuse
<1>11. ASSUME NEW c \in Connections, Serve(c) \/ AppendFails(c) \/ AppendSyncFails(c) \/ Answer(c)
       PROVE  Same
  BY <1>2, <1>11 DEF Serve, AppendFails, AppendSyncFails, Answer, log_state
<1>12. ASSUME NEW c \in Connections, AppendSync(c)
       PROVE  phase = "serving" /\ synced' = Len(file) /\ UNCHANGED <<file, phase, pos>>
  BY <1>12 DEF AppendSync
<1>13. CASE FsyncTick
  <2>1. /\ phase = "serving" /\ UNCHANGED <<file, phase, pos>>
        /\ synced' = Len(file) \/ synced' = synced
    BY <1>13 DEF FsyncTick
  <2> QED
    BY <1>1, <1>2, <1>5, <2>1
<1>14. ASSUME Evict \/ Clock \/ Replay \/ Stopped \/ UNCHANGED all_vars
       PROVE  Same
  BY <1>2, <1>14 DEF Evict, Clock, Replay, Stopped, all_vars, aof_vars, log_state
<1> HIDE DEF Same
<1> QED
  BY <1>1, <1>4, <1>5, <1>6, <1>7, <1>8, <1>9, <1>10, <1>11, <1>12, <1>13, <1>14 DEF AofNext

(* The file keeps the promise of DurableLog for any number of connections, *)
(* commands, crashes and failing disks, in every fsync mode: it only grows *)
(* while clients are served, a crash leaves a prefix that has all that was *)
(* synced, and no client is served before the replay has applied what was  *)
(* left, entry by entry.  The hypothesis is needed: after a second crash   *)
(* with a cut-off entry in the file the replay skips complete ones.        *)
THEOREM FileKeepsLog ==
  ASSUME ~CrashAfterTorn
  PROVE  AofSpec => KeepsLog
<1>1. AofInit => DL!Init
  <2> SUFFICES ASSUME AofInit PROVE DL!Init
    OBVIOUS
  <2>1. file = <<>> /\ synced = 0 /\ pos - 1 = 0 /\ phase = "replay" /\ Len(file) = 0
    BY DEF AofInit
  <2>2. file \in Seq(Commands) /\ Len(<<>>) = 0
    BY <2>1
  <2>3. Complete(file, 0) = <<>>
    BY <2>2, CompleteStep
  <2> QED
    BY <2>1, <2>2, <2>3 DEF DL!Init
<1>2. AofInit => AtReplay /\ TornLast
  <2> SUFFICES ASSUME AofInit PROVE AtReplay /\ TornLast
    OBVIOUS
  <2>1. conn[Startup].pc = "idle" /\ 1..(Len(file) - 1) = {}
    BY AofAssumption DEF AofInit, Init, Idle
  <2> QED
    BY <2>1 DEF AtReplay, TornLast
<1>3. AofInv /\ AtReplay /\ TornLast /\ [AofNext]_all_vars => AtReplay' /\ TornLast'
  BY AtReplayKept, TornLastKept DEF AofInv
<1>4. AofInv /\ AtReplay /\ TornLast /\ [AofNext]_all_vars => [DL!Next]_DL!logvars
  BY StepKeepsLog
<1> QED
  BY <1>1, <1>2, <1>3, <1>4, AofInvariant, PTL DEF AofSpec, KeepsLog, DL!Spec
=============================================================================
