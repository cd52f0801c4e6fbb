-------------------------------- MODULE Aof --------------------------------
(***************************************************************************)
(* The append-only file and what composes with it: aof.rs, the appending   *)
(* half of the handler's loop (handler.rs), the conversion of relative     *)
(* deadlines (resp2.rs) and the replay main runs before it listens.        *)
(*                                                                         *)
(* The file is a sequence of commands.  That an encoded command decodes to *)
(* itself, and that a cut-off one decodes to no command, is checked on the *)
(* bytes in Protocol (RoundTrip, TornEntryIsNoEntry); here a cut-off entry *)
(* is the value Torn.                                                      *)
(*                                                                         *)
(* The file (external): what has been flushed is in the kernel's cache     *)
(* and survives the process; what sync_data has covered survives anything. *)
(* A crash keeps some prefix of the file that contains the synced part,    *)
(* perhaps with a piece of the entry after it.                             *)
(*                                                                         *)
(* Clients are the connections and Startup, the caller of the executor     *)
(* during the replay.                                                      *)
(***************************************************************************)
EXTENDS Executor

CONSTANTS
    Startup,          \* sync_store_with_aof, a member of Clients
    Requests,         \* the commands connections send, a subset of Commands
    Torn,             \* an entry of which only the beginning is in the file
    FsyncModes,       \* config: the values of appendfsync considered
    BufferSize,       \* entries the BufWriter holds
    TornWrites,       \* fault: a crash may cut an entry off
    CrashAfterTorn,   \* fault: the server may crash again after that
    DiskErrors,       \* fault: flush and sync_data may fail
    MaxCrashes,       \* bound: crashes
    MaxLog            \* bound: entries in the file, the buffer and in flight

Connections == Clients \ {Startup}

VARIABLES
    fsync_mode,   \* config: appendfsync
    phase,        \* replay, serving, or failed: main returned an error
    file,         \* the entries in the file
    synced,       \* how many of them sync_data has covered
    buffer,       \* entries a failed flush left in the BufWriter
    logged,       \* per connection: how far the append of its command is
    pos,          \* the entry of the file the replay is at
    next_sync,    \* the next tick of the fsync task
    crashes,      \* how many crashes there were
    \* history
    issued,       \* the entries the writer has taken, in order
    acked,        \* positions and entries a client was told of, in mode Always
    oldest,       \* mode everysec: when the oldest entry that is not synced was appended
    sync_error,   \* mode everysec: the last sync_data failed
    faithful,     \* the log has every write, in the order of execution
    drift,        \* ticks of the clock while a command waited for its append
    before        \* the store at the crash, when nothing was in flight

log_state == <<fsync_mode, file, synced, buffer, next_sync, issued, oldest, sync_error>>
aof_vars == <<log_state, phase, logged, pos, crashes, acked, faithful, drift, before>>
all_vars == <<vars, aof_vars>>

(***************************************************************************)
(* The bytes run_handler appends for a command.  Relative deadlines become *)
(* PEXPIREAT, with the clock read after the command was executed.          *)
(***************************************************************************)
saturating_mul(m, n) == IF m * n <= U64Max THEN m * n ELSE U64Max

pexpireat(key, ms) ==
    [op |-> "PExpireAt", key |-> key, deadline |-> (unix_ms + ms) % (U64Max + 1)]

convert_expire_to_pexpireat(key, seconds) == pexpireat(key, saturating_mul(seconds, Sec \div Ms))
convert_pexpire_to_pexpireat(key, milliseconds) == pexpireat(key, milliseconds)

(* Mutant: relative deadlines are logged as they were sent. *)
cmd_bytes_as_sent(cmd) == cmd

cmd_bytes(cmd) ==
    CASE cmd.op = "Expire" -> convert_expire_to_pexpireat(cmd.key, cmd.ttl)
      [] cmd.op = "PExpire" -> convert_pexpire_to_pexpireat(cmd.key, cmd.ttl)
      [] OTHER -> cmd

ASSUME AofAssumption ==
    /\ Startup \in Clients /\ Requests \subseteq Commands
    /\ [op : {"PExpireAt"}, key : {cmd.key : cmd \in Requests \cap ExpireCommand}, deadline : U64]
          \subseteq Commands
    /\ FsyncModes \subseteq {"Always", "EverySec", "No"}
    /\ BufferSize \in Nat /\ MaxCrashes \in Nat /\ MaxLog \in Nat
    /\ Torn \notin Command /\ None \notin Command

(* The state of an append: not begun, in the file but not synced (mode     *)
(* Always, with the lock of the writer held), done, or given up.           *)
NotLogged == [state |-> "no", pos |-> 0]

AofInit ==
    /\ Init
    /\ fsync_mode \in FsyncModes
    /\ phase = "replay" /\ pos = 1
    /\ file = <<>> /\ synced = 0 /\ buffer = <<>>
    /\ logged = [c \in Clients |-> NotLogged]
    /\ next_sync = 0 /\ crashes = 0
    /\ issued = <<>> /\ acked = {} /\ oldest = None /\ sync_error = FALSE
    /\ faithful = TRUE /\ drift = 0 /\ before = None

(***************************************************************************)
(* The handlers.                                                           *)
(***************************************************************************)
(* The command has begun, and if it is to be logged it is not yet.         *)
InFlight(c) ==
    /\ conn[c].pc \notin {"idle", "dead"} /\ is_write(conn[c].cmd)
    /\ conn[c].pc = "done" => appended(conn[c].cmd, reply[c]) /\ logged[c].state = "no"

(* The fsync task runs when its timer is due. *)
OnTime == phase = "serving" /\ fsync_mode = "EverySec" /\ now' # now => now < next_sync

(* A connection executes a call of its command, or panics. *)
Serve(c) ==
    /\ phase = "serving"
    /\ conn[c].pc = "idle" =>
          Len(file) + Len(buffer) + Cardinality({d \in Connections : InFlight(d)}) < MaxLog
    /\ Execute(c) \/ PoisonedCall(c) \/ Reconnect(c)
    /\ conn'[c].cmd \in Requests \cup {None}
    /\ OnTime
    /\ faithful' = (/\ faithful
                    /\ \A d \in Connections \ {c} : ~InFlight(d)
                    /\ ~(Unlogged(c)' /\ touched'[c]))
    /\ UNCHANGED <<log_state, phase, logged, pos, crashes, acked, drift, before>>

(* The command has its reply, and the reply calls for an append. *)
ToAppend(c) ==
    /\ phase = "serving"
    /\ conn[c].pc = "done" /\ appended(conn[c].cmd, reply[c])
    /\ logged[c].state = "no"
    /\ \A d \in Connections : logged[d].state # "flushed"

(* AofWriter::append: the buffer, with what earlier failures left in it,   *)
(* is written to the file.  In mode Always the lock is kept for sync_data. *)
AppendWrite(c) ==
    /\ ToAppend(c)
    /\ LET entry == cmd_bytes(conn[c].cmd)
       IN  /\ file' = file \o Append(buffer, entry)
           /\ issued' = Append(issued, entry)
    /\ buffer' = <<>>
    /\ logged' = [logged EXCEPT ![c] =
                    [state |-> IF fsync_mode = "Always" THEN "flushed" ELSE "yes", pos |-> Len(file')]]
    /\ oldest' = IF fsync_mode = "EverySec" /\ oldest = None THEN now ELSE oldest
    /\ UNCHANGED <<vars, fsync_mode, synced, next_sync, sync_error, phase, pos, crashes,
                   acked, faithful, drift, before>>

(* Mutant: the buffer is thrown away with the entry. *)
AppendFailsAndForgets(c) ==
    /\ DiskErrors /\ ToAppend(c)
    /\ issued' = Append(issued, cmd_bytes(conn[c].cmd))
    /\ buffer' = <<>>
    /\ logged' = [logged EXCEPT ![c].state = "failed"]
    /\ UNCHANGED <<vars, fsync_mode, file, synced, next_sync, oldest, sync_error, phase, pos,
                   crashes, acked, faithful, drift, before>>

(* The flush fails: the entry stays in the BufWriter, if it has room for   *)
(* it.  The error is logged and the client gets its reply all the same.    *)
AppendFails(c) ==
    /\ DiskErrors /\ ToAppend(c)
    /\ LET entry == cmd_bytes(conn[c].cmd)
       IN  \/ /\ Len(buffer) < BufferSize
              /\ buffer' = Append(buffer, entry)
              /\ issued' = Append(issued, entry)
              /\ UNCHANGED faithful
           \/ /\ Len(buffer) >= BufferSize
              /\ faithful' = FALSE
              /\ UNCHANGED <<buffer, issued>>
    /\ logged' = [logged EXCEPT ![c].state = "failed"]
    /\ UNCHANGED <<vars, fsync_mode, file, synced, next_sync, oldest, sync_error, phase, pos,
                   crashes, acked, drift, before>>

(* Mutant: mode Always leaves the sync to the background task. *)
AppendSyncSkipped(c) ==
    /\ phase = "serving" /\ logged[c].state = "flushed"
    /\ logged' = [logged EXCEPT ![c].state = "yes"]
    /\ UNCHANGED <<vars, log_state, phase, pos, crashes, acked, faithful, drift, before>>

(* sync_data of append, in mode Always. *)
AppendSync(c) ==
    /\ phase = "serving" /\ logged[c].state = "flushed"
    /\ synced' = Len(file)
    /\ logged' = [logged EXCEPT ![c].state = "yes"]
    /\ UNCHANGED <<vars, fsync_mode, file, buffer, next_sync, issued, oldest, sync_error, phase, pos, crashes,
                   acked, faithful, drift, before>>

AppendSyncFails(c) ==
    /\ DiskErrors /\ phase = "serving" /\ logged[c].state = "flushed"
    /\ logged' = [logged EXCEPT ![c].state = "failed"]
    /\ UNCHANGED <<vars, log_state, phase, pos, crashes, acked, faithful, drift, before>>

(* send_response, after the append. *)
Answer(c) ==
    /\ phase = "serving"
    /\ Respond(c)
    /\ appended(conn[c].cmd, reply[c]) => logged[c].state \in {"yes", "failed"}
    /\ logged' = [logged EXCEPT ![c] = NotLogged]
    /\ acked' = IF fsync_mode = "Always" /\ logged[c].state = "yes"
                THEN acked \cup {<<logged[c].pos, file[logged[c].pos]>>} ELSE acked
    /\ UNCHANGED <<log_state, phase, pos, crashes, faithful, drift, before>>

(***************************************************************************)
(* The background tasks and the clock.                                     *)
(***************************************************************************)
(* Mutant: every other second. *)
FsyncTickLate ==
    /\ phase = "serving" /\ fsync_mode = "EverySec" /\ now >= next_sync
    /\ next_sync' = now + 2 * Sec
    /\ synced' = Len(file) /\ oldest' = None /\ sync_error' = FALSE
    /\ UNCHANGED <<vars, fsync_mode, file, buffer, issued, phase, logged, pos, crashes,
                   acked, faithful, drift, before>>

(* Mutant: the buffer counts as written. *)
FsyncTickCountsBuffer ==
    /\ phase = "serving" /\ fsync_mode = "EverySec" /\ now >= next_sync
    /\ next_sync' = now + Sec
    /\ synced' = Len(file) + Len(buffer) /\ oldest' = None /\ sync_error' = FALSE
    /\ UNCHANGED <<vars, fsync_mode, file, buffer, issued, phase, logged, pos, crashes,
                   acked, faithful, drift, before>>

(* The fsync task of mode everysec.  It does not flush the BufWriter.      *)
FsyncTick ==
    /\ phase = "serving" /\ fsync_mode = "EverySec" /\ now >= next_sync
    /\ next_sync' = now + Sec
    /\ \/ synced' = Len(file) /\ oldest' = None /\ sync_error' = FALSE
       \/ DiskErrors /\ sync_error' = TRUE /\ UNCHANGED <<synced, oldest>>
    /\ UNCHANGED <<vars, fsync_mode, file, buffer, issued, phase, logged, pos, crashes,
                   acked, faithful, drift, before>>

Evict ==
    /\ phase = "serving"
    /\ Daemon
    /\ UNCHANGED aof_vars

Clock ==
    /\ phase # "failed"
    /\ Tick /\ OnTime
    /\ drift' = IF \E c \in Connections : InFlight(c) THEN drift + 1 ELSE drift
    /\ UNCHANGED <<log_state, phase, logged, pos, crashes, acked, faithful, before>>

(***************************************************************************)
(* A crash, of the machine or of the process, and the restart.             *)
(***************************************************************************)
Entries(l) == {l[i] : i \in DOMAIN l}

(* Nothing is lost and nothing was under way. *)
Quiet(n, torn) ==
    /\ n = Len(file) /\ ~torn /\ buffer = <<>>
    /\ \A c \in Connections : ~InFlight(c)

Crash ==
    /\ phase # "failed" /\ crashes < MaxCrashes
    /\ Torn \in Entries(file) => CrashAfterTorn
    /\ crashes' = crashes + 1
    /\ \E n \in synced..Len(file), torn \in {FALSE, TornWrites} :
          /\ torn => n < Len(file) \/ buffer # <<>>
          /\ file' = SubSeq(file, 1, n) \o (IF torn THEN <<Torn>> ELSE <<>>)
          /\ before' = CASE ~Quiet(n, torn) -> None
                         [] Quiet(n, torn) /\ phase = "replay" -> before
                         [] OTHER -> contents
    /\ issued' = file' /\ buffer' = <<>>
    /\ phase' = "replay" /\ pos' = 1
    /\ data' = [k \in Keys |-> None] /\ expiry_index' = [k \in Keys |-> None]
    /\ conn' = [c \in Clients |-> Idle] /\ reply' = [c \in Clients |-> None]
    /\ touched' = [c \in Clients |-> FALSE] /\ logged' = [c \in Clients |-> NotLogged]
    /\ evictor' = EvictorIdle /\ poisoned' = FALSE
    /\ next_sync' = 0 /\ oldest' = None /\ sync_error' = FALSE
    /\ drift' = IF before' = None THEN 0 ELSE drift
    /\ UNCHANGED <<now, fsync_mode, synced, acked, faithful>>

(***************************************************************************)
(* sync_store_with_aof: decode, parse, execute, until the file ends.       *)
(***************************************************************************)
Replaying == phase = "replay" /\ pos <= Len(file)

(* What the decoder and the parser may make of the entry at p.  A cut-off  *)
(* entry that takes bytes of the next for its own can become any command.  *)
Decodes(p) == IF file[p] = Torn /\ p < Len(file) THEN Commands ELSE {file[p]}

(* executor.execute(&cmd), one call of the store at a time. *)
Replay ==
    /\ Replaying
    /\ Execute(Startup)
    /\ conn'[Startup].cmd \in Decodes(pos)
    /\ UNCHANGED aof_vars

(* The reply is dropped.  What a garbled command has left of the next      *)
(* entry is cut off, too.                                                  *)
ReplayNext ==
    /\ Replaying
    /\ Respond(Startup)
    /\ pos' = IF file[pos] = Torn THEN pos ELSE pos + 1
    /\ UNCHANGED <<log_state, phase, logged, crashes, acked, faithful, drift, before>>

(* A cut-off entry at the end of the file is an unexpected end of file, or *)
(* an error that stops the server.  One with entries after it takes bytes  *)
(* of those for its own and hides at least the first of them; besides the  *)
(* commands of Replay it decodes to an error, or to a value that is no     *)
(* command and is passed over.                                             *)
ReplayTorn ==
    /\ Replaying /\ file[pos] = Torn /\ conn[Startup].pc = "idle"
    /\ \/ /\ pos' \in {p \in (pos + 1)..(Len(file) + 1) : p = pos + 1 => pos = Len(file)}
          /\ UNCHANGED phase
       \/ /\ phase' = "failed"
          /\ UNCHANGED pos
    /\ UNCHANGED <<vars, log_state, logged, crashes, acked, faithful, drift, before>>

(* Mutant: the file is opened anew instead of for appending. *)
ReplayEndTruncates ==
    /\ phase = "replay" /\ pos > Len(file)
    /\ phase' = "serving" /\ next_sync' = now
    /\ file' = <<>> /\ issued' = <<>> /\ synced' = 0 /\ pos' = 1
    /\ faithful' = TRUE /\ drift' = 0 /\ before' = None
    /\ UNCHANGED <<vars, fsync_mode, buffer, oldest, sync_error, logged, crashes, acked>>

(* AofWriter::new: for appending.  The file stays as it is, a cut-off      *)
(* entry at its end included, and the BufWriter is empty.                  *)
AofWriter_new == buffer' = <<>> /\ UNCHANGED <<file, synced, issued>>

(* The end of the file: open(), and the fsync task starts.                 *)
ReplayEnd ==
    /\ phase = "replay" /\ pos > Len(file)
    /\ AofWriter_new
    /\ phase' = "serving"
    /\ next_sync' = IF fsync_mode = "EverySec" THEN now ELSE next_sync
    /\ faithful' = (Torn \notin Entries(file)) /\ drift' = 0 /\ before' = None
    /\ UNCHANGED <<vars, fsync_mode, oldest, sync_error, logged, pos, crashes, acked>>

(* The file cannot be opened, for the replay or for appending. *)
OpenFails ==
    /\ DiskErrors /\ phase = "replay" /\ pos \in {1, Len(file) + 1} /\ conn[Startup].pc = "idle"
    /\ phase' = "failed"
    /\ UNCHANGED <<vars, log_state, logged, pos, crashes, acked, faithful, drift, before>>

(* main has returned an error. *)
Stopped == phase = "failed" /\ UNCHANGED all_vars

AofNext ==
    \/ \E c \in Connections :
          \/ Serve(c) \/ AppendWrite(c) \/ AppendFails(c)
          \/ AppendSync(c) \/ AppendSyncFails(c) \/ Answer(c)
    \/ FsyncTick \/ Evict \/ Clock
    \/ Crash \/ Replay \/ ReplayNext \/ ReplayTorn \/ ReplayEnd \/ OpenFails \/ Stopped

AofSpec == AofInit /\ [][AofNext]_all_vars

-----------------------------------------------------------------------------
(***************************************************************************)
(* The promise.                                                            *)
(***************************************************************************)
(* The entries among the first n of l that are not cut off. *)
Complete(l, n) ==
    LET kept[i \in 0..Len(l)] ==
           IF i = 0 THEN <<>>
           ELSE IF l[i] = Torn THEN kept[i - 1] ELSE Append(kept[i - 1], l[i])
    IN  kept[n]

(* The log of DurableLog is the complete entries of the file, safe what    *)
(* sync_data has covered of them, applied what the replay has passed.      *)
DL == INSTANCE DurableLog WITH
         log <- Complete(file, Len(file)),
         safe <- Len(Complete(file, synced)),
         applied <- Len(Complete(file, pos - 1))

(* The file, with its buffer, its three ways to sync, its failing disk and *)
(* a crash between any two steps of the handlers, keeps the promise of     *)
(* DurableLog: it only grows, its synced part stays, and no client is      *)
(* served before the replay has applied all that survived.                 *)
KeepsLog == DL!Spec

-----------------------------------------------------------------------------
AofTypeOK ==
    /\ fsync_mode \in FsyncModes /\ phase \in {"replay", "serving", "failed"}
    /\ \A e \in Entries(file) \cup Entries(buffer) \cup Entries(issued) : e = Torn \/ e \in Commands
    /\ synced \in 0..Len(file) /\ pos \in Nat \ {0}
    /\ Len(buffer) <= BufferSize
    /\ \A c \in Clients : /\ logged[c].state \in {"no", "flushed", "yes", "failed"}
                          /\ logged[c].pos \in Nat
    /\ next_sync \in Nat /\ crashes \in 0..MaxCrashes /\ drift \in Nat
    /\ \A e \in acked : e[1] \in Nat /\ e[2] \in Commands
    /\ oldest \in Nat \cup {None}
    /\ sync_error \in BOOLEAN /\ faithful \in BOOLEAN

(* Mode Always: a write whose append succeeded before its reply was sent   *)
(* is in the file for good, at its place, whatever crashes follow and      *)
(* whichever appends of other connections fail around it.                  *)
AckedSurvives == \A a \in acked : a[1] <= Len(file) /\ file[a[1]] = a[2]

(* Mode everysec: no entry of the file waits longer than a second for its  *)
(* sync_data, unless that fails.  This is the window a crash can lose.     *)
EverySecWindow ==
    fsync_mode = "EverySec" /\ ~sync_error /\ oldest # None => now - oldest <= Sec

(* A failed append leaves no hole: what the writer has taken is in the     *)
(* file and then in the buffer, once, in the order of the appends, also    *)
(* after later appends have flushed what an earlier one could not.         *)
NoHoles == file \o buffer = issued

(* The keys a command names. *)
KeysOf(cmd) ==
    CASE cmd \in DeleteCommand -> Entries(cmd.keys)
      [] cmd \in MSetCommand -> {item[1] : item \in Entries(cmd.items)}
      [] cmd \in SMoveCommand -> {cmd.source, cmd.destination}
      [] cmd \in FlushDbCommand -> {}
      [] OTHER -> {cmd.key}

(* An entry that may do something else when it is executed again later: a  *)
(* TTL relative to the clock or cut to seconds, a random draw, a deadline  *)
(* that has passed, or had before its entry was appended; and SMOVE, which *)
(* ties one key to another.                                                *)
Unrepeatable(cmd) ==
    \/ cmd \in SPopCommand \cup SMoveCommand
    \/ cmd \in SetCommand /\ cmd.expiry # None /\ cmd.expiry[1] \in {"Ex", "Px", "ExAt"}
    \/ cmd \in ExpireAtCommand /\ (cmd.op = "ExpireAt" \/ Ms * cmd.deadline <= now + drift)

Repeatable(k) == \A e \in Entries(file) : e # Torn /\ (Unrepeatable(e) => k \notin KeysOf(e))

(* After a crash at rest, and if no two writes overlapped, the replay      *)
(* brings every key back with its value and its deadline, less than a      *)
(* millisecond early and less than one late on top of the time writes      *)
(* waited for their append: the log has deadlines in whole milliseconds.   *)
(* Excepted are the keys of Unrepeatable entries and writes that leave no  *)
(* trace (UnloggedWrite).                                                  *)
Restored ==
    [][phase = "replay" /\ phase' = "serving" /\ before # None /\ faithful =>
          \A k \in Keys : Repeatable(k) =>
             LET old == before[k]
                 new == contents[k]
             IN  /\ new[1] = old[1]
                 /\ (new[2] = None) <=> (old[2] = None)
                 /\ old[2] # None => old[2] < new[2] + Ms /\ new[2] < old[2] + drift + Ms]_all_vars

-----------------------------------------------------------------------------
(***************************************************************************)
(* What the documentation or a comment of the code says and the code does  *)
(* not do.  Each is refuted by a run of its own.                           *)
(***************************************************************************)
(* A crash at rest changes nothing: the replay "applies all commands in    *)
(* chronological order. This way, the store is essentially re-built."      *)
(* (aof.rs:144)                                                            *)
ReplayRebuilds ==
    [][phase = "replay" /\ phase' = "serving" /\ before # None => contents = before]_all_vars

(* Mode Always loses nothing: "fsync after every write command. At most    *)
(* zero data loss".  (aof.rs:35)                                           *)
ZeroDataLoss ==
    [][phase = "replay" => \A a \in acked : ~(pos < a[1] /\ a[1] < pos')]_all_vars

(* A key the crash at rest found with a value has this value again or has  *)
(* expired: "The store is fully restored before any client can connect."   *)
(* (docs/dev/README.md:93)                                                 *)
OnlyOldValuesReturn ==
    [][phase = "replay" /\ phase' = "serving" /\ before # None =>
          \A k \in Keys : before[k][1] # None /\ Live(k) => data[k] = before[k][1]]_all_vars
=============================================================================
