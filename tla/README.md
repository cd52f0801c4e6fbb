# Thesaurus: a TLA+ model of the server

Thesaurus is an in-memory key-value server that speaks RESP2 and keeps an
append-only file (AOF). This directory holds TLA+ modules that model it, TLC
configurations that check them on small instances, and TLAPS proofs that hold
for every instance. `PROJECT.json` maps each definition to the lines it models
and lists runs, findings, hazards and theorems. Paths below are relative to
`src/crates/thesaurus/src/`.

## The system

| Part | State | Operations | Modelled in |
|------|-------|------------|-------------|
| Store (`store/`) | `data` and `expiry_index` behind one `RwLock` | about thirty methods; each takes the lock once | `Store` |
| Executor (`executor/`) | none; a command's local variables | one function per command, one or several calls of the store | `Executor` |
| TTL daemon (`ttl.rs`) | the sample of a round | sample, filter, delete | `Executor` |
| Handler (`handler.rs`) | one task per connection | decode, execute, append to the AOF, reply | `Executor` (execution), `Aof` (append, reply), `Lifecycle` (its task) |
| Command (`command/`) | none | the enum, parsing, `is_write` | `Types`, `Parser`; `is_write` in `Executor` |
| AOF (`aof.rs`) | the file, its buffer, the fsync task | append, fsync, replay at the start | `Aof`, over the abstract `DurableLog` |
| Lifecycle (`main.rs`) | permits, the set of handler tasks, the shutdown token | accept, drain, abort, final fsync | `Lifecycle`; the replay in `Aof` |
| RESP2 (`resp2.rs`) | the stream | decode, encode, conversion of EXPIRE for the AOF | `Resp2`; the conversion in `Aof` |
| Patterns (`pattern.rs`) | none | glob matching for KEYS | `Glob` |
| Configuration (`config.rs`) | none | defaults, file, environment | `Config` |
| Errors (`errors.rs`) | none | one value per kind of error | `Types`, `Parser`, `Resp2`, `Executor` |

Connections, the daemon and the fsync task are tokio tasks on several threads.
They share the store, the AOF writer and the semaphore of permits.
`Executor::execute` never awaits, but it takes the lock once **per store
method**, so whatever a command reads in one call may have changed by the next;
and the append takes another lock after that. Deadlines pass while nobody looks
(an expired key stays in both maps until the daemon draws it or a write replaces
it). A crash can come between any two of these steps. That is what makes the
code hard to test.

What makes each part correct:

* Store: all lookups agree on whether a key is live; a write to an expired key
  starts afresh; no empty lists; a deadline belongs to a key; a value never
  changes type under a collection command.
* Executor: commands made of several calls behave when others run in between;
  conversions between Unix times and `Instant`s keep deadlines; a reply that
  says "nothing happened" is true.
* Daemon: dead entries eventually go; live ones do not.
* Handler: what is kept out of the AOF has not changed the store.
* AOF: acknowledged writes survive what the fsync mode promises, failures leave
  no holes, and the replay rebuilds the store before a client is served.
* Lifecycle: no permit is lost, a shutdown ends and leaves nothing unsynced.
* Parsers, codec, matcher, loader: each computes what its grammar says, for
  every input.

## The modules

`Types` has the enums `Command` and `RespValue` that all others share.

**`Store`** has the variables `data`, `expiry_index` and the clock `now`, and
one operator per method of `Store`: a state function for what it returns
(`..._returns`, or the method's own name when it only reads) and an action on
the two maps when it writes. An absent key has the value `None`. The methods
compare the clock with a deadline one by one in the code, with `<` here and
`>=` there; the operators do the same and share nothing, so that
`ReadPathsAgree` has something to say. `smove` gets four clock readings `at`,
because the code reads the clock at each of its four lookups.

**`Executor`** extends `Store` by the connections, the daemon and the clock.

| Action | Code |
|--------|------|
| `Start` | `run_handler` has decoded a command that calls the store more than once |
| `SetRead`, `SetKeepTtl`, `SetWrite`, `SetExpire` | the four calls of `Executor::set` |
| `Delete`, `Exists`, `Push` | one argument of DEL, EXISTS, the four pushes |
| `TtlGet`, `TtlExists` | the two calls of `resolve_expiry` |
| `GetDel`, `MSet`, `Pop`, `LSet`, `SAdd`, `SRem`, `SMove`, `SPop`, `Persist`, `Expire`, `ExpireAt`, `FlushDb` | the writing commands with one call |
| `Read`, `Stateless` | the commands that only read; PING and SELECT |
| `Respond` | the reply is sent |
| `PoisonedCall`, `Reconnect`, `EvictorPanic` | panics, and a client that comes back |
| `EvictSample`, `EvictFilter`, `EvictDelete` | the three steps of `evict_expired` |
| `Tick` | the clock |

`conn[c]` holds the call a connection makes next (`pc`), its command and the
local variables of the function it is in; `reply[c]` what `execute` returned;
`touched[c]` is a history variable: some call of the current command changed
a key of the store, its value or its deadline. A panic ends the task of its
connection; a panic with the write lock held also sets `poisoned`, after which
every call of the store panics. `Executor` alone is the server with
`appendonly no`.

**`Aof`** extends `Executor`: the same handlers, with the append between
execution and reply, the file, the fsync task, crashes and the replay. The
replay executes through the same actions, with the caller `Startup` in the place
of a connection.

| Action | Code |
|--------|------|
| `Serve` | a step of `Executor` by a connection, while the server serves |
| `AppendWrite`, `AppendFails` | `AofWriter::append` up to its flush, which succeeds or fails |
| `AppendSync`, `AppendSyncFails` | its `sync_data` in mode `always`, under the same lock |
| `Answer` | `send_response`, after the append |
| `FsyncTick` | the `everysec` task; it does not flush the `BufWriter` |
| `Evict`, `Clock` | the daemon and the clock of `Executor` |
| `Crash` | process or machine stop; any prefix of the file that has the synced part stays, perhaps with a piece of the next entry (`Torn`) |
| `Replay`, `ReplayNext`, `ReplayTorn`, `ReplayEnd`, `OpenFails` | `sync_store_with_aof`, then `AofWriter::new` |

History variables: `issued` (what the writer took), `acked` (what a client was
told in mode `always`), `oldest` and `sync_error` (the window of `everysec`),
`faithful`, `drift` and `before` (what a replay has to bring back).

**`DurableLog`** is what an AOF promises, without files, buffers, clocks or
commands: a log that only grows while clients are served (`Grow`), a prefix of
it that is safe (`Secure`), a crash that keeps that prefix and leaves no gap
(`Crash`), and a replay that applies every entry in order (`Apply`) before
anyone is served (`Serve`), or a refusal to start (`Refuse`). `Aof` instantiates
it with

    log     <- the complete entries of the file
    safe    <- how many of them sync_data has covered
    applied <- how many of them the replay has passed

and the property `KeepsLog == DL!Spec` says that `Aof` implements it.

**`Lifecycle`** is the process after its start: `Accept`, `Acquire`, `Shutdown`
and `AcceptError` of the accept loop; `Receive`, `Execute`, `Send`,
`Disconnect`, `Panic` and `Aborted` of a handler's task; `DrainDone`,
`DrainTimeout`, `FsyncTick`, `FsyncFinal` (both of whose syncs may fail, which
only a log line tells) and `Exit`; and the outside world (`Connect`, `Signal`). What a command does is reduced to "may append". A signal
reaches a listener only while one exists: `shutdown_signal()` makes its
listeners anew in every turn of the loop and drops them when the accept branch
is taken.

**`Parser`**, **`Resp2`**, **`Glob`** and **`Config`** are the pure functions,
one operator per function of the code: the parsers of all commands over words,
decoder and encoder over bytes, the glob matcher over bytes, and defaults, file
and environment of the configuration. Where the code recurs, so do they, as
recursive functions: the decoder of n bytes calls that of n - 1 bytes, the
encoder of values nested d deep that of d - 1, the matcher of patterns of n bytes
that of n - 1. **`Draft`** has the one variable of their specification, the input
under construction, which grows by a word, setting, string or byte at a time, so
that TLC visits every input up to the bounds. **`Requests`** (parsers and
configuration), **`Protocol`** (codec) and **`Patterns`** (matcher) add to it and
state the properties, each of which compares a function with a second definition
of its result; **`Inputs`** puts the three together.

`MCExecutor`, `MCAof`, `MCLifecycle` and `MCInputs` give the constants of the
runs. The modules with `Proofs` in their names have the theorems, and
`Iteration` the lemmas on induction they share.

### Abstractions

* Keys, strings, set members and digests are model values or small numbers;
  a KEYS pattern is, outside `Glob`, the set of keys it accepts; the reply of
  SMEMBERS, SPOP, SRANDMEMBER (without repetition) and KEYS, whose order is that
  of a hash table, is a set of elements (`Unordered`); a word of a
  request is, outside `Resp2`, a value with tables of the numbers it spells
  (`U64Of`, `I64Of`, `U8Of`, `HexOf`). The texts of errors are left out.
* The Unix clock and `Instant` are one clock that counts ticks, `Ms` of them to
  a millisecond and `Sec` to a second. A tick is finer than a millisecond where
  `Ms > 1` (`Commands`, `Durability`), so that `as_millis` and `as_secs` truncate
  as they do in the code. The Unix clock is not adjusted. Because ticks are
  discrete, a clock reading can equal a deadline, which is where `<` and `>=`
  could disagree.
* A method that reads the clock just before or after it takes the lock does
  both in one step; the handler's conversion to PEXPIREAT reads it in the step
  of the append. `mget` reads the clock once for all its keys, the code once
  per key.
* The fsync task runs when its timer is due: the clock does not pass it by
  (`OnTime`).
* LPOP, RPOP, SPOP and SRANDMEMBER allocate as many elements as the client asks
  for, and panic beyond `MaxCapacity`: SPOP with the write lock held, which
  poisons it, the others without. Counts for which the allocator's answer
  depends on the machine are not modelled. Nor is the panic of a bulk string
  whose announced length is beyond the memory (`resp2.rs:253` allocates it before
  it reads): in the model such a length is an unexpected end of file.
* `Instant` overflows beyond `MaxInstant`. `ConstantsAssumption` says that a
  `u64` of milliseconds does not reach it and allows that one of seconds does,
  as on 64-bit Linux. The addition in the conversion to PEXPIREAT wraps, as in a
  release build.
* An entry of the AOF is whole until a crash cuts it; entries larger than the
  `BufWriter`, which it would write in pieces, are left out. A torn entry that
  other entries were appended to takes bytes of these: the replay executes some
  garbled command (any, `Decodes`), skips at least the first of them or stops
  with an error (`ReplayTorn`). That the entry behind it is never read as itself
  is `TornEntryIsNoEntry`, a statement about the bytes, which is proved.
* A failed `sync_data` leaves the file as it was: nothing is assumed lost, or
  safe, that was not before. In `Lifecycle` it leaves `unsynced` as it was.
* A panic during the replay (which ends the process) is not modelled.
* Text is ASCII, and an integer of the codec has no largest value: invalid UTF-8
  and numbers beyond `i64` are left out. A `SimpleString` with a line feed in it does not decode to
  itself; `RoundTrip` excepts it.
* In `Lifecycle`, the semaphore is closed only by the branch that leaves the
  loop, so the `else` of its `acquire` is unreachable and left out; the
  daemon's end at the shutdown touches nothing and is left out as well.
* Reading the configuration file and selecting the environment variables belong
  to the `config` crate: `Config` starts from the texts each source gives. That
  the variables the crate selects by the prefix `THESAURUS_` (`config.rs:81`) are
  the ones a user would set is assumed, not checked.

## The runs

With two workers the longest takes about three minutes. Bounds: `MaxTime` stops the clock,
`MaxLen` stops pushes that *start* on a long list (two connections can still
exceed it), `U64Max` bounds the arguments of commands, `MaxLog` the entries in
the file, the buffer and in flight, `MaxCrashes` the crashes.

| Run | Properties | What it shows |
|-----|------------|---------------|
| `Interleavings` | `TypeOK`, `NoOtherUnloggedWrite`, `SMoveDelivers`, `ExpiredStaysDead`, `WriteIsVisible`, `NoEmptyList`, `KindStable` | two connections on two keys, call by call, with the daemon and the clock, which also moves inside SMOVE: what the AOF does not get did nothing, except in the ways below; a successful SMOVE delivers; an expired value returns only through a call that sets a deadline without a look at the old one; no write goes into a dead entry; no list is left empty; no live value is replaced by one of another type |
| `Commands` | `ReadPathsAgree`, `DeadlineHonoured`, `ExpireTimeFaithful`, `ListWindow`, `ExpiredIsReclaimed` | the commands `Interleavings` does not send, from one connection, with the daemon and a clock finer than a millisecond: the lookups agree; LRANGE and LINDEX return the slice their bounds denote; absolute deadlines are never early, late by less than their unit, and read back as set or one less; every dead entry of the index goes, also when entries without a key compete for a sample of one, unless a poisoned lock ends the daemon |
| `Durability` | `AofTypeOK`, `NoOrphanTtl`, `AckedSurvives`, `EverySecWindow`, `NoHoles`, `Restored`, `KeepsLog` | two connections, failing disk, crash and torn write: acknowledged writes of mode `always` stay in the file; `everysec` leaves at most a second unsynced; a failed append leaves no hole; a crash at rest restores every repeatable key; `Aof` implements `DurableLog` |
| `Lifecycle` | `TypeOK`, `PermitAccounting`, `CleanExitIsSynced`, `DrainEnds`, `SignalStopsUnlessLost` | three clients and two permits: permits are never lost; a drain ends; only what an aborted task appended can be unsynced at the exit, unless the final sync fails; a signal stops the server unless it falls between two listeners |
| `Inputs` | `RequestsAreAnswered`, `SetOptionsGrammar`, `SettingsTakePrecedence`, `RoundTrip`, `TornEntryIsNoEntry`, `GlobFindsMatches` | every request, configuration, frame and pattern up to the bounds: which requests are accepted, and as which command; which options of SET are; whose setting counts; frames are read back; a torn entry is no entry; KEYS finds the matches there are |

Why the bounds are enough:

* `Interleavings`: two connections (with symmetry) are a command and an intruder
  between its calls, which is what each of its properties is about; one tick is
  enough for live and dead.
* `Commands`: milliseconds of two ticks, seconds of four and a clock up to 4, so
  that deadlines are asked for before, in and after their second and at every
  offset into it; `ListWindow` takes every pair of list bounds up to one beyond
  either end; `SampleSize = 1` makes two entries compete. One connection is
  enough: none of its properties is about two (the interleavings are those of
  `Interleavings`, and the theorems have no such bound).
* `Durability`: two connections and `Startup` on one key, milliseconds and seconds
  of two ticks, a clock up to 3, two entries, a buffer of one and one crash. That is a failed
  append followed by a good one, an unsynced second entry, a crash that cuts it
  and a restart after a deadline. `SampleSize` is 0, so the daemon evicts nothing
  in this run; that evictions add nothing to what `NoOrphanTtl` excludes is part
  of the theorem `RestartsLeaveNoOrphans`. `CrashAfterTorn` is false: a second crash after
  a torn tail is what the run `TornTail` is about.
* `Lifecycle`: a third client waits for one of two permits.
* `Inputs`: four words after a name and four after a SET's value (two options
  with operands, or an operand that spells an option); five strings and bytes of
  a frame, plus one string whose length has two digits, in arrays nested two deep
  (`MaxDepth`); patterns of four bytes of all kinds (`MaxMixed`) and of six of
  letters and stars (`MaxPattern`), which makes more stars than `MAX_DEPTH = 2`
  (1000 in the code) can search. The theorems about these properties have no
  such bounds.

Fairness. `Commands`: the daemon is weakly fair (tokio's interval fires again
and again and a round does not block), and drawing a given entry of the index is
strongly fair (the sample is uniform at random, so an entry that is there at
infinitely many samplings is drawn with probability one). A panic on a poisoned
lock ends the daemon for good, so `ExpiredIsReclaimed` promises nothing after
one. `Lifecycle`: main and
the fsync task are weakly fair, as are the timer of the drain, a command that
executes and the abort of a task; the shutdown branch is strongly fair, because
`select!` picks a ready branch at random. Nothing is assumed of clients: they may
stay connected and silent for ever.

### Writes the AOF misses

The handler appends a command if it is in `is_write` and its reply is neither an
error nor `Integer(0)`. `NoOtherUnloggedWrite` says that a command which is not
appended has changed no key, except in these ways, each of which the run
reaches: LSET (not in `is_write`); GETDEL of a list or set, which deletes and
then replies WRONGTYPE; EXPIREAT in the past, which deletes and replies 0; SET
whose deadline overflows, after the value is written (an error for EX, a panic
for EXAT); a push of several elements of which a later one fails; any command
cut short by a poisoned lock.

`Restored` says what a replay brings back all the same. Besides those writes and
writes that overlapped, it excepts keys named by an entry that does something
else when it is executed later (`Unrepeatable`): SET with EX or PX, which counts
its TTL anew, EXAT and EXPIREAT, which are cut to seconds, SPOP, which draws other
members, SMOVE, which ties one key to another, and deadlines that passed before
the replay. Among the last are the deadlines of very long EXPIREs and PEXPIREs,
which wrap into the past when they are logged (`resp2.rs:208`).

### Where the code and its documentation disagree

Each of these runs checks one statement of the documentation or a comment, and
TLC finds it violated by a behaviour of a few steps.

| Run | Statement | What happens |
|-----|-----------|--------------|
| `NxRace` / `SetConditionHolds` | NX: "Only set if the key does not already exist." | two SET NX both succeed |
| `EvictRace` / `EvictsOnlyExpired` | "evicts the expired ones" | a key set again during a round is evicted alive |
| `Poison` / `NeverPoisoned` | an arm of `smove` is unreachable | its source expires between two lookups: the lock is poisoned |
| `LogOrder` / `ReplayRebuilds` | the replay "applies all commands in chronological order" | two SET are appended in the other order than executed |
| `TornTail` / `ZeroDataLoss` | `always`: "At most zero data loss" | entries acknowledged after a torn tail are not replayed |
| `Refused` / `OnlyOldValuesReturn` | "The store is fully restored" | a SET NX that was refused is logged, and the replay accepts it once the key has expired |
| `Defaults` / `DefaultsApply` | `lazyfree-lazy-user-flush` has the default `no` (`README.md:54`) | the default is set under another spelling (`config.rs:13`, `config.rs:94`): a configuration without the setting does not load |

Three more have no run of their own. A shutdown signal can be lost between two
listeners (`docs/dev/README.md:21` has it lead to the break): the passing
property `SignalStopsUnlessLost` states when. At the very instant of a deadline,
TTL and its kin answer 0 for a key that every other command finds dead
(`executor/mod.rs:267` has -2 for it), which is why `ReadPathsAgree` leaves them
out. And SPOP of a very large count poisons the lock as SMOVE does in `Poison`,
without a document that denies it.

`NoOrphanTtl` passes where no LPOP or RPOP is sent, and the theorem
`PopsAloneOrphanTtls` proves that they are the only cause: `pop_inner` removes
an emptied list and leaves its deadline, so TTL then answers for a key that
does not exist.

## The proofs

The theorems hold for all sets of keys, strings, clients and commands and for
all bounds, on these assumptions, which TLC evaluates on the runs:

* `NoneAssumption` (`Store`): `None` is no value, number or string.
* `ConstantsAssumption`, `CommandsAssumption` (`Executor`): the types of the
  constants; `MembersAssumption`: an SADD or SREM names finitely many members
  (it arrived in a message), without which its reply would count nothing.
* `AofAssumption` (`Aof`): the PEXPIREAT that an EXPIRE becomes is a command;
  `Torn` and `None` are none.
* `LifecycleAssumption` (`Lifecycle`): finitely many clients.
* `ParserAssumption`, `ConfigAssumption`, `Resp2Assumption`, `GlobAssumption`: the
  types of the tables of numbers and of the bounds, `None` is no word, number,
  flag or value, and the number the defaults spell is one.
* `RequestsAssumption`, `ProtocolAssumption`, `PatternsAssumption`: the words and
  bytes an input is made of are words and bytes, `SettingTexts` names settings,
  each once, arrays may nest two deep.

| Module | Theorem | Statement |
|--------|---------|-----------|
| `ExecutorProofs` | `TypeCorrect` | `Spec => []TypeOK` |
| | `NoListIsEmpty` | `Spec => []NoEmptyList` |
| | `WritesAreVisible` | `Spec => WriteIsVisible` |
| | `PopsAloneOrphanTtls` | `Spec => []NoOrphanTtl` if no command is LPOP or RPOP |
| | `KindsAreStable` | `Spec => KindStable` |
| `ExecutorStepProofs` | `ReadsAgree` | `Spec => []ReadPathsAgree` |
| | `ExpireTimesAreFaithful` | `Spec => []ExpireTimeFaithful` |
| | `ListWindows` | `Spec => []ListWindow` |
| | `WritesAreLogged` | `Spec => []NoOtherUnloggedWrite` |
| | `DeadlinesAreHonoured` | `Spec => DeadlineHonoured` |
| | `SMovesDeliver` | `Spec => SMoveDelivers` |
| | `ExpiredValuesStayDead` | `Spec => ExpiredStaysDead` |
| `LifecycleProofs` | `LifecycleTypeCorrect` | `Spec => []TypeOK` |
| | `PermitsAreAccounted` | `Spec => []PermitAccounting` |
| | `CleanExitsAreSynced` | `Spec => []CleanExitIsSynced` |
| `AofProofs` | `AofTypeCorrect` | `AofSpec => []AofTypeOK` |
| | `AppendsLeaveNoHoles` | `AofSpec => []NoHoles` |
| | `AcknowledgedWritesSurvive` | `AofSpec => []AckedSurvives` |
| | `EverySecIsASecond` | `AofSpec => []EverySecWindow` |
| | `RestartsLeaveNoOrphans` | `AofSpec => []NoOrphanTtl` if no command is LPOP or RPOP |
| | `FileKeepsLog` | `AofSpec => KeepsLog` if `~CrashAfterTorn` |
| `RequestsProofs` | `RequestsAnswered` | `Spec => []RequestsAreAnswered` |
| | `SetGrammatical` | `Spec => []SetOptionsGrammar` |
| | `SettingsPrecede` | `Spec => []SettingsTakePrecedence` |
| `ProtocolProofs` | `EveryValueRoundTrips` | every value that can be sent is decoded as it was encoded, and what follows it is left |
| | `FramesRoundTrip` | `Spec => []RoundTrip` |
| | `EveryTornEntryIsNoEntry` | `TornIsNoEntry` of every request and every cut |
| | `TornEntries` | `Spec => []TornEntryIsNoEntry` |
| `PatternsProofs` | `EveryPatternFinds` | `FindsMatches(p, s)` for every pattern up to `MaxPattern` and every string |
| | `PatternsFind` | `Spec => []GlobFindsMatches` |

*Types of the executor.* `TypeOK` is inductive because of `InFlightOK`: which
command a connection can be in at each `pc`, that its position lies within its
arguments and that a KEEPTTL about to be applied has a deadline. The proof
splits it into three parts by variable (`DataTyped`, `ConnTyped`, `RestTyped`)
and has one lemma per store method and one per action.

*The store.* `StepCallsStore` shows that every step either leaves both maps
alone or is one call of one method (`StoreCall`), with typed arguments. So a
property of the maps needs one lemma over the methods (`StoreCallNoEmptyList`,
`StoreCallWriteIsVisible`, ...), not one over the actions. `NoEmptyList` and
`NoOrphanTtl` are inductive together with `TypeOK`; `WriteIsVisible`,
`KindStable` and `ExpiredStaysDead` follow from `TypeOK` alone, that is, they
hold of a single call from any typed state, which is what "checked under the
same lock" means.

*What reads return.* `ReadPathsAgree`, `ExpireTimeFaithful` and `ListWindow`
are consequences of `TypeOK`: the lookups, the divisions by `Sec` and `Ms` and the
clamping of list bounds are compared with their meaning for all lists and
deadlines.
`ListWindow` counts the positions of a slice, so its lemmas are about
cardinalities of intervals.

*What is not logged.* `NoOtherUnloggedWrite` speaks about a command that has
its reply, but the change may have come calls earlier. The inductive invariant
is `Recorded`: the property itself, and `CallsSoFar` for a command in flight: a
SET has touched nothing before its write, a DEL that has touched a key has
counted it, a push that has touched its list has more than one element. The
lemmas about the commands relate what a store method returns to whether it
changed anything.

*The lifecycle.* `PermitAccounting` needs that the connection main holds while
it waits for a permit has no task yet (`PendingHasNoTask`), and a lemma on how
the cardinality of the set of tasks changes when one connection does.
`CleanExitIsSynced` needs `ShutdownOrder`: `abort_all` comes after the drain,
every task that is left then is an aborted one, and the fsync task ends after
that, with a sync that covers the rest or sets `sync_error`.

*The file.* `AofInv` is inductive. Its parts: `LogTyped`; `BufferAtRest` (no
`BufWriter` during a replay); `OwnCommands` (a connection executes what it
sent, so its entry is a command the replay can execute: `EntryIsCommand`);
`Placed` (the entry of an acknowledged command lies in the *synced* part, and
that of a command about to be acknowledged too, which is what makes
`AckedSurvives` inductive: a crash may take the rest); and `Timed` (the fsync
task is due within a second of the oldest entry it has not synced).
`ServerSteps` shows that every step of `Aof` but the crash is one of
`Executor` or leaves it alone, so that the results about the executor carry
over.

*The refinement.* The log of `DurableLog` is `Complete(file, Len(file))`, a
recursive function that drops cut-off entries. The library's induction
theorems cannot be instantiated by the installed provers; the proof uses its
minimum principle for well-founded relations on a *set* of numbers
(`NumbersByInduction` in `Iteration`), which needs no operator parameter, and
derives from it that the recursion has a solution (`KeepsExists`), that `Complete` depends on the
entries looked at only (`CompleteOfPrefix`) and that it grows by a suffix
(`CompleteGrows`). Two more invariants connect replay and file: `AtReplay` (the
command `Startup` has executed is one the decoder can make of the entry at
`pos`) and `TornLast` (before
the server serves, a cut-off entry is the last). Each action then maps to one
of `DurableLog` or to a stutter. `TornLast` is why the theorem has the
hypothesis `~CrashAfterTorn`: a crash with a cut-off entry already in the file
leaves entries behind it which the replay skips, and the statement is then
false (run `TornTail`).

*Requests and settings.* The state is typed (`WellFormed`) and everything else
is about a function of it. `EveryRequestIsAnswered` has one lemma per parser: the
arity check comes before the words it guards. The loop of `parse_set_command` is
a recursive function of the turn; its invariant says what the turns so far have
made of the options before the position they have reached, and that this
position is one of `OptionPositions`, so that an operand is never taken for an
option. `EverySettingTakesPrecedence` follows each setting through the layers of
`build` and the conversions.

*The codec.* A number that is written in decimal is read back, and holds no line
feed; so the header of a frame ends where it was written to end, whatever the
strings behind it hold. `EveryValueRoundTrips` is then an induction over the
depth of a value, with one over the items of an array inside it: each item is
read back with the items after it as its rest, and the decoder of n bytes
answers as that of more bytes does.

*Torn entries.* A proper prefix of an entry fails to decode by cases: the cut is
in the header, in the header of a string, in a string or behind one. That the
entry behind it is not read as itself uses that the decoder looks at nothing it
does not take (`TailIsTaken`): had it left the whole of the appended entry, it
would have decoded the torn part alone, which fails.

*The matcher.* What a pattern covers (`Covered`) is defined over the pattern
alone, with the number of searches that an inner star takes. The induction over
the length of the pattern needs three facts about an answer at once (`Finds`): a
match is one; a match that takes no more searches than are left is found; and
an answer that sets `skip_longer_matches` without a match says that the pattern
covers *no suffix* of the string. The third is what the comment at
`pattern.rs:61` argues, and what makes it sound that one failed inner search
stops all the others: the offsets before the one that stopped the search were
tried, those after it are suffixes of it.

Only model-checked:

* `ExpiredIsReclaimed`, `DrainEnds` and `SignalStopsUnlessLost`: liveness under
  fairness is out of the prover's reach.
* `Restored`: that the replay of a log gives the store it was written from is an
  induction over the log with the whole executor as its step, and its hypotheses
  (`faithful`, `drift`) relate two executions of that executor, the one that
  wrote the log and the one that replays it.

## Plan

`Restored` for a log of commands on distinct keys, as a first step of its proof;
entries larger than the buffer of the `BufWriter`, which reach the file in
pieces.

## Not modelled

The integration tests, which were read for what the commands promise; log
output and the wording of replies; the command line, which only names the
address and the configuration file; the `config` crate, tokio and the kernel
except for how the code uses them.
