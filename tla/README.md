# fn_log in TLA+

fn_log is a C++ logging library.  Threads of an application write log records
into *channels*; each channel keeps them in a lock-free ring buffer and hands
them to its *devices* (files, screen, UDP).  A logger is configured by a YAML
text that may be reloaded while it runs, and its rings may live in SYSV shared
memory, from which a restarted process recovers them.

This directory holds TLA+ modules that model the parts of the library in which
the order of steps matters, TLC configurations that check them, and TLAPS
proofs about them.  Line numbers refer to the files under `src/`.

## Inventory

| Component | State | Operations | Hard parts |
|---|---|---|---|
| Ring of a channel (`fn_channel.cpp`, `fn_logger.h`) | `hold_idx_`, `write_idx_`, `proc_idx_`, `read_idx_`, `data_mark_` and text of each slot, counters, `channel_state_` | `HoldChannel`, `InitLogData`, `PushChannel` (producers); `EnterProcChannel` (the channel's thread) | lock-free indices that wrap, out-of-order completion, a full ring, a stop at any moment |
| Shared memory (`fn_load.cpp`) | the segment: channels and rings | `LoadSharedMemory`, `UnloadSharedMemory` | death of the process between any two stores, also during recovery |
| Life cycle (`fn_startlog.cpp`, `fn_core.cpp`, `fn_logger.cpp`) | `logger_state_`, `channel_state_`, `state_lock`, `async_threads` | `StartLogger`, `StopLogger`, `ParseAndStartLogger`, `LoadAndStartLogger`, `StartChannels`, `StopChannels`, `CleanChannels`, `~Logger` | several callers, joins under a lock, a start that times out, synchronous writers during a stop |
| Hot update (`fn_load.cpp`) | configuration fields, `device_size_`, `yaml_mtime_`, `last_hot_check_`, `hot_update_` | `HotUpdateLogger`, called by the channels' threads | takes `state_lock`; writes word by word what producers read; the file may be half-written, and be saved twice in one second |
| Run-time setters (`fn_core.cpp`) | the same fields | `SetChannelConfig`, `SetDeviceConfig`, `BatchSetChannelConfig`, `BatchSetDeviceConfig` | take no lock |
| Synchronous channels (`fn_channel.cpp`) | the same ring, `read_locks_` | the producer runs `EnterProcChannel` itself | a stop that does not wait for it; several producers |
| File device (`fn_out_file_device.h`, `filehandler.cpp`) | the open file, `log_fields_` of the device, the files on disk | `EnterProcOutFileDevice`, `OpenFileDevice`, `rollback` | failed opens and writes, logs out of order at midnight, sizes after a restart |
| Filters (`fn_channel.cpp`) | the same fields | `BlockInput`, `DispatchLog` | the same tests written twice; read word by word while others write; shift widths |
| Log stream and formatting (`fn_stream.h`, `fn_fmt.cpp`) | the slot's text, a per-thread date cache | `LogStream`, `write_*` | truncation, signs, the date cache |
| Parser (`fn_parse.cpp`) | lexer state | `Lex_Line`, `ParseLogger`, `ParseChannel`, `ParseDevice` | block type changed in three places for one character; lines handed back to the caller by their indentation |
| Screen, UDP, virtual devices | none | one write or send per log | pure output |

Interaction: producers and the channel's thread share only the ring; the
channel's thread runs the devices and polls for hot updates; starting and
stopping go through `state_lock`, `channel_state_` and thread joins; recovery
runs before any thread exists.  The configuration is read by producers and by the
channel's thread, and written by that thread and by the application, word by word.

What makes each part correct: the ring delivers each log once, complete, in
claim order, strands none and gives no slot to two users; recovery skips
nothing, repeats at most one log per crash and keeps published texts; the parser
accepts what has the form of a configuration and gives each setting to the item
it is indented under; an update takes one parsed file whole, reaches every
channel in the end, and a log is taken by the device that let it in; the life
cycle never leaves a thread or a running channel behind, cleans up alone, and
returns; the file device loses only what rolled out, keeps its files in order
and within their limits.

## Modules

| Module | Content |
|---|---|
| `LogQueue` | what a channel promises: a bounded queue of logs that are claimed, completed in any order, published and delivered in claim order |
| `RingChannel` | one asynchronous channel, every load, store and compare-exchange that another thread can notice |
| `RingChannelProofs` | theorems about `RingChannel`: order, ownership, delivery, refinement; that no ready log is stranded and a stop drains; that the counters agree with the ring |
| `ShmRecovery` | `RingChannel` in shared memory, with crashes and recovery |
| `RecoverableQueue` | what a channel in shared memory promises: `LogQueue` whose users may all die; nothing is lost, a log not yet given back comes again |
| `ShmRecoveryProofs` | theorems about `ShmRecovery`: order, what is repeated, texts, refinement |
| `ChannelRestart` | `RingChannel` stopped, cleaned by `CleanChannels` and started again |
| `LoggerControl` | callers that load, start, stop and destroy the logger, the channels' threads, synchronous writers, hot updates |
| `LoggerControlProofs` | theorems about `LoggerControl` |
| `FileDevice` | one file device and its files |
| `FileDeviceProofs` | theorems about `FileDevice` |
| `ConfigParser` | the parser as operators, from a text to channels, devices and an error code |
| `ConfigParserProofs` | what every accepted text gives |
| `LexerProofs` | that `Lex_Line` finds the entry on a line of any length |
| `ConfigLinesProofs` | that settings reach their item in a file of any number of lines, and what the beginning of a file says of the whole |
| `ConfigParserCheck` | the same results defined without the parser's automata, and the texts on which the two are compared |
| `ChannelConfig` | producers, channels' threads, setters and an editor over one configuration |
| `ChannelConfigProofs` | theorems about `ChannelConfig` |
| `...MC` | the instances TLC checks |

Definitions whose comment says *slip* (`HoldStore`, `AttachKeepsProc`, ...) are
variants of an action with a defect that a change to the code could bring in.
No specification uses them.  Putting one in the place of the action it follows
makes TLC report a violation, which shows that the property named beside it in
`PROJECT.json` watches that code.

### RingChannel

`hold`, `write`, `proc`, `read` are the four indices of `RingBuffer`, unwrapped:
the code's index is `Idx(n) = n % BUFFER_LEN`, and every comparison in the model
compares wrapped indices, as the code does.  `pc[p]` is where a producer is:

| Action | Code |
|---|---|
| `BeginLog` | `BlockInput` lets the log through (`fn_channel.cpp:160-168`) |
| `HoldState`, `HoldLoad`, `HoldFull`, `HoldCas`, `HoldMark` | `HoldChannel` (246-279) |
| `InitLogData` | `InitLogData` and what `LogStream` appends |
| `PushState`, `PushReady`, `WriteLoad`, `WriteHold`, `WriteMark`, `WriteCas`, `WriteCount`, `WriteAgain` | `PushChannel` (283-318) |
| `Take`, `DispatchLog`, `ClearMark`, `FreeSlot`, `Settle`, `Poll` | `EnterProcChannel` (79-152) |
| `StopChannel` | `StopChannels` asks the thread to finish (`fn_core.cpp:102-105`) |

The text of a log is abstracted to whose it is and whether it is complete.  The
bounded inner loop of `HoldChannel` and its sleep are one unbounded retry.
Memory is sequentially consistent: the indices are `std::atomic` with
acquire/sequentially consistent accesses; `channel_state_` is a plain
`unsigned` that several threads read and write, taken here as if it were
atomic.  `proc_idx_` and `read_idx_` have one writer, so their loads and
compare-exchanges are one step.

**Lap freedom.** The compare-exchanges compare wrapped indices.  `NoLap` says that
no thread sleeps between loading an index and exchanging it while the others
take that index once round the ring.  `LapFreeSpec` is `Spec` with that
assumption; the code does nothing to enforce it, and run `ring_lap` shows what
happens without it.  With the default of 1000 slots it takes a thread
descheduled for a thousand logs.

### ShmRecovery

`Crash` removes all threads at any step and keeps the segment.  `RecoverSlot` is
one round of the loop in `LoadSharedMemory` (75-87), `Attach` the rest up to the
new threads.  A crash may hit the recovery as well.  `recovered` remembers which
logs were published by the recovery and not by their author, `orphans` which of
them had not been begun or not been completed by their author when it died.  What a
slot holds survives with the segment, so an unbegun log is recovered with an older
text (`RecoveredText`).  The text `!!!core recover!!!` and the priority that
recovery stores are not told apart from the rest of the text.

### LoggerControl

One step per access to `logger_state_`, `channel_state_`, `state_lock` or a join.
`thread[c]` is the channel's thread in `EnterProcChannel`, or for a synchronous
channel the one application thread that writes to it.  A thread may be
arbitrarily late, so a start may time out (`AwaitTimeout`) although nothing is
wrong.  That the recursive lock is taken again by `StartLogger` inside
`ParseAndStartLogger` needs no step.  Which channels are synchronous does not
change between loads: a reload that changes it while a writer is inside
`EnterProcChannel` is not modelled.  `~Logger` runs when nobody else uses the
logger.

### FileDevice

One step per log: the channel's thread runs a device alone.  Files are sets of log
numbers under `<<name, depth>>`; `Rolled` is what the recursion of
`FileHandler::rollback` does to a whole chain of backups.  An open or a write may
fail; a failed write or a crash loses a suffix of the buffered logs.  A log may be
stamped one time unit before the one ahead of it, because slots are claimed
before they are stamped.  `DAY` and `RETRY` are small stand-ins for 24 hours and
five seconds.  Not modelled: a configuration that changes while a file is open, a
rename that fails, a crash inside `rollback`, days that are not 24 hours long.

### ConfigParser

A text is a sequence of symbols: punctuation and digits one by one, a run of
letters as one symbol, any line end as `eol`, an unknown character as `other`.

| Operator | Code |
|---|---|
| `Class`, `Follow`, `LexChar`, `Lex_Line` | the loop of `Lex_Line`, its block types as a table |
| `Reserved` | `ParseReserve`, which looks at a few letters only, so that some other words pass for keys |
| `ParsePriority`, `ParseBool`, `Atoi`, `ParseBitArray`, ... | the conversions |
| `LevelOf` | where `ParseDevice` and `ParseChannel` hand a line back (`fn_parse.cpp:433`) |
| `ParseDevice`, `ParseChannel`, `ParseGlobal` | the three switches, with their errors |
| `ParseLines`, `ParseLogger` | the loop of `ParseLogger` |

The code reads a line by a recursive descent; here the recursion is a level kept in
the state and the lines are folded, so that no operator is recursive.

`ConfigParserCheck` defines by quantifiers what a line must look like (`IsEntry`,
`IsEmpty`) and where a line belongs (`ParentOf`, `IndexOf`, `PriorityIn`), and lists
the texts on which the parser says something else (`Misread`, `Misnested`).
`Parsed` and `Parts` tabulate every beginning of each configuration file, for an
editor writes them piece by piece.

### ChannelConfig

A configuration is a set of plain `long long` words.  Each word is read and written
whole, and the words are read and written in the order the code has.

| Action | Code |
|---|---|
| `BeginLog`, `ReadChannel`, `ReadSize`, `ReadDevice`, `Return` | `BlockInput` (`fn_channel.cpp:154-236`), one word per step |
| `Drained`, `Sleep`, `LookAtFile` | `EnterProcChannel` with an empty ring; `HotUpdateLogger` up to the lock |
| `LoadConfig` | the lock, the time, the parse and the tests (`fn_load.cpp:251-277`) |
| `CopyWord`, `EndUpdate` | the copies (278-311), `<<d, "NEW">>` being `device_size_++` |
| `SetCategory` | `LogStream::set_category` while the author holds its slot (`fn_stream.h:159`) |
| `DispatchLog` | `DispatchLog` by the thread that is the only one to update this channel; `Takers` are the devices it hands the log to, `Writers` those for which `EnterProcDevice` (16-32) does something |
| `SetConfig`, `BeginBatch`, `BatchChannel`, `BatchDevice` | the setters, a store at a time and without a lock |
| `BeginSave`, `WriteFile`, `Tick` | external: an editor that empties the file and writes it in pieces, and the clock |

`pc[c]` is the place of a channel's thread: draining its ring, looking at the file,
waiting for the lock, copying.  A word that is stored with the value it already has
is no step of its own.  `touched` remembers which words the application set;
`changes` how often the configuration changed under a call.  An entry of the ring
(`Pushed`) is the log as its slot has it, with a record of how it got in: `asked` is the
log as `BlockInput` tested it, `by` the device that let it in, `writes` whether
that device had an output, `stale` whether a word of that device changed since the call
began to read it.  `DispatchLog` is one step: a setter that stores between its device
tests is taken as before or after it.  Modification times are whole seconds, as in
`st_mtime`.  The logger stays in `LOGGER_STATE_RUNNING`; its stop against a hot
update is in `LoggerControl`.

## Runs

| Run | Shows | Bounds |
|---|---|---|
| `ring_safe` | safety of the ring and refinement of `LogQueue` | 2 producers, 3 slots, 4 logs |
| `ring_live` | every claimed log is delivered; a stop finishes | 2 producers, 3 slots, 2 logs |
| `ring_lap` | **violation**: two users of one slot without lap freedom | as `ring_safe` |
| `shm_recovery` | safety across crashes and refinement of `RecoverableQueue` | 2 producers, 3 slots, 3 logs, 2 crashes |
| `shm_live` | every claimed log is dispatched in the end | 2 producers, 2 slots, 2 logs, 1 crash |
| `restart_stale` | **violation**: a stale mark publishes an unfinished slot | 2 producers, 3 slots, 2 logs, 1 restart |
| `control` | life cycle, hot update, joins, return of calls | 2 callers, 2 channels, 3 calls |
| `control_hotupdate` | **violation**: stop and hot update wait for each other | 2 callers, 2 channels |
| `control_timeout` | **violation**: a timed-out start never returns | same |
| `control_sync` | **violation**: a synchronous writer restarts a stopped channel | same |
| `config` | what the parser accepts and builds; updates, setters and filters | 3 files, 2 channels, at most 2 devices each, 1 producer, budgets below |
| `file_device` | files in order, bounded, of one day; nothing lost early | all options, 4 logs, 2 days, 1 failure, 1 restart |

Why the bounds suffice.  Three slots hold two logs, so four logs wrap the ring, fill
it and reuse slots; two producers already race on both compare-exchanges and
leave `PushChannel` trusting each other.  `RingChannel` was also run with three
producers and three logs, with the same result; and the theorems below cover
every size.  In `shm_live` two slots hold one log, so the second log wraps the
ring.  Two crashes are one between any two steps of the program and one
during the recovery from it.  Three calls plus the destructor's stop reach a load, a stop, a
second start and a stop, with both callers inside them.  Four logs fill a file
and two backups and push the oldest out.

In `config` the lexer is compared on every line of at most four symbols out of nine
(an entry needs three; the theorem `LexerIsRight` takes any number) and on every line
of the three files with one symbol typed wrong, too much or left out; the nesting on every file of at most four lines out of
ten and on the three files with a line removed or indented otherwise.  The three
files differ as an update can: words of a channel and of a device moved, a device
without an output added, a device disabled, hot updates turned off, a virtual device,
and a comment and a filter.  A log may be given one other category on its way
(`Categories`), which some devices of the files take and others do not.  A run
takes one of five budgets: two saves in two seconds; a save that pauses half-written;
a log, or a setter, against an update; a log against two setters.  One producer is
enough, since `BlockInput` only reads.  Logs have one dimension, the category: the
code has the same lines for the identify.  Masks have four bits for 64.  The first
file must be acceptable (`ConfigAssumption`), for the logger runs with it, and a save
brings another text than the last one.

### The properties

*Ring.* `IndexOrder`: no index overtakes another, no claim reaches an unreturned
slot.  `SlotExclusive`: one user per slot.  `DeliveredInOrder`: once, complete, in
claim order.  `NoStrandedLog`: while the channel runs, a ready log at
`write_idx_` has a producer that will publish it.  `StopDrains`: what was
published when the stop came is delivered.  `CountersAgree`: the counters never
run ahead of the claims, and match the ring when it is quiet.
`ImplementsQueue`: refinement of `LogQueue`.  `ClaimedIsDelivered`,
`StopTerminates`: liveness.

*Recovery.* `NothingSkipped`, `RepeatsBounded` (one repetition per crash),
`PublishedIntact`, `RecoveredText` (a recovered log has its own text, or what its
slot delivered before if it was not begun).  `ImplementsRecoverable`: refinement of
`RecoverableQueue`.  `ClaimedSurvivesCrash`: liveness.  `RecoveredOrder`, the order of
the four indices whatever dies, was checked on the same instance before the refinement
took its place in the run; it is proved.

*Configuration.* `LexerFindsEntries` and `NestingFollowsIndent`: the parser agrees
with the definitions of `ConfigParserCheck`.  `HalfWrittenIsPartial`: a beginning of
a file that is accepted is a beginning of its configuration, with `hot_update` as in
the whole or off.  `UpdateIsWhole`: between
updates a channel has what one parse of one content of the file says.
`LetInIsTaken`: the device by whose words `BlockInput` let a log in is one to which
`DispatchLog` hands it, and it writes the log if it had an output when the log was
pushed, whatever became meanwhile of the channel's words and of the other devices.
Two kinds of logs are excepted.  One has met a change of a word of that very device since
the call began to read it.  The other was given another category by `set_category` after
it was let in: `BlockInput` never tested that category, and the log may be taken by no
device (without this exception the run finds such a log; likewise without the first).
The property does not say that a log that was let in is written somewhere: neither filter
looks at `out_type`, so a log may be let in by a virtual device or by one without an
output, which is the default (README.old:248), and be written nowhere.
`OneChangeIsAtomic`: a
call of `BlockInput` under which at most one word changes, or a device is added,
answers as the old or as the new configuration does.  With two changed words it need not: it
may test the low end of the old range and the length of the new one.
`OffMeansOff`: once hot updates are off none begins.  `Converges`: the last file
saved reaches every channel that can tell it from the one it has, by its
modification time or by a look taken in an earlier second.  Excepted is a logger whose
`hot_update_` was turned off: the first channel that reads a file without
`hot_update: true` applies it and turns the updates off for the others
(`fn_load.cpp:266-270`), which stay with the old file; a file caught before its
`hot_update` line is such a file.

*Life cycle.* `RunningMeansChannels`, `UninitMeansRest`, `CleanIsAlone`,
`UpdateIsExclusive`, `ThreadLifeCycle` (no joinable thread is overwritten),
`CallsReturn`.  The last one excepts the two named ways of joining for ever,
`JoinHoldsLock` and `JoinMissedStop`; the runs `control_hotupdate` and
`control_timeout` show that both really occur, `CallsReturn` that there is no
third.  `UninitMeansRest` and `CleanIsAlone` speak of asynchronous channels, since
`control_sync` shows that a stop does not wait for the writer of a synchronous
one.

*Files.* `SizeKnown`, `FilesInOrder`, `SizeLimited`, `OneDayPerFile`,
`BackupsBounded`, `KeptUntilRolledOut`.  `SizeLimited` leaves out `stuff_up`: a new
process adds to the existing file before it knows its size, so a log may go over
the limit.  With `limit_size` and without `rollback` the file is never rotated for
its size but is rotated once at each open (`fn_out_file_device.h:219`), although
README.old:284 says that 0 is no rollback; `BackupsBounded` allows for that one
backup.

### Fairness

A producer inside `HoldChannel` or `PushChannel` and the channel's thread are
scheduled again and again: weak fairness on `Finishing(p)` and `Consumer`.
Nobody has to begin a log or stop the channel.  Under the lap assumption a
producer's fairness is on its steps that keep it.  After a crash somebody starts
the program again: weak fairness on `RecoverSlot \/ Attach`.  In `LoggerControl`
the steps of a thread have strong fairness, since `state_lock` is taken and
released by others in between: a channel's thread asks for it at most every five
seconds (`FN_LOG_HOTUPDATE_INTERVAL`), so a waiting caller gets it.  Starting a
call and writing to a synchronous channel need not happen.  In `ChannelConfig` time
passes and the channels' threads run (weak fairness on `Tick` and `Thread(c)`: a thread
that waits for the lock gets it, for nobody keeps asking for it); nobody has to save,
to finish a save, to log or to set anything.

## Proofs

TLAPS checks theorems about every component but the restart of a channel, for every
value of the constants that the named assumptions admit.  With them, every safety
invariant and every action property of the passing runs is also proved.  A theorem that
states a property has that property's name in `PROJECT.json`.

Each proof has one shape: an inductive invariant, a lemma that `Init` establishes it,
one lemma per action (or group of like actions) that keeps it, and the properties
as its consequences.  None of the properties is inductive alone, and what had to be
added is in each case what the code relies on without saying so.

| Module | Theorems | About |
|---|---|---|
| `RingChannelProofs` | `InvariantHolds`, `TypeCorrect`, `RingNeverOverfull`, `SlotHasOneUser`, `DeliveryCorrect`, `RingImplementsQueue`, `NothingStranded`, `StopDelivers`, `CountersCorrect` | `LapFreeSpec` |
| `ShmRecoveryProofs` | `RecoveryInvariant`, `RecoveryTypeCorrect`, `RecoveryKeepsOrder`, `RecoverySkipsNothing`, `CrashesPayRepeats`, `RecoveryKeepsText`, `RecoveryExplainsText`, `RecoveredSlotHasOneUser`, `RecoveryImplementsQueue` | `ShmSpec` |
| `LoggerControlProofs` | `InvariantHolds`, `TypeCorrect`, `RunningIsComplete`, `UninitIsAtRest`, `CleaningIsAlone`, `UpdateRunsAlone`, `ThreadsLiveOnce` | `Spec` |
| `FileDeviceProofs` | `InvariantHolds`, `TypeCorrect`, `SizeIsKnown`, `FilesKeepOrder`, `LimitIsKept`, `DaysAreSeparate`, `BackupsAreBounded`, `NothingElseIsLost` | `Spec` |
| `ConfigParserProofs` | `AcceptedIsWellFormed`, `AcceptedTextIsWellFormed` | every text |
| `LexerProofs` | `LexerIsRight` | every line |
| `ConfigLinesProofs` | `NestingIsRight`, `TextIsItsEntries`, `BeginningIsPart` | every sequence of entries, every text |
| `ChannelConfigProofs` | `UpdateInvariant`, `ConfigTypeCorrect`, `UpdatesAreWhole`, `OffIsOff`, `CallInvariant`, `LetInReachesItsDevice`, `ChangeIsAtomic`, `EntriesAreFound`, `SettingsReachTheirItem`, `HalfWrittenIsRight` | `Spec` |

### The ring

Assumed: at least two slots (`BufferAssumption`), some number of logs
(`BoundAssumption`), and lap freedom.  `IInv` adds what each thread knows
where it stands: `ConsumerInv` relates the consumer's place to `proc`, `read` and
`delivered`; `OwnerInv` says that a producer between claim and `MARK_READY` owns
a number in `write .. hold - 1` that no other owns; `SnapshotInv` bounds an old
index by the current one; `MarkInv` and `ContentInv` say which slots are ready
and that ready ones are complete and of the right log; `DeliveryInv` ties
`delivered` to `proc`.  The step that needs lap freedom is the compare-exchange: by
`NoLap` and `IdxInjective` equal wrapped indices are equal counts
(`HoldCasIsCurrent`, `WriteCasIsCurrent`), so the tests made on the old index
still hold of the current one.  `IdxInjective`, `IdxWraps` and `Division` are the
facts on `%` behind it.  There is one lemma per action, and one per action for
the refinement, whose steps map to `Claim` (`HoldCas`), `Complete` (`PushReady`),
`Publish` (`WriteCas`), `Deliver` (`DispatchLog`), `Free` (`FreeSlot`) or to a
stutter.

`HandoffInv` adds to `IInv` that nothing was logged before the channel ran, what a
stop had found published (`StopInv`), and `NoStrandedLog` itself.  The question is
who publishes a ready log at `write_idx_`.  A producer leaves the loop of
`PushChannel` when it finds nothing claimed (`WriteHold`) or the next log not ready
(`WriteMark`) at the `write_idx_` it loaded.  If that index is still current, what it
found is true of the log at `write_idx_`, which a later claim or `PushReady` will make
the business of its author; if it is not, the producer was not among those that
will publish (`WillPublish`), and whoever moved `write_idx_` looks again.

`CountInv` says how far each counter lags: by the number of producers between the
compare-exchange and the increment (`Marking`, `Counting`), which are
cardinalities of sets that one step enlarges or shrinks by one thread.

### Recovery

Further assumed: some number of crashes (`CrashAssumption`).  `ShmInv` cannot use
`IInv`, since a crash leaves marks of claims whose author is gone.  `RingInv`
therefore says less of the marks (a free slot has none) and keeps order and
ownership.  `OrphanInv` follows the logs of dead producers: each was
published by the recovery, or will be by the recovery under way.  `TextInv` follows
the text of each slot: a claimed slot has the text of its claim as far as its author
came, an unbegun or free one what it delivered last (`OldText`).  `DispatchInv` says
that the logs dispatched are `0 .. LastLog`, so that the number of repetitions is
the difference of two numbers, and `RepeatInv` keeps one crash in hand while a log
waits to be dispatched again (`Again`): dispatching it spends that crash.

`RecoveryImplementsQueue` maps the ring to `RecoverableQueue`.  The log to be delivered
next (`NextLog`) is the one the thread has taken and not dispatched, else the one at
`proc_idx_`, and while the process is down the one at `read_idx_`: so a crash alone, not
the later store `proc_idx_ = read_idx_`, brings a log back, and `Attach` is the restart.
A round of the recovery loop publishes the oldest log, complete or not (`Recover`); the
restart requires that nothing unpublished is left.  `Deliver` requires that
the place of the log before was given back, which is why a crash repeats one log at
most.  `HoldMark`, `InitLogData`, `Take`, `ClearMark` and the loads are stutters.

### The life cycle

Assumed: at least one channel, two callers or more, callers that are not channels.
`LockInv` says that `state_lock` is held exactly by a caller inside `StartChannels` or
`StopChannels`, or by a thread whose update is under way; `StateInv` that
`logger_state_` is `INITING` or `CLOSING` exactly while a caller holds it.
`AsyncInv` relates a channel's state to the place of its thread: a thread
that is asked to finish, or has finished, is being joined.  `LoopInv` is the invariant
of the two loops: those before the index are started (or joined), those behind it
are not started yet; `RestInv` is what the loops leave behind.

### Files

Assumed: `RETRY` is at most `DAY`; limits, roll-backs and lengths are numbers.
The invariant has a part about all files (`Files`: in order, of one day, within the
limit, no backup deeper than `Deepest`, under the name of its day where names have
one) and a part about the open one (`OpenFile`: the size that
`log_fields_` keeps is the sum of its logs' lengths; its day is the one it was opened on).
`Rolled` is reasoned about by where each file comes from (`Origin`): one place up if it
is in the unbroken chain (`Chain`), where it was otherwise.  Sizes are a fold over a set;
that a fold does not depend on the order, and grows by the new log, is shown by
taking a least counterexample (`WFMin`).

### The configuration

Assumed: `ParserAssumption` (positive limits and width, no dimension twice),
`TextAssumption` (texts are sequences of symbols), `SymbolAssumption` and `LineAssumption`
(the lines tried for the lexer have no line end in them; the sequences of lines tried
for the nesting are indented by some number and have no blank line),
`ConfigAssumption` (the first text is
acceptable; saves pause inside a text), `CallerAssumption` (logs name a channel there
is, and stay logs with another category; setters name a field there is; the code indexes
arrays by both unchecked or returns).

*Parser.*  `LexerFindsEntries`, `NestingFollowsIndent` and `HalfWrittenIsPartial` check
the parser on given texts; the theorems below say the same of all, and the three
properties follow from them.  The folds over lines and over symbols are unfolded into
functions on the subsets of `1 .. n`, and from there into the sequence of states
after each line or symbol (`IsRun`, `IsCut`), about which one can reason step by step.

- `AcceptedTextIsWellFormed`: what `ParseLogger` accepts has at least one channel and at
  most `MAX_CHANNEL_SIZE`, each with at most `MAX_DEVICE_SIZE` devices, numbered from 0
  without a gap, with all fields and types that exist.  `Sound` is the invariant: the
  configuration so far is well formed, and a level that is open has the channel or the
  device it adds to.  A channel or device with the wrong number, or one too many, is an
  error at once, and `Fail` keeps the error to the end.
- `LexerIsRight`: `Lex_Line` accepts a line of any length if and only if it is empty or an
  entry, and then its key, list mark, indentation and value are those of the entry.
  The invariant (`ReadTo`) says for each block type of the lexer what the
  symbols read so far look like: only spaces and at most one dash before a key, a key with
  spaces behind it, a colon with spaces behind it, a value, or a comment.  That the place of
  the key, of the colon and of the value is the only one possible (`OneKey`, `OneSep`,
  `OneVal`) makes the two directions meet.
- `NestingIsRight`: in every sequence of entries that is accepted the channels are the
  list items `channel`, each device is in the channel it is indented under, and a priority
  is that of the last line of its item that sets one.  `ParentOf` looks back over the lines
  and knows no levels, the parser keeps a level and no lines; between the two stand
  `OpenAt` (the items still open are those that the parser's level and indentations
  stand for) and `ItemsAre` (the channels read so far are the items of the lines read
  so far).  A line that a level hands back closes it, and the new line's parent is
  then the item of the next outer level that is indented less.
- `TextIsItsEntries`: a text with comments and blank lines is read as its entries are, so
  the nesting is right for texts and not only for sequences of entries.
- `BeginningIsPart`: a beginning of a text has the lines of the text but for the last
  one, which may be cut short.  A cut line that is accepted is blank or has the key, the
  indentation and the first letter of the value that the whole line has (`HalfLine`),
  so it opens the same item (`HalfStep`), and later lines only add to the last device of
  the last channel or open another (`StepAdds`).  `hot_update` is then as in the whole
  text or off, if only one line gives it (`SaidOnce`): a file that says `true` first and
  `false` further down may be caught in between.  The editors' files checked by the run
  satisfy `SaidOnce`; `HalfWrittenIsRight` has it as a hypothesis, since the parser
  does not refuse a second `hot_update`.

*Updates.*  `UpdateInv`: the thread with the lock is the one that copies (`LockInv`);
what it copies from is one accepted parse that has its channel (`SourceInv`, from
`AcceptedTextIsWellFormed`); each word before the one it is at is as in that parse, or has
been set by the application (`CopyInv`, `CopiedTo`).  The order of the words matters:
`device_size_++` comes before the words of the new device, so a word is never
stored in a device that is not there.

*Calls.*  `CallInv` is about a producer in `BlockInput`.  If nothing has changed since
the call began, all it has read agrees with the configuration (`Consistent`).  After
one change, either what it has read agrees with what is there now, or it agrees with
the old configuration and nothing it will still read has changed (`RestSame`); so
it goes on to the answer of the one or the other.  `Watched` says of a call that has
begun with a device, and met no change of it, that what it has read of the device is
still there.  `Owed` says of a log that was let in, and `Entries` of the ring,
what `LetInIsTaken` says, since a device is never removed and keeps its `out_type`.  The
step from one to the other needs that the test of a device in `BlockInput` and the one in
`DispatchLog`, written twice in the code, are the same (`SameTest`); `set_category` comes
after the test, so it disturbs neither `asked` nor `by`.

### Only model-checked

- All liveness: `ClaimedIsDelivered`, `StopTerminates`, `ClaimedSurvivesCrash`,
  `CallsReturn`, `Converges`.  Fairness and `ENABLED` are beyond the prover.
- Everything about `ChannelRestart`, which is there for its violation.

## What the code does otherwise than it says

Five runs end in a violation.  README.old:30-31 promises that any thread may
start, stop and write; against that stand `ring_lap` (the wrapped
compare-exchange), `restart_stale` (`CleanChannels` leaves the marks of completed
logs that were not published), `control_hotupdate` (join under `state_lock`) and
`control_sync` (a stopped synchronous channel set running again by its writer).
`control_timeout` is a start that reports a timeout and then joins a thread it
never asked to finish.  `PROJECT.json` gives the lines.

README.old:237 and 260 give the set of categories as
`[category, category+category_extend]`; the code leaves the upper end out
(`fn_channel.cpp:179`, `InRange`).  This is plain from the source and has no run.

## Not modelled

- Conversions and truncation of texts: a thread's date cache is cleared on each call
  and refilled only when the day changes (`fn_fmt.cpp:230`), so later logs of a day
  are stamped 19000100; negative numbers are printed unsigned (`fn_stream.h:187`).
- Errors of `shmget` and `shmat`, and the version check.
- In the parser: the text of names, descriptions and paths and their limits,
  `ParseNumber`, a byte order mark, overflow of `atoi`, the numbers in an address.
  `ParseReserve` and `ParseBool` look at a few letters of a word (`ParseBool` at the first:
  what begins with `0` or `f` is false); `Reserved` and `ParseBool` here are tables of the
  configuration's words and of some others that pass for them.
  A bit of a filter mask past its width is undefined in C++ and taken modulo the
  width, as the usual processors shift.
- In a hot update: a file that cannot be opened (-5, like an unchanged one), a file
  that an editor replaces by renaming another, a file that changes a channel from
  asynchronous to synchronous, synchronous channels.  The type and path of an
  existing device are not copied by the code, and so not by the model.  A new device has
  its `out_type` from the step that counts it, while the code counts it first and then
  copies the whole device; until its words are there it is disabled, so that only a
  setter that enables it in between could tell the difference.
- In the life cycle: a logger whose `shm_` is null, which `StartLogger` tests for and then
  reads through in its message (`fn_startlog.cpp:104-106`).  The models begin with a
  segment that is there.
- The callback of a virtual device, which `~LogStream` runs before the push
  (`fn_stream.h:136-152`): it is the application's, and reads one word of the device.
- The ring inside `ChannelConfig`, which is a queue there.
- Screen, UDP and virtual devices (pure output); `fn_file.h` (not included by
  anything); Windows and macOS branches; weak memory orders.

## Plan

In order of what is still at stake:

1. `SyncChannel`: the ring of a synchronous channel with several writers that run
   `EnterProcChannel` themselves: is each log dispatched once, by whom, in which
   order; does `read_idx_` ever pass a slot in use.  An abstract queue without
   delivery order for it to implement.
2. `ChannelRestart` with producers still inside the ring.
3. `LogText`: truncation to `LOG_SIZE`, the date cache, signs.
