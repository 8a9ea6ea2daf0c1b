# A TLA+ model of the passive network asset discovery system

PNAD reads packets from a capture file or a network interface, extracts what they tell about
devices, merges that into an inventory of assets keyed by MAC address, and shows, stores and
mails what it finds. This directory holds TLA+ modules translated from its C++ source, TLC
configurations that check them on small instances, and theorems about them whose proofs TLAPS
checks. Paths below are relative to the repository (`src/...` is `src/src/...` in `PROJECT.json`).

## 1. Inventory of the system

| Part | State | Operations | Talks to |
|---|---|---|---|
| `BoundedQueue<T>` (`system/BoundedQueue.hpp`) | deque, closed flag, high watermark, one mutex, two condition variables | `tryPush`, `waitPush`, `waitPop`, `close` | the pipeline's threads |
| `PipelineRunner` (`app/LiveCapturePipeline.cpp`) | two queues, pending batch, counters, first error, worker threads | `run`, `enqueuePacket`, `flushPacketBatch`, `parserWorkerLoop`, the aggregator | capture backend, parsers, `AssetMonitor` |
| `AssetMonitor`, `AssetStore`, `AssetEventDetector` | the assets of a run | `applyObservation` | event and asset callbacks |
| Parsers (`packet/`) | none between packets; offsets and cursors inside one | one observation list per packet | pipeline |
| `CoreSession` (`core/CoreLibrary.cpp`) | none between calls | `analyzePcapFile`, `processPacketBatch`, ... | pipeline, CLI, GUI |
| `SQLiteWriter` (`storage/`) | one connection, schema version, three tables | migrate, sessions, settings, `writeAssets` | CLI, GUI thread, capture worker, other processes |
| `CaptureController` (`gui/`) | mode, run flags, active session id, worker thread | Start, Stop, `runCaptureWorker`, settings | QML, pipeline, storage, notifier |
| `EmailAlertNotifier` (`gui/`) | queue of mails, alerted addresses, worker thread | `handleAssetEvent`, `stop`, `workerLoop` | aggregator thread, curl |
| `GuiApplicationRuntime` and the list models | rows shown, refresh timer, last seen file time | queued signal handlers, reload | controller's signals, SQLite file |
| Capture child (`capture/CaptureChild*`, `asset-capture`) | child pid, two pipes | start, stop, read, frame packets | operating system |
| Configuration and CLI (`config/`, `cli/`, `main.cpp`) | none | merge defaults, file, environment, arguments | everything |
| Renderers, QML, containers | none | formatting, layout, deployment | |

What is hard in it:

* *Threads.* A live run has the GUI thread, the capture worker, a capture thread, one or two
  parser workers, the aggregator and the mail worker. They meet in two bounded queues, a few
  mutexes and atomics, and Qt's event queue.
* *Limits.* The capture thread must not block, so batches are dropped at a full queue; mails are
  dropped at a full queue of mails.
* *Failure.* Each thread can throw. Whoever fails has to release everyone who waits for it.
* *Shutdown.* Three levels of join (pipeline threads, mail worker, capture worker), started from
  the GUI thread or from a destructor.
* *Untrusted lengths.* Every length, count and pointer a parser reads comes from the packet, and
  `ByteView` tests nothing.
* *Stale views.* The asset table shows what queued signals, a timer and a reload that is skipped by the
  file's time have left of a database that other threads and processes write.
* *Persistence.* Sessions are recorded before and after a run; the process may die in between;
  several processes use one SQLite file.

What makes each part correct is stated as the properties below; `PROJECT.json` lists, line by line,
the hazards they are aimed at and the six no property covers.

## 2. Modules

| Module | What it is |
|---|---|
| `QueueOps` | the data of one bounded queue and what each operation does to it |
| `BoundedQueue` | the monitor: threads, mutex, the two condition variables |
| `ClosableQueue` | abstract: a bounded first-in first-out buffer that can be closed |
| `LivePipeline` | `PipelineRunner`, over two queues of `QueueOps` |
| `PacketDelivery` | abstract: what happens to a packet, and what "complete" means |
| `EmailAlertNotifier` | the notifier, its worker and its owner |
| `CaptureController` | Start and Stop, the capture worker, sessions, crash and restart |
| `AssetStore` | merging one observation into the inventory, as operators |
| `AssetMonitor` | observations in any order, events, throwing callbacks |
| `SqliteStorage` | one database file and the connections that migrate and write it |
| `AssetInventory` | abstract: what may happen to the stored assets, with each run a single step |
| `ParserState`, `PacketContext` | what the parsing of a packet works on; the Ethernet, IPv4, UDP and TCP headers |
| `EndpointPlugins`, `DnsPlugin`, `NetbiosPlugin`, `DhcpPlugin`, `SsdpPlugin` | the plugins |
| `ParserEngine` | one packet through the headers and the plugins of a registry |
| `CliConfiguration`, `CommandLine` | the settings of a command line run; the run and its exit code |
| `CommandSettings` | what the settings should be: a definition that reads the command line as a whole |
| `AssetTable`, `DesktopRefresh` | the rows of the desktop's table; how they follow the database |
| `SharedDatabase` | the SQLite file in WAL mode, as the processes that share it see it |
| `SharedDesktop` | composes the desktop, a command line run and their file |
| `CaptureChild` | the supervisor and the children it starts |
| `CapturePacketStream`, `CaptureChildProtocol` | the framed stream while it is written; the messages |
| `MC*` | the instances TLC checks |
| `LivePipelineProofs`, `AssetMonitorProofs`, `EmailAlertNotifierProofs`, `SqliteStorageProofs`, `ParserEngineProofs`, `SharedDesktopProofs` | theorems about the module in the name (for the pipeline also about `BoundedQueue`), and their proofs |
| `CaptureProofs` | theorems about `CaptureController`, `CaptureChild`, `CapturePacketStream` and `CaptureChildProtocol` |
| `SequenceFolds` | lemmas about the folds that the models use, for sequences of any length |

A definition whose name says what it omits or swaps (`WriteAssetsUnchecked`, `HandleAssetAsReload`,
`BuildAppConfigEnvironmentLast`) is a wrong variant of the definition beside it. No specification uses it;
`PROJECT.json` pairs it with the property that refutes it.

### BoundedQueue

`queue` holds `queue_`, `closed_` and `highWatermark_`. A step is what a thread does between taking
the mutex and giving it up. A sleeping thread is a member of `notFull` or `notEmpty`; `notify_one`
removes an arbitrary member, `notify_all` empties the set, and `SpuriousWakeup` removes one for no
reason. A woken thread has no privilege: `ResumePush` and `ResumePop` compete with new calls.
The read-only accessors are not actions.

### LivePipeline

The queues are used through the operations of `QueueOps`; a blocking call is an action enabled
when the call can return, which is what `BoundedQueue` establishes. `runner` is the control point
of `PipelineRunner::run`, `worker[w]` that of `parserWorkerLoop`, `aggregator` that of the thread
made by `startAggregator`. A packet is its number of arrival, an observation a packet and a MAC
address; what a packet parses to is any member of `ParseResults`, or an exception. Every failure
path of the source is there: a throwing parser, a refused push, a throwing store or callback before
or after the event was counted, an error of the capture. The two `close()` calls of a failing
thread are two steps. Counters are kept per packet, so that "counted once" can be said; the
reported numbers are their sums.

Left out: the backend's own counters, elapsed time, event sink flushing, and reserving memory.

### EmailAlertNotifier

`owner` follows `createEmailNotifier`, the run and the destructor; `at.caller` is the aggregator
inside `handleAssetEvent`; `at.worker` is `workerLoop`. A critical section is one step unless
somebody blocks inside it. That happens in one place: a full queue is reported while the mutex is
held, and the report takes the same mutex, so `mutex` stays with the caller.

### CaptureController

The GUI thread is `gui`: its control point in `startCapture` or `stopCapture`. The worker is
`worker`, with one step for each access to an atomic or to `isLive_`. A run is one step of unknown
length that ends as its mode allows. `posted` counts the `isRunningChanged` notifications in Qt's
event queue; the buttons (`uiRunning`) read `isRunning` when one is handled, as QML bindings do.
`early` remembers that Start read `isRunning_` before the last worker had set it, and `overlapped` the
sessions of such a start and of that worker.
`CrashAndRestart` kills the process at any moment: the rows of `analysis_sessions` survive, the
rest does not. Validation, permission checks and a failing database are one refusal
(`StartRefused`).

### AssetStore and AssetMonitor

`AssetStore` holds no state: `ApplyObservation(assets, o)` is the function from MAC addresses to assets
after `AssetStore::applyObservation`, built from one operator per function of the source in the order the
code calls them. `ToLower` maps spellings of a MAC address to the normalised one, `Registrant` is the
table of registrants, and an observation's metadata maps a key to the values that were added under it.
The early return for an empty MAC address is left out, because every parser formats six bytes.
`AssetMonitor` applies observations in any order; `applied` remembers which, so that a property can say
what the result should have been. Both callbacks are set; each may throw, which ends the run.

### SqliteStorage

`Open` reads the version or fails to: an error of `PRAGMA user_version` is swallowed and leaves the version
0, so that all migrations run, also on a file that has them; `misread` remembers it, as `overlapped` does
that two connections have migrated at once.
`userVersion`, `tables` and `rows` are the file, `lock` is SQLite's write lock in WAL mode (no busy
timeout is set, so a statement that needs the lock is refused, which is `Close` during a migration
and `WriteFails` during a write). `at[c]` is what connection `c` does, `version[c]` the local variable of
`initializeDatabase`, `work[c]` the rows as the open transaction sees them. Creating a table and
stamping the version are two statements and two steps; the version 5 rebuild is one transaction and
one step; `writeAssets` is a step for its first insertion, which takes the lock, one for each other,
and one for its COMMIT. A COMMIT that fails leaves the transaction open. `Close` is the destructor, a failing
constructor and the death of the process. Of a row the model keeps the vendor, for the columns that
version 5 added and the upsert merges with COALESCE, and the two timestamps, compared as the text
`formatTimestamp` makes of them.

Left out: settings (single statements on their own table), the dropped table of version 4, the
columns that an upsert simply replaces, checkpoints (they are in `SharedDatabase`).

### The packet parsers

`frame` is the packet, byte by byte; a view is where it begins and how long it is (`ByteView`). A step
is one header, one call of a plugin that reads fixed fields, or one iteration of a loop, and `pc` says
where. `context` is `PacketContext`, `obs` the observation under construction, and `offset`, `cursor`,
`jumps` and `name` are the local variables of the loops. `readDnsName` is a loop that returns to the
question, record, PTR or SRV it was called for; `readNetbiosName`, which recurses, is one with its depth
in `jumps`. `reads` holds the reads of the last step, each a view and where the read ends: what
`operator[]`, `readUInt16` and the copies do, and what `ReadsInside` speaks about. A read outside the
packet would return `Garbage`. `todo` is the rest of the registry, the default one or the core one.

Texts are sequences of bytes and addresses tuples of bytes, so that rendering them, which loses nothing,
is left out; so is metadata that only repeats a field. The constant `Spelling` gives the characters of
each keyword (`"_ipp._tcp.local"`, `"msft"`).

### DesktopRefresh, AssetTable, SharedDatabase

The GUI thread takes queued events in order; the capture worker writes and emits between any two of its
steps. `newer` is the comparison `reloadModelsFromDatabase` makes, the time of the main file against
`lastDbModified_`. In WAL mode a commit only sets `wal`; the main file changes, and `newer` with it,
when the last connection closes. A reload records the time in one step and reads the rows in another;
the reload of `main.qml` does not look at the time. A read may fail as a whole or give a prefix of the
rows, because the loop over `sqlite3_step` ends on an error as it ends on the last row. `settled` and
`trouble` are history: the rows when a run ended, and that the last read failed. Of an asset the table
keeps its MAC address and its two times. `SortAssets` puts a row where `std::stable_sort` does: behind those
that precede it and the earlier ones that are as good (`Place`).

### CliConfiguration, CommandLine, SharedDesktop

`parseArguments` is a fold over the arguments, each a member of `Words`; `awaiting` is the option whose value
is next. `.env` and YAML files are their lines, reduced to what the readers look at. `CommandSettings` says
what should come of them without going through them: `OptionPlaces` tells options from values, `Stops` are
the arguments that end the run, `Strongest` picks a source. `CommandLine` is `main` from there, with the
exit codes 0, 2, 3 and 4 and a death at any point (`Killed`), which leaves the WAL behind.
`SharedDesktop` lets a desktop, or none, run on the same file in another process.

### CaptureChild, CapturePacketStream, CaptureChildProtocol

A child is a number, in order of start. `doing` is the call the supervisor is in, `stage` and `polls`
where it is in `stop()`; between two of its system calls a child may write, end, or die of a signal. A
dead child is a zombie until it is waited for, or is gone at once where `SIGCHLD` is ignored (`waitpid`
then has no status, and the code passes for 0). `open` are the descriptors of the parent.

`file` grows by any part of what was written (`Flush`), and `readPacketStreamFrames` follows it with
`position` and `eof`, the state of its `ifstream`. Numbers are in base 2 and a header has one number, so
that short files still have numbers that can be cut. The messages are an operator each way.

## 3. What the runs show

| Run | Instance | Shows |
|---|---|---|
| `bounded_queue` | 3 threads, 2 values, capacity 2 | no lost item, no lost room, nobody asleep on a closed queue; close releases every caller; `ClosableQueue` is implemented |
| `live_pipeline` | 3 packets, 2 MAC addresses, four sets of options | packets are conserved and parsed at most once; a run without a reported failure is complete; a refused push is never the first failure; one worker keeps order; `run` returns once the capture has ended; `PacketDelivery` is implemented |
| `email_alerts` | 4 assets, queue of 2 | one mail per asset, nothing forgotten, accepted alerts are tried, `stop()` drains and returns |
| `email_queue_full` | 3 assets, queue of 1 | **violated**: reporting a full queue never returns |
| `capture_controller` | 2 sessions, any number of restarts | the only three ways to leave a session running, no session finished twice, Stop returns, the buttons catch up |
| `completed_means_saved` | 1 session | **violated**: a run is completed although its assets were not written |
| `sqlite_storage` | 2 connections, 3 MAC addresses, two batches that share one, files of version 0, 2 and 4 | whoever opens, migrates, fails or dies, a ready connection finds its tables, knowledge is kept unless two connections migrate at once or one cannot read the version, and `AssetInventory` is implemented: a run's assets are stored whole, on top of what is stored then, or not at all |
| `first_last_seen` | 1 connection, times 5 and 10 µs after a second | **violated**: the earliest and latest sighting are not kept |
| `packet_parsing` | about 3600 packets of all protocols, both registries | no read outside the packet; every step leaves less to do; parsing ends; each packet yields the observations it was built to tell, and a malformed one none |
| `shared_desktop` | 2 MAC addresses, 2 times, one capture, every command line of up to three options | what the table shows once all is quiet; what a skipped reload misses; what an exit code says of the database; which source of a setting wins |
| `capture_child` | 2 starts, 3 packets, batches of 2, messages with texts of up to two characters | every child is waited for, known or given up by an interrupted wait; frames and messages arrive as sent |
| `asset_monitor` | 10 observations of 7 sources, 2 MAC addresses in 3 spellings | facts do not depend on order or repetition, the precedence of sources holds in every order, each asset is announced once, only mDNS renames |

*Bounds and why they are enough.* `Threads` = 3 gives two sleepers on one condition variable and a
barging third thread, the least that makes `notify_one` interesting; capacity 2 separates full,
partly full and empty. In `live_pipeline` three packets make batches of one, or of two with a
remainder left pending, enough to fill a queue of capacity 1 and drop a batch; the options include a
packet queue of capacity 0, which `normalizeLivePipelineOptions` leaves at 0 and which drops
everything. Two parser workers exist in two of the four option sets. In `email_alerts` the queue can
hold two mails while a third is being sent and a fourth meets a full queue. In `capture_controller`
the second session is what a second Start, in time or too early, creates. In `sqlite_storage`
two connections are the least that can race for a migration or the lock, and two batches of two addresses,
one of them in both, the least that can be split and that can overlap; there is one
instant, so that what the inventory says of times is left to its theorem. In
`asset_monitor` every parser whose observations differ in kind contributes one, DHCP two that rename the host,
and every subset in every order is applied, repetitions included.

In `packet_parsing` the code's limits of 16 pointers (DNS) and 8 (NetBIOS) are 2 and 1, so that names
at, below and above the limit are short. Packets are built from small parts that say what should come
out, are cut at the places where a test decides, and for DNS are also every short sequence of length,
pointer and letter bytes (`RawLength`), of which only the bounds and the end are claimed (`Unstated`).
In `shared_desktop` `MaxRuns` = 1 and `MaxEvents` = 2 bound the captures and the queue beyond which the
model emits no more; the file holds an asset of an earlier run, so that a run updates, adds and leaves
alone. Command lines, environments and files vary where no desktop runs; beside a desktop the command
line is always the same, because the two meet only in the rows. In `capture_child` a second start
overwrites a first, two polls stand for a hundred, a pipe holds two lines, and three packets make a
full batch and a rest. `about` chooses whether a behaviour is about the supervisor, the stream or one
message, which share nothing.

*Assumed by the models.* Two checkpoints leave different modification times. Times in `AssetTable` and
`SharedDatabase` are whole seconds: `first_last_seen` is about fractions, and `parseTimestampSortValue`
reads the same unpadded fraction in yet another way, so within one second the columns are sorted
otherwise than by time. A caller that tails a stream clears its state between good batches and stops at
an error.

Types are proved for the queue (`QueueTypeCorrect`), the pipeline, the monitor, the notifier and the storage
(`TypeCorrect`), and no run repeats them; elsewhere they are a part of the inductive invariant.

*Fairness.* Threads that can run do run: weak fairness of each thread's actions, which the
operating system's scheduler provides, and of the one thread that parses a packet. Notifications need strong fairness in `CaptureController`
because the user may keep the GUI thread busy; Qt's event queue is first in first out, so a posted
event is handled. A live capture polls its stop flag every few milliseconds and a file ends;
`curl` gives up after 30 seconds. Nothing is assumed of the user, of packets arriving, of failures
happening or not, of callbacks beyond that they return.

*Deadlock* is checked for the queue and the pipeline. The others may stop for good: the notifier and the
controller after the destructor, or, with a full queue of mails, for the reason the run
`email_queue_full` shows; the rest when the packet is parsed, the command line has exited, the
supervisor is destroyed or the bounds are used up.

### What the violated runs say about the code

* `email_queue_full`: `handleAssetEvent` holds `mutex_` when it calls `reportFailure`, which locks it
  again (`EmailAlertNotifier.cpp:229, 234, 298`). It takes 64 mails waiting behind a slow SMTP
  server. The aggregator then never returns, the pipeline's join never returns, and neither does
  Stop, which the GUI thread is in.
* `completed_means_saved`: both branches of `runCaptureWorker` discard what `writeAssets` returns.
* `first_last_seen`: `"1.10" < "1.5"` as text, so ten microseconds are taken for earlier than five.

A host that DHCP renames keeps the old name on display: `applyObservation` overwrites `asset.hostname`
before `applySummaryCandidates` compares it with `asset.displayName` (`AssetStore.cpp:415, 281`), so the
clause for DHCP never changes a name. `OnlyMdnsRenames` states what the code does; it does not call it right.

The storage model shows two ways to lose what was committed, although `docs/bao-cao.md:302` and `:719` ask
that storage and migration lose nothing. `KnowledgeKept` excludes each by name, and TLC refutes it without
either exclusion:

* Two connections which both read an old `user_version` both rebuild `assets`, and the later rebuild
  empties the columns the earlier connection may have filled since (`overlapped`).
* `initializeDatabase` looks at the result of every statement but `PRAGMA user_version`
  (`SQLiteWriter.cpp:94-102`). If preparing or stepping it fails (the file is busy while another connection
  recovers or closes it, or a read goes wrong), `version` is still 0. On a file of version 5 the connection
  then stamps 1 to 4 again and rebuilds `assets` with NULL in `vendor`, `os_hint`, `device_type` and
  `model_hint` (`misread`). One connection and no race are enough. The tables are right afterwards
  (`ReadyMeansSchema`), and the rebuild is still one whole step that keeps every asset and its times
  (`ImplementsInventory`).

The parsers disagree with `docs/bao-cao.md` about NetBIOS: line 408 says that `hostname` comes from DHCP or
NetBIOS, line 173 that the machine name in a NetBIOS packet helps where DHCP gives none.
`NetbiosPlugin.cpp:130, 144` add the names of a message to the metadata `netbios.names`, which nothing reads,
and no NetBIOS message gives an asset a host name. `NetbiosCases` and `FactsOfThePacket` state what the code does.

The controller's model shows two more things that no document of the repository speaks about.
A second Start that reads `isRunning_` before the first worker has set it makes two runs share
`activeSessionId_` (`SessionsSettled` names this case), and if the first run is a live capture the
GUI thread joins it after having reset the stop flag, so nothing can stop it. And the worker reads
`isLive_` twice, for the configuration and for the branch, while the mode tabs are still enabled.

What the other models show of the code, where a property names it as an exception or a case states it:

* A reload that fails has already recorded the file's time, so the next one is skipped although the
  rows were never read (`trouble` in `SkippedReloadMissesNothing` and `SettledTable`).
* `stop()` gives a child up when a signal interrupts its blocking `waitpid`; the child stays a zombie
  without an exit code (`forgotten`). A restart overwrites the descriptors of the child before, which
  stay open. Where `SIGCHLD` is ignored an exit code is lost and passes for 0.
* A text of a message loses a carriage return at its end (`Kept`).
* The IP plugin steps aside for either port of another plugin while DHCP wants both, so a datagram
  with one DHCP port is seen by no plugin (`PortCases`).
* DHCP's parameter list is searched as text, and 121 ends like 1 (`ListContains`).
* `--sqlite ""` passes `validateConfig`, which asks only whether a path was given.
* `observationsApplied` is added after each batch: when the aggregator fails within one, the statistics
  miss that batch's observations.

## 4. What is proved

TLC checks a property on an instance; the theorems below hold for every value of the constants that
satisfies the named assumptions. Each safety property has the same shape of proof: an inductive invariant
(`IInv` where nothing else is said), the three facts that it holds initially, is kept by every step and
implies the property, and a last step in temporal logic.

### The bounded queue

`QueueTypeCorrect`, `NoLostWakeup` (with `NoForgottenPusher` and `CloseWakesEverybody`), `QueueImplementsPromise`,
in the last part of `LivePipelineProofs`. `QueueInv` adds to the types the two counting invariants and the emptiness of both sets of sleepers after a
close. `NoLostItem` alone is what makes `notify_one` right: it compares the threads that are inside
`waitPop` and awake with the number of items, and each kind of step changes the two sides together. It
needs `Threads` finite (`ThreadsAssumption`) for the cardinalities, and any natural number as capacity.
What the operations of `QueueOps` do to a queue is stated as lemmas, for items of the pipeline and for
values of the queue.

### The pipeline

For any number of packets and workers, any parser, and all options a caller may pass:

* `TypeCorrect`, `EveryPacketCounted`. The types carry the bounds of both queues. `PacketsConserved` is
  inductive together with the types: a flush moves exactly the pending batch to one of the two counters,
  and no other thread touches any of the four variables (`OthersLeaveCapture`).
* `RefusalNeverReported`. `ShutdownOrder` says who may have closed the observation queue, and when: a thread
  that failed and has reported its failure before, or `run()` after it joined the workers. Two workers
  and the aggregator may fail together; the two `close()` calls of each are two steps.
* `NoPacketParsedTwice`. `PacketPlaces`: a packet is in one place only, the pending batch, a batch in the
  queue or the rest of a worker's batch, and there it is accepted and not parsed.
* `CleanRunLosesNothing`. Two more invariants hold while no failure is reported. `NothingMislaid` gives every
  accepted and unparsed packet a place. `CleanAccounts` does the same for observations: all of a packet are
  in one batch until they are counted (`ObservationPlaces`), a thread that is done found its queue closed and
  empty, and each asset in the store was announced (`DoneMeansDrained`). At the end of `run()` there is
  no place left.
* `PipelineImplementsDelivery`. The refinement of `PacketDelivery`: `StageRelation` reads the stage of a
  packet off its counters, and each action of the pipeline maps to one abstract step or to a stutter.
* `AssetsFollowArrival`. With one parser worker, packets are in order of arrival wherever they wait
  (`ArrivalOrder`, `ParseOrder`), so are their observations, and no asset comes from a packet later than
  one that is still to be applied (`ApplyOrder`).

### The asset monitor

`TypeCorrect`, `OrderIsIrrelevant`, `SourcesAreRanked`, `DhcpNeverRenames`, `AnnouncedOnce`. The first invariant
gives, for each asset, its facts as a predicate of the set of its observations; one lemma per function that
`applyObservation` calls says which fields it leaves alone, and `ObservedUnderGrows` that one more
observation extends each metadata record as it extends the set. The derived hints are not part of the
induction: they follow from the records (`HintsImplied`). `Summary` does the same for the fields that
sources compete for: `Ranked` says that a value was told by some observation, and by the source that
outranks the others if it told any. `SummaryPrecedence` follows, and that only mDNS changes a name.
`Announced` counts: the announcements are of different assets, as many as are stored.

They rest on what the parsers guarantee: `ObservationAssumption`, `KeyAssumption` (reference keys are
never observed), and `DhcpAssumption`: only DHCP reports a host name, as the name to display too
(`DhcpPlugin.cpp:210`), and its operating systems are not those that SSDP replaces
(`DhcpPlugin.cpp:98-134`). TLC evaluates them for the observations of `MCAssetMonitor`.

### The mail notifier

For any assets and any capacity of the queue, 0 included: `TypeCorrect`, `NoAssetMailedTwice`, `NoAlertForgotten`,
`StopLeavesNothing`, `FullQueueBlocks`. `Places` says that an accepted address is in exactly one of three
places, the queue, the worker's hands or the mails tried; `Hands` who holds an address and the mutex;
`Beginning` and `Ending` what the owner's calls leave open to the others; `Failures` that a failed mail is
reported or being reported. `FullQueueBlocks` is the proof behind the run `email_queue_full`: once an alert has
found the queue full, no step of any thread ends the report, frees the mutex, or lets the owner
stop. `MacAssumption` says that `None` is no MAC address.

### The session rows

For any number of sessions, starts, stops, crashes and restarts: `NoSessionLeftRunning` and
`SessionsFinishOnce` (`CaptureProofs`). The invariant's core is `AllAttended`: a session that runs with none of
the three excuses is the active one, and either a worker that will finish it is under way, or the GUI thread
is about to start that worker. Two runs may share `activeSessionId_`, but then both sessions are excused, and
only because Start came between the start of a worker and its first step (`StartSound`); a Start at any other
time finds `isRunning_` set or the worker gone. `ActiveRuns` says that the active session runs until the worker that finished it
forgets it, so no session is finished twice.

### The database file

For any connections, assets, batches and timestamps, and a file of any version: `TypeCorrect`,
`OpenedMeansMigrated`, `KnowledgeIsKept`, `StorageImplementsInventory`. `Schema`: the tables of a version are there before
the file or a connection claims it, whichever of several migrating connections comes first. `OneRun`: what a
writing connection has inserted and has yet to insert is all that a run found, and its work is what it has inserted,
merged into the committed rows as they still are, because the write lock is taken by the first insertion and nobody
else changes a row while it is held. `Knowledge`: while no two connections have migrated
at once and each could read the version, the one that migrates knows the version of the file. Both
conditions are needed, since the code ensures neither; the other three theorems do without them. `ConnectionAssumption` gives the free lock a
name that no connection has.

The refinement says what an interleaving of statements comes to: `Merges` relates the rows before a commit and after
it, asset by asset (a vendor is known if the row or any of the run's assets names one, each time is one of theirs),
and one insertion extends it by one asset (`UpsertMerges`). Every step but a commit, a rebuild and a clearing leaves
the rows as they are, so a part of a run is never stored, and of two runs that overlap the later is merged into what the earlier
stored. Which of the times is kept is the question of `first_last_seen`.

### The packet parsers

`ParserReadsInside`. For every packet, every limit on pointers and all keywords, no decoder and no plugin
reads outside the packet or its view. `IInv` keeps the three views of the context inside the packet
(`ViewsInside`), the data of the record being read inside the payload (`RecordInside`), and the twelve
bytes of header that `Match` tested, in a step before the DNS and NetBIOS plugins read them, in the payload
(`HeaderThere`); every other bound is tested by the step that needs it. It rests on packets being sequences
of bytes (`FramesAssumption`), and on `Garbage` being a byte.

`EveryStepShrinksTheWork` and `WorkRunsOut`. A packet chooses the counts, the lengths and where a pointer leads, so
that a parser could be led in circles. `WorkLeft` is five numbers of falling weight: the plugins still to be asked
and how far the headers are, the questions and records still announced, the stage that one of them is in, the pointers
a name may still follow, and the bytes before the end of what is being read. A pointer may lead back to bytes
already read, and a record may take long to read, but each step makes the first of the numbers that it changes
smaller (`Less`): a pointer is counted before the name goes on at its target, a record is counted off once its last
stage is over. One case per step shows it (`DnsShrinks`, `NetbiosShrinks`, `DhcpShrinks`, `SsdpShrinks`, ...), for
`Next` itself, so that no step leaves everything as it was either. Beside `IInv` it needs `Counting`: while a
name is read, the question or record that it names has not been counted off yet, so that the count can fall.
Five natural numbers so ordered cannot fall for ever (`WFLexProductOrdering`). What remains of `ParsingEnds` is that
the thread keeps running.

### The desktop and the command line

`SharedDesktopProofs`, for any assets, times, packets, settings, captures and earlier rows:

* `ExitCodeTellsWhatIsStored`, beside any desktop, of the packets that the run has processed (that they are all
  processed before the last write is the loop at `main.cpp:166`). The invariant adds that nothing is found or written before
  the file was read, and that after the last write all that was found is covered by what is stored.
  Both processes change the rows only by an upsert, which removes no row and narrows no span
  (`UpsertCovers`), so neither undoes what the other wrote.
* `TableStaysSorted`, `SkippedReloadsAreHarmless`, `TableSettles`. That `SortAssets` sorts and loses no row
  is a theorem of its own: the places of the rows are a permutation (`Places`), and what is placed by rank is
  in order (`RowOrder`, `SortedRows`). `TableInv` adds what has to hold between the events. While assets are
  queued, captured or being read, the table may be behind (`Pending`), but then a reload is still to come:
  `main.qml`'s is queued behind the last asset of a run (`FinishLast`). Otherwise the rows lie between what
  the run left and what is stored (`Between`), in spite of queued assets that carry only what their run has
  seen, of reloads that were skipped, and of another process.

* `SettingsOfEveryInvocation`. For command lines of any length and words, and files of any lines, the run has the
  settings that `CommandSettings` gives it, or ends with the exit code that its first `Stops` or its settings
  ask for. Arguments are read one by one, so the proof is an induction: `GoesOn` says what the options hold after
  the first k arguments, in terms of the places of the whole command line, and `HasEnded` that the first
  stop among them decides. That places exist at all is an induction of its own (`PlacesExist`).
  `LinesRead` is the same for the YAML file.

It is assumed that MAC addresses are finitely many numbers (`MacAssumption`: they have 48 bits), that
times are numbers, that captures, packets and earlier rows are made of them, that `None` is no exit code and
no word, and that the words include those the code looks for (`WordAssumption`); an invocation is sequences of
words and lines (`InvocationAssumption`).

### The children of the supervisor

`EveryChildAccountedFor` (`CaptureProofs`), for any number of starts and polls. The known child is always the
last one; its code stays unset while it is known; a forgotten child never has one, since only the wait
that was interrupted would have set it.

### The packet stream and the messages

`StreamFramesAsWritten` and `MessagesSurviveTheirLine` (`CaptureProofs`), for packets and texts of any bytes, length
and number.

* The stream. `StreamInv` says that the file and the buffer together are the preface and the frames of what was
  sent (`Written`), and where the reader is: at the start of a line, of the preface or of a frame (`AtLine`), or
  behind the header or the bytes of the next packet (`InFrame`), unless it has met the end of the file.
  A length that is read from a header is the one that was written because a number is read digit by digit
  (`NumberOfDigits`), and the file may end inside any piece. A file that begins with other text fails at it
  (`PrefaceAssumption`: no such text begins, after blank lines, like a frame).
* The messages. A line without its end is cut into tokens of which each is one field, because an escaped text
  holds neither a tab nor an end of line (`EscapeFieldText`); the escape is undone character by character
  (`UnescapeEscaped`); and the message after n tokens is what the first n fields say. The carriage return at
  the end of a text is lost to `trimLineEnd`, which `Kept` says.

Folds are proved about by induction, although a lemma that takes an operator cannot be applied: `SequenceFolds`
states everything of a function `step`, `Steps(step, base, s)` is what `base` becomes along `s`, and each fold of
the models is shown to be its `Steps` once (`ArgumentsInSteps`, `UnescapeIsSteps`, ...). The induction itself is
over the set of lengths for which a fact holds (`NatSetInduction`, from `NatLessThanWellFounded` and `WFMin`).
The constants of both models are arbitrary: any set of bytes, numbers in base 2, any symbols beside the five
that the protocol gives a meaning.

### Only model-checked

* All liveness properties (`StopReturns`, `UiCatchesUp`, `AcceptedIsTried`, that the pipeline's `run` returns, that
  parsing ends, that close releases every caller): liveness under fairness is out of the prover's reach.
  That parsing cannot go on for ever is proved without it (`WorkRunsOut`).
* `FactsOfThePacket` compares what the plugins observe with what each packet was built to tell. The packets are
  enumerated by the model's instance (`MCParserEngine`), so that there is nothing to state for other packets.
* What the violated runs show, but for the full queue of mails, is a counterexample and needs no proof.

## 5. Plan

What is left, in order of what matters most to a user of the program:

1. `DesktopRunConfig` and the settings of the controller: which stored setting reaches a run.
2. The parsers: for a plugin without loops, that what it observes is what the bytes say, as a theorem beside
   `FactsOfThePacket`.

## 6. Not modelled

* `AssetEventDetector`: the program does not use it. Event sinks only format.
* `LogModel` is a bounded list, `InterfaceModel` a copy of the operating system's list, and
  `DesktopRunConfig` a pure function of the settings. Roles and relative times of `AssetModel` are
  formatting.
* Renderers and QML layout have no state that a property could be about; `main.qml`'s reload at the end
  of a capture is in `DesktopRefresh`.
* Network interface enumeration and libpcap are the operating system's. Their contract is in the models
  that use them: packets one by one until the capture is stopped, ends or fails; a file as a whole or
  not at all.
* Containers and scripts are deployment.
