--------------------------- MODULE DesktopRefresh ---------------------------
(***************************************************************************)
(* How the desktop's asset table follows the database: GuiApplicationRuntime *)
(* (src/gui/GuiApplicationRuntime.cpp) with AssetModel, the refresh timer   *)
(* and main.qml on the GUI thread, and what the capture worker of           *)
(* CaptureController (src/gui/CaptureController.cpp) writes and emits.      *)
(*                                                                         *)
(* Every signal the table listens to is queued: the GUI thread takes the     *)
(* events in order.  A reload looks at the file's time in one step and reads *)
(* the rows in another; the worker and other processes run in between.      *)
(***************************************************************************)
EXTENDS SharedDatabase, AssetTable

CONSTANTS
  Captured,     \* what there is to observe: pairs of a MAC and a time
  Clickable,    \* the columns the user may sort by
  MaxRuns,      \* bound: how often a capture is started
  MaxEvents     \* bound: events in the queue beyond which the model emits none

ASSUME CaptureAssumption == Captured \subseteq Macs \X Times
ASSUME ClickAssumption == Clickable \subseteq Columns \ {"none"}
ASSUME BoundAssumption == MaxRuns \in Nat /\ MaxEvents \in Nat

VARIABLES
  rows, sortColumn, sortAscending,   \* AssetModel
  timer,        \* refreshTimer_ is active
  events,       \* what is queued for the GUI thread
  reading,      \* the GUI thread is about to read the rows
  worker,       \* the capture worker: control point, kind of run, asset to be emitted
  isRunning,
  monitor,      \* the assets of this run, in an AssetMonitor of its own
  runs,         \* how often a capture was started
  settled,      \* history: the rows when the last run ended
  trouble       \* history: the last read of the database failed

model == <<rows, sortColumn, sortAscending>>
capture == <<worker, isRunning, monitor, runs, settled>>
desktop == <<model, timer, events, reading, capture, trouble>>

NoRow == [mac |-> 0, first |-> 0, last |-> 0]
Idle == [at |-> "none", live |-> FALSE, row |-> NoRow, isNew |-> FALSE]

AssetEvent(row) == [kind |-> "assetDiscovered", row |-> row]
Event(kind) == [kind |-> kind, row |-> NoRow]

\* initialize: the models are loaded once, without a look at the file's time.
DesktopInit ==
  /\ rows = LoadTable(stored, "none", TRUE)
  /\ sortColumn = "none"
  /\ sortAscending = TRUE
  /\ timer = FALSE
  /\ events = <<>>
  /\ reading = FALSE
  /\ worker = Idle
  /\ isRunning = FALSE
  /\ monitor = NoAssets
  /\ runs = 0
  /\ settled = stored
  /\ trouble = FALSE

Room(n) == Len(events) + n <= MaxEvents

-----------------------------------------------------------------------------
(* The GUI thread.                                                         *)

Take(kind) ==
  /\ ~reading
  /\ events # <<>>
  /\ Head(events).kind = kind
  /\ events' = Tail(events)

\* A row that is applied counts as a look at the file.
HandleAssetAsReload ==
  /\ Take("assetDiscovered")
  /\ rows' = ApplyAsset(rows, Head(events).row, sortColumn, sortAscending)
  /\ newer' = FALSE
  /\ UNCHANGED <<stored, connections, wal, sortColumn, sortAscending, timer, reading, capture, trouble>>

HandleAsset ==
  /\ Take("assetDiscovered")
  /\ rows' = ApplyAsset(rows, Head(events).row, sortColumn, sortAscending)
  /\ UNCHANGED <<database, sortColumn, sortAscending, timer, reading, capture, trouble>>

\* reloadModelsFromDatabase: nothing is read while the file looks as old as
\* when it was last read; else its time is recorded, and then it is read.
ReloadModels ==
  /\ reading' = newer
  /\ newer' = FALSE

HandleTimeoutOrFinish ==
  /\ Take("timeout") \/ Take("captureFinished")
  /\ ReloadModels
  /\ UNCHANGED <<stored, connections, wal, model, timer, capture, trouble>>

\* isRunning is read now, not when it changed.
HandleRunningChanged ==
  /\ Take("isRunningChanged")
  /\ timer' = isRunning
  /\ IF isRunning THEN ReloadModels ELSE UNCHANGED <<reading, newer>>
  /\ UNCHANGED <<stored, connections, wal, model, capture, trouble>>

\* main.qml's handler goes through the runtime's check.
HandleFinishInQmlIfNewer ==
  /\ Take("onCaptureFinished")
  /\ ReloadModels
  /\ UNCHANGED <<stored, connections, wal, model, timer, capture, trouble>>

\* main.qml's handler of captureFinished reads whatever the file's time is.
HandleFinishInQml ==
  /\ Take("onCaptureFinished")
  /\ reading' = TRUE
  /\ UNCHANGED <<database, model, timer, capture, trouble>>

\* The database cannot be opened or queried and the rows stay, or an error ends
\* the loop over the rows like their end does, and some are missing.
ReadFails ==
  \/ rows' = rows /\ UNCHANGED <<connections, wal, newer>>
  \/ rows' = rows /\ Close("table")
  \/ \E S \in SUBSET DOMAIN stored :
       /\ \A m \in DOMAIN stored, n \in S : m <= n => m \in S
       /\ rows' = LoadTable([m \in S |-> stored[m]], sortColumn, sortAscending)
       /\ Close("table")

\* reloadFromDatabase.  Its connection may be the last one.
ReadDatabase ==
  /\ reading
  /\ reading' = FALSE
  /\ \/ /\ rows' = LoadTable(stored, sortColumn, sortAscending)
        /\ Close("table")
        /\ trouble' = FALSE
     \/ ReadFails /\ trouble' = TRUE
  /\ UNCHANGED <<stored, sortColumn, sortAscending, timer, events, capture>>

\* sortByColumn.
SortByColumn(column) ==
  /\ ~reading
  /\ sortColumn' = column
  /\ sortAscending' = SortAscending(column, sortColumn, sortAscending)
  /\ rows' = SortAssets(rows, column, sortAscending')
  /\ UNCHANGED <<database, timer, events, reading, capture, trouble>>

\* The timer fires in the event loop and its slot is queued; the next interval
\* begins long after.
Timeout ==
  /\ timer
  /\ Event("timeout") \notin {events[i] : i \in DOMAIN events}
  /\ events' = Append(events, Event("timeout"))
  /\ UNCHANGED <<database, model, timer, reading, capture, trouble>>

\* startCapture, which also writes the session.
StartCapture(live) ==
  /\ ~reading
  /\ worker = Idle
  /\ runs < MaxRuns
  /\ WriteAtOnce
  /\ worker' = [Idle EXCEPT !.at = "starting", !.live = live]
  /\ runs' = runs + 1
  /\ UNCHANGED <<stored, model, timer, events, reading, isRunning, monitor, settled, trouble>>

GuiThread ==
  \/ HandleAsset \/ HandleTimeoutOrFinish \/ HandleRunningChanged \/ HandleFinishInQml
  \/ ReadDatabase \/ Timeout
  \/ \E column \in Clickable : SortByColumn(column)
  \/ \E live \in BOOLEAN : StartCapture(live)

-----------------------------------------------------------------------------
(* The capture worker.                                                     *)

Goes(from, to) == worker.at = from /\ worker' = [worker EXCEPT !.at = to]

AnnounceStart ==
  /\ Goes("starting", "running")
  /\ isRunning' = TRUE
  /\ events' = Append(events, Event("isRunningChanged"))
  /\ UNCHANGED <<database, model, timer, reading, monitor, runs, settled, trouble>>

Written(assets) ==
  \/ stored' = MergeAll(stored, assets) /\ wal' = TRUE
  \/ UNCHANGED <<stored, wal>>

\* The live asset callback: the asset as this run knows it is written, which
\* may fail ...
WriteLiveAsset(m, t) ==
  /\ worker.live
  /\ worker.at = "running"
  /\ monitor' = Observe(monitor, m, t)
  /\ worker' = [worker EXCEPT !.at = "emitting", !.row = Row(m, monitor'[m]),
                              !.isNew = m \notin DOMAIN monitor]
  /\ Written([x \in {m} |-> monitor'[m]])
  /\ Open("worker")
  /\ UNCHANGED <<newer, model, timer, events, reading, isRunning, runs, settled, trouble>>

\* ... and is emitted unless one was emitted a moment ago.
EmitLiveAsset ==
  /\ worker.at = "emitting"
  /\ worker' = [Idle EXCEPT !.at = "running", !.live = TRUE]
  /\ Close("worker")
  /\ \/ Room(1) /\ events' = Append(events, AssetEvent(worker.row))
     \/ ~worker.isNew /\ UNCHANGED events
  /\ UNCHANGED <<stored, model, timer, reading, isRunning, monitor, runs, settled, trouble>>

\* A file's assets are only emitted ...
EmitFileAsset(m, t) ==
  /\ worker.at = "running"
  /\ ~worker.live
  /\ Room(1)
  /\ monitor' = Observe(monitor, m, t)
  /\ events' = Append(events, AssetEvent(Row(m, monitor'[m])))
  /\ UNCHANGED <<database, model, timer, reading, worker, isRunning, runs, settled, trouble>>

\* ... and at its end CoreSession publishes each of them once more, also when
\* the pipeline has failed.
RunEnds ==
  /\ \E next \in {"saving", "finishing"} : Goes("running", next)
  /\ IF worker.live THEN UNCHANGED events
     ELSE LET published == LoadTable(monitor, "none", TRUE)
          IN  /\ Room(Len(published))
              /\ events' = events \o [i \in DOMAIN published |-> AssetEvent(published[i])]
  /\ UNCHANGED <<database, model, timer, reading, isRunning, monitor, runs, settled, trouble>>

\* The file cannot be read, or the capture fails.
RunFails ==
  /\ Goes("running", "finishing")
  /\ UNCHANGED <<database, model, timer, events, reading, isRunning, monitor, runs, settled, trouble>>

\* writeAssets; that it failed is not looked at.
SaveAssets ==
  /\ Goes("saving", "closing")
  /\ Written(monitor)
  /\ Open("worker")
  /\ UNCHANGED <<newer, model, timer, events, reading, isRunning, monitor, runs, settled, trouble>>

CloseWriter ==
  /\ Goes("closing", "finishing")
  /\ Close("worker")
  /\ UNCHANGED <<stored, model, timer, events, reading, isRunning, monitor, runs, settled, trouble>>

FinishSession ==
  /\ Goes("finishing", "announcing")
  /\ WriteAtOnce
  /\ UNCHANGED <<stored, model, timer, events, reading, isRunning, monitor, runs, settled, trouble>>

\* The runtime and main.qml are told of captureFinished in either order.
AnnounceEnd ==
  /\ worker.at = "announcing"
  /\ worker' = Idle
  /\ isRunning' = FALSE
  /\ monitor' = NoAssets
  /\ settled' = stored
  /\ \E finish \in {<<"captureFinished", "onCaptureFinished">>, <<"onCaptureFinished", "captureFinished">>} :
       events' = events \o <<Event("isRunningChanged"), Event(finish[1]), Event(finish[2])>>
  /\ UNCHANGED <<database, model, timer, reading, runs, trouble>>

WorkerThread ==
  \/ AnnounceStart \/ EmitLiveAsset \/ RunEnds \/ RunFails
  \/ SaveAssets \/ CloseWriter \/ FinishSession \/ AnnounceEnd
  \/ \E seen \in Captured : WriteLiveAsset(seen[1], seen[2]) \/ EmitFileAsset(seen[1], seen[2])

DesktopNext == GuiThread \/ WorkerThread

-----------------------------------------------------------------------------
(* Properties.                                                             *)

\* Whatever is clicked, applied and reloaded, in any order, the table has one
\* row for each asset, in the order the user chose.
RowsInOrder == InOrder(rows, sortColumn, sortAscending)

\* A reload that is skipped misses no asset: while the file looks as old as
\* when it was last read and no commit is left outside it, every asset stored
\* is in the table.  A read that failed is the exception: its time was recorded.
SkippedReloadMissesNothing ==
  ~newer /\ ~wal /\ ~reading /\ ~trouble => DOMAIN stored \subseteq MacsOf(rows)

\* Nothing is queued, read or captured.
Quiet == events = <<>> /\ ~reading /\ worker = Idle

\* Once the events of a run have been handled the table shows what the run left
\* in the database, although rows that are applied late carry only what this
\* run has seen, and reloads may be skipped; it shows nothing that is not
\* stored, and the timer is off.
SettledTable ==
  Quiet => /\ ~timer
           /\ ~trouble =>
                /\ \A m \in DOMAIN settled : \E i \in DOMAIN rows : rows[i].mac = m /\ Covers([x \in {m} |-> rows[i]], m, settled[m])
                /\ \A i \in DOMAIN rows : Covers(stored, rows[i].mac, rows[i])
=============================================================================
