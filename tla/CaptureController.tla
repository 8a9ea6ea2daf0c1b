------------------------- MODULE CaptureController -------------------------
(***************************************************************************)
(* CaptureController (src/gui/CaptureController.cpp): Start and Stop on the *)
(* GUI thread, the capture worker they start and join, and the rows of      *)
(* analysis_sessions they leave in the database.                            *)
(*                                                                         *)
(* isRunning_, stopRequested_ and activeSessionId_ are atomics; isLive_ is a *)
(* plain bool that both threads use: each access is a step of its own.      *)
(* isRunningChanged, emitted by the worker, reaches the GUI through its     *)
(* event queue.  A session's id is its index in sessions.  A run is abstract:*)
(* LivePipeline.tla shows that it ends when the capture does.               *)
(***************************************************************************)
EXTENDS Naturals, Sequences

CONSTANT MaxSessions      \* bound: how many sessions are created

ASSUME BoundAssumption == MaxSessions \in Nat

VARIABLES
  gui,               \* what the GUI thread is doing, "idle" in its event loop
  uiRunning,         \* isRunning as the buttons last read it
  posted,            \* isRunningChanged notifications in the GUI's event queue
  isLive, isRunning, stopRequested, activeSessionId,
  worker,            \* workerThread_: control point, mode of its run (live or
                     \* not), whether its assets were written
  sessions,          \* rows of analysis_sessions; saved is not a column
  early,             \* history: Start came before the last worker set isRunning_
  overlapped,        \* history: sessions of such a start and the worker's
  unwritten,         \* history: sessions whose last update failed
  abandoned          \* history: sessions running when the process died

process == <<gui, uiRunning, posted, isLive, isRunning, stopRequested, activeSessionId, worker>>
history == <<early, overlapped, unwritten, abandoned>>
vars == <<process, sessions, history>>

NoWorker == [at |-> "none", live |-> FALSE, saved |-> FALSE]

Init ==
  /\ gui = "idle"
  /\ uiRunning = FALSE
  /\ posted = 0
  /\ isLive = FALSE
  /\ isRunning = FALSE
  /\ stopRequested = FALSE
  /\ activeSessionId = 0
  /\ worker = NoWorker
  /\ sessions = <<>>
  /\ early = FALSE
  /\ overlapped = {}
  /\ unwritten = {}
  /\ abandoned = {}

Ids == DOMAIN sessions

Running == {i \in Ids : sessions[i].status = "Running"}

\* Threads that were never started or have been joined can be joined at once.
WorkerGone == worker.at \in {"none", "done"}

-----------------------------------------------------------------------------
(* The GUI thread.                                                         *)

\* A tab of the Capture page: enabled while the buttons show no capture.
SwitchMode ==
  /\ gui = "idle"
  /\ ~uiRunning
  /\ isLive' = ~isLive
  /\ UNCHANGED <<gui, uiRunning, posted, isRunning, stopRequested, activeSessionId, worker,
                 sessions, history>>

\* startLiveCapture, startPcapAnalysis: the mode is set before startCapture
\* finds out that a capture is running already.
Start(live) ==
  /\ gui = "idle"
  /\ ~uiRunning
  /\ isLive' = live
  /\ gui' = IF isRunning THEN "idle" ELSE "creating"
  /\ early' = (worker.at = "starting")
  /\ UNCHANGED <<uiRunning, posted, isRunning, stopRequested, activeSessionId, worker,
                 sessions, overlapped, unwritten, abandoned>>

\* The settings, the source or the permission are not valid, or the session
\* could not be recorded.
StartRefused ==
  /\ gui = "creating"
  /\ gui' = "idle"
  /\ UNCHANGED <<uiRunning, posted, isLive, isRunning, stopRequested, activeSessionId, worker,
                 sessions, history>>

\* createAnalysisSession.  The worker may not have announced itself when
\* isRunning_ was read: then two runs share activeSessionId_.
CreateSession ==
  /\ gui = "creating"
  /\ Len(sessions) < MaxSessions
  /\ sessions' = Append(sessions, [live |-> isLive, status |-> "Running", saved |-> FALSE])
  /\ activeSessionId' = Len(sessions) + 1
  /\ overlapped' = IF early /\ ~WorkerGone /\ worker.at # "announcing"
                   THEN overlapped \union ({activeSessionId} \ {0}) \union {Len(sessions) + 1}
                   ELSE overlapped
  /\ gui' = "launching"
  /\ UNCHANGED <<uiRunning, posted, isLive, isRunning, stopRequested, worker, early, unwritten,
                 abandoned>>

ResetStopRequested ==
  /\ gui = "launching"
  /\ stopRequested' = FALSE
  /\ gui' = "joiningOld"
  /\ UNCHANGED <<uiRunning, posted, isLive, isRunning, activeSessionId, worker, sessions, history>>

\* The worker of the last run is joined, a new one started.
LaunchWorker ==
  /\ gui = "joiningOld"
  /\ WorkerGone
  /\ worker' = [NoWorker EXCEPT !.at = "starting"]
  /\ gui' = "idle"
  /\ UNCHANGED <<uiRunning, posted, isLive, isRunning, stopRequested, activeSessionId,
                 sessions, history>>

\* stopCapture, from the Stop button or from the destructor.
RequestStop(to) ==
  /\ gui = "idle"
  /\ stopRequested' = TRUE
  /\ gui' = to
  /\ UNCHANGED <<uiRunning, posted, isLive, isRunning, activeSessionId, worker, sessions, history>>

Stop == uiRunning /\ RequestStop("stopping")

Quit == RequestStop("closing")

JoinWorker ==
  /\ gui \in {"stopping", "closing"}
  /\ WorkerGone
  /\ worker' = NoWorker
  /\ gui' = IF gui = "stopping" THEN "idle" ELSE "closed"
  /\ UNCHANGED <<uiRunning, posted, isLive, isRunning, stopRequested, activeSessionId,
                 sessions, history>>

\* The buttons read isRunning again.
HandleNotification ==
  /\ gui = "idle"
  /\ posted > 0
  /\ posted' = posted - 1
  /\ uiRunning' = isRunning
  /\ UNCHANGED <<gui, isLive, isRunning, stopRequested, activeSessionId, worker, sessions, history>>

GuiThread ==
  \/ StartRefused \/ CreateSession \/ ResetStopRequested \/ LaunchWorker \/ JoinWorker

-----------------------------------------------------------------------------
(* runCaptureWorker.                                                       *)

WorkerStep(from, to) ==
  /\ worker.at = from
  /\ worker' = [worker EXCEPT !.at = to]
  /\ UNCHANGED <<gui, uiRunning, isLive, stopRequested>>

\* The worker, not Start, resets the stop flag.
AnnounceStartResettingStop ==
  /\ worker.at = "starting"
  /\ worker' = [worker EXCEPT !.at = "configuring"]
  /\ isRunning' = TRUE
  /\ posted' = posted + 1
  /\ stopRequested' = FALSE
  /\ UNCHANGED <<gui, uiRunning, isLive, activeSessionId, sessions, history>>

AnnounceStart ==
  /\ WorkerStep("starting", "configuring")
  /\ isRunning' = TRUE
  /\ posted' = posted + 1
  /\ UNCHANGED <<activeSessionId, sessions, history>>

\* buildCurrentConfig reads isLive_ ...
BuildConfig ==
  /\ WorkerStep("configuring", "branching")
  /\ UNCHANGED <<posted, isRunning, activeSessionId, sessions, history>>

\* ... and the worker reads it again.  If it has changed in between, the
\* configuration lacks the interface or the file: what is then read from the
\* empty optional is undefined.  The run may begin, fail (WorkerThrows) or
\* crash (CrashAndRestart), as it may when the two agree.
ChooseBranch ==
  /\ worker.at = "branching"
  /\ worker' = [worker EXCEPT !.at = "running", !.live = isLive]
  /\ UNCHANGED <<gui, uiRunning, posted, isLive, isRunning, stopRequested, activeSessionId,
                 sessions, history>>

\* A live capture runs until it is stopped, a file until its end.
RunEnds ==
  /\ worker.live => stopRequested
  /\ WorkerStep("running", "saving")
  /\ UNCHANGED <<posted, isRunning, activeSessionId, sessions, history>>

\* The result of writeAssets is not looked at.
SaveAssets ==
  /\ worker.at = "saving"
  /\ \E ok \in BOOLEAN : worker' = [worker EXCEPT !.at = "finishing", !.saved = ok]
  /\ UNCHANGED <<gui, uiRunning, posted, isLive, isRunning, stopRequested, activeSessionId,
                 sessions, history>>

\* Anything up to the session update may throw.
WorkerThrows ==
  /\ worker.at \in {"configuring", "branching", "running", "saving", "finishing"}
  /\ WorkerStep(worker.at, "failing")
  /\ UNCHANGED <<posted, isRunning, activeSessionId, sessions, history>>

\* finishAnalysisSession; a failure is ignored or only logged.
FinishSession(status) ==
  /\ UNCHANGED <<posted, isRunning, activeSessionId, early, overlapped, abandoned>>
  /\ \/ /\ activeSessionId = 0
        /\ UNCHANGED <<sessions, unwritten>>
     \/ /\ activeSessionId # 0
        /\ sessions' = [sessions EXCEPT ![activeSessionId].status = status,
                                        ![activeSessionId].saved = worker.saved]
        /\ UNCHANGED unwritten
     \/ /\ activeSessionId # 0
        /\ unwritten' = unwritten \union {activeSessionId}
        /\ UNCHANGED sessions

\* The session is completed first and the rest of the run may still fail.
FinishCompletedTooEarly ==
  /\ worker.at = "finishing"
  /\ \E to \in {"clearing", "failing"} : WorkerStep("finishing", to)
  /\ FinishSession("Completed")

FinishCompleted ==
  /\ WorkerStep("finishing", "clearing")
  /\ FinishSession("Completed")

\* The exception handler forgets about the session.
FailWithoutSession ==
  /\ WorkerStep("failing", "clearing")
  /\ UNCHANGED <<posted, isRunning, activeSessionId, sessions, history>>

FinishFailed ==
  /\ WorkerStep("failing", "clearing")
  /\ FinishSession("Failed")

ClearSession ==
  /\ WorkerStep("clearing", "announcing")
  /\ activeSessionId' = 0
  /\ UNCHANGED <<posted, isRunning, sessions, history>>

\* isRunningChanged is emitted before isRunning_ is reset.
AnnounceEndTooEarly ==
  /\ UNCHANGED <<activeSessionId, sessions, history>>
  /\ \/ /\ WorkerStep("announcing", "resetting")
        /\ posted' = posted + 1
        /\ UNCHANGED isRunning
     \/ /\ WorkerStep("resetting", "done")
        /\ isRunning' = FALSE
        /\ UNCHANGED posted

\* From here a new start finds no capture running, and joins this thread.
AnnounceEnd ==
  /\ WorkerStep("announcing", "done")
  /\ isRunning' = FALSE
  /\ posted' = posted + 1
  /\ UNCHANGED <<activeSessionId, sessions, history>>

WorkerThread ==
  \/ AnnounceStart \/ BuildConfig \/ ChooseBranch \/ RunEnds \/ SaveAssets
  \/ FinishCompleted \/ FinishFailed \/ ClearSession \/ AnnounceEnd

-----------------------------------------------------------------------------

\* A CaptureController is constructed.
NewProcess ==
  /\ gui' = "idle"
  /\ uiRunning' = FALSE
  /\ posted' = 0
  /\ isLive' = FALSE
  /\ isRunning' = FALSE
  /\ stopRequested' = FALSE
  /\ activeSessionId' = 0
  /\ worker' = NoWorker

\* The process is killed, or crashes, and is started again.
CrashAndRestart ==
  /\ gui # "closed"
  /\ NewProcess
  /\ abandoned' = abandoned \union Running
  /\ UNCHANGED <<sessions, early, overlapped, unwritten>>

\* Started again after it was closed.
Reopen ==
  /\ gui = "closed"
  /\ NewProcess
  /\ UNCHANGED <<sessions, history>>

Next ==
  \/ SwitchMode
  \/ \E live \in BOOLEAN : Start(live)
  \/ Stop \/ Quit
  \/ HandleNotification
  \/ GuiThread
  \/ WorkerThread \/ WorkerThrows
  \/ CrashAndRestart \/ Reopen

Spec == Init /\ [][Next]_vars

\* Both threads go on whenever they can; a live capture notices the stop flag
\* within one of its non-blocking reads, a file has an end.  Qt delivers
\* posted events in order, so a notification is handled whatever the user does.
\* Nothing is assumed of the user, of failures and of crashes.
Fairness ==
  /\ WF_vars(GuiThread)
  /\ WF_vars(WorkerThread)
  /\ SF_vars(HandleNotification)

FairSpec == Spec /\ Fairness

-----------------------------------------------------------------------------
(* Properties.                                                             *)

\* When no capture is under way a session still marked "Running" has one of
\* three causes: Start was pressed again before the worker of the first start
\* had set isRunning_, its update failed, or the process died.  No other
\* interleaving of Start, Stop, failures and the end of a run leaves one.
SessionsSettled ==
  gui \in {"idle", "closed"} /\ WorkerGone => Running \subseteq overlapped \union unwritten \union abandoned

\* A session that was marked completed or failed is never marked again, also
\* when a second start, a failing worker or a crash gets in between.
FinishedOnce ==
  [][\A i \in Ids : sessions[i].status # "Running" => sessions'[i] = sessions[i]]_vars

\* Stop and the destructor always return, whatever the worker is doing.
StopReturns == gui \in {"stopping", "closing"} ~> gui \in {"idle", "closed"}

\* The buttons catch up with the worker: they show a running capture for ever,
\* or none for ever, only when that is so.  While Start waits for an earlier
\* worker, and when the application is closed, nothing is shown.
UiCatchesUp == []<>(uiRunning = isRunning \/ gui \in {"joiningOld", "closed"})

\* "Save results to SQLite" (line 573): a session marked completed has its
\* assets in the database.
CompletedMeansSaved ==
  \A i \in Ids : sessions[i].status = "Completed" => sessions[i].saved
=============================================================================
