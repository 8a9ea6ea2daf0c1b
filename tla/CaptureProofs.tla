---------------------------- MODULE CaptureProofs ----------------------------
(***************************************************************************)
(* Who is accounted for when captures end, and what comes through between a  *)
(* capture child and the program:                                           *)
(*   - the sessions that CaptureController starts (SessionsSettled,          *)
(*     FinishedOnce), for every number of them;                              *)
(*   - the children that CaptureChildSupervisor starts (ChildrenAccountedFor), *)
(*     for every number of starts and polls and whatever they are started    *)
(*     with;                                                                *)
(*   - the messages of a child (MessagesAsSent), for texts of any characters *)
(*     and length;                                                          *)
(*   - the packets it writes (FramesAsWritten), for any bytes, number and    *)
(*     length of them.                                                      *)
(*                                                                         *)
(* The argument for the sessions: one that is still running, with none of    *)
(* the three excuses, is the active one, and either a worker that will finish *)
(* it is under way or the GUI thread is about to start that worker.          *)
(*                                                                         *)
(* The argument for the children: the child the supervisor knows is always   *)
(* the last one, and a start or an end of it settles the one before.  The     *)
(* code stays unset while the child is known, so a forgotten child never has  *)
(* one.                                                                     *)
(*                                                                         *)
(* The argument for the messages: a line without its end is cut into tokens  *)
(* of which each is a field, and the message so far is what they mean; a     *)
(* field more is a token more.  An escape is undone as it is read.           *)
(*                                                                         *)
(* The argument for the stream: what is still to be read is, at any moment,  *)
(* the rest of the line, header or bytes that the reader is in, followed by  *)
(* the frames of the packets that it has yet to deliver.                     *)
(***************************************************************************)
EXTENDS CaptureController, CaptureChild, CaptureChildProtocol, CapturePacketStream,
        SequenceFolds, FiniteSetTheorems, TLAPS

-----------------------------------------------------------------------------
(* The sessions of the controller.                                         *)

Session == [live : BOOLEAN, status : {"Running", "Completed", "Failed"}, saved : BOOLEAN]

\* Until its session is finished, and from then until it is gone.
Unfinished == {"starting", "configuring", "branching", "running", "saving", "finishing", "failing"}

Worker == [at : {"none", "clearing", "announcing", "done"} \union Unfinished, live : BOOLEAN, saved : BOOLEAN]

\* Start has recorded a session and not yet started its worker.
Launching == gui \in {"launching", "joiningOld"}

Typed ==
  /\ gui \in {"idle", "creating", "launching", "joiningOld", "stopping", "closing", "closed"}
  /\ isLive \in BOOLEAN /\ isRunning \in BOOLEAN /\ early \in BOOLEAN
  /\ worker \in Worker
  /\ sessions \in Seq(Session)
  /\ activeSessionId \in 0 .. Len(sessions)

\* isRunning_ is what Start takes it for, but between the start of a worker
\* and its first step; this is the only time a second start gets through.
StartSound ==
  /\ ~isRunning => worker.at \in {"none", "starting", "done"}
  /\ gui = "creating" /\ ~early => WorkerGone
  /\ gui = "closed" => WorkerGone

\* A session that is active runs, until the worker that finished it forgets it.
ActiveRuns ==
  activeSessionId # 0 /\ worker.at # "clearing" => sessions[activeSessionId].status = "Running"

Excused == overlapped \union unwritten \union abandoned

\* A session that runs without an excuse has a worker, or will have one.
Attended(i) ==
  /\ i = activeSessionId
  /\ IF Launching THEN WorkerGone \/ worker.at = "announcing" ELSE worker.at \in Unfinished

AllAttended == \A i \in Running \ Excused : Attended(i)

IInv == Typed /\ StartSound /\ ActiveRuns /\ AllAttended

-----------------------------------------------------------------------------

LEMMA NoWorkerTyped == NoWorker \in Worker /\ NoWorker.at = "none"
BY DEF NoWorker, Worker

LEMMA InitInvariant == Init => IInv
<1> SUFFICES ASSUME Init PROVE IInv
  OBVIOUS
<1>1. sessions \in Seq(Session) /\ Len(sessions) = 0 /\ Running = {}
  BY DEF Init, Running, Ids
<1>2. Typed
  <2>1. isLive \in BOOLEAN /\ isRunning \in BOOLEAN /\ early \in BOOLEAN
    BY DEF Init
  <2>2. gui = "idle" /\ worker \in Worker /\ activeSessionId \in 0 .. Len(sessions)
    BY <1>1, NoWorkerTyped DEF Init
  <2> QED BY <1>1, <2>1, <2>2 DEF Typed
<1>3. StartSound /\ ActiveRuns
  BY NoWorkerTyped DEF Init, StartSound, ActiveRuns
<1> QED BY <1>1, <1>2, <1>3 DEF IInv, AllAttended

\* The GUI thread, or the user: no session is touched, the worker at most
\* replaced once it is gone.
LEMMA GuiGoesKeeps ==
  ASSUME IInv,
         \/ SwitchMode \/ (\E live \in BOOLEAN : Start(live)) \/ Stop \/ Quit
         \/ HandleNotification \/ StartRefused \/ ResetStopRequested \/ JoinWorker
  PROVE  IInv'
<1>1. /\ UNCHANGED <<isRunning, sessions, activeSessionId, overlapped, unwritten, abandoned>>
      /\ worker' = worker \/ (WorkerGone /\ worker' = NoWorker)
  BY DEF SwitchMode, Start, Stop, Quit, RequestStop, HandleNotification, StartRefused,
         ResetStopRequested, JoinWorker, history
<1>2. worker' \in Worker /\ (WorkerGone => WorkerGone') /\ (worker' = worker \/ WorkerGone')
  BY <1>1, NoWorkerTyped DEF IInv, Typed, WorkerGone
<1>3. /\ gui' \in {"idle", "creating", "joiningOld", "stopping", "closing", "closed"}
      /\ isLive' \in BOOLEAN /\ early' \in BOOLEAN
      /\ gui' = "closed" => WorkerGone
      /\ gui' = "creating" =>
           \/ ~isRunning /\ early' = (worker.at = "starting") /\ worker' = worker
           \/ gui = "creating" /\ UNCHANGED <<early, worker>>
      /\ Launching' <=> Launching
  BY DEF SwitchMode, Start, Stop, Quit, RequestStop, HandleNotification, StartRefused,
         ResetStopRequested, JoinWorker, history, IInv, Typed, StartSound, Launching
<1>4. Typed'
  BY <1>1, <1>2, <1>3 DEF IInv, Typed
<1>5. StartSound'
  BY <1>1, <1>2, <1>3 DEF IInv, StartSound, WorkerGone
<1>6. ActiveRuns'
  BY <1>1 DEF IInv, ActiveRuns, WorkerGone
<1>7. Running' = Running /\ Excused' = Excused
  BY <1>1 DEF Running, Ids, Excused
<1>8. ASSUME NEW i \in Running \ Excused PROVE Attended(i)'
  <2>1. Attended(i)
    BY <1>8 DEF IInv, AllAttended
  <2> QED BY <1>1, <1>2, <1>3, <2>1 DEF Attended, WorkerGone, Unfinished
<1> QED BY <1>4, <1>5, <1>6, <1>7, <1>8 DEF IInv, AllAttended

\* A session that overlaps a worker is excused with that worker's.
LEMMA CreateSessionKeeps ==
  ASSUME IInv, CreateSession
  PROVE  IInv'
<1> DEFINE new == Len(sessions) + 1
           row == [live |-> isLive, status |-> "Running", saved |-> FALSE]
<1>1. /\ gui = "creating" /\ gui' = "launching"
      /\ sessions' = Append(sessions, row)
      /\ activeSessionId' = new
      /\ UNCHANGED <<isLive, isRunning, worker, early, unwritten, abandoned>>
  BY DEF CreateSession
<1>2. row \in Session /\ row.status = "Running" /\ Len(sessions) \in Nat
  BY DEF IInv, Typed, Session
<1> HIDE DEF row
<1>3. /\ sessions' \in Seq(Session) /\ Len(sessions') = new
      /\ sessions'[new] = row /\ \A i \in 1 .. Len(sessions) : sessions'[i] = sessions[i]
  BY <1>1, <1>2 DEF IInv, Typed
<1>4. Typed' /\ ActiveRuns'
  BY <1>1, <1>2, <1>3 DEF IInv, Typed, ActiveRuns
<1>5. StartSound'
  BY <1>1 DEF IInv, StartSound, WorkerGone
<1>6. Running' \subseteq Running \union {new}
  BY <1>2, <1>3 DEF Running, Ids, IInv, Typed
<1>7. ASSUME NEW i \in Running' \ Excused' PROVE Attended(i)'
  <2>1. CASE WorkerGone \/ worker.at = "announcing"
    <3>1. overlapped' = overlapped /\ Excused' = Excused
      BY <1>1, <2>1 DEF CreateSession, Excused
    <3>2. ~Attended(i)
      BY <1>1, <2>1 DEF Attended, Launching, Unfinished, WorkerGone
    <3>3. i = new
      BY <1>6, <1>7, <3>1, <3>2 DEF IInv, AllAttended
    <3> QED BY <1>1, <2>1, <3>3 DEF Attended, Launching, WorkerGone
  <2>2. CASE ~WorkerGone /\ worker.at # "announcing"
    <3>1. early
      BY <1>1, <2>2 DEF IInv, Typed, StartSound
    <3>2. overlapped' = overlapped \union ({activeSessionId} \ {0}) \union {new}
      BY <2>2, <3>1 DEF CreateSession
    <3>3. i # new /\ i \in Running \ Excused
      BY <1>1, <1>6, <1>7, <3>2 DEF Excused
    <3>4. i = activeSessionId /\ i # 0
      BY <3>3 DEF IInv, AllAttended, Attended, Typed, Running, Ids
    <3> QED BY <1>7, <3>2, <3>4 DEF Excused
  <2> QED BY <2>1, <2>2
<1> QED BY <1>4, <1>5, <1>7 DEF IInv, AllAttended

LEMMA LaunchWorkerKeeps ==
  ASSUME IInv, LaunchWorker
  PROVE  IInv'
<1>1. /\ gui = "joiningOld" /\ gui' = "idle" /\ WorkerGone
      /\ worker' = [NoWorker EXCEPT !.at = "starting"]
      /\ UNCHANGED <<isLive, isRunning, activeSessionId, sessions, history>>
  BY DEF LaunchWorker
<1>2. worker' \in Worker /\ worker'.at = "starting"
  BY <1>1 DEF NoWorker, Worker, Unfinished
<1>3. Typed' /\ StartSound'
  BY <1>1, <1>2 DEF IInv, Typed, StartSound, history
<1>4. ActiveRuns'
  BY <1>1, <1>2 DEF IInv, ActiveRuns, WorkerGone
<1>5. Running' = Running /\ Excused' = Excused
  BY <1>1 DEF Running, Ids, Excused, history
<1>6. ASSUME NEW i \in Running \ Excused PROVE Attended(i)'
  BY <1>1, <1>2, <1>6 DEF IInv, AllAttended, Attended, Launching, Unfinished
<1> QED BY <1>3, <1>4, <1>5, <1>6 DEF IInv, AllAttended

\* The worker between its start and its session's update.
LEMMA WorkerGoesKeeps ==
  ASSUME IInv,
         AnnounceStart \/ BuildConfig \/ ChooseBranch \/ RunEnds \/ SaveAssets \/ WorkerThrows
  PROVE  IInv'
<1>1. /\ UNCHANGED <<gui, isLive, activeSessionId, sessions, history>>
      /\ worker.at \in Unfinished
      /\ worker'.at \in Unfinished \ {"starting"} /\ worker' \in Worker
      /\ isRunning' \in BOOLEAN
      /\ isRunning' \/ (isRunning' = isRunning /\ worker.at # "starting")
  BY DEF AnnounceStart, BuildConfig, ChooseBranch, RunEnds, SaveAssets, WorkerThrows,
         WorkerStep, Unfinished, Worker, IInv, Typed
<1>2. ~WorkerGone /\ worker.at # "clearing" /\ worker'.at # "clearing" /\ worker.at # "announcing"
  BY <1>1 DEF WorkerGone, Unfinished
<1>3. Typed'
  BY <1>1 DEF IInv, Typed, history
<1>4. StartSound'
  BY <1>1, <1>2 DEF IInv, StartSound, history, Unfinished, WorkerGone
<1>5. ActiveRuns'
  BY <1>1, <1>2 DEF IInv, ActiveRuns
<1>6. Running' = Running /\ Excused' = Excused
  BY <1>1 DEF Running, Ids, Excused, history
<1>7. ASSUME NEW i \in Running \ Excused PROVE Attended(i)'
  BY <1>1, <1>2, <1>7 DEF IInv, AllAttended, Attended, Launching
<1> QED BY <1>3, <1>4, <1>5, <1>6, <1>7 DEF IInv, AllAttended

-----------------------------------------------------------------------------
(* The update of a session.                                                *)

Finishes ==
  \/ worker.at = "finishing" /\ FinishSession("Completed")
  \/ worker.at = "failing" /\ FinishSession("Failed")

\* Only the active session changes, and it was running.
LEMMA FinishUpdates ==
  ASSUME IInv, Finishes
  PROVE  /\ sessions' \in Seq(Session) /\ Len(sessions') = Len(sessions)
         /\ \A i \in Ids : i # activeSessionId => sessions'[i] = sessions[i]
         /\ activeSessionId # 0 =>
              \/ sessions'[activeSessionId].status # "Running" /\ unwritten' = unwritten
              \/ sessions' = sessions /\ unwritten' = unwritten \union {activeSessionId}
         /\ activeSessionId = 0 => UNCHANGED <<sessions, unwritten>>
         /\ activeSessionId # 0 => sessions[activeSessionId].status = "Running"
<1>1. PICK status \in {"Completed", "Failed"} : FinishSession(status)
  BY DEF Finishes
<1>2. activeSessionId # 0 => sessions[activeSessionId].status = "Running"
  BY DEF Finishes, IInv, ActiveRuns
<1> DEFINE Updated == /\ activeSessionId # 0 /\ unwritten' = unwritten
                      /\ sessions' = [sessions EXCEPT ![activeSessionId].status = status,
                                                      ![activeSessionId].saved = worker.saved]
<1>3. CASE ~Updated
  <2>1. \/ activeSessionId = 0 /\ UNCHANGED <<sessions, unwritten>>
        \/ /\ activeSessionId # 0 /\ sessions' = sessions
           /\ unwritten' = unwritten \union {activeSessionId}
    BY <1>1, <1>3 DEF FinishSession
  <2> QED BY <1>2, <2>1 DEF IInv, Typed
<1>4. CASE Updated
  <2> DEFINE row == [sessions[activeSessionId] EXCEPT !.status = status, !.saved = worker.saved]
  <2>1. /\ activeSessionId # 0 /\ unwritten' = unwritten
        /\ sessions' = [sessions EXCEPT ![activeSessionId] = row]
    BY <1>4
  <2>2. activeSessionId \in 1 .. Len(sessions) /\ sessions[activeSessionId] \in Session
    BY <2>1 DEF IInv, Typed
  <2>3. worker.saved \in BOOLEAN
    BY DEF IInv, Typed, Worker
  <2>4. row \in Session /\ row.status = status
    BY <2>2, <2>3 DEF Session
  <2> HIDE DEF row
  <2>5. sessions \in Seq(Session)
    BY DEF IInv, Typed
  <2>6. /\ sessions' \in Seq(Session) /\ Len(sessions') = Len(sessions)
        /\ sessions'[activeSessionId] = row
        /\ \A i \in Ids : i # activeSessionId => sessions'[i] = sessions[i]
    BY <2>1, <2>2, <2>4, <2>5, ExceptSeq DEF Ids
  <2> QED BY <1>2, <2>1, <2>4, <2>6
<1> QED BY <1>3, <1>4

LEMMA FinishKeeps ==
  ASSUME IInv, FinishCompleted \/ FinishFailed
  PROVE  IInv'
<1>1. /\ Finishes
      /\ UNCHANGED <<gui, isLive, isRunning, activeSessionId, early, overlapped, abandoned>>
      /\ worker.at \in {"finishing", "failing"}
      /\ worker' = [worker EXCEPT !.at = "clearing"]
  BY DEF FinishCompleted, FinishFailed, Finishes, WorkerStep, FinishSession
<1>2. worker' \in Worker /\ worker'.at = "clearing"
  BY <1>1 DEF IInv, Typed, Worker
<1>3. Typed'
  BY <1>1, <1>2, FinishUpdates DEF IInv, Typed
<1>4. StartSound'
  BY <1>1, <1>2 DEF IInv, StartSound, WorkerGone
<1>5. ActiveRuns'
  BY <1>2 DEF ActiveRuns
<1>6. Running' \ Excused' = {}
  <2> SUFFICES ASSUME NEW i \in Running' \ Excused' PROVE FALSE
    OBVIOUS
  <2>1. i \in Ids
    BY <1>1, FinishUpdates DEF Running, Ids, IInv, Typed
  <2>2. CASE i = activeSessionId
    <3>1. activeSessionId # 0
      BY <2>1, <2>2 DEF Ids, IInv, Typed
    <3> QED BY <1>1, <2>2, <3>1, FinishUpdates DEF Running, Excused
  <2>3. CASE i # activeSessionId
    <3>1. i \in Running \ Excused
      BY <1>1, <2>1, <2>3, FinishUpdates DEF Running, Excused
    <3> QED BY <2>3, <3>1 DEF IInv, AllAttended, Attended
  <2> QED BY <2>2, <2>3
<1> QED BY <1>3, <1>4, <1>5, <1>6 DEF IInv, AllAttended

\* The end of the worker, when no session is left to attend to.
LEMMA WorkerEndsKeeps ==
  ASSUME IInv, ClearSession \/ AnnounceEnd
  PROVE  IInv'
<1>1. /\ UNCHANGED <<gui, isLive, sessions, history>>
      /\ worker' \in Worker /\ isRunning' \in BOOLEAN
      /\ \/ /\ worker.at = "clearing" /\ worker'.at = "announcing"
            /\ activeSessionId' = 0 /\ isRunning' = isRunning
         \/ /\ worker.at = "announcing" /\ worker'.at = "done"
            /\ activeSessionId' = activeSessionId
  BY DEF ClearSession, AnnounceEnd, WorkerStep, IInv, Typed, Worker
<1>2. Typed'
  BY <1>1 DEF IInv, Typed, history
<1>3. StartSound'
  BY <1>1 DEF IInv, StartSound, WorkerGone, history
<1>4. ActiveRuns'
  BY <1>1 DEF IInv, ActiveRuns
<1>5. Running' = Running /\ Excused' = Excused
  BY <1>1 DEF Running, Ids, Excused, history
<1>6. ASSUME NEW i \in Running \ Excused PROVE Attended(i)'
  BY <1>1, <1>6 DEF IInv, AllAttended, Attended, Launching, WorkerGone, Unfinished
<1> QED BY <1>2, <1>3, <1>4, <1>5, <1>6 DEF IInv, AllAttended

\* A process that dies excuses its sessions; one that was closed has none.
LEMMA RestartKeeps ==
  ASSUME IInv, CrashAndRestart \/ Reopen
  PROVE  IInv'
<1>1. /\ NewProcess /\ UNCHANGED <<sessions, early>>
      /\ CrashAndRestart => Running' \subseteq Excused'
  BY DEF CrashAndRestart, Reopen, history, Running, Ids, Excused
<1>2. Typed'
  <2>1. isLive' \in BOOLEAN /\ isRunning' \in BOOLEAN /\ early' \in BOOLEAN
    BY <1>1 DEF NewProcess, IInv, Typed
  <2>2. gui' = "idle" /\ worker' \in Worker /\ activeSessionId' = 0
    BY <1>1, NoWorkerTyped DEF NewProcess
  <2>3. sessions' \in Seq(Session) /\ activeSessionId' \in 0 .. Len(sessions')
    BY <1>1, <2>2 DEF IInv, Typed
  <2> QED BY <2>1, <2>2, <2>3 DEF Typed
<1>3. StartSound' /\ ActiveRuns'
  BY <1>1, NoWorkerTyped DEF NewProcess, StartSound, ActiveRuns, WorkerGone
<1>4. Reopen => Running' \subseteq Excused'
  <2> SUFFICES ASSUME Reopen PROVE Running \subseteq Excused /\ Running' = Running /\ Excused' = Excused
    OBVIOUS
  <2>1. WorkerGone /\ ~Launching
    BY DEF Reopen, IInv, StartSound, Launching
  <2>2. Running \subseteq Excused
    BY <2>1 DEF IInv, AllAttended, Attended, WorkerGone, Unfinished
  <2> QED BY <2>2 DEF Reopen, history, Running, Ids, Excused
<1> QED BY <1>1, <1>2, <1>3, <1>4 DEF IInv, AllAttended

LEMMA NextInvariant == IInv /\ [Next]_vars => IInv'
<1> SUFFICES ASSUME IInv, [Next]_vars PROVE IInv'
  OBVIOUS
<1>1. CASE SwitchMode \/ (\E live \in BOOLEAN : Start(live)) \/ Stop \/ Quit
           \/ HandleNotification \/ StartRefused \/ ResetStopRequested \/ JoinWorker
  BY <1>1, GuiGoesKeeps
<1>2. CASE CreateSession
  BY <1>2, CreateSessionKeeps
<1>3. CASE LaunchWorker
  BY <1>3, LaunchWorkerKeeps
<1>4. CASE AnnounceStart \/ BuildConfig \/ ChooseBranch \/ RunEnds \/ SaveAssets \/ WorkerThrows
  BY <1>4, WorkerGoesKeeps
<1>5. CASE FinishCompleted \/ FinishFailed
  BY <1>5, FinishKeeps
<1>6. CASE ClearSession \/ AnnounceEnd
  BY <1>6, WorkerEndsKeeps
<1>7. CASE CrashAndRestart \/ Reopen
  BY <1>7, RestartKeeps
<1>8. CASE UNCHANGED vars
  BY <1>8 DEF vars, process, history, IInv, Typed, StartSound, ActiveRuns, AllAttended, Attended,
              Running, Ids, Excused, Launching, WorkerGone
<1> QED BY <1>1, <1>2, <1>3, <1>4, <1>5, <1>6, <1>7, <1>8 DEF Next, GuiThread, WorkerThread

\* For any number of sessions, starts, stops, crashes and restarts, and however
\* the GUI thread and the worker interleave: when no capture is under way, a
\* session that is still marked "Running" belongs to a start that read isRunning_
\* before the last worker had set it, to an update that failed, or to a process
\* that died.
THEOREM NoSessionLeftRunning == Spec => []SessionsSettled
<1>1. Init => IInv
  BY InitInvariant
<1>2. IInv /\ [Next]_vars => IInv'
  BY NextInvariant
<1>3. IInv => SessionsSettled
  BY DEF IInv, AllAttended, Attended, SessionsSettled, Excused, Launching, WorkerGone, Unfinished
<1> QED BY <1>1, <1>2, <1>3, PTL DEF Spec

\* In the same generality, a session that was marked completed or failed stays
\* as it is: the worker updates the active session, which is running until it is
\* forgotten or replaced.
THEOREM SessionsFinishOnce == Spec => FinishedOnce
<1>1. Init => IInv
  BY InitInvariant
<1>2. IInv /\ [Next]_vars => IInv'
  BY NextInvariant
<1>3. ASSUME IInv, [Next]_vars, NEW i \in Ids, sessions[i].status # "Running"
      PROVE  sessions'[i] = sessions[i]
  <2>1. CASE FinishCompleted \/ FinishFailed
    <3>1. Finishes
      BY <2>1 DEF FinishCompleted, FinishFailed, Finishes, WorkerStep
    <3> QED BY <1>3, <3>1, FinishUpdates
  <2>2. CASE CreateSession
    BY <1>3, <2>2 DEF CreateSession, Ids, IInv, Typed
  <2>3. CASE ~(FinishCompleted \/ FinishFailed \/ CreateSession)
    <3>1. sessions' = sessions
      BY <1>3, <2>3
         DEF Next, GuiThread, WorkerThread, SwitchMode, Start, Stop, Quit, RequestStop,
             HandleNotification, StartRefused, ResetStopRequested, JoinWorker, LaunchWorker,
             AnnounceStart, BuildConfig, ChooseBranch, RunEnds, SaveAssets, WorkerThrows,
             ClearSession, AnnounceEnd, CrashAndRestart, Reopen, vars
    <3> QED BY <3>1
  <2> QED BY <2>1, <2>2, <2>3
<1>4. IInv /\ [Next]_vars => [\A i \in Ids : sessions[i].status # "Running" => sessions'[i] = sessions[i]]_vars
  BY <1>3
<1> QED BY <1>1, <1>2, <1>4, PTL DEF Spec, FinishedOnce

-----------------------------------------------------------------------------
(* The children of the supervisor.                                         *)


Process == [state : {"running", "zombie", "reaped"}, signal : {"none", "TERM", "KILL"},
            code : Int, result : Int, left : Int]

last == Len(processes)

ChildTyped ==
  /\ processes \in Seq(Process)
  /\ childPid \in {0, last}
  /\ exitCode \in Int
  /\ doing \in {"none", "stop", "destroy", "gone"}
  /\ stage \in {"none", "look", "terminate", "poll", "wait"}
  /\ sigchldIgnored \in BOOLEAN
  /\ strayed \in BOOLEAN
  /\ forgotten \subseteq 1 .. last
  /\ open \subseteq (1 .. last) \X {"stdout", "stderr"}
  /\ doing # "gone" => stdoutFd = last /\ stderrFd = last

\* A call to stop has a child to deal with once it has looked.
StageSound ==
  /\ doing \in {"none", "gone"} <=> stage = "none"
  /\ stage \in {"terminate", "poll", "wait"} => childPid # 0
  /\ doing = "gone" => childPid = 0 /\ \A end \in open : end[1] < last

CodeSound ==
  /\ childPid # 0 => exitCode = NoCode
  /\ last \in forgotten => exitCode = NoCode /\ childPid = 0
  /\ exitCode # NoCode => exitCode = processes[last].code \/ (sigchldIgnored /\ exitCode = 0)
  /\ last > 0 /\ childPid = 0 => exitCode # NoCode \/ last \in forgotten

\* A process that runs has no code yet and one that has ended has; the system
\* reaps a process that is known only where SIGCHLD is ignored.
ProcessSound(c) ==
  /\ State(c) = "reaped" \/ c = childPid \/ c \in forgotten
  /\ State(c) # "running" => processes[c].code # NoCode
  /\ processes[c].result # NoCode
  /\ State(c) = "reaped" /\ c = childPid => sigchldIgnored

ProcessesSound == \A c \in 1 .. last : ProcessSound(c)

StrayedSound == strayed => sigchldIgnored

ChildInv == ChildTyped /\ StageSound /\ CodeSound /\ ProcessesSound /\ StrayedSound

-----------------------------------------------------------------------------

\* A process may be replaced by another state of itself.
LEMMA UpdateProcess ==
  ASSUME processes \in Seq(Process), NEW c \in 1 .. last, NEW p \in Process
  PROVE  LET s == [processes EXCEPT ![c] = p]
         IN  /\ s \in Seq(Process) /\ Len(s) = last
             /\ s[c] = p /\ \A d \in 1 .. last : d # c => s[d] = processes[d]
BY ExceptSeq DEF last

\* What is updated in a process leaves the rest of it.
LEMMA NewState ==
  ASSUME NEW p \in Process, NEW state \in {"running", "zombie", "reaped"}
  PROVE  LET q == [p EXCEPT !.state = state]
         IN  q \in Process /\ q.state = state /\ q.code = p.code /\ q.result = p.result
BY DEF Process

LEMMA NewSignal ==
  ASSUME NEW p \in Process, NEW signal \in {"TERM", "KILL"}
  PROVE  LET q == [p EXCEPT !.signal = signal]
         IN  q \in Process /\ q.state = p.state /\ q.code = p.code /\ q.result = p.result
BY DEF Process

LEMMA LineLess ==
  ASSUME NEW p \in Process
  PROVE  LET q == [p EXCEPT !.left = @ - 1]
         IN  q \in Process /\ q.state = p.state /\ q.code = p.code /\ q.result = p.result
BY DEF Process

\* What asset-capture ends with.
LEMMA ResultIsCode ==
  ASSUME NEW args, NEW backend
  PROVE  AssetCaptureMain(args, backend) \in {0, 2, 3}
BY DEF AssetCaptureMain

LEMMA ChildInitInvariant == ChildInit => ChildInv
<1> SUFFICES ASSUME ChildInit PROVE ChildInv
  OBVIOUS
<1>1. processes \in Seq(Process) /\ last = 0
  BY DEF last, ChildInit
<1>2. forgotten \subseteq 1 .. last /\ open \subseteq (1 .. last) \X {"stdout", "stderr"}
  BY DEF ChildInit
<1>3. exitCode \in Int
  BY DEF ChildInit, NoCode
<1>4. ChildTyped
  BY <1>1, <1>2, <1>3 DEF ChildTyped, ChildInit
<1>5. StageSound
  BY DEF StageSound, ChildInit
<1>6. CodeSound
  BY <1>1 DEF ChildInit, CodeSound
<1>7. ProcessesSound /\ StrayedSound
  BY <1>1 DEF ChildInit, ProcessesSound, StrayedSound
<1> QED BY <1>4, <1>5, <1>6, <1>7 DEF ChildInv

-----------------------------------------------------------------------------
(* What a process does.                                                    *)

\* A process goes on, or one that runs ends with a code.
LEMMA ProcessGoes ==
  ASSUME ChildInv, NEW c \in 1 .. last, NEW p \in Process,
         processes' = [processes EXCEPT ![c] = p],
         UNCHANGED <<supervisor, open, sigchldIgnored, childHistory>>,
         p.result = processes[c].result,
         \/ p.state = State(c) /\ p.code = processes[c].code
         \/ /\ State(c) = "running" /\ p.code # NoCode
            /\ p.state = IF sigchldIgnored THEN "reaped" ELSE "zombie"
  PROVE  ChildInv'
<1>1. /\ processes' \in Seq(Process) /\ last' = last
      /\ processes'[c] = p /\ \A d \in 1 .. last : d # c => processes'[d] = processes[d]
  BY UpdateProcess DEF ChildInv, ChildTyped, last
<1>2. ChildTyped'
  BY <1>1 DEF ChildInv, ChildTyped, supervisor, known, childHistory
<1>3. StageSound'
  BY <1>1 DEF ChildInv, StageSound, supervisor, known, childHistory
<1>4. State(c) = "running" /\ c = last => exitCode = NoCode
  BY DEF ChildInv, CodeSound, ProcessesSound, ProcessSound, ChildTyped
<1>5. CodeSound'
  BY <1>1, <1>4 DEF ChildInv, CodeSound, supervisor, known, childHistory, State
<1>6. ASSUME NEW d \in 1 .. last PROVE ProcessSound(d)'
  BY <1>1 DEF ChildInv, ProcessesSound, ProcessSound, supervisor, known, childHistory, State
<1>7. ProcessesSound'
  BY <1>1, <1>6 DEF ProcessesSound
<1>8. StrayedSound'
  BY DEF ChildInv, StrayedSound, childHistory
<1> QED BY <1>2, <1>3, <1>5, <1>7, <1>8 DEF ChildInv

\* The children are the processes by their number.
LEMMA ChildrenAreNumbers ==
  ASSUME ChildInv
  PROVE  /\ Children = 1 .. last /\ last \in Nat
         /\ \A c \in 1 .. last : processes[c] \in Process
BY DEF ChildInv, ChildTyped, Children, last

LEMMA DiesKeeps ==
  ASSUME ChildInv, NEW c \in 1 .. last, NEW code \in Int, code # NoCode, State(c) = "running",
         Dies(c, code), UNCHANGED <<supervisor, open, sigchldIgnored, childHistory>>
  PROVE  ChildInv'
<1> DEFINE state == IF sigchldIgnored THEN "reaped" ELSE "zombie"
           p == [processes[c] EXCEPT !.state = state, !.code = code]
<1>1. state \in {"running", "zombie", "reaped"} /\ processes[c] \in Process
  BY ChildrenAreNumbers
<1>2. processes' = [processes EXCEPT ![c] = p]
  BY DEF Dies
<1> HIDE DEF state
<1>3. p \in Process /\ p.state = state /\ p.code = code /\ p.result = processes[c].result
  BY <1>1 DEF Process
<1> HIDE DEF p
<1> QED BY <1>2, <1>3, ProcessGoes DEF state

LEMMA ChildKeeps ==
  ASSUME ChildInv, NEW c \in 1 .. last, ChildWrites(c) \/ ChildExits(c) \/ ChildDiesOfSignal(c)
  PROVE  ChildInv'
<1>1. processes[c] \in Process
  BY ChildrenAreNumbers
<1>2. CASE ChildWrites(c)
  <2> DEFINE p == [processes[c] EXCEPT !.left = @ - 1]
  <2>1. processes' = [processes EXCEPT ![c] = p]
    BY <1>2 DEF ChildWrites
  <2>2. p \in Process /\ p.state = State(c) /\ p.code = processes[c].code
          /\ p.result = processes[c].result
    BY <1>1, LineLess DEF State
  <2>3. UNCHANGED <<supervisor, open, sigchldIgnored, childHistory>>
    BY <1>2 DEF ChildWrites
  <2> HIDE DEF p
  <2> QED BY <2>1, <2>2, <2>3, ProcessGoes
<1>3. CASE ChildExits(c)
  <2>1. processes[c].result \in Int
    BY <1>1 DEF Process
  <2>2. processes[c].result # NoCode
    BY DEF ChildInv, ProcessesSound, ProcessSound
  <2> QED BY <1>3, <2>1, <2>2, DiesKeeps DEF ChildExits
<1>4. CASE ChildDiesOfSignal(c)
  <2>1. /\ State(c) = "running" /\ UNCHANGED <<supervisor, open, sigchldIgnored, childHistory>>
        /\ Dies(c, 143) \/ Dies(c, 137)
    BY <1>4 DEF ChildDiesOfSignal
  <2>2. 143 \in Int /\ 143 # NoCode /\ 137 \in Int /\ 137 # NoCode
    BY DEF NoCode
  <2> QED BY <2>1, <2>2, DiesKeeps
<1> QED BY <1>2, <1>3, <1>4

-----------------------------------------------------------------------------
(* What the supervisor does.                                               *)

\* stop returns with a child or none; the destructor leaves open what a later
\* start has overwritten.
LEMMA ReturnSound ==
  ASSUME ChildInv, stage # "none", Return
  PROVE  /\ stage' = "none" /\ doing' \in {"none", "gone"}
         /\ doing' # "gone" => stdoutFd' = last /\ stderrFd' = last
         /\ open' \subseteq (1 .. last) \X {"stdout", "stderr"}
         /\ doing' = "gone" => \A end \in open' : end[1] < last
<1>1. doing \in {"stop", "destroy"} /\ stdoutFd = last /\ stderrFd = last
  BY DEF ChildInv, ChildTyped, StageSound
<1>2. /\ last \in Nat
      /\ \A end \in open : /\ end[1] \in 1 .. last /\ end[2] \in {"stdout", "stderr"}
                           /\ end = <<end[1], end[2]>>
  BY ChildrenAreNumbers DEF ChildInv, ChildTyped
<1>3. CASE doing = "stop"
  BY <1>1, <1>3 DEF Return, ChildInv, ChildTyped
<1>4. CASE doing = "destroy"
  <2>1. /\ stage' = "none" /\ doing' = "gone"
        /\ open' = open \ {<<last, "stdout">>, <<last, "stderr">>}
    BY <1>1, <1>4 DEF Return
  <2>2. ASSUME NEW end \in open' PROVE end[1] < last
    <3>1. end \in open /\ end # <<last, "stdout">> /\ end # <<last, "stderr">>
      BY <2>1
    <3>2. end[1] # last
      BY <1>2, <3>1
    <3> QED BY <1>2, <3>1, <3>2
  <2>3. open' \subseteq (1 .. last) \X {"stdout", "stderr"}
    BY <2>1 DEF ChildInv, ChildTyped
  <2> QED BY <2>1, <2>2, <2>3
<1> QED BY <1>1, <1>3, <1>4

\* A child that has ended is waited for, by isRunning or by stop.
LEMMA NoteExitKeeps ==
  ASSUME ChildInv, childPid # 0, ~StillRuns, NoteExit,
         UNCHANGED <<sigchldIgnored, childHistory>>,
         \/ doing = "none" /\ UNCHANGED <<stdoutFd, stderrFd, doing, stage, open>>
         \/ stage # "none" /\ Return
  PROVE  ChildInv'
<1> DEFINE p == [processes[childPid] EXCEPT !.state = "reaped"]
<1>1. childPid = last /\ childPid \in 1 .. last /\ processes[last] \in Process
  BY ChildrenAreNumbers DEF ChildInv, ChildTyped
<1>2. processes' = [processes EXCEPT ![last] = p]
  BY <1>1 DEF NoteExit
<1>3. p \in Process /\ p.state = "reaped" /\ p.code = processes[last].code
       /\ p.result = processes[last].result
  BY <1>1, NewState
<1> HIDE DEF p
<1>4. /\ processes' \in Seq(Process) /\ last' = last
      /\ processes'[last] = p /\ \A d \in 1 .. last : d # last => processes'[d] = processes[d]
  BY <1>1, <1>2, <1>3, UpdateProcess DEF ChildInv, ChildTyped, last
<1>5. /\ childPid' = 0
      /\ exitCode' = IF State(last) = "reaped" THEN 0 ELSE processes[last].code
  BY <1>1 DEF NoteExit
<1>6. ProcessSound(last) /\ State(last) # "running"
  BY <1>1 DEF ChildInv, ProcessesSound, StillRuns
<1>7. exitCode' \in Int /\ exitCode' # NoCode
  BY <1>1, <1>5, <1>6 DEF ProcessSound, Process, NoCode
<1>8. /\ doing' \in {"none", "stop", "destroy", "gone"} /\ stage' = "none"
      /\ doing' \in {"none", "gone"} <=> stage' = "none"
      /\ doing' # "gone" => stdoutFd' = last /\ stderrFd' = last
      /\ open' \subseteq (1 .. last) \X {"stdout", "stderr"}
      /\ doing' = "gone" => \A end \in open' : end[1] < last
  <2>1. CASE doing = "none" /\ UNCHANGED <<stdoutFd, stderrFd, doing, stage, open>>
    BY <1>1, <2>1 DEF ChildInv, ChildTyped, StageSound
  <2>2. CASE stage # "none" /\ Return
    BY <1>1, <2>2, ReturnSound
  <2> QED BY <2>1, <2>2
<1>9. ChildTyped'
  BY <1>4, <1>5, <1>7, <1>8 DEF ChildInv, ChildTyped, childHistory
<1>10. StageSound'
  BY <1>4, <1>5, <1>8 DEF StageSound
<1>11. CodeSound'
  BY <1>3, <1>4, <1>5, <1>6, <1>7, <1>1 DEF ChildInv, CodeSound, ProcessSound, childHistory, State
<1>12. ASSUME NEW d \in 1 .. last PROVE ProcessSound(d)'
  <2>1. CASE d = last
    BY <1>3, <1>4, <1>5, <1>6, <2>1 DEF ProcessSound, State
  <2>2. CASE d # last
    BY <1>1, <1>4, <1>5, <2>2 DEF ChildInv, ProcessesSound, ProcessSound, childHistory, State
  <2> QED BY <2>1, <2>2
<1>13. ProcessesSound'
  BY <1>4, <1>12 DEF ProcessesSound
<1>14. StrayedSound'
  BY DEF ChildInv, StrayedSound, childHistory
<1> QED BY <1>9, <1>10, <1>11, <1>13, <1>14 DEF ChildInv

\* Where the supervisor only goes on, without a look at the child.
LEMMA SupervisorGoes ==
  ASSUME ChildInv, UNCHANGED <<known, processes, open, sigchldIgnored, childHistory>>,
         ChildTyped', StageSound'
  PROVE  ChildInv'
<1>1. last' = last
  BY DEF last
<1>2. CodeSound' /\ StrayedSound'
  BY <1>1 DEF ChildInv, CodeSound, StrayedSound, known, childHistory
<1>3. ProcessesSound'
  BY <1>1 DEF ChildInv, ProcessesSound, ProcessSound, known, childHistory, State
<1> QED BY <1>2, <1>3 DEF ChildInv

\* A call of stop or of the destructor begins, or finds that the child goes on.
LEMMA StopGoesKeeps ==
  ASSUME ChildInv, (\E call \in {"stop", "destroy"} : BeginStop(call)) \/ StopFindsChild \/ PollAgain
  PROVE  ChildInv'
<1>1. UNCHANGED <<known, processes, open, sigchldIgnored, childHistory>>
  BY DEF BeginStop, StopFindsChild, PollAgain, Goes
<1>2. ChildTyped' /\ StageSound'
  <2>1. last' = last
    BY <1>1 DEF last
  <2>2. /\ doing' \in {"none", "stop", "destroy", "gone"}
        /\ stage' \in {"none", "look", "terminate", "poll", "wait"}
        /\ doing' = "gone" => doing = "gone"
        /\ doing # "gone"
        /\ doing' \in {"none", "gone"} <=> stage' = "none"
        /\ stage' \in {"terminate", "poll", "wait"} => childPid # 0
    BY DEF BeginStop, StopFindsChild, PollAgain, Goes, ChildInv, ChildTyped, StageSound
  <2> QED BY <1>1, <2>1, <2>2 DEF ChildInv, ChildTyped, StageSound, known, childHistory
<1> QED BY <1>1, <1>2, SupervisorGoes

\* stop gives the child a signal, or what has its pid.
LEMMA SignalKeeps ==
  ASSUME ChildInv, Terminate \/ Kill
  PROVE  ChildInv'
<1>1. PICK signal \in {"TERM", "KILL"} : Signal(signal)
  BY DEF Terminate, Kill
<1>2. /\ UNCHANGED <<known, doing, open, sigchldIgnored>>
      /\ stage \in {"terminate", "poll"} /\ stage' \in {"poll", "wait"}
  BY DEF Terminate, Kill, Goes
<1>3. childPid = last /\ last \in 1 .. last /\ processes[last] \in Process
  BY <1>2, ChildrenAreNumbers DEF ChildInv, ChildTyped, StageSound
<1> DEFINE p == IF StillRuns THEN [processes[last] EXCEPT !.signal = signal] ELSE processes[last]
<1>4. p \in Process /\ p.state = State(last) /\ p.code = processes[last].code
       /\ p.result = processes[last].result
  BY <1>3, NewSignal DEF State
<1>5. processes' = [processes EXCEPT ![last] = p]
  BY <1>1, <1>3 DEF Signal, ChildInv, ChildTyped
<1> HIDE DEF p
<1>6. /\ processes' \in Seq(Process) /\ last' = last
      /\ processes'[last] = p /\ \A d \in 1 .. last : d # last => processes'[d] = processes[d]
  BY <1>3, <1>4, <1>5, UpdateProcess DEF ChildInv, ChildTyped, last
<1>7. forgotten' = forgotten /\ strayed' = (strayed \/ State(last) = "reaped")
  BY <1>1, <1>3 DEF Signal
<1>8. ChildTyped'
  BY <1>2, <1>6, <1>7 DEF ChildInv, ChildTyped, known
<1>9. StageSound'
  BY <1>2, <1>3, <1>6 DEF ChildInv, StageSound, known
<1>10. CodeSound'
  BY <1>2, <1>4, <1>6, <1>7 DEF ChildInv, CodeSound, known
<1>11. ASSUME NEW d \in 1 .. last PROVE ProcessSound(d)'
  BY <1>2, <1>4, <1>6, <1>7 DEF ChildInv, ProcessesSound, ProcessSound, known, State
<1>12. ProcessesSound'
  BY <1>6, <1>11 DEF ProcessesSound
<1>13. StrayedSound'
  BY <1>2, <1>3, <1>7 DEF ChildInv, StrayedSound, ProcessesSound, ProcessSound
<1> QED BY <1>8, <1>9, <1>10, <1>12, <1>13 DEF ChildInv

\* stop returns without a child, as there was none or it is given up.
LEMMA ReturnKeeps ==
  ASSUME ChildInv, StopFindsNone \/ WaitInterrupted
  PROVE  ChildInv'
<1>1. /\ stage # "none" /\ Return /\ childPid' = 0
      /\ UNCHANGED <<exitCode, processes, sigchldIgnored, strayed>>
      /\ \/ childPid = 0 /\ forgotten' = forgotten
         \/ childPid # 0 /\ forgotten' = forgotten \cup {childPid}
  BY DEF StopFindsNone, WaitInterrupted, ChildInv, StageSound, childHistory
<1>2. last' = last /\ last \in Nat /\ childPid \in {0, last}
  BY <1>1, ChildrenAreNumbers DEF last, ChildInv, ChildTyped
<1>3. /\ stage' = "none" /\ doing' \in {"none", "gone"}
      /\ doing' # "gone" => stdoutFd' = last /\ stderrFd' = last
      /\ open' \subseteq (1 .. last) \X {"stdout", "stderr"}
      /\ doing' = "gone" => \A end \in open' : end[1] < last
  BY <1>1, ReturnSound
<1>4. forgotten' \subseteq 1 .. last /\ forgotten \subseteq forgotten'
  <2>1. childPid # 0 => childPid \in 1 .. last
    BY <1>2
  <2>2. forgotten \subseteq 1 .. last
    BY DEF ChildInv, ChildTyped
  <2> QED BY <1>1, <2>1, <2>2
<1>5. ChildTyped'
  BY <1>1, <1>2, <1>3, <1>4 DEF ChildInv, ChildTyped
<1>6. StageSound'
  BY <1>1, <1>2, <1>3 DEF StageSound
<1>7. CodeSound'
  BY <1>1, <1>2, <1>4 DEF ChildInv, CodeSound, ChildTyped
<1>8. ProcessesSound'
  BY <1>1, <1>2, <1>4 DEF ChildInv, ProcessesSound, ProcessSound, State
<1>9. StrayedSound'
  BY <1>1 DEF ChildInv, StrayedSound
<1> QED BY <1>5, <1>6, <1>7, <1>8, <1>9 DEF ChildInv

LEMMA StartKeeps ==
  ASSUME ChildInv, NEW args, NEW backend \in BOOLEAN, NEW executable \in BOOLEAN,
         StartChild(args, backend, executable)
  PROVE  ChildInv'
<1> DEFINE result == IF executable THEN AssetCaptureMain(args, backend) ELSE 127
           waitedFor == [i \in Children |-> IF i = childPid /\ ~StillRuns
                                            THEN [processes[i] EXCEPT !.state = "reaped"] ELSE processes[i]]
           child == NewChild(args, result)
<1>1. Children = 1 .. last /\ last \in Nat /\ \A c \in 1 .. last : processes[c] \in Process
  BY ChildrenAreNumbers
<1>2. /\ doing = "none" /\ MayStart
      /\ processes' = Append(waitedFor, child)
      /\ childPid' = last + 1 /\ stdoutFd' = last + 1 /\ stderrFd' = last + 1
      /\ open' = open \cup {<<last + 1, "stdout">>, <<last + 1, "stderr">>}
      /\ exitCode' = NoCode
      /\ UNCHANGED <<doing, stage, sigchldIgnored, childHistory>>
  BY DEF StartChild, last
<1>3. result \in Int /\ result # NoCode
  BY ResultIsCode DEF NoCode
<1>4. child \in Process /\ child.state = "running" /\ child.result = result
  BY <1>3 DEF NewChild, Process, Lines, NoCode
<1> HIDE DEF result, child
<1>5. ASSUME NEW c \in 1 .. last
      PROVE  /\ waitedFor[c] \in Process /\ waitedFor[c].code = processes[c].code
             /\ waitedFor[c].result = processes[c].result
             /\ IF c = childPid THEN waitedFor[c].state = "reaped" /\ State(c) # "running"
                ELSE waitedFor[c].state = State(c)
  <2>1. processes[c] \in Process /\ c \in Children
    BY <1>1
  <2>2. CASE c = childPid
    <3>1. childPid # 0 /\ State(c) # "running" /\ ~StillRuns
      BY <1>1, <1>2, <2>2 DEF MayStart, StillRuns
    <3>2. waitedFor[c] = [processes[c] EXCEPT !.state = "reaped"]
      BY <2>1, <2>2, <3>1
    <3> QED BY <2>1, <2>2, <3>1, <3>2 DEF Process
  <2>3. CASE c # childPid
    BY <2>1, <2>3 DEF State
  <2> QED BY <2>2, <2>3
<1>6. waitedFor \in Seq(Process) /\ Len(waitedFor) = last
  <2>1. waitedFor \in [1 .. last -> Process]
    BY <1>1, <1>5
  <2> QED BY <1>1, <2>1
<1> HIDE DEF waitedFor
<1>7. /\ processes' \in Seq(Process) /\ last' = last + 1
      /\ processes'[last + 1] = child
      /\ \A c \in 1 .. last : processes'[c] = waitedFor[c]
  BY <1>2, <1>4, <1>6 DEF last
<1>8. forgotten \subseteq 1 .. last /\ open \subseteq (1 .. last) \X {"stdout", "stderr"}
  BY DEF ChildInv, ChildTyped
<1>9. ChildTyped'
  <2>1. forgotten' \subseteq 1 .. last'
    BY <1>1, <1>2, <1>7, <1>8 DEF childHistory
  <2>2. open' \subseteq (1 .. last') \X {"stdout", "stderr"}
    BY <1>1, <1>2, <1>7, <1>8
  <2>3. exitCode' \in Int
    BY <1>2 DEF NoCode
  <2> QED BY <1>2, <1>7, <2>1, <2>2, <2>3 DEF ChildInv, ChildTyped, childHistory
<1>10. StageSound'
  BY <1>1, <1>2 DEF ChildInv, StageSound
<1>11. CodeSound'
  BY <1>1, <1>2, <1>7, <1>8 DEF CodeSound, childHistory
<1>12. ASSUME NEW c \in 1 .. last + 1 PROVE ProcessSound(c)'
  <2>1. CASE c = last + 1
    BY <1>2, <1>3, <1>4, <1>7, <2>1 DEF ProcessSound, State
  <2>2. CASE c # last + 1
    <3>1. c \in 1 .. last /\ ProcessSound(c)
      BY <1>1, <2>2 DEF ChildInv, ProcessesSound
    <3>2. c # childPid'
      BY <1>1, <1>2, <3>1
    <3>3. processes'[c] = waitedFor[c]
      BY <1>7, <3>1
    <3> QED BY <1>2, <1>5, <3>1, <3>2, <3>3 DEF ProcessSound, State, childHistory
  <2> QED BY <2>1, <2>2
<1>13. ProcessesSound'
  BY <1>7, <1>12 DEF ProcessesSound
<1>14. StrayedSound'
  BY <1>2 DEF ChildInv, StrayedSound, childHistory
<1> QED BY <1>9, <1>10, <1>11, <1>13, <1>14 DEF ChildInv

-----------------------------------------------------------------------------

LEMMA ChildNextInvariant == ChildInv /\ [ChildNext]_childVars => ChildInv'
<1> SUFFICES ASSUME ChildInv, [ChildNext]_childVars PROVE ChildInv'
  OBVIOUS
<1>1. ASSUME NEW c \in Children, ChildWrites(c) \/ ChildExits(c) \/ ChildDiesOfSignal(c) PROVE ChildInv'
  BY <1>1, ChildKeeps, ChildrenAreNumbers
<1>2. ASSUME NEW args \in Arguments, NEW backend \in BOOLEAN, NEW executable \in BOOLEAN,
             StartChild(args, backend, executable) PROVE ChildInv'
  BY <1>2, StartKeeps
<1>3. CASE (\E call \in {"stop", "destroy"} : BeginStop(call)) \/ StopFindsChild \/ PollAgain
  BY <1>3, StopGoesKeeps
<1>4. CASE IsRunning
  BY <1>4, NoteExitKeeps DEF IsRunning
<1>5. CASE StopFindsEnd
  BY <1>5, NoteExitKeeps DEF StopFindsEnd
<1>6. CASE StopFindsNone \/ WaitInterrupted
  BY <1>6, ReturnKeeps
<1>7. CASE Terminate \/ Kill
  BY <1>7, SignalKeeps
<1>8. CASE ReadAvailable \/ UNCHANGED childVars
  <2>1. UNCHANGED <<supervisor, processes, open, sigchldIgnored, childHistory>>
    BY <1>8 DEF ReadAvailable, childVars
  <2>2. ChildTyped' /\ StageSound'
    BY <2>1 DEF ChildInv, ChildTyped, StageSound, supervisor, known, childHistory, last
  <2> QED BY <2>1, <2>2, SupervisorGoes DEF supervisor
<1> QED BY <1>1, <1>2, <1>3, <1>4, <1>5, <1>6, <1>7, <1>8 DEF ChildNext

LEMMA InvariantAccounts == ChildInv => ChildrenAccountedFor
<1> SUFFICES ASSUME ChildInv PROVE ChildrenAccountedFor
  OBVIOUS
<1>1. \A c \in Children : State(c) = "reaped" \/ c = childPid \/ c \in forgotten
  BY ChildrenAreNumbers DEF ChildInv, ProcessesSound, ProcessSound
<1> QED BY <1>1 DEF ChildrenAccountedFor, ChildInv, CodeSound, StageSound, StrayedSound, last

\* However the calls of a supervisor, its children and the signals interleave, for
\* any number of restarts and of polls: every child but one given up by an
\* interrupted wait is known or waited for, the code reported is that of the last
\* child, and only descriptors that a restart has overwritten stay open.
THEOREM EveryChildAccountedFor == ChildSpec => []ChildrenAccountedFor
<1>1. ChildInit => ChildInv
  BY ChildInitInvariant
<1>2. ChildInv /\ [ChildNext]_childVars => ChildInv'
  BY ChildNextInvariant
<1>3. ChildInv => ChildrenAccountedFor
  BY InvariantAccounts
<1> QED BY <1>1, <1>2, <1>3, PTL DEF ChildSpec

-----------------------------------------------------------------------------
(* Numbers in base 2.                                                      *)

\* A number after a digit more.
ReadDigit == [n \in Nat |-> [d \in Symbols |-> 2 * n + (IF d = "1" THEN 1 ELSE 0)]]

\* A number is read digit by digit.
LEMMA NumberIsSteps ==
  ASSUME NEW s \in Seq(Symbols)
  PROVE  Number(s) = Steps(ReadDigit, 0, s)
<1> DEFINE D == DOMAIN s
           Op(n, d) == 2 * n + (IF d = "1" THEN 1 ELSE 0)
           Value(iter, t) == IF t = {} THEN 0 ELSE Op(iter[t \ {Max(t)}], s[Max(t)])
           Iter == CHOOSE iter : iter = [t \in SUBSET D |-> Value(iter, t)]
<1>1. Number(s) = Iter[D]
  BY DEF Number, FoldLeft, MapThenFoldSet
<1>2. Stepping(ReadDigit, 0, Nat, Symbols)
  BY DEF Stepping, ReadDigit
<1>3. \A n \in Nat, d \in Symbols : Op(n, d) = ReadDigit[n][d]
  BY DEF ReadDigit
<1> HIDE DEF Op
<1>4. D = 1 .. Len(s)
  BY FoldIndices
<1>5. PICK h \in [SUBSET (1 .. Len(s)) -> Nat] : FoldEquation(ReadDigit, 0, s, Len(s), h)
  BY <1>2, FoldExists
<1>6. ASSUME NEW t \in SUBSET D PROVE h[t] = Value(h, t)
  <2>1. t # {} => h[t \ {Max(t)}] \in Nat /\ s[Max(t)] \in Symbols
    BY <1>4, FoldIndices
  <2> QED
    BY <1>3, <1>4, <1>5, <2>1 DEF FoldEquation
<1>7. Iter = [t \in SUBSET D |-> Value(Iter, t)]
  <2>1. h = [t \in SUBSET D |-> Value(h, t)]
    <3> HIDE DEF Value
    <3> QED
      BY <1>4, <1>6
  <2> HIDE DEF Value, D
  <2> QED
    BY <2>1
<1> HIDE DEF Iter
<1>8. Stepped(Iter, ReadDigit, 0, s, Nat)
  <2>1. Iter[{}] = 0
    BY <1>7
  <2>2. ASSUME NEW n \in 1 .. Len(s), Iter[(1 .. n) \ {Max(1 .. n)}] \in Nat
        PROVE  Iter[1 .. n] = ReadDigit[Iter[(1 .. n) \ {Max(1 .. n)}]][s[Max(1 .. n)]]
    <3>1. 1 .. n \in SUBSET D /\ 1 .. n # {} /\ s[Max(1 .. n)] \in Symbols
      BY <1>4, FoldIndices
    <3>2. Iter[1 .. n] = Value(Iter, 1 .. n)
      BY <1>7, <3>1
    <3> QED
      BY <1>3, <2>2, <3>1, <3>2
  <2> QED
    BY <2>1, <2>2 DEF Stepped
<1>9. Iter[D] = Steps(ReadDigit, 0, s)
  BY <1>2, <1>8, FoldIsSteps
<1> QED
  BY <1>1, <1>9

\* What another digit makes of a number.
LEMMA NumberOfDigits ==
  /\ Number(<<>>) = 0
  /\ \A s \in Seq(Symbols) : Number(s) \in Nat
  /\ \A s \in Seq(Symbols), d \in Symbols : Number(Append(s, d)) = 2 * Number(s) + (IF d = "1" THEN 1 ELSE 0)
<1>1. Stepping(ReadDigit, 0, Nat, Symbols)
  BY DEF Stepping, ReadDigit
<1>2. \A n \in Nat, d \in Symbols : ReadDigit[n][d] = 2 * n + (IF d = "1" THEN 1 ELSE 0)
  BY DEF ReadDigit
<1>3. Number(<<>>) = 0
  <2>1. <<>> \in Seq(Symbols) /\ Steps(ReadDigit, 0, <<>>) = 0
    BY <1>1, StepsEmpty
  <2> QED
    BY <2>1, NumberIsSteps
<1>4. ASSUME NEW s \in Seq(Symbols) PROVE Number(s) \in Nat
  BY <1>1, NumberIsSteps, StepsType
<1>5. ASSUME NEW s \in Seq(Symbols), NEW d \in Symbols
      PROVE  Number(Append(s, d)) = 2 * Number(s) + (IF d = "1" THEN 1 ELSE 0)
  <2>1. Append(s, d) \in Seq(Symbols)
    OBVIOUS
  <2>2. Steps(ReadDigit, 0, Append(s, d)) = ReadDigit[Steps(ReadDigit, 0, s)][d]
    BY <1>1, StepsAppend
  <2>3. Number(Append(s, d)) = ReadDigit[Number(s)][d]
    BY <2>1, <2>2, NumberIsSteps
  <2> QED
    BY <2>3, <1>2, <1>4
<1> QED
  BY <1>3, <1>4, <1>5

\* The digits of a number, once those of every number below it are there.
DigitsUpTo(h, n) ==
  \A m \in 0 .. n :
    h[m] = IF m < 2 THEN <<Digit[m + 1]>> ELSE Append(h[m \div 2], Digit[(m % 2) + 1])

\* Half of a number, and what is left of it.
LEMMA Halves ==
  ASSUME NEW n \in Nat, n >= 2
  PROVE  /\ n \div 2 \in Nat /\ n \div 2 < n /\ n \div 2 >= 1
         /\ n % 2 \in {0, 1} /\ n = 2 * (n \div 2) + (n % 2)
  OBVIOUS

\* Any two such functions agree.
LEMMA DigitsUnique ==
  ASSUME NEW g, NEW h, NEW k \in Nat, NEW n \in Nat, DigitsUpTo(g, k), DigitsUpTo(h, n)
  PROVE  \A m \in Nat : m <= k /\ m <= n => g[m] = h[m]
<1> DEFINE G == {m \in Nat : m <= k /\ m <= n => g[m] = h[m]}
<1>1. ASSUME NEW m \in Nat, \A i \in 0 .. (m - 1) : i \in G PROVE m \in G
  <2> SUFFICES ASSUME m <= k, m <= n PROVE g[m] = h[m]
    OBVIOUS
  <2>1. m \in 0 .. k /\ m \in 0 .. n
    OBVIOUS
  <2>a. g[m] = IF m < 2 THEN <<Digit[m + 1]>> ELSE Append(g[m \div 2], Digit[(m % 2) + 1])
    BY <2>1 DEF DigitsUpTo
  <2>b. h[m] = IF m < 2 THEN <<Digit[m + 1]>> ELSE Append(h[m \div 2], Digit[(m % 2) + 1])
    BY <2>1 DEF DigitsUpTo
  <2>2. CASE m < 2
    BY <2>2, <2>a, <2>b
  <2>3. CASE m >= 2
    <3>1. m \div 2 \in Nat /\ m \div 2 < m
      BY <2>3, Halves
    <3>2. g[m \div 2] = h[m \div 2]
      BY <1>1, <3>1
    <3> QED
      BY <2>3, <2>a, <2>b, <3>2
  <2> QED
    BY <2>2, <2>3
<1>2. Nat \subseteq G
  <2> HIDE DEF G
  <2> QED
    BY <1>1, NatSetStrongInduction
<1> QED
  BY <1>2

\* There is such a function for every number.
LEMMA DigitsExist ==
  ASSUME NEW n \in Nat
  PROVE  \E h : DigitsUpTo(h, n)
<1> DEFINE Solved(k) == \E h : DigitsUpTo(h, k)
           G == {k \in Nat : Solved(k)}
<1>1. 0 \in G
  <2> DEFINE h == [m \in Nat |-> <<Digit[m + 1]>>]
  <2>1. \A m \in 0 .. 0 : m < 2 /\ h[m] = <<Digit[m + 1]>>
    OBVIOUS
  <2>2. DigitsUpTo(h, 0)
    <3> HIDE DEF h
    <3> QED
      BY <2>1 DEF DigitsUpTo
  <2> HIDE DEF h
  <2>3. Solved(0)
    BY <2>2
  <2> QED
    BY <2>3
<1>2. ASSUME NEW k \in Nat, k \in G PROVE k + 1 \in G
  <2>1. PICK h : DigitsUpTo(h, k)
    BY <1>2
  <2> DEFINE j == k + 1
             digits == IF j < 2 THEN <<Digit[j + 1]>> ELSE Append(h[j \div 2], Digit[(j % 2) + 1])
             g == [m \in 0 .. j |-> IF m = j THEN digits ELSE h[m]]
  <2>2. ASSUME NEW m \in 0 .. j
        PROVE  g[m] = IF m < 2 THEN <<Digit[m + 1]>> ELSE Append(g[m \div 2], Digit[(m % 2) + 1])
    <3>1. m >= 2 => m \div 2 \in 0 .. j /\ m \div 2 # j
      BY Halves
    <3>2. m >= 2 => g[m \div 2] = h[m \div 2]
      BY <3>1
    <3>3. CASE m = j
      <4>1. g[m] = digits
        BY <3>3
      <4> HIDE DEF g
      <4> QED
        BY <3>2, <3>3, <4>1
    <3>4. CASE m # j
      <4>1. m \in 0 .. k /\ g[m] = h[m]
        BY <3>4
      <4>2. h[m] = IF m < 2 THEN <<Digit[m + 1]>> ELSE Append(h[m \div 2], Digit[(m % 2) + 1])
        BY <4>1, <2>1 DEF DigitsUpTo
      <4> HIDE DEF g
      <4> QED
        BY <3>2, <4>1, <4>2
    <3> QED
      BY <3>3, <3>4
  <2> HIDE DEF g
  <2>3. DigitsUpTo(g, j)
    BY <2>2 DEF DigitsUpTo
  <2>4. Solved(j)
    <3> HIDE DEF j
    <3> QED
      BY <2>3
  <2> HIDE DEF Solved
  <2> QED
    BY <2>4
<1>3. Nat \subseteq G
  <2> HIDE DEF G
  <2> QED
    BY <1>1, <1>2, NatSetInduction
<1> QED
  BY <1>3

\* The recursive function is what its definition says.
LEMMA DigitsDefined ==
  ASSUME NEW n \in Nat
  PROVE  Digits[n] = IF n < 2 THEN <<Digit[n + 1]>> ELSE Append(Digits[n \div 2], Digit[(n % 2) + 1])
<1> DEFINE Upto(k) == CHOOSE h : DigitsUpTo(h, k)
           Value(f, m) == IF m < 2 THEN <<Digit[m + 1]>> ELSE Append(f[m \div 2], Digit[(m % 2) + 1])
           g == [m \in Nat |-> Upto(m)[m]]
<1>1. \A k \in Nat : DigitsUpTo(Upto(k), k)
  BY DigitsExist
<1> HIDE DEF Upto
<1>2. ASSUME NEW m \in Nat PROVE g[m] = Value(g, m)
  <2>1. Upto(m)[m] = Value(Upto(m), m)
    BY <1>1 DEF DigitsUpTo
  <2>2. m >= 2 => Upto(m)[m \div 2] = Upto(m \div 2)[m \div 2]
    <3> SUFFICES ASSUME m >= 2 PROVE Upto(m)[m \div 2] = Upto(m \div 2)[m \div 2]
      OBVIOUS
    <3> DEFINE i == m \div 2
    <3>1. i \in Nat /\ i <= m
      BY Halves
    <3> HIDE DEF i
    <3>2. \A l \in Nat : l <= m /\ l <= i => Upto(m)[l] = Upto(i)[l]
      BY <1>1, <3>1, DigitsUnique
    <3> QED
      BY <3>1, <3>2 DEF i
  <2>3. m >= 2 => m \div 2 \in Nat
    BY Halves
  <2> QED
    BY <2>1, <2>2, <2>3
<1>3. g = [m \in Nat |-> Value(g, m)]
  <2> HIDE DEF Value
  <2> QED
    BY <1>2
<1>4. Digits = CHOOSE f : f = [m \in Nat |-> Value(f, m)]
  BY DEF Digits
<1>5. Digits = [m \in Nat |-> Value(Digits, m)]
  <2> HIDE DEF Value, g
  <2> QED
    BY <1>3, <1>4
<1> QED
  BY <1>5

\* A number is read back from its digits, and there is at least one.
LEMMA NumberAsWritten ==
  ASSUME NEW n \in Nat
  PROVE  /\ Digits[n] \in Seq({"0", "1"}) /\ Digits[n] \in Seq(Symbols)
         /\ Len(Digits[n]) >= 1
         /\ Number(Digits[n]) = n
<1> DEFINE Back(m) == /\ Digits[m] \in Seq({"0", "1"}) /\ Len(Digits[m]) >= 1
                      /\ Number(Digits[m]) = m
           G == {m \in Nat : Back(m)}
<1>0. {"0", "1"} \subseteq Symbols
  BY SymbolAssumption
<1>1. ASSUME NEW s \in Seq({"0", "1"}) PROVE s \in Seq(Symbols)
  BY <1>0, SeqMonotonic
<1>2. \A m \in Nat : m < 2 => m = 0 \/ m = 1
  OBVIOUS
<1>3. Digit[1] = "0" /\ Digit[2] = "1"
  BY DEF Digit
<1>4. ASSUME NEW m \in Nat, \A i \in 0 .. (m - 1) : i \in G PROVE m \in G
  <2>1. CASE m < 2
    <3> DEFINE d == Digit[m + 1]
    <3>1. d \in {"0", "1"} /\ (IF d = "1" THEN 1 ELSE 0) = m
      <4>1. CASE m = 0
        BY <1>3, <4>1
      <4>2. CASE m = 1
        BY <1>3, <4>2
      <4> QED
        BY <1>2, <2>1, <4>1, <4>2
    <3>2. Digits[m] = <<d>>
      BY <2>1, DigitsDefined
    <3> HIDE DEF d
    <3>3. Number(Append(<<>>, d)) = 2 * Number(<<>>) + (IF d = "1" THEN 1 ELSE 0)
      <4>1. <<>> \in Seq(Symbols)
        OBVIOUS
      <4> QED
        BY <1>0, <3>1, <4>1, NumberOfDigits
    <3>4. /\ Append(<<>>, d) = <<d>>
          /\ <<d>> \in Seq({"0", "1"}) /\ Len(<<d>>) = 1
      <4>1. Append(<<>>, d) = <<d>>
        OBVIOUS
      <4>2. <<d>> \in Seq({"0", "1"})
        BY <3>1
      <4> QED
        BY <4>1, <4>2
    <3>5. Number(<<d>>) = m
      BY <3>1, <3>3, <3>4, NumberOfDigits
    <3>6. Back(m)
      BY <3>2, <3>4, <3>5
    <3> QED
      BY <3>6
  <2>2. CASE m >= 2
    <3> DEFINE i == m \div 2
               d == Digit[(m % 2) + 1]
    <3>1. i \in Nat /\ i < m /\ m % 2 \in {0, 1} /\ m = 2 * i + (m % 2)
      BY <2>2, Halves
    <3>2. d \in {"0", "1"} /\ (IF d = "1" THEN 1 ELSE 0) = m % 2
      <4> DEFINE odd == m % 2
      <4>1. odd = 0 \/ odd = 1
        BY <3>1
      <4> HIDE DEF odd
      <4>2. CASE odd = 0
        BY <1>3, <4>2 DEF odd
      <4>3. CASE odd = 1
        BY <1>3, <4>3 DEF odd
      <4> QED
        BY <4>1, <4>2, <4>3
    <3>3. Digits[m] = Append(Digits[i], d)
      <4>1. ~ (m < 2)
        BY <2>2
      <4> QED
        BY <4>1, DigitsDefined
    <3>4. Back(i)
      BY <1>4, <3>1
    <3> HIDE DEF i, d
    <3>5. Digits[m] \in Seq({"0", "1"}) /\ Len(Digits[m]) >= 1
      BY <3>2, <3>3, <3>4
    <3>6. Number(Digits[m]) = 2 * i + (m % 2)
      BY <1>0, <1>1, <3>2, <3>3, <3>4, NumberOfDigits
    <3> QED
      BY <3>1, <3>5, <3>6
  <2> QED
    BY <2>1, <2>2
<1>5. Nat \subseteq G
  <2> HIDE DEF G
  <2> QED
    BY <1>4, NatSetStrongInduction
<1> QED
  BY <1>1, <1>5

-----------------------------------------------------------------------------
(* Frames.                                                                 *)

HeaderLength(bytes) == Len(Digits[Len(bytes)]) + 2

\* Where its parts are.
LEMMA FrameParts ==
  ASSUME NEW bytes \in Seq(Symbols)
  PROVE  /\ FrameOf(bytes) \in Seq(Symbols)
         /\ Digits[Len(bytes)] \in Seq({"0", "1"}) /\ Number(Digits[Len(bytes)]) = Len(bytes)
         /\ HeaderLength(bytes) \in Nat /\ HeaderLength(bytes) >= 3
         /\ Len(FrameOf(bytes)) = HeaderLength(bytes) + Len(bytes) + 1
         /\ FrameOf(bytes)[1] = "H"
         /\ \A i \in 1 .. Len(Digits[Len(bytes)]) : FrameOf(bytes)[i + 1] = Digits[Len(bytes)][i]
         /\ FrameOf(bytes)[HeaderLength(bytes)] = EndOfLine
         /\ \A i \in 1 .. Len(bytes) : FrameOf(bytes)[HeaderLength(bytes) + i] = bytes[i]
         /\ FrameOf(bytes)[HeaderLength(bytes) + Len(bytes) + 1] = EndOfLine
<1> DEFINE d == Digits[Len(bytes)]
<1>1. Len(bytes) \in Nat
  OBVIOUS
<1>2. d \in Seq({"0", "1"}) /\ d \in Seq(Symbols) /\ Len(d) >= 1 /\ Number(d) = Len(bytes)
  BY <1>1, NumberAsWritten
<1> DEFINE head == <<"H">>
           end == <<EndOfLine>>
<1>3. head \in Seq(Symbols) /\ Len(head) = 1 /\ head[1] = "H"
  BY SymbolAssumption
<1>4. end \in Seq(Symbols) /\ Len(end) = 1 /\ end[1] = EndOfLine
  BY SymbolAssumption DEF EndOfLine
<1>5. FrameOf(bytes) = ((head \o d) \o end) \o bytes \o end /\ HeaderLength(bytes) = Len(d) + 2
  BY DEF FrameOf, HeaderLength
<1> HIDE DEF d, head, end
<1> DEFINE a == head \o d
           b == a \o end
           c == b \o bytes
<1>6. a \in Seq(Symbols) /\ Len(a) = 1 + Len(d) /\ a[1] = "H" /\ \A i \in 1 .. Len(d) : a[i + 1] = d[i]
  <2>1. /\ a \in Seq(Symbols) /\ Len(a) = Len(head) + Len(d)
        /\ \A i \in 1 .. Len(head) + Len(d) : a[i] = IF i <= Len(head) THEN head[i] ELSE d[i - Len(head)]
    <3>1. head \in Seq(Symbols) /\ d \in Seq(Symbols)
      BY <1>2, <1>3
    <3> QED
      BY <3>1, ConcatProperties
  <2> HIDE DEF a
  <2>2. a[1] = "H"
    BY <1>2, <1>3, <2>1
  <2>3. ASSUME NEW i \in 1 .. Len(d) PROVE a[i + 1] = d[i]
    <3>1. i + 1 \in 1 .. Len(head) + Len(d) /\ ~ (i + 1 <= Len(head)) /\ (i + 1) - Len(head) = i
      BY <1>2, <1>3
    <3> QED
      BY <2>1, <3>1
  <2> QED
    BY <1>3, <2>1, <2>2, <2>3
<1> HIDE DEF a
<1>7. /\ b \in Seq(Symbols) /\ Len(b) = Len(d) + 2
      /\ \A i \in 1 .. Len(a) : b[i] = a[i]
      /\ b[Len(d) + 2] = EndOfLine
  <2>1. /\ b \in Seq(Symbols) /\ Len(b) = Len(a) + Len(end)
        /\ \A i \in 1 .. Len(a) + Len(end) : b[i] = IF i <= Len(a) THEN a[i] ELSE end[i - Len(a)]
    BY <1>4, <1>6, ConcatProperties
  <2> HIDE DEF b
  <2>2. b[Len(d) + 2] = EndOfLine
    <3>1. Len(d) + 2 \in 1 .. Len(a) + Len(end) /\ ~ (Len(d) + 2 <= Len(a)) /\ (Len(d) + 2) - Len(a) = 1
      BY <1>2, <1>4, <1>6
    <3> QED
      BY <1>4, <2>1, <3>1
  <2>3. \A i \in 1 .. Len(a) : i \in 1 .. Len(a) + Len(end) /\ i <= Len(a)
    BY <1>2, <1>4, <1>6
  <2> QED
    BY <1>2, <1>4, <1>6, <2>1, <2>2, <2>3
<1> HIDE DEF b
<1>8. /\ c \in Seq(Symbols) /\ Len(c) = Len(b) + Len(bytes)
      /\ \A i \in 1 .. Len(b) : c[i] = b[i]
      /\ \A i \in 1 .. Len(bytes) : c[Len(b) + i] = bytes[i]
  BY <1>7
<1> HIDE DEF c
<1> DEFINE f == c \o end
<1>9. /\ f \in Seq(Symbols) /\ Len(f) = Len(c) + 1
      /\ \A i \in 1 .. Len(c) : f[i] = c[i]
      /\ f[Len(c) + 1] = EndOfLine
  <2>1. /\ f \in Seq(Symbols) /\ Len(f) = Len(c) + Len(end)
        /\ \A i \in 1 .. Len(c) + Len(end) : f[i] = IF i <= Len(c) THEN c[i] ELSE end[i - Len(c)]
    <3>1. c \in Seq(Symbols) /\ end \in Seq(Symbols)
      BY <1>4, <1>8
    <3> QED
      BY <3>1, ConcatProperties
  <2> HIDE DEF f
  <2>2. Len(c) \in Nat
    BY <1>8
  <2>3. Len(c) + 1 \in 1 .. Len(c) + Len(end) /\ ~ (Len(c) + 1 <= Len(c)) /\ (Len(c) + 1) - Len(c) = 1
    BY <1>4, <2>2
  <2>4. f[Len(c) + 1] = EndOfLine
    BY <1>4, <2>1, <2>3
  <2>5. \A i \in 1 .. Len(c) : i \in 1 .. Len(c) + Len(end) /\ i <= Len(c)
    BY <1>4, <2>2
  <2> QED
    BY <1>4, <2>1, <2>4, <2>5
<1>10. FrameOf(bytes) = f
  BY <1>5 DEF a, b, c
<1> HIDE DEF f
<1>11. f[1] = "H"
  BY <1>2, <1>6, <1>7, <1>8, <1>9
<1>12. ASSUME NEW i \in 1 .. Len(d) PROVE f[i + 1] = d[i]
  <2>1. i + 1 \in 1 .. Len(a) /\ i + 1 \in 1 .. Len(b) /\ i + 1 \in 1 .. Len(c)
    BY <1>1, <1>2, <1>6, <1>7, <1>8
  <2> QED
    BY <2>1, <1>6, <1>7, <1>8, <1>9
<1>13. f[Len(d) + 2] = EndOfLine
  <2>1. Len(d) + 2 \in 1 .. Len(b) /\ Len(d) + 2 \in 1 .. Len(c)
    BY <1>1, <1>2, <1>7, <1>8
  <2> QED
    BY <2>1, <1>7, <1>8, <1>9
<1>14. ASSUME NEW i \in 1 .. Len(bytes) PROVE f[(Len(d) + 2) + i] = bytes[i]
  <2>1. (Len(d) + 2) + i \in 1 .. Len(c)
    BY <1>1, <1>2, <1>7, <1>8
  <2> QED
    BY <2>1, <1>7, <1>8, <1>9
<1>15. f[(Len(d) + 2) + Len(bytes) + 1] = EndOfLine /\ Len(f) = (Len(d) + 2) + Len(bytes) + 1
  BY <1>1, <1>7, <1>8, <1>9
<1>16. Len(d) + 2 \in Nat /\ Len(d) + 2 >= 3
  BY <1>2
<1> QED
  BY <1>2, <1>5, <1>9, <1>10, <1>11, <1>12, <1>13, <1>14, <1>15, <1>16 DEF d

\* The frames of packets.
FramesOf(s) == [i \in DOMAIN s |-> FrameOf(s[i])]
Frames(s) == FlattenSeq(FramesOf(s))

\* What is written for two batches is written for one after the other.
LEMMA FramesConcat ==
  /\ Frames(<<>>) = <<>>
  /\ \A s \in Seq(Seq(Symbols)) : Frames(s) \in Seq(Symbols)
  /\ \A b \in Seq(Symbols) : Frames(<<b>>) = FrameOf(b)
  /\ \A s, t \in Seq(Seq(Symbols)) : Frames(s \o t) = Frames(s) \o Frames(t)
<1>1. ASSUME NEW s \in Seq(Seq(Symbols)) PROVE FramesOf(s) \in Seq(Seq(Symbols)) /\ Len(FramesOf(s)) = Len(s)
  <2>1. ASSUME NEW i \in 1 .. Len(s) PROVE FrameOf(s[i]) \in Seq(Symbols)
    <3>1. s[i] \in Seq(Symbols)
      OBVIOUS
    <3> QED
      BY <3>1, FrameParts
  <2> DEFINE f == [i \in 1 .. Len(s) |-> FrameOf(s[i])]
  <2>2. FramesOf(s) = f
    BY DEF FramesOf
  <2>3. f \in [1 .. Len(s) -> Seq(Symbols)]
    BY <2>1
  <2>4. f \in Seq(Seq(Symbols)) /\ Len(f) = Len(s)
    BY <2>3
  <2> QED
    BY <2>2, <2>4
<1>2. Frames(<<>>) = <<>>
  <2>1. FramesOf(<<>>) = <<>>
    BY DEF FramesOf
  <2> QED
    BY <2>1, FlattenProperties DEF Frames
<1>3. ASSUME NEW s \in Seq(Seq(Symbols)) PROVE Frames(s) \in Seq(Symbols)
  BY <1>1, FlattenProperties DEF Frames
<1>4. ASSUME NEW b \in Seq(Symbols) PROVE Frames(<<b>>) = FrameOf(b)
  <2>1. FramesOf(<<b>>) = <<FrameOf(b)>> /\ FrameOf(b) \in Seq(Symbols)
    BY FrameParts DEF FramesOf
  <2>2. <<FrameOf(b)>> = Append(<<>>, FrameOf(b)) /\ <<>> \in Seq(Seq(Symbols))
    OBVIOUS
  <2>3. FlattenSeq(Append(<<>>, FrameOf(b))) = FlattenSeq(<<>>) \o FrameOf(b)
    BY <2>1, <2>2, FlattenProperties
  <2>4. FlattenSeq(<<>>) = <<>>
    BY FlattenProperties
  <2>5. <<>> \o FrameOf(b) = FrameOf(b)
    BY <2>1
  <2> QED
    BY <2>1, <2>2, <2>3, <2>4, <2>5 DEF Frames
<1>5. ASSUME NEW s \in Seq(Seq(Symbols)), NEW t \in Seq(Seq(Symbols)) PROVE Frames(s \o t) = Frames(s) \o Frames(t)
  <2> DEFINE u == s \o t
             a == FramesOf(s)
             b == FramesOf(t)
  <2>1. u \in Seq(Seq(Symbols)) /\ Len(u) = Len(s) + Len(t)
    OBVIOUS
  <2>2. a \in Seq(Seq(Symbols)) /\ Len(a) = Len(s) /\ b \in Seq(Seq(Symbols)) /\ Len(b) = Len(t)
    BY <1>1
  <2>3. FramesOf(u) \in Seq(Seq(Symbols)) /\ Len(FramesOf(u)) = Len(u)
    BY <1>1, <2>1
  <2>4. ASSUME NEW i \in 1 .. Len(u) PROVE FramesOf(u)[i] = (a \o b)[i]
    <3>1. FramesOf(u)[i] = FrameOf(u[i])
      BY <2>1 DEF FramesOf
    <3>2. CASE i <= Len(s)
      <4>1. i \in 1 .. Len(s) /\ u[i] = s[i] /\ a[i] = FrameOf(s[i])
        BY <2>1, <3>2 DEF FramesOf
      <4> HIDE DEF u, a, b
      <4>2. (a \o b)[i] = a[i]
        BY <2>2, <4>1
      <4> QED
        BY <3>1, <4>1, <4>2
    <3>3. CASE i > Len(s)
      <4> DEFINE j == i - Len(s)
      <4>1. j \in 1 .. Len(t) /\ u[i] = t[j] /\ b[j] = FrameOf(t[j])
        BY <2>1, <3>3 DEF FramesOf
      <4> HIDE DEF u, a, b
      <4>2. (a \o b)[Len(a) + j] = b[j]
        BY <2>2, <4>1, SMTT(30)
      <4>3. Len(a) + j = i
        BY <2>1, <2>2
      <4> QED
        BY <3>1, <4>1, <4>2, <4>3
    <3>4. i <= Len(s) \/ i > Len(s)
      BY <2>1
    <3> QED
      BY <3>2, <3>3, <3>4
  <2> HIDE DEF a, b, u
  <2>5. a \o b \in Seq(Seq(Symbols)) /\ Len(a \o b) = Len(u)
    BY <2>1, <2>2
  <2>6. FramesOf(u) = a \o b
    BY <2>3, <2>4, <2>5, SeqEqual
  <2>7. FlattenSeq(a \o b) = FlattenSeq(a) \o FlattenSeq(b)
    BY <2>2, FlattenConcat
  <2> QED
    BY <2>6, <2>7 DEF Frames, a, b, u
<1> QED
  BY <1>2, <1>3, <1>4, <1>5

\* The frames of a prefix, the next frame, and the rest.
LEMMA NextFrame ==
  ASSUME NEW s \in Seq(Seq(Symbols)), NEW k \in 0 .. (Len(s) - 1)
  PROVE  LET a == Frames(SubSeq(s, 1, k))
             b == FrameOf(s[k + 1])
         IN  /\ s[k + 1] \in Seq(Symbols)
             /\ Len(a) \in Nat /\ Len(a) + Len(b) <= Len(Frames(s))
             /\ \A i \in 1 .. Len(b) : Frames(s)[Len(a) + i] = b[i]
             /\ Len(Frames(SubSeq(s, 1, k + 1))) = Len(a) + Len(b)
             /\ SubSeq(s, 1, k + 1) = Append(SubSeq(s, 1, k), s[k + 1])
<1> DEFINE x == SubSeq(s, 1, k)
           y == SubSeq(s, k + 2, Len(s))
           p == s[k + 1]
           a == Frames(x)
           b == FrameOf(p)
           c == Frames(y)
<1>1. p \in Seq(Symbols) /\ x \in Seq(Seq(Symbols)) /\ y \in Seq(Seq(Symbols))
  OBVIOUS
<1>2. SubSeq(s, 1, k + 1) = Append(x, p) /\ Append(x, p) = x \o <<p>> /\ <<p>> \in Seq(Seq(Symbols))
  <2>1. SubSeq(s, 1, k + 1) = Append(x, p)
    OBVIOUS
  <2> QED
    BY <1>1, <2>1
<1>3. s = (x \o <<p>>) \o y
  <2>1. SubSeq(s, 1, k + 1) \o SubSeq(s, (k + 1) + 1, Len(s)) = SubSeq(s, 1, Len(s))
    <3>1. /\ 1 \in 1 .. Len(s) + 1 /\ k + 1 \in 1 - 1 .. Len(s)
          /\ Len(s) \in k + 1 .. Len(s)
      OBVIOUS
    <3> QED
      BY <3>1, ConcatAdjacentSubSeq
  <2>2. SubSeq(s, 1, Len(s)) = s /\ (k + 1) + 1 = k + 2
    BY SubSeqFull
  <2> QED
    BY <1>2, <2>1, <2>2
<1> HIDE DEF x, y, p
<1>4. a \in Seq(Symbols) /\ b \in Seq(Symbols) /\ c \in Seq(Symbols) /\ Frames(<<p>>) = b
  BY <1>1, FramesConcat, FrameParts
<1>5. Frames(x \o <<p>>) = a \o b
  BY <1>1, <1>2, <1>4, FramesConcat
<1>6. x \o <<p>> \in Seq(Seq(Symbols))
  BY <1>1, <1>2
<1>7. Frames(s) = (a \o b) \o c
  <2>1. Frames((x \o <<p>>) \o y) = Frames(x \o <<p>>) \o c
    BY <1>1, <1>6, FramesConcat
  <2> QED
    BY <1>3, <1>5, <2>1
<1> HIDE DEF a, b, c
<1>8. Len((a \o b) \o c) = Len(a) + Len(b) + Len(c) /\ \A i \in 1 .. Len(b) : ((a \o b) \o c)[Len(a) + i] = b[i]
  BY <1>4
<1>9. Len(a) \in Nat /\ Len(a) + Len(b) <= Len(Frames(s)) /\ Len(a \o b) = Len(a) + Len(b)
  BY <1>4, <1>7, <1>8
<1> QED
  BY <1>1, <1>2, <1>5, <1>7, <1>8, <1>9 DEF a, b, x, p

-----------------------------------------------------------------------------
(* Lines.                                                                  *)

\* A line is a prefix of the text that ends at its first end of line.
LEMMA LineProperties ==
  ASSUME NEW text \in Seq(Symbols)
  PROVE  /\ LineOf(text) \in Seq(Symbols) /\ Len(LineOf(text)) <= Len(text)
         /\ \A i \in 1 .. Len(LineOf(text)) : LineOf(text)[i] = text[i]
         /\ \A i \in 1 .. Len(LineOf(text)) : text[i] # EndOfLine
         /\ Len(LineOf(text)) = Len(text) => LineOf(text) = text
         /\ Len(LineOf(text)) < Len(text) => text[Len(LineOf(text)) + 1] = EndOfLine
<1> DEFINE ends == {i \in DOMAIN text : text[i] = EndOfLine}
           first == CHOOSE i \in ends : \A j \in ends : i <= j
<1>1. DOMAIN text = 1 .. Len(text) /\ Len(text) \in Nat
  OBVIOUS
<1>2. CASE ends = {}
  <2>1. LineOf(text) = text
    BY <1>2 DEF LineOf
  <2> QED
    BY <1>1, <1>2, <2>1
<1>3. CASE ends # {}
  <2>1. \E i \in ends : \A j \in ends : i <= j
    <3>1. ends \in SUBSET Nat
      BY <1>1
    <3> HIDE DEF ends
    <3> QED
      BY <1>3, <3>1, LeastNatural
  <2>2. first \in ends /\ \A j \in ends : first <= j
    BY <2>1
  <2>3. LineOf(text) = SubSeq(text, 1, first - 1)
    BY <1>3 DEF LineOf
  <2> HIDE DEF first
  <2>4. first \in 1 .. Len(text) /\ text[first] = EndOfLine
    BY <1>1, <2>2
  <2>5. \A i \in 1 .. (first - 1) : text[i] # EndOfLine
    BY <1>1, <2>2, <2>4
  <2>6. /\ SubSeq(text, 1, first - 1) \in Seq(Symbols) /\ Len(SubSeq(text, 1, first - 1)) = first - 1
        /\ \A i \in 1 .. (first - 1) : SubSeq(text, 1, first - 1)[i] = text[i]
    BY <2>4
  <2> HIDE DEF ends
  <2> QED
    BY <1>1, <2>3, <2>4, <2>5, <2>6
<1> QED
  BY <1>2, <1>3

-----------------------------------------------------------------------------
(* The stream.                                                             *)

Blank == \A i \in DOMAIN preface : preface[i] = EndOfLine
Got == IF reader = "idle" THEN delivered ELSE delivered \o packets
FramePosition == Len(preface) + Len(Frames(Got))

StreamTyped ==
  /\ preface \in Prefaces
  /\ sent \in Seq(Seq(Symbols))
  /\ buffer \in Seq(Symbols) /\ file \in Seq(Symbols)
  /\ position \in 0 .. Len(file)
  /\ eof \in BOOLEAN
  /\ reader \in {"idle", "between", "bytes", "newline", "ended", "failed"}
  /\ packet \in [size : Nat, bytes : Seq(Symbols)]
  /\ packets \in Seq(Seq(Symbols)) /\ delivered \in Seq(Seq(Symbols))

Written == file \o buffer = preface \o Frames(sent) /\ Len(preface) <= Len(file)

AtLine ==
  \/ /\ Got = <<>> /\ position <= Len(preface)
     /\ \A i \in 1 .. position : preface[i] = EndOfLine
  \/ Blank /\ position = FramePosition

InFrame(read) ==
  /\ Len(Got) < Len(sent)
  /\ LET bytes == sent[Len(Got) + 1]
     IN  /\ packet.size = Len(bytes)
         /\ read => packet.bytes = bytes
         /\ position = FramePosition + Len(Digits[Len(bytes)]) + 2 + (IF read THEN Len(bytes) ELSE 0)

ReadSoFar ==
  /\ IsPrefix(Got, sent)
  /\ error # "none" => reader \in {"ended", "failed"} /\ (eof \/ ~Blank)
  /\ ~Blank => Got = <<>>
  /\ reader \in {"idle", "between"} => AtLine
  /\ reader = "ended" /\ error = "none" => AtLine
  /\ reader \in {"bytes", "newline"} => Blank /\ (eof \/ InFrame(reader = "newline"))

StreamInv == StreamTyped /\ Written /\ ReadSoFar

\* What is left of the file.
LEMMA WhatIsLeft ==
  ASSUME StreamTyped
  PROVE  /\ Left \in Seq(Symbols) /\ Len(Left) = Len(file) - position /\ Len(Left) \in Nat
         /\ \A i \in 1 .. Len(Left) : Left[i] = file[position + i]
         /\ Left = <<>> <=> Len(Left) = 0
<1>1. file \in Seq(Symbols) /\ position \in 0 .. Len(file) /\ Len(file) \in Nat
  BY DEF StreamTyped
<1>2. \A i \in position + 1 .. Len(file) : file[i] \in Symbols
  BY <1>1
<1>3. /\ Left \in Seq(Symbols)
      /\ Len(Left) = IF position + 1 <= Len(file) THEN Len(file) - (position + 1) + 1 ELSE 0
      /\ \A i \in 1 .. Len(file) - (position + 1) + 1 : Left[i] = file[position + 1 + i - 1]
  <2>1. position + 1 \in Int /\ Len(file) \in Int
    BY <1>1
  <2> QED
    BY <1>2, <2>1, SubSeqProperties DEF Left
<1>4. Len(Left) = Len(file) - position /\ Len(Left) \in Nat
  BY <1>1, <1>3
<1>5. ASSUME NEW i \in 1 .. Len(Left) PROVE Left[i] = file[position + i]
  <2>1. i \in 1 .. Len(file) - (position + 1) + 1 /\ position + 1 + i - 1 = position + i
    BY <1>1, <1>4
  <2> QED
    BY <1>3, <2>1
<1>6. Left = <<>> <=> Len(Left) = 0
  BY <1>3, EmptySeq
<1> QED
  BY <1>3, <1>4, <1>5, <1>6

\* The packets are typed, and what was processed is a prefix of them.
LEMMA GotTyped ==
  ASSUME StreamTyped, IsPrefix(Got, sent)
  PROVE  /\ Got \in Seq(Seq(Symbols)) /\ Len(Got) \in Nat /\ Len(Got) <= Len(sent)
         /\ Got = SubSeq(sent, 1, Len(Got))
         /\ Frames(Got) \in Seq(Symbols) /\ Len(Frames(Got)) \in Nat
         /\ preface \in Seq(Symbols) /\ Len(preface) \in Nat /\ FramePosition \in Nat
<1>1. Got \in Seq(Seq(Symbols))
  BY DEF StreamTyped, Got
<1> HIDE DEF Got
<1>2. Len(Got) \in Nat /\ SubSeq(Got, 1, Len(Got)) = Got
  BY <1>1, SubSeqFull
<1>3. Len(Got) <= Len(sent) /\ Got = SubSeq(sent, 1, Len(Got))
  BY <1>2 DEF IsPrefix
<1>4. Frames(Got) \in Seq(Symbols)
  BY <1>1, FramesConcat
<1>5. preface \in Seq(Symbols)
  BY PrefaceAssumption DEF StreamTyped
<1>6. Len(Frames(Got)) \in Nat /\ Len(preface) \in Nat
  BY <1>4, <1>5
<1> QED
  BY <1>1, <1>2, <1>3, <1>4, <1>5, <1>6 DEF FramePosition

\* What is in the file: the preface, then the frames of what was sent.
LEMMA WhatIsWritten ==
  ASSUME StreamTyped, Written
  PROVE  /\ preface \in Seq(Symbols) /\ Frames(sent) \in Seq(Symbols)
         /\ \A i \in 1 .. Len(preface) : i \in 1 .. Len(file) /\ file[i] = preface[i]
         /\ Len(file) <= Len(preface) + Len(Frames(sent))
         /\ \A i \in 1 .. Len(Frames(sent)) :
              Len(preface) + i <= Len(file) => file[Len(preface) + i] = Frames(sent)[i]
<1> DEFINE f == Frames(sent)
<1>1. preface \in Seq(Symbols) /\ f \in Seq(Symbols) /\ file \in Seq(Symbols) /\ buffer \in Seq(Symbols)
  BY PrefaceAssumption, FramesConcat DEF StreamTyped
<1>2. file \o buffer = preface \o f /\ Len(preface) <= Len(file)
  BY DEF Written
<1> HIDE DEF f
<1>3. Len(file) + Len(buffer) = Len(preface) + Len(f)
  <2>1. Len(file \o buffer) = Len(file) + Len(buffer) /\ Len(preface \o f) = Len(preface) + Len(f)
    BY <1>1, ConcatProperties
  <2> QED
    BY <1>2, <2>1
<1>4. Len(file) \in Nat /\ Len(buffer) \in Nat /\ Len(preface) \in Nat /\ Len(f) \in Nat
  BY <1>1
<1>5. ASSUME NEW i \in 1 .. Len(file) PROVE file[i] = (preface \o f)[i]
  <2>1. (file \o buffer)[i] = file[i]
    BY <1>1
  <2> QED
    BY <1>2, <2>1
<1>6. ASSUME NEW i \in 1 .. Len(preface) PROVE i \in 1 .. Len(file) /\ file[i] = preface[i]
  <2>1. i \in 1 .. Len(file)
    BY <1>2, <1>4
  <2>2. (preface \o f)[i] = preface[i]
    BY <1>1
  <2> QED
    BY <1>5, <2>1, <2>2
<1>7. ASSUME NEW i \in 1 .. Len(f), Len(preface) + i <= Len(file)
      PROVE  file[Len(preface) + i] = f[i]
  <2>1. Len(preface) + i \in 1 .. Len(file)
    BY <1>4, <1>7
  <2>2. (preface \o f)[Len(preface) + i] = f[i]
    BY <1>1
  <2> QED
    BY <1>5, <2>1, <2>2
<1> QED
  BY <1>1, <1>3, <1>4, <1>6, <1>7 DEF f

\* The frame after those that were processed.
LEMMA FrameInFile ==
  ASSUME StreamTyped, Written, IsPrefix(Got, sent), Len(Got) < Len(sent)
  PROVE  LET b == sent[Len(Got) + 1]
         IN  /\ b \in Seq(Symbols)
             /\ \A i \in 1 .. Len(FrameOf(b)) :
                  FramePosition + i <= Len(file) => file[FramePosition + i] = FrameOf(b)[i]
             /\ SubSeq(sent, 1, Len(Got) + 1) = Append(Got, b)
             /\ Len(preface) + Len(Frames(Append(Got, b))) = FramePosition + Len(FrameOf(b))
<1> DEFINE k == Len(Got)
           b == sent[k + 1]
           a == Frames(Got)
<1>1. k \in 0 .. (Len(sent) - 1) /\ sent \in Seq(Seq(Symbols)) /\ Got = SubSeq(sent, 1, k)
      /\ Len(preface) \in Nat
  <2>1. k \in Nat /\ Got = SubSeq(sent, 1, k) /\ Len(preface) \in Nat
    BY GotTyped
  <2>2. sent \in Seq(Seq(Symbols)) /\ Len(sent) \in Nat
    BY DEF StreamTyped
  <2> QED
    BY <2>1, <2>2
<1>2. /\ b \in Seq(Symbols)
      /\ Len(a) \in Nat /\ Len(a) + Len(FrameOf(b)) <= Len(Frames(sent))
      /\ \A i \in 1 .. Len(FrameOf(b)) : Frames(sent)[Len(a) + i] = FrameOf(b)[i]
      /\ Len(Frames(SubSeq(sent, 1, k + 1))) = Len(a) + Len(FrameOf(b))
      /\ SubSeq(sent, 1, k + 1) = Append(Got, b)
  <2> HIDE DEF k
  <2> QED
    BY <1>1, NextFrame
<1>3. FramePosition = Len(preface) + Len(a)
  BY DEF FramePosition
<1> HIDE DEF k, b, a
<1>4. ASSUME NEW i \in 1 .. Len(FrameOf(b)), FramePosition + i <= Len(file)
      PROVE  file[FramePosition + i] = FrameOf(b)[i]
  <2>1. Len(FrameOf(b)) \in Nat /\ Len(Frames(sent)) \in Nat
    <3>1. FrameOf(b) \in Seq(Symbols) /\ Frames(sent) \in Seq(Symbols)
      BY <1>1, <1>2, FrameParts, FramesConcat
    <3> QED
      BY <3>1
  <2>2. Len(a) + i \in 1 .. Len(Frames(sent))
    BY <1>2, <2>1
  <2>3. FramePosition + i = Len(preface) + (Len(a) + i)
    BY <1>1, <1>2, <1>3
  <2>4. file[Len(preface) + (Len(a) + i)] = Frames(sent)[Len(a) + i]
    BY <1>4, <2>2, <2>3, WhatIsWritten
  <2> QED
    BY <1>2, <2>3, <2>4
<1>5. Len(preface) + Len(Frames(Append(Got, b))) = FramePosition + Len(FrameOf(b))
  <2>1. Len(FrameOf(b)) \in Nat
    BY <1>2, FrameParts
  <2>2. Len(Frames(Append(Got, b))) = Len(a) + Len(FrameOf(b))
    BY <1>2
  <2>3. Len(preface) \in Nat /\ Len(a) \in Nat
    BY <1>1, <1>2
  <2> QED
    BY <1>3, <2>1, <2>2, <2>3
<1> QED
  BY <1>2, <1>4, <1>5 DEF k, b

\* After the last frame there is nothing.
LEMMA NothingAfterAll ==
  ASSUME StreamTyped, Written, IsPrefix(Got, sent), position = FramePosition, Left # <<>>
  PROVE  Len(Got) < Len(sent)
<1> SUFFICES ASSUME ~ (Len(Got) < Len(sent)) PROVE FALSE
  OBVIOUS
<1>1. sent \in Seq(Seq(Symbols)) /\ Len(sent) \in Nat
  BY DEF StreamTyped
<1>2. Len(Got) = Len(sent)
  BY <1>1, GotTyped
<1>3. Got = sent
  BY <1>1, <1>2, GotTyped, SubSeqFull
<1>4. FramePosition = Len(preface) + Len(Frames(sent))
  BY <1>3 DEF FramePosition
<1>5. Len(Left) # 0 /\ Len(Left) = Len(file) - position /\ Len(Left) \in Nat
  BY WhatIsLeft
<1>6. Len(file) <= position
  BY <1>4, WhatIsWritten
<1>7. Len(file) \in Nat /\ position \in Nat
  BY DEF StreamTyped
<1> QED
  BY <1>5, <1>6, <1>7

-----------------------------------------------------------------------------
(* A header.                                                               *)

\* Where the reader may be when it begins a line, and what is there.
InPreface ==
  /\ Got = <<>> /\ position < Len(preface)
  /\ \A i \in 1 .. position : preface[i] = EndOfLine
  /\ Left[1] = preface[position + 1]

AtFrame ==
  /\ Blank /\ position = FramePosition /\ Len(Got) < Len(sent)
  /\ LET b == sent[Len(Got) + 1]
     IN  /\ b \in Seq(Symbols)
         /\ \A i \in 1 .. Len(Left) : i <= Len(FrameOf(b)) => Left[i] = FrameOf(b)[i]

\* At the start of a line, what is left starts with the rest of the preface or
\* with a frame.
LEMMA LineStart ==
  ASSUME StreamTyped, Written, IsPrefix(Got, sent), AtLine, Left # <<>>
  PROVE  InPreface \/ AtFrame
<1>1. position \in Nat /\ Len(file) \in Nat /\ Len(preface) \in Nat
  BY GotTyped DEF StreamTyped
<1>2. Len(Left) \in Nat /\ Len(Left) >= 1 /\ Len(Left) = Len(file) - position
  BY WhatIsLeft
<1>3. CASE Got = <<>> /\ position < Len(preface) /\ \A i \in 1 .. position : preface[i] = EndOfLine
  <2>1. position + 1 \in 1 .. Len(preface)
    BY <1>1, <1>3
  <2>2. file[position + 1] = preface[position + 1]
    BY <2>1, WhatIsWritten
  <2>3. Left[1] = file[position + 1]
    BY <1>2, WhatIsLeft
  <2> QED
    BY <1>3, <2>2, <2>3 DEF InPreface
<1>4. ASSUME Blank, position = FramePosition PROVE AtFrame
  <2>1. Len(Got) < Len(sent)
    BY <1>4, NothingAfterAll
  <2> DEFINE b == sent[Len(Got) + 1]
  <2>2. b \in Seq(Symbols)
    BY <2>1, FrameInFile
  <2>3. ASSUME NEW i \in 1 .. Len(Left), i <= Len(FrameOf(b)) PROVE Left[i] = FrameOf(b)[i]
    <3>1. Len(FrameOf(b)) \in Nat
      BY <2>2, FrameParts
    <3>2. i \in 1 .. Len(FrameOf(b)) /\ FramePosition + i <= Len(file)
      BY <1>1, <1>2, <1>4, <2>3, <3>1
    <3>3. file[FramePosition + i] = FrameOf(b)[i]
      BY <2>1, <3>2, FrameInFile
    <3>4. Left[i] = file[position + i]
      BY WhatIsLeft
    <3> QED
      BY <1>4, <3>3, <3>4
  <2> QED
    BY <1>4, <2>1, <2>2, <2>3 DEF AtFrame
<1>5. ASSUME Got = <<>>, position <= Len(preface), ~ (position < Len(preface)),
             \A i \in 1 .. position : preface[i] = EndOfLine
      PROVE  Blank /\ position = FramePosition
  <2>1. position = Len(preface)
    BY <1>1, <1>5
  <2>2. preface \in Seq(Symbols)
    BY GotTyped
  <2>3. Blank
    BY <1>5, <2>1, <2>2 DEF Blank
  <2>4. Frames(Got) = <<>>
    BY <1>5, FramesConcat
  <2>5. FramePosition = Len(preface)
    BY <1>1, <2>4 DEF FramePosition
  <2> QED
    BY <2>1, <2>3, <2>5
<1> QED
  BY <1>3, <1>4, <1>5 DEF AtLine

\* A header that is not cut is read as it was written; one that is cut begins
\* with its first symbol.
LEMMA HeaderAsWritten ==
  ASSUME StreamTyped, AtFrame, Left # <<>>
  PROVE  LET b == sent[Len(Got) + 1]
             line == LineOf(Left)
         IN  /\ line # <<>> /\ line[1] = "H"
             /\ Len(line) # Len(Left) =>
                  /\ IsHeader(line)
                  /\ Tail(line) = Digits[Len(b)]
                  /\ Len(line) + 1 = HeaderLength(b)
<1> DEFINE b == sent[Len(Got) + 1]
           line == LineOf(Left)
           d == Digits[Len(b)]
           f == FrameOf(b)
           h == Len(d) + 1
<1>1. b \in Seq(Symbols) /\ \A i \in 1 .. Len(Left) : i <= Len(f) => Left[i] = f[i]
  BY DEF AtFrame
<1>2. /\ d \in Seq({"0", "1"}) /\ HeaderLength(b) = h + 1 /\ h + 1 >= 3 /\ Len(b) \in Nat
      /\ Len(f) = (h + 1) + Len(b) + 1
      /\ f[1] = "H" /\ f[h + 1] = EndOfLine
      /\ \A i \in 1 .. Len(d) : f[i + 1] = d[i]
  <2>1. HeaderLength(b) = h + 1
    <3>1. d \in Seq({"0", "1"})
      BY <1>1, FrameParts
    <3>2. Len(d) \in Nat
      BY <3>1
    <3> QED
      BY <3>2 DEF HeaderLength
  <2>2. Len(b) \in Nat
    BY <1>1
  <2>3. /\ d \in Seq({"0", "1"}) /\ HeaderLength(b) >= 3
        /\ Len(f) = HeaderLength(b) + Len(b) + 1
        /\ f[1] = "H" /\ f[HeaderLength(b)] = EndOfLine
        /\ \A i \in 1 .. Len(d) : f[i + 1] = d[i]
    BY <1>1, FrameParts
  <2> HIDE DEF b, d, f, h
  <2> QED
    BY <2>1, <2>2, <2>3
<1>3. Len(Left) \in Nat /\ Len(Left) >= 1 /\ Left \in Seq(Symbols)
  BY WhatIsLeft
<1>4. /\ line \in Seq(Symbols) /\ Len(line) <= Len(Left) /\ Len(line) \in Nat
      /\ \A i \in 1 .. Len(line) : line[i] = Left[i] /\ Left[i] # EndOfLine
      /\ Len(line) < Len(Left) => Left[Len(line) + 1] = EndOfLine
  <2>1. line \in Seq(Symbols)
    BY <1>3, LineProperties
  <2>2. Len(line) \in Nat
    BY <2>1
  <2> QED
    BY <1>3, <2>1, <2>2, LineProperties
<1> HIDE DEF b, line, d, f
<1>5. Len(d) \in Nat /\ h \in Nat /\ h >= 2
  BY <1>2
<1>6. Left[1] = "H" /\ "H" # EndOfLine
  BY <1>1, <1>2, <1>3, <1>5 DEF EndOfLine
<1>7. Len(line) >= 1
  <2> SUFFICES ASSUME Len(line) = 0 PROVE FALSE
    BY <1>4
  <2>1. Left[1] = EndOfLine
    BY <1>3, <1>4
  <2> QED
    BY <1>6, <2>1
<1>8. line # <<>> /\ line[1] = "H"
  BY <1>4, <1>6, <1>7
<1>9. ASSUME Len(line) # Len(Left)
      PROVE  IsHeader(line) /\ Tail(line) = d /\ Len(line) + 1 = h + 1
  <2>1. Len(line) < Len(Left) /\ Left[Len(line) + 1] = EndOfLine
    BY <1>3, <1>4, <1>9
  <2>2. ASSUME Len(line) < h PROVE FALSE
    <3> DEFINE i == Len(line)
    <3>1. i \in 1 .. Len(d) /\ i + 1 \in 1 .. Len(Left) /\ i + 1 <= Len(f)
      BY <1>2, <1>3, <1>4, <1>5, <1>7, <2>1, <2>2
    <3>2. Left[i + 1] = d[i]
      BY <1>1, <1>2, <3>1
    <3>3. d[i] \in {"0", "1"}
      BY <1>2, <3>1
    <3>4. EndOfLine \notin {"0", "1"}
      BY DEF EndOfLine
    <3> QED
      BY <2>1, <3>2, <3>3, <3>4
  <2>3. ASSUME Len(line) > h PROVE FALSE
    <3>1. h + 1 \in 1 .. Len(line) /\ h + 1 \in 1 .. Len(Left) /\ h + 1 <= Len(f)
      BY <1>2, <1>3, <1>4, <1>5, <2>3
    <3>2. Left[h + 1] = EndOfLine
      BY <1>1, <1>2, <3>1
    <3> QED
      BY <1>4, <3>1, <3>2
  <2>4. Len(line) = h
    BY <1>4, <1>5, <2>2, <2>3
  <2>5. ASSUME NEW i \in 1 .. Len(d) PROVE line[i + 1] = d[i]
    <3>1. i + 1 \in 1 .. Len(line) /\ i + 1 \in 1 .. Len(Left) /\ i + 1 <= Len(f)
      BY <1>2, <1>4, <1>5, <2>4
    <3>2. line[i + 1] = Left[i + 1] /\ Left[i + 1] = f[i + 1]
      BY <1>1, <1>4, <3>1
    <3> QED
      BY <1>2, <3>2
  <2>6. IsHeader(line)
    <3>1. ASSUME NEW i \in 2 .. Len(line) PROVE line[i] \in {"0", "1"}
      <4>1. i - 1 \in 1 .. Len(d) /\ (i - 1) + 1 = i
        BY <1>5, <2>4
      <4>2. line[i] = d[i - 1]
        BY <2>5, <4>1
      <4>3. d[i - 1] \in {"0", "1"}
        BY <1>2, <4>1
      <4> QED
        BY <4>2, <4>3
    <3> QED
      BY <1>5, <1>8, <2>4, <3>1 DEF IsHeader
  <2>7. Tail(line) = d
    <3>1. /\ Tail(line) \in Seq(Symbols) /\ Len(Tail(line)) = Len(d)
          /\ \A i \in 1 .. Len(d) : Tail(line)[i] = line[i + 1]
      <4>1. Tail(line) \in Seq(Symbols) /\ Len(Tail(line)) = Len(line) - 1
            /\ \A i \in 1 .. Len(Tail(line)) : Tail(line)[i] = line[i + 1]
        BY <1>4, <1>8, HeadTailProperties
      <4>2. Len(Tail(line)) = Len(d)
        BY <1>5, <2>4, <4>1
      <4> QED
        BY <4>1, <4>2
    <3>2. d \in Seq(Symbols)
      BY <1>2, SymbolAssumption, SeqMonotonic
    <3> QED
      BY <2>5, <3>1, <3>2, SeqEqual
  <2> QED
    BY <2>4, <2>6, <2>7
<1> QED
  BY <1>2, <1>8, <1>9 DEF b, line, d

-----------------------------------------------------------------------------
(* The steps.                                                              *)

\* The invariant holds before anything is written.
LEMMA StreamInitInvariant == StreamInit => StreamInv
<1> SUFFICES ASSUME StreamInit PROVE StreamInv
  OBVIOUS
<1> USE DEF StreamInit
<1>1. preface \in Seq(Symbols) /\ Len(preface) \in Nat
  <2>1. preface \in Seq(Symbols)
    BY PrefaceAssumption
  <2> QED
    BY <2>1
<1>2. StreamTyped
  <2>1. file = preface /\ position = 0 /\ 0 \in 0 .. Len(preface)
    BY <1>1
  <2>2. packet \in [size : Nat, bytes : Seq(Symbols)]
    BY DEF NoPacket
  <2>3. sent \in Seq(Seq(Symbols)) /\ buffer \in Seq(Symbols) /\ packets \in Seq(Seq(Symbols))
        /\ delivered \in Seq(Seq(Symbols))
    OBVIOUS
  <2> QED
    BY <1>1, <2>1, <2>2, <2>3 DEF StreamTyped
<1>3. Written
  <2>1. file \o buffer = preface /\ preface \o <<>> = preface
    BY <1>1
  <2> QED
    BY <1>1, <2>1, FramesConcat DEF Written
<1>4. Got = <<>>
  BY DEF Got
<1>5. AtLine
  BY <1>1, <1>4 DEF AtLine
<1>6. IsPrefix(Got, sent)
  BY <1>4 DEF IsPrefix
<1> QED
  BY <1>2, <1>3, <1>4, <1>5, <1>6 DEF StreamInv, ReadSoFar

\* A step of the child leaves the reader where it is.
LEMMA WriterSteps ==
  ASSUME StreamInv, NEW bytes, NEW n,
         \/ bytes \in Bytes /\ WriteFrame(bytes)
         \/ n \in 1 .. Len(buffer) /\ Flush(n)
  PROVE  StreamInv'
<1>0. StreamTyped /\ Written /\ ReadSoFar /\ IsPrefix(Got, sent)
  BY DEF StreamInv, ReadSoFar
<1>1. UNCHANGED <<preface, position, eof, reader, packet, packets, delivered, error>>
  BY DEF WriteFrame, Flush, stream, readerVars
<1>2. Got' = Got /\ Blank' = Blank /\ FramePosition' = FramePosition
  BY <1>1 DEF Got, Blank, FramePosition
<1>3. file \in Seq(Symbols) /\ buffer \in Seq(Symbols) /\ sent \in Seq(Seq(Symbols)) /\ preface \in Seq(Symbols)
      /\ Frames(sent) \in Seq(Symbols) /\ position \in 0 .. Len(file)
  BY <1>0, WhatIsWritten DEF StreamTyped
<1>4. /\ sent' \in Seq(Seq(Symbols)) /\ Len(sent) <= Len(sent')
      /\ \A i \in 1 .. Len(sent) : sent'[i] = sent[i]
  <2>1. CASE bytes \in Bytes /\ WriteFrame(bytes)
    <3>1. sent' = Append(sent, bytes) /\ bytes \in Seq(Symbols)
      BY <2>1, BytesAssumption DEF WriteFrame
    <3> QED
      BY <1>3, <3>1
  <2>2. CASE n \in 1 .. Len(buffer) /\ Flush(n)
    BY <1>3, <2>2 DEF Flush
  <2> QED
    BY <2>1, <2>2
<1>5. IsPrefix(Got, sent')
  <2>1. Got \in Seq(Seq(Symbols)) /\ Len(Got) \in Nat /\ Len(Got) <= Len(sent)
    BY <1>0, GotTyped
  <2>2. \A i \in 1 .. Len(Got) : Got[i] = sent[i]
    <3>1. Got = SubSeq(sent, 1, Len(Got))
      BY <1>0, GotTyped
    <3> HIDE DEF Got
    <3>2. \A i \in 1 .. Len(Got) : SubSeq(sent, 1, Len(Got))[i] = sent[i]
      BY <1>3, <2>1
    <3> QED
      BY <3>1, <3>2
  <2> HIDE DEF Got
  <2>3. Len(sent) \in Nat /\ Len(sent') \in Nat
    BY <1>3, <1>4
  <2>4. Len(Got) <= Len(sent')
    BY <1>4, <2>1, <2>3
  <2>5. /\ SubSeq(sent', 1, Len(Got)) \in Seq(Seq(Symbols)) /\ Len(SubSeq(sent', 1, Len(Got))) = Len(Got)
        /\ \A i \in 1 .. Len(Got) : SubSeq(sent', 1, Len(Got))[i] = sent'[i]
    BY <1>4, <2>1, <2>4
  <2>6. \A i \in 1 .. Len(Got) : Got[i] = SubSeq(sent', 1, Len(Got))[i]
    <3>1. \A i \in 1 .. Len(Got) : i \in 1 .. Len(sent)
      BY <2>1, <2>3
    <3> QED
      BY <1>4, <2>2, <2>5, <3>1
  <2>7. Got = SubSeq(sent', 1, Len(Got))
    BY <2>1, <2>5, <2>6, SeqEqual
  <2>8. SubSeq(Got, 1, Len(Got)) = Got
    BY <2>1, SubSeqFull
  <2> QED
    BY <2>4, <2>7, <2>8 DEF IsPrefix
<1>6. StreamTyped' /\ Written'
  <2>1. CASE bytes \in Bytes /\ WriteFrame(bytes)
    <3>1. /\ sent' = sent \o <<bytes>> /\ bytes \in Seq(Symbols)
          /\ buffer' = buffer \o FrameOf(bytes) /\ file' = file
      BY <1>3, <2>1, BytesAssumption DEF WriteFrame, stream
    <3>2. FrameOf(bytes) \in Seq(Symbols)
      BY <3>1, FrameParts
    <3>3. Frames(sent') = Frames(sent) \o FrameOf(bytes)
      <4>1. <<bytes>> \in Seq(Seq(Symbols))
        BY <3>1
      <4> QED
        BY <1>3, <3>1, <4>1, FramesConcat
    <3>4. buffer' \in Seq(Symbols)
      BY <1>3, <3>1, <3>2
    <3>5. file \o (buffer \o FrameOf(bytes)) = (file \o buffer) \o FrameOf(bytes)
      <4>1. file \in Seq(Symbols) /\ buffer \in Seq(Symbols)
        BY <1>3
      <4> QED
        BY <3>2, <4>1, ConcatThree
    <3>6. preface \o (Frames(sent) \o FrameOf(bytes)) = (preface \o Frames(sent)) \o FrameOf(bytes)
      <4>1. preface \in Seq(Symbols) /\ Frames(sent) \in Seq(Symbols)
        BY <1>3
      <4> QED
        BY <3>2, <4>1, ConcatThree
    <3>7. Written'
      BY <1>0, <1>1, <3>1, <3>3, <3>5, <3>6 DEF Written
    <3> QED
      BY <1>0, <1>1, <1>4, <3>1, <3>4, <3>7 DEF StreamTyped
  <2>2. CASE n \in 1 .. Len(buffer) /\ Flush(n)
    <3> DEFINE x == SubSeq(buffer, 1, n)
               y == SubSeq(buffer, n + 1, Len(buffer))
    <3>1. file' = file \o x /\ buffer' = y /\ sent' = sent
      BY <2>2 DEF Flush
    <3>2. x \in Seq(Symbols) /\ y \in Seq(Symbols)
      BY <1>3, <2>2
    <3>3. x \o y = buffer
      <4>1. x \o y = SubSeq(buffer, 1, Len(buffer))
        <5>1. 1 \in 1 .. Len(buffer) + 1 /\ n \in 1 - 1 .. Len(buffer) /\ Len(buffer) \in n .. Len(buffer)
          BY <1>3, <2>2
        <5> QED
          BY <1>3, <5>1, ConcatAdjacentSubSeq
      <4> QED
        BY <1>3, <4>1, SubSeqFull
    <3> HIDE DEF x, y
    <3>4. file \o (x \o y) = (file \o x) \o y
      <4>1. file \in Seq(Symbols)
        BY <1>3
      <4> QED
        BY <3>2, <4>1, ConcatThree
    <3>5. file' \in Seq(Symbols) /\ Len(file) <= Len(file') /\ buffer' \in Seq(Symbols)
      BY <1>3, <3>1, <3>2
    <3>6. position \in 0 .. Len(file') /\ Len(preface) <= Len(file')
      <4>1. Len(preface) \in Nat /\ Len(file) \in Nat /\ Len(file') \in Nat /\ Len(preface) <= Len(file)
        BY <1>0, <1>3, <3>5 DEF Written
      <4> QED
        BY <1>3, <3>5, <4>1
    <3>7. Written'
      BY <1>0, <1>1, <3>1, <3>3, <3>4, <3>6 DEF Written
    <3> QED
      BY <1>0, <1>1, <3>1, <3>5, <3>6, <3>7 DEF StreamTyped
  <2> QED
    BY <2>1, <2>2
<1>7. AtLine => AtLine'
  BY <1>1, <1>2 DEF AtLine
<1>8. ASSUME NEW read \in BOOLEAN, InFrame(read) PROVE InFrame(read)'
  <2>1. Len(Got) + 1 \in 1 .. Len(sent) /\ Len(Got) < Len(sent')
    <3>1. Len(Got) \in Nat /\ Len(sent) \in Nat /\ Len(sent') \in Nat
      BY <1>0, <1>3, <1>4, GotTyped
    <3>2. Len(Got) < Len(sent)
      BY <1>8 DEF InFrame
    <3> QED
      BY <1>4, <3>1, <3>2
  <2>2. sent'[Len(Got) + 1] = sent[Len(Got) + 1]
    BY <1>4, <2>1
  <2> QED
    BY <1>1, <1>2, <1>8, <2>1, <2>2 DEF InFrame
<1>9. ReadSoFar'
  <2>1. (reader = "newline") \in BOOLEAN
    OBVIOUS
  <2> QED
    BY <1>0, <1>1, <1>2, <1>5, <1>7, <1>8, <2>1 DEF ReadSoFar
<1> QED
  BY <1>6, <1>9 DEF StreamInv

\* The reader changes neither what is sent nor the file.
LEMMA ReaderKeeps ==
  ASSUME StreamInv, UNCHANGED <<writerVars, file>>
  PROVE  /\ Written' /\ preface' = preface /\ sent' = sent /\ Blank' = Blank
         /\ Got' = Got => FramePosition' = FramePosition /\ IsPrefix(Got, sent)'
<1>1. preface' = preface /\ sent' = sent /\ buffer' = buffer /\ file' = file
  BY DEF writerVars
<1> QED
  BY <1>1 DEF StreamInv, Written, ReadSoFar, Blank, FramePosition

\* The steps of the writer that touch no text.
LEMMA BatchSteps ==
  ASSUME StreamInv, BeginBatch \/ BatchFull \/ EndBatch
  PROVE  StreamInv'
<1>1. UNCHANGED <<writerVars, file, position, packet>>
  BY DEF BeginBatch, BatchFull, EndBatch, stream
<1>2. StreamTyped /\ ReadSoFar
  BY DEF StreamInv
<1>3. packets \in Seq(Seq(Symbols)) /\ delivered \in Seq(Seq(Symbols))
  BY <1>2 DEF StreamTyped
<1>4. Got' = Got /\ StreamTyped'
  <2>1. CASE BeginBatch
    <3>1. /\ reader = "idle" /\ reader' = "between" /\ packets' = <<>> /\ delivered' = delivered /\ eof' = FALSE
      BY <2>1 DEF BeginBatch, Continue
    <3>2. delivered \o <<>> = delivered
      BY <1>3
    <3>3. Got' = Got
      BY <3>1, <3>2 DEF Got
    <3>4. packets' \in Seq(Seq(Symbols))
      BY <3>1
    <3> QED
      BY <1>1, <1>2, <3>1, <3>3, <3>4 DEF StreamTyped, writerVars
  <2>2. CASE BatchFull
    BY <1>1, <1>2, <2>2 DEF BatchFull, EndWith, Continue, Got, StreamTyped, writerVars, stream
  <2>3. CASE EndBatch
    <3>1. delivered \o packets \in Seq(Seq(Symbols))
      BY <1>3
    <3>2. reader = "ended" /\ packets' = packets /\ eof' = eof
      BY <2>3 DEF EndBatch, stream
    <3>3. CASE error = "none"
      BY <1>1, <1>2, <2>3, <3>1, <3>2, <3>3 DEF EndBatch, Continue, Got, StreamTyped, writerVars
    <3>4. CASE error # "none"
      BY <1>1, <1>2, <2>3, <3>1, <3>2, <3>4 DEF EndBatch, Continue, Got, StreamTyped, writerVars
    <3> QED
      BY <3>3, <3>4
  <2> QED
    BY <2>1, <2>2, <2>3
<1>5. Written' /\ preface' = preface /\ Blank' = Blank /\ FramePosition' = FramePosition /\ IsPrefix(Got, sent)'
  BY <1>1, <1>4, ReaderKeeps
<1>6. AtLine => AtLine'
  BY <1>1, <1>4, <1>5 DEF AtLine
<1>7. ReadSoFar'
  <2>1. CASE BeginBatch
    BY <1>2, <1>4, <1>5, <1>6, <2>1 DEF BeginBatch, Continue, ReadSoFar
  <2>2. CASE BatchFull
    BY <1>2, <1>4, <1>5, <1>6, <2>2 DEF BatchFull, EndWith, Continue, ReadSoFar, stream
  <2>3. CASE EndBatch
    BY <1>2, <1>4, <1>5, <1>6, <2>3 DEF EndBatch, Continue, ReadSoFar, stream
  <2> QED
    BY <2>1, <2>2, <2>3
<1> QED
  BY <1>4, <1>5, <1>7 DEF StreamInv

\* A line is read: what is found at its start decides.
LEMMA HeaderStep ==
  ASSUME StreamInv, ReadHeader
  PROVE  StreamInv'
<1> DEFINE line == LineOf(Left)
           cut == Len(line) = Len(Left)
<1>1. /\ reader = "between" /\ UNCHANGED <<writerVars, file, packets, delivered>>
      /\ position' = position + Len(line) + (IF cut THEN 0 ELSE 1)
      /\ eof' = cut
  BY DEF ReadHeader
<1>2. StreamTyped /\ Written /\ IsPrefix(Got, sent) /\ AtLine /\ error = "none" /\ (~Blank => Got = <<>>)
  BY <1>1 DEF StreamInv, ReadSoFar
<1>3. /\ Len(Left) \in Nat /\ Left \in Seq(Symbols) /\ (Left = <<>> <=> Len(Left) = 0)
      /\ Len(Left) = Len(file) - position /\ position \in Nat /\ Len(file) \in Nat
  BY <1>2, WhatIsLeft DEF StreamTyped
<1>4. /\ line \in Seq(Symbols) /\ Len(line) \in Nat /\ Len(line) <= Len(Left)
      /\ \A i \in 1 .. Len(line) : line[i] = Left[i] /\ Left[i] # EndOfLine
      /\ Len(line) < Len(Left) => Left[Len(line) + 1] = EndOfLine
  <2>1. line \in Seq(Symbols)
    BY <1>3, LineProperties
  <2>2. Len(line) \in Nat
    BY <2>1
  <2> QED
    BY <1>3, <2>1, <2>2, LineProperties
<1>5. position' \in 0 .. Len(file)
  <2>1. CASE cut
    BY <1>1, <1>3, <1>4, <2>1
  <2>2. CASE ~cut
    BY <1>1, <1>3, <1>4, <2>2
  <2> QED
    BY <2>1, <2>2
<1>6. ASSUME reader' # "idle" PROVE Got' = Got
  BY <1>1, <1>6 DEF Got
<1>7. /\ Written' /\ preface' = preface /\ sent' = sent /\ Blank' = Blank
      /\ Got' = Got => FramePosition' = FramePosition /\ IsPrefix(Got, sent)'
  BY <1>1, ReaderKeeps
<1>8. ASSUME reader' \in {"between", "bytes", "ended"}, packet' \in [size : Nat, bytes : Seq(Symbols)]
      PROVE  StreamTyped'
  <2>1. eof' \in BOOLEAN
    BY <1>1
  <2> HIDE DEF line, cut
  <2> QED
    BY <1>1, <1>2, <1>5, <1>8, <2>1 DEF StreamTyped, writerVars
<1>9. packet' = packet => packet' \in [size : Nat, bytes : Seq(Symbols)]
  BY <1>2 DEF StreamTyped
<1>10. CASE Left = <<>>
  <2>1. reader' = "ended" /\ error' = "none" /\ packet' = packet
    BY <1>10 DEF ReadHeader, EndWith, Continue
  <2>2. position' = position
    BY <1>1, <1>3, <1>4, <1>10
  <2>3. Got' = Got
    BY <1>6, <2>1
  <2>4. AtLine'
    BY <1>2, <1>7, <2>2, <2>3 DEF AtLine
  <2>5. StreamTyped'
    BY <1>8, <1>9, <2>1
  <2> QED
    BY <1>2, <1>7, <2>1, <2>3, <2>4, <2>5 DEF StreamInv, ReadSoFar
<1>11. ASSUME Left # <<>> PROVE InPreface \/ AtFrame
  BY <1>2, <1>11, LineStart
<1>12. ASSUME Left # <<>>, line = <<>>, InPreface \/ AtFrame PROVE StreamInv'
  <2>1. reader' = reader /\ error' = error /\ packet' = packet
    BY <1>12 DEF ReadHeader
  <2>2. Len(line) = 0 /\ ~cut
    BY <1>3, <1>12
  <2>3. position' = position + 1 /\ Left[1] = EndOfLine /\ eof' = FALSE
    <3>1. position' = position + Len(line) + 1 /\ eof' = FALSE
      BY <1>1, <2>2
    <3>2. Len(line) < Len(Left) => Left[Len(line) + 1] = EndOfLine
      BY <1>4
    <3> HIDE DEF line, cut
    <3>3. Len(line) < Len(Left) /\ Len(line) + 1 = 1
      BY <1>3, <1>12, <2>2
    <3> QED
      BY <1>3, <2>2, <3>1, <3>2, <3>3
  <2>4. Got' = Got
    BY <1>1, <1>6, <2>1
  <2>5. AtLine'
    <3>1. CASE InPreface
      <4>1. /\ Got = <<>> /\ position < Len(preface) /\ preface[position + 1] = EndOfLine
            /\ \A i \in 1 .. position : preface[i] = EndOfLine
        BY <2>3, <3>1 DEF InPreface
      <4>2. \A i \in 1 .. position + 1 : preface[i] = EndOfLine
        BY <1>3, <4>1
      <4>3. position + 1 <= Len(preface)
        BY <1>2, <1>3, <4>1, GotTyped
      <4> QED
        BY <1>7, <2>3, <2>4, <4>1, <4>2, <4>3 DEF AtLine
    <3>2. CASE AtFrame
      BY <1>2, <1>12, <3>2, HeaderAsWritten
    <3> QED
      BY <1>12, <3>1, <3>2
  <2>6. StreamTyped'
    BY <1>1, <1>8, <1>9, <2>1
  <2> QED
    BY <1>1, <1>2, <1>7, <2>1, <2>4, <2>5, <2>6 DEF StreamInv, ReadSoFar
<1>13. ASSUME line # <<>>, InPreface PROVE ~Blank /\ line[1] # "H"
  <2>1. Len(line) >= 1
    BY <1>4, <1>13
  <2>2. line[1] = preface[position + 1] /\ preface[position + 1] # EndOfLine
    BY <1>4, <1>13, <2>1 DEF InPreface
  <2>3. preface \in Prefaces /\ preface \in Seq(Symbols)
    BY <1>2, GotTyped DEF StreamTyped
  <2>4. position + 1 \in DOMAIN preface /\ (position + 1) - 1 = position
    BY <1>3, <1>13, <2>3 DEF InPreface
  <2>5. \A j \in 1 .. position : preface[j] = "\n"
    BY <1>13 DEF InPreface, EndOfLine
  <2> HIDE DEF line
  <2>6. preface[position + 1] # "H"
    BY <2>3, <2>4, <2>5, PrefaceAssumption
  <2> QED
    BY <2>2, <2>4, <2>6 DEF Blank
<1>14. ASSUME Left # <<>>, line # <<>>, reader' = "ended", error' # "none", packet' = packet, eof' \/ ~Blank
       PROVE  StreamInv'
  <2>1. Got' = Got
    BY <1>6, <1>14
  <2>2. StreamTyped'
    BY <1>8, <1>9, <1>14
  <2> QED
    BY <1>2, <1>7, <1>14, <2>1, <2>2 DEF StreamInv, ReadSoFar
<1>15. CASE Left # <<>> /\ line # <<>> /\ line[1] # "H"
  <2>1. reader' = "ended" /\ error' # "none" /\ packet' = packet
    BY <1>15 DEF ReadHeader, EndWith, Continue
  <2>2. ~AtFrame
    BY <1>2, <1>15, HeaderAsWritten
  <2>3. ~Blank
    BY <1>11, <1>13, <1>15, <2>2
  <2> QED
    BY <1>14, <1>15, <2>1, <2>3
<1>16. CASE Left # <<>> /\ line # <<>> /\ line[1] = "H"
  <2>1. AtFrame
    BY <1>11, <1>13, <1>16
  <2> DEFINE b == sent[Len(Got) + 1]
  <2>2. ~cut => IsHeader(line) /\ Tail(line) = Digits[Len(b)] /\ Len(line) + 1 = HeaderLength(b)
    BY <1>2, <1>16, <2>1, HeaderAsWritten
  <2>3. CASE ~IsHeader(line)
    <3>1. reader' = "ended" /\ error' # "none" /\ packet' = packet
      BY <1>16, <2>3 DEF ReadHeader, EndWith, Continue
    <3>2. eof'
      BY <1>1, <2>2, <2>3
    <3> QED
      BY <1>14, <1>16, <3>1, <3>2
  <2>4. CASE IsHeader(line)
    <3>1. reader' = "bytes" /\ error' = error /\ packet' = [size |-> Number(Tail(line)), bytes |-> <<>>]
      BY <1>16, <2>4 DEF ReadHeader, Continue
    <3>2. Tail(line) \in Seq(Symbols)
      BY <1>4, <1>16, HeadTailProperties
    <3>3. packet'.size = Number(Tail(line)) /\ packet' \in [size : Nat, bytes : Seq(Symbols)]
      <4>1. Number(Tail(line)) \in Nat
        BY <3>2, NumberOfDigits
      <4> DEFINE number == Number(Tail(line))
      <4>2. packet' = [size |-> number, bytes |-> <<>>]
        BY <3>1
      <4> HIDE DEF number
      <4>3. packet'.size = number /\ (number \in Nat => packet' \in [size : Nat, bytes : Seq(Symbols)])
        BY <4>2
      <4> QED
        BY <4>1, <4>3 DEF number
    <3>4. Got' = Got
      BY <1>6, <3>1
    <3>5. StreamTyped'
      BY <1>8, <3>1, <3>3
    <3>6. Blank /\ position = FramePosition /\ Len(Got) < Len(sent) /\ b \in Seq(Symbols)
      BY <2>1 DEF AtFrame
    <3>7. ASSUME ~cut PROVE InFrame(FALSE)'
      <4>1. packet'.size = Len(b)
        BY <2>2, <3>3, <3>6, <3>7, FrameParts
      <4>2. position' = FramePosition + Len(Digits[Len(b)]) + 2
        <5>1. Len(Digits[Len(b)]) \in Nat /\ HeaderLength(b) = Len(Digits[Len(b)]) + 2
          <6>1. Digits[Len(b)] \in Seq({"0", "1"})
            BY <3>6, FrameParts
          <6> QED
            BY <6>1 DEF HeaderLength
        <5>2. position' = position + Len(line) + 1 /\ Len(line) + 1 = HeaderLength(b)
          BY <1>1, <2>2, <3>7
        <5> DEFINE d == Len(Digits[Len(b)])
                   l == Len(line)
                   h == HeaderLength(b)
        <5>3. l \in Nat /\ position \in Nat /\ position = FramePosition
          BY <1>3, <1>4, <3>6
        <5> HIDE DEF d, l, h
        <5>4. d \in Nat /\ h = d + 2 /\ position' = position + l + 1 /\ l + 1 = h
          BY <5>1, <5>2 DEF d, l, h
        <5>5. position' = FramePosition + d + 2
          BY <5>3, <5>4
        <5> QED
          BY <5>5 DEF d
      <4>3. FramePosition' = FramePosition /\ sent' = sent /\ FramePosition \in Nat
        BY <1>2, <1>7, <3>4, GotTyped
      <4>4. Len(Digits[Len(b)]) \in Nat
        <5>1. Digits[Len(b)] \in Seq({"0", "1"})
          BY <3>6, FrameParts
        <5> QED
          BY <5>1
      <4>5. position' = FramePosition + Len(Digits[Len(b)]) + 2 + 0
        BY <4>2, <4>3, <4>4
      <4> HIDE DEF line
      <4> QED
        BY <3>4, <3>6, <4>1, <4>3, <4>5 DEF InFrame
    <3>8. eof' \/ InFrame(FALSE)'
      BY <1>1, <3>7
    <3>9. ReadSoFar'
      <4>1. (reader' = "newline") = FALSE
        BY <3>1
      <4> QED
        BY <1>2, <1>7, <3>1, <3>4, <3>6, <3>8, <4>1 DEF ReadSoFar
    <3> QED
      BY <1>7, <3>5, <3>9 DEF StreamInv
  <2> QED
    BY <2>3, <2>4
<1> QED
  BY <1>10, <1>11, <1>12, <1>15, <1>16

\* The bytes of a packet are read, whatever they look like.
LEMMA BytesStep ==
  ASSUME StreamInv, ReadBytes
  PROVE  StreamInv'
<1> DEFINE there == IF eof THEN 0 ELSE Len(Left)
           enough == there >= packet.size
           n == IF enough THEN packet.size ELSE there
<1>1. /\ reader = "bytes" /\ UNCHANGED <<writerVars, file, packets, delivered>>
      /\ position' = position + n /\ eof' = (eof \/ ~enough)
      /\ packet' = [packet EXCEPT !.bytes = SubSeq(Left, 1, n)]
      /\ enough => reader' = "newline" /\ error' = error
      /\ ~enough => reader' = "ended" /\ error' # "none"
  BY DEF ReadBytes, EndWith, Continue
<1>2. /\ StreamTyped /\ Written /\ IsPrefix(Got, sent) /\ error = "none" /\ Blank
      /\ eof \/ InFrame(FALSE)
  BY <1>1 DEF StreamInv, ReadSoFar
<1>3. /\ Len(Left) \in Nat /\ Left \in Seq(Symbols)
      /\ Len(Left) = Len(file) - position /\ position \in Nat /\ Len(file) \in Nat /\ packet.size \in Nat
      /\ packet \in [size : Nat, bytes : Seq(Symbols)] /\ eof \in BOOLEAN
  BY <1>2, WhatIsLeft DEF StreamTyped
<1>4. n \in 0 .. Len(Left)
  BY <1>3
<1>5. SubSeq(Left, 1, n) \in Seq(Symbols) /\ Len(SubSeq(Left, 1, n)) = n
      /\ \A i \in 1 .. n : SubSeq(Left, 1, n)[i] = Left[i]
  BY <1>3, <1>4
<1>6. packet'.size = packet.size /\ packet'.bytes = SubSeq(Left, 1, n)
  BY <1>1, <1>3
<1>7. Got' = Got
  BY <1>1 DEF Got
<1>8. /\ Written' /\ preface' = preface /\ sent' = sent /\ Blank' = Blank
      /\ FramePosition' = FramePosition /\ IsPrefix(Got, sent)'
  BY <1>1, <1>7, ReaderKeeps
<1>9. StreamTyped'
  <2>1. position' \in 0 .. Len(file) /\ eof' \in BOOLEAN
    BY <1>1, <1>3, <1>4
  <2>2. reader' \in {"newline", "ended"}
    BY <1>1
  <2> HIDE DEF n, enough, there
  <2> QED
    BY <1>1, <1>2, <1>3, <1>5, <1>6, <2>1, <2>2 DEF StreamTyped, writerVars
<1>10. CASE ~enough
  BY <1>1, <1>2, <1>7, <1>8, <1>9, <1>10 DEF StreamInv, ReadSoFar
<1>11. CASE enough
  <2>1. ASSUME ~eof PROVE InFrame(TRUE)'
    <3> DEFINE b == sent[Len(Got) + 1]
               d == Len(Digits[Len(b)])
               h == d + 2
    <3>1. Len(Got) < Len(sent) /\ packet.size = Len(b) /\ position = FramePosition + d + 2 + 0
      BY <1>2, <2>1 DEF InFrame
    <3>2. /\ b \in Seq(Symbols)
          /\ \A i \in 1 .. Len(FrameOf(b)) :
               FramePosition + i <= Len(file) => file[FramePosition + i] = FrameOf(b)[i]
      BY <1>2, <3>1, FrameInFile
    <3>3. /\ HeaderLength(b) \in Nat /\ h = HeaderLength(b) /\ d \in Nat
          /\ Len(FrameOf(b)) = HeaderLength(b) + Len(b) + 1
          /\ \A i \in 1 .. Len(b) : FrameOf(b)[HeaderLength(b) + i] = b[i]
      <4>1. Digits[Len(b)] \in Seq({"0", "1"})
        BY <3>2, FrameParts
      <4>2. Len(Digits[Len(b)]) \in Nat
        BY <4>1
      <4>3. h = HeaderLength(b)
        BY <4>2 DEF HeaderLength
      <4>4. d \in Nat
        BY <4>2
      <4> HIDE DEF b, d, h
      <4> QED
        BY <3>2, <4>3, <4>4, FrameParts
    <3>4. FramePosition \in Nat
      BY <1>2, GotTyped
    <3>5. n = Len(b) /\ Len(b) \in Nat /\ Len(b) <= Len(Left)
      BY <1>4, <1>11, <3>1, <3>2
    <3> HIDE DEF n, enough, there, b, d
    <3>6. ASSUME NEW i \in 1 .. Len(b) PROVE SubSeq(Left, 1, n)[i] = b[i]
      <4>1. h + i \in 1 .. Len(FrameOf(b)) /\ FramePosition + (h + i) = position + i /\ position + i <= Len(file)
        BY <1>3, <3>1, <3>3, <3>4, <3>5, SMTT(30)
      <4>2. file[position + i] = FrameOf(b)[h + i]
        BY <3>2, <4>1
      <4>3. FrameOf(b)[h + i] = b[i]
        BY <3>3
      <4>4. i \in 1 .. Len(Left) /\ i \in 1 .. n
        BY <1>3, <3>5
      <4>5. Left[i] = file[position + i]
        BY <1>2, <4>4, WhatIsLeft
      <4> QED
        BY <1>5, <4>2, <4>3, <4>4, <4>5
    <3>7. SubSeq(Left, 1, n) = b
      BY <1>5, <3>2, <3>5, <3>6, SeqEqual
    <3>8. packet'.size = Len(b) /\ packet'.bytes = b
      BY <1>6, <3>1, <3>7
    <3>9. position' = FramePosition + d + 2 + Len(b)
      BY <1>1, <1>3, <3>1, <3>3, <3>4, <3>5, SMTT(30)
    <3> QED
      BY <1>7, <1>8, <3>1, <3>8, <3>9 DEF InFrame, b, d
  <2>2. eof' = eof
    BY <1>1, <1>3, <1>11
  <2>3. reader' = "newline" /\ error' = error
    BY <1>1, <1>11
  <2>4. eof' \/ InFrame(reader = "newline")'
    <3>1. (reader' = "newline") = TRUE
      BY <2>3
    <3> QED
      BY <2>1, <2>2, <3>1
  <2> QED
    BY <1>2, <1>7, <1>8, <1>9, <2>3, <2>4 DEF StreamInv, ReadSoFar
<1> QED
  BY <1>10, <1>11

\* A frame is complete with the end of its line.
LEMMA NewLineStep ==
  ASSUME StreamInv, ReadNewLine
  PROVE  StreamInv'
<1> DEFINE none == eof \/ Left = <<>>
<1>1. /\ reader = "newline" /\ UNCHANGED <<writerVars, file, packet, delivered>>
      /\ position' = position + (IF none THEN 0 ELSE 1) /\ eof' = none
  BY DEF ReadNewLine
<1>2. /\ StreamTyped /\ Written /\ IsPrefix(Got, sent) /\ error = "none" /\ Blank
      /\ eof \/ InFrame(TRUE)
  <2>1. reader = "newline" => (reader = "newline") = TRUE
    OBVIOUS
  <2> QED
    BY <1>1, <2>1 DEF StreamInv, ReadSoFar
<1>3. /\ Len(Left) \in Nat /\ Left \in Seq(Symbols) /\ (Left = <<>> <=> Len(Left) = 0)
      /\ Len(Left) = Len(file) - position /\ position \in Nat /\ Len(file) \in Nat
      /\ packet.size \in Nat /\ packet.bytes \in Seq(Symbols)
      /\ packets \in Seq(Seq(Symbols)) /\ delivered \in Seq(Seq(Symbols))
  BY <1>2, WhatIsLeft DEF StreamTyped
<1>4. position' \in 0 .. Len(file) /\ eof' \in BOOLEAN
  BY <1>1, <1>3
<1>5. CASE none
  <2>1. reader' = "ended" /\ error' # "none" /\ packets' = packets /\ eof'
    BY <1>1, <1>5 DEF ReadNewLine, EndWith, Continue
  <2>2. Got' = Got
    BY <1>1, <2>1 DEF Got
  <2>3. StreamTyped'
    BY <1>1, <1>2, <1>4, <2>1 DEF StreamTyped, writerVars
  <2>4. Written' /\ Blank' = Blank /\ IsPrefix(Got, sent)'
    BY <1>1, <2>2, ReaderKeeps
  <2> QED
    BY <1>2, <2>1, <2>3, <2>4 DEF StreamInv, ReadSoFar
<1>6. CASE ~none
  <2> DEFINE b == sent[Len(Got) + 1]
             d == Len(Digits[Len(b)])
             h == d + 2
  <2>1. Len(Got) < Len(sent) /\ packet.bytes = b /\ position = FramePosition + d + 2 + Len(b)
    BY <1>2, <1>6 DEF InFrame
  <2>2. /\ b \in Seq(Symbols)
        /\ \A i \in 1 .. Len(FrameOf(b)) :
             FramePosition + i <= Len(file) => file[FramePosition + i] = FrameOf(b)[i]
        /\ SubSeq(sent, 1, Len(Got) + 1) = Append(Got, b)
        /\ Len(preface) + Len(Frames(Append(Got, b))) = FramePosition + Len(FrameOf(b))
    BY <1>2, <2>1, FrameInFile
  <2>3. /\ HeaderLength(b) \in Nat /\ h = HeaderLength(b) /\ Len(b) \in Nat /\ d \in Nat
        /\ Len(FrameOf(b)) = HeaderLength(b) + Len(b) + 1
        /\ FrameOf(b)[HeaderLength(b) + Len(b) + 1] = EndOfLine
    <3>1. Digits[Len(b)] \in Seq({"0", "1"})
      BY <2>2, FrameParts
    <3>2. d \in Nat
      BY <3>1
    <3>3. h = HeaderLength(b)
      BY DEF HeaderLength
    <3>4. b \in Seq(Symbols)
      BY <2>2
    <3> HIDE DEF b, d, h
    <3>5. Len(b) \in Nat
      BY <3>4
    <3>6. /\ HeaderLength(b) \in Nat
          /\ Len(FrameOf(b)) = HeaderLength(b) + Len(b) + 1
          /\ FrameOf(b)[HeaderLength(b) + Len(b) + 1] = EndOfLine
      BY <3>4, FrameParts
    <3> QED
      BY <3>2, <3>3, <3>5, <3>6
  <2>4. FramePosition \in Nat /\ Len(Got) \in Nat /\ Got \in Seq(Seq(Symbols))
    BY <1>2, GotTyped
  <2>5. Len(Left) >= 1 /\ position' = position + 1
    <3>1. Left # <<>> /\ position' = position + 1
      BY <1>1, <1>6
    <3> QED
      BY <1>3, <3>1
  <2> HIDE DEF none, b, d
  <2>6. Left[1] = EndOfLine
    <3>1. h + Len(b) + 1 \in 1 .. Len(FrameOf(b)) /\ FramePosition + (h + Len(b) + 1) = position + 1
          /\ position + 1 <= Len(file)
      BY <1>3, <2>1, <2>3, <2>4, <2>5, SMTT(30)
    <3>2. file[position + 1] = FrameOf(b)[h + Len(b) + 1]
      BY <2>2, <3>1
    <3>3. 1 \in 1 .. Len(Left)
      BY <1>3, <2>5
    <3>4. Left[1] = file[position + 1]
      BY <1>2, <3>3, WhatIsLeft
    <3> QED
      BY <2>3, <3>2, <3>4
  <2>7. reader' = "between" /\ packets' = Append(packets, b) /\ error' = error
    BY <1>6, <2>1, <2>6 DEF ReadNewLine, Continue, none
  <2>8. Got' = Append(Got, b)
    <3>1. Got = delivered \o packets /\ Got' = delivered \o Append(packets, b)
      BY <1>1, <2>7 DEF Got
    <3>2. packets \in Seq(Seq(Symbols)) /\ delivered \in Seq(Seq(Symbols)) /\ b \in Seq(Symbols)
      BY <1>3, <2>2
    <3>3. Append(packets, b) = packets \o <<b>> /\ <<b>> \in Seq(Seq(Symbols))
      BY <3>2
    <3>4. Append(Got, b) = Got \o <<b>>
      <4>1. Got \in Seq(Seq(Symbols))
        BY <2>4
      <4> HIDE DEF Got
      <4> QED
        BY <3>2, <4>1, AppendIsConcat
    <3>5. delivered \o (packets \o <<b>>) = (delivered \o packets) \o <<b>>
      BY <3>2, <3>3, ConcatThree
    <3> QED
      BY <3>1, <3>3, <3>4, <3>5
  <2>9. StreamTyped'
    <3>1. packets' \in Seq(Seq(Symbols))
      BY <1>3, <2>2, <2>7
    <3> QED
      BY <1>1, <1>2, <1>4, <2>7, <3>1 DEF StreamTyped, writerVars
  <2>10. Written' /\ preface' = preface /\ sent' = sent /\ Blank' = Blank
    BY <1>1, ReaderKeeps
  <2>11. IsPrefix(Got, sent)'
    <3>1. Len(Append(Got, b)) = Len(Got) + 1 /\ Append(Got, b) \in Seq(Seq(Symbols))
      BY <2>2, <2>4
    <3>2. SubSeq(Append(Got, b), 1, Len(Append(Got, b))) = Append(Got, b)
      BY <3>1, SubSeqFull
    <3>3. Len(sent) \in Nat
      BY <1>2 DEF StreamTyped
    <3>4. Len(Append(Got, b)) <= Len(sent)
      BY <2>1, <2>4, <3>1, <3>3
    <3>5. IsPrefix(Append(Got, b), sent)
      BY <2>2, <3>1, <3>2, <3>4 DEF IsPrefix
    <3> QED
      BY <2>8, <2>10, <3>5
  <2>12. position' = FramePosition'
    <3>1. FramePosition' = Len(preface) + Len(Frames(Append(Got, b)))
      BY <2>8, <2>10 DEF FramePosition
    <3>2. FramePosition' = FramePosition + (h + Len(b) + 1)
      BY <2>2, <2>3, <3>1
    <3> QED
      BY <1>3, <2>1, <2>3, <2>4, <2>5, <3>2
  <2>13. AtLine' /\ Blank'
    BY <1>2, <2>10, <2>12 DEF AtLine
  <2> QED
    BY <1>2, <2>7, <2>9, <2>10, <2>11, <2>13 DEF StreamInv, ReadSoFar
<1> QED
  BY <1>5, <1>6

\* Every step keeps what is known of the stream.
LEMMA StreamNextInvariant ==
  ASSUME StreamInv, [StreamNext]_streamVars
  PROVE  StreamInv'
<1>1. CASE UNCHANGED streamVars
  <2>1. /\ UNCHANGED <<preface, sent, buffer, file, position, eof, reader, packet, packets, delivered, error>>
    BY <1>1 DEF streamVars, writerVars, stream, readerVars
  <2>2. StreamTyped' /\ Written'
    BY <2>1 DEF StreamInv, StreamTyped, Written
  <2>3. Got' = Got /\ Blank' = Blank /\ FramePosition' = FramePosition
    BY <2>1 DEF Got, Blank, FramePosition
  <2>4. ReadSoFar'
    BY <2>1, <2>3 DEF StreamInv, ReadSoFar, AtLine, InFrame
  <2> QED
    BY <2>2, <2>4 DEF StreamInv
<1>2. ASSUME NEW bytes \in Bytes, WriteFrame(bytes) PROVE StreamInv'
  BY <1>2, WriterSteps
<1>3. ASSUME NEW n \in 1 .. Len(buffer), Flush(n) PROVE StreamInv'
  BY <1>3, WriterSteps
<1> QED
  BY <1>1, <1>2, <1>3, BatchSteps, HeaderStep, BytesStep, NewLineStep DEF StreamNext

\* What is known of the stream gives the property of the runs.
LEMMA StreamInvImplies == StreamInv => FramesAsWritten
<1> SUFFICES ASSUME StreamInv PROVE FramesAsWritten
  OBVIOUS
<1>1. StreamTyped /\ Written /\ ReadSoFar /\ IsPrefix(Got, sent)
  BY DEF StreamInv, ReadSoFar
<1>2. error # "none" => eof \/ ~Blank
  BY <1>1 DEF ReadSoFar
<1>3. ~Blank => Got = <<>>
  BY <1>1 DEF ReadSoFar
<1>4. ASSUME reader = "idle", Got # <<>> PROVE position = FramePosition
  BY <1>1, <1>4 DEF ReadSoFar, AtLine
<1>5. FramePosition = Len(preface) + Len(FlattenSeq([i \in DOMAIN Got |-> FrameOf(Got[i])]))
  BY DEF FramePosition, Frames, FramesOf
<1> QED
  BY <1>1, <1>2, <1>3, <1>4, <1>5 DEF FramesAsWritten, Got, Blank

\* However the file grows under the reader, what is processed is what was
\* written (CapturePacketStream.cpp, CoreSession::processPacketStreamBatch).
THEOREM StreamFramesAsWritten == StreamSpec => []FramesAsWritten
<1>1. StreamInit => StreamInv
  BY StreamInitInvariant
<1>2. StreamInv /\ [StreamNext]_streamVars => StreamInv'
  BY StreamNextInvariant
<1>3. StreamInv => FramesAsWritten
  BY StreamInvImplies
<1> QED
  BY <1>1, <1>2, <1>3, PTL DEF StreamSpec

-----------------------------------------------------------------------------
(* The folds.                                                              *)

\* What a line is made of.
ReservedKeys == {"event", "packets", "dropped", "capture_path", "message"}
Alphabet == Characters \cup Keys \cup Numbers \cup MessageTypes \cup ReservedKeys
              \cup {Backslash, NewLine, Tab, CarriageReturn, "=", "n", "t"}
Strings == Seq(Alphabet)

Unescaping == [text : Strings, escaped : BOOLEAN]
NoText == [text |-> <<>>, escaped |-> FALSE]

\* The tokens read so far, the last of which may go on.
Tokenized == Seq(Strings) \ {<<>>}

\* A token that is a field.
FieldTokens == {t \in Strings : Len(t) >= 2 /\ t[1] \in Keys \cup ReservedKeys /\ t[2] = "="}

Understood ==
  [type : MessageTypes \cup {NoType, Rejected}, packets : Numbers \cup {"0"}, dropped : Numbers \cup {"0"},
   capturePath : Strings, message : Strings, fields : UNION {[some -> Strings] : some \in SUBSET Keys}]

\* Unescaping, as a function.
UnescapeStep == [r \in Unescaping |-> [c \in Alphabet |-> Unescape(r, c)]]

\* UnescapeField goes through its text in steps.
LEMMA UnescapeIsSteps ==
  ASSUME Stepping(UnescapeStep, NoText, Unescaping, Alphabet), NEW s \in Seq(Alphabet)
  PROVE  FoldLeft(Unescape, NoText, s) = Steps(UnescapeStep, NoText, s)
<1> DEFINE D == DOMAIN s
           Value(iter, t) == IF t = {} THEN NoText ELSE Unescape(iter[t \ {Max(t)}], s[Max(t)])
           Iter == CHOOSE iter : iter = [t \in SUBSET D |-> Value(iter, t)]
<1>1. FoldLeft(Unescape, NoText, s) = Iter[D]
  BY DEF FoldLeft, MapThenFoldSet
<1>2. \A r \in Unescaping, c \in Alphabet : Unescape(r, c) = UnescapeStep[r][c]
  BY DEF UnescapeStep
<1>3. D = 1 .. Len(s)
  BY FoldIndices
<1>4. PICK h \in [SUBSET (1 .. Len(s)) -> Unescaping] : FoldEquation(UnescapeStep, NoText, s, Len(s), h)
  BY FoldExists
<1>5. ASSUME NEW t \in SUBSET D PROVE h[t] = Value(h, t)
  <2>1. t # {} => h[t \ {Max(t)}] \in Unescaping /\ s[Max(t)] \in Alphabet
    BY <1>3, FoldIndices
  <2> QED
    BY <1>2, <1>3, <1>4, <2>1 DEF FoldEquation
<1>6. Iter = [t \in SUBSET D |-> Value(Iter, t)]
  <2>1. h = [t \in SUBSET D |-> Value(h, t)]
    <3> HIDE DEF Value
    <3> QED
      BY <1>3, <1>5
  <2> HIDE DEF Value, D
  <2> QED
    BY <2>1
<1> HIDE DEF Iter
<1>7. Stepped(Iter, UnescapeStep, NoText, s, Unescaping)
  <2>1. Iter[{}] = NoText
    BY <1>6
  <2>2. ASSUME NEW n \in 1 .. Len(s), Iter[(1 .. n) \ {Max(1 .. n)}] \in Unescaping
        PROVE  Iter[1 .. n] = UnescapeStep[Iter[(1 .. n) \ {Max(1 .. n)}]][s[Max(1 .. n)]]
    <3>1. 1 .. n \in SUBSET D /\ 1 .. n # {} /\ s[Max(1 .. n)] \in Alphabet
      BY <1>3, FoldIndices
    <3>2. Iter[1 .. n] = Value(Iter, 1 .. n)
      BY <1>6, <3>1
    <3> QED
      BY <1>2, <2>2, <3>1, <3>2
  <2> QED
    BY <2>1, <2>2 DEF Stepped
<1> QED
  BY <1>1, <1>7, FoldIsSteps

\* Reading tokens, as a function.
TokenStep == [r \in Tokenized |-> [c \in Alphabet |-> ReadCharacter(r, c)]]

\* So do the tokens of a line.
LEMMA TokensIsSteps ==
  ASSUME Stepping(TokenStep, <<<<>>>>, Tokenized, Alphabet), NEW s \in Seq(Alphabet)
  PROVE  FoldLeft(ReadCharacter, <<<<>>>>, s) = Steps(TokenStep, <<<<>>>>, s)
<1> DEFINE D == DOMAIN s
           Value(iter, t) == IF t = {} THEN <<<<>>>> ELSE ReadCharacter(iter[t \ {Max(t)}], s[Max(t)])
           Iter == CHOOSE iter : iter = [t \in SUBSET D |-> Value(iter, t)]
<1>1. FoldLeft(ReadCharacter, <<<<>>>>, s) = Iter[D]
  BY DEF FoldLeft, MapThenFoldSet
<1>2. \A r \in Tokenized, c \in Alphabet : ReadCharacter(r, c) = TokenStep[r][c]
  BY DEF TokenStep
<1>3. D = 1 .. Len(s)
  BY FoldIndices
<1>4. PICK h \in [SUBSET (1 .. Len(s)) -> Tokenized] : FoldEquation(TokenStep, <<<<>>>>, s, Len(s), h)
  BY FoldExists
<1>5. ASSUME NEW t \in SUBSET D PROVE h[t] = Value(h, t)
  <2>1. t # {} => h[t \ {Max(t)}] \in Tokenized /\ s[Max(t)] \in Alphabet
    BY <1>3, FoldIndices
  <2> QED
    BY <1>2, <1>3, <1>4, <2>1 DEF FoldEquation
<1>6. Iter = [t \in SUBSET D |-> Value(Iter, t)]
  <2>1. h = [t \in SUBSET D |-> Value(h, t)]
    <3> HIDE DEF Value
    <3> QED
      BY <1>3, <1>5
  <2> HIDE DEF Value, D
  <2> QED
    BY <2>1
<1> HIDE DEF Iter
<1>7. Stepped(Iter, TokenStep, <<<<>>>>, s, Tokenized)
  <2>1. Iter[{}] = <<<<>>>>
    BY <1>6
  <2>2. ASSUME NEW n \in 1 .. Len(s), Iter[(1 .. n) \ {Max(1 .. n)}] \in Tokenized
        PROVE  Iter[1 .. n] = TokenStep[Iter[(1 .. n) \ {Max(1 .. n)}]][s[Max(1 .. n)]]
    <3>1. 1 .. n \in SUBSET D /\ 1 .. n # {} /\ s[Max(1 .. n)] \in Alphabet
      BY <1>3, FoldIndices
    <3>2. Iter[1 .. n] = Value(Iter, 1 .. n)
      BY <1>6, <3>1
    <3> QED
      BY <1>2, <2>2, <3>1, <3>2
  <2> QED
    BY <2>1, <2>2 DEF Stepped
<1> QED
  BY <1>1, <1>7, FoldIsSteps

\* Reading a field, as a function.
FieldStep == [r \in Understood |-> [c \in FieldTokens |-> ReadToken(r, c)]]

\* And the fields of a message.
LEMMA ParseIsSteps ==
  ASSUME Stepping(FieldStep, Unread, Understood, FieldTokens), NEW s \in Seq(FieldTokens)
  PROVE  FoldLeft(ReadToken, Unread, s) = Steps(FieldStep, Unread, s)
<1> DEFINE D == DOMAIN s
           Value(iter, t) == IF t = {} THEN Unread ELSE ReadToken(iter[t \ {Max(t)}], s[Max(t)])
           Iter == CHOOSE iter : iter = [t \in SUBSET D |-> Value(iter, t)]
<1>1. FoldLeft(ReadToken, Unread, s) = Iter[D]
  BY DEF FoldLeft, MapThenFoldSet
<1>2. \A r \in Understood, c \in FieldTokens : ReadToken(r, c) = FieldStep[r][c]
  BY DEF FieldStep
<1>3. D = 1 .. Len(s)
  BY FoldIndices
<1>4. PICK h \in [SUBSET (1 .. Len(s)) -> Understood] : FoldEquation(FieldStep, Unread, s, Len(s), h)
  BY FoldExists
<1>5. ASSUME NEW t \in SUBSET D PROVE h[t] = Value(h, t)
  <2>1. t # {} => h[t \ {Max(t)}] \in Understood /\ s[Max(t)] \in FieldTokens
    BY <1>3, FoldIndices
  <2> QED
    BY <1>2, <1>3, <1>4, <2>1 DEF FoldEquation
<1>6. Iter = [t \in SUBSET D |-> Value(Iter, t)]
  <2>1. h = [t \in SUBSET D |-> Value(h, t)]
    <3> HIDE DEF Value
    <3> QED
      BY <1>3, <1>5
  <2> HIDE DEF Value, D
  <2> QED
    BY <2>1
<1> HIDE DEF Iter
<1>7. Stepped(Iter, FieldStep, Unread, s, Understood)
  <2>1. Iter[{}] = Unread
    BY <1>6
  <2>2. ASSUME NEW n \in 1 .. Len(s), Iter[(1 .. n) \ {Max(1 .. n)}] \in Understood
        PROVE  Iter[1 .. n] = FieldStep[Iter[(1 .. n) \ {Max(1 .. n)}]][s[Max(1 .. n)]]
    <3>1. 1 .. n \in SUBSET D /\ 1 .. n # {} /\ s[Max(1 .. n)] \in FieldTokens
      BY <1>3, FoldIndices
    <3>2. Iter[1 .. n] = Value(Iter, 1 .. n)
      BY <1>6, <3>1
    <3> QED
      BY <1>2, <2>2, <3>1, <3>2
  <2> QED
    BY <2>1, <2>2 DEF Stepped
<1> QED
  BY <1>1, <1>7, FoldIsSteps

\* The steps of UnescapeField have their type.
LEMMA UnescapeStepping == Stepping(UnescapeStep, NoText, Unescaping, Alphabet)
<1>1. NoText \in Unescaping
  BY DEF NoText, Unescaping, Strings
<1>2. ASSUME NEW r \in Unescaping, NEW c \in Alphabet PROVE Unescape(r, c) \in Unescaping
  <2>1. Meant(c) \in Alphabet
    BY DEF Meant, Alphabet
  <2>2. r.text \in Strings /\ r.escaped \in BOOLEAN
    BY DEF Unescaping
  <2>3. Append(r.text, c) \in Strings /\ Append(r.text, Meant(c)) \in Strings
    BY <2>1, <2>2 DEF Strings
  <2> QED
    BY <2>3 DEF Unescape, Unescaping
<1> QED
  BY <1>1, <1>2 DEF Stepping, UnescapeStep

\* The last of the tokens, and those before it.
LEMMA LastToken ==
  ASSUME NEW S, NEW tokens \in Seq(S), NEW token \in S
  PROVE  /\ Append(tokens, token) \in Seq(S) \ {<<>>}
         /\ Front(Append(tokens, token)) = tokens /\ Last(Append(tokens, token)) = token
<1> DEFINE a == Append(tokens, token)
<1>1. a \in Seq(S) /\ Len(a) = Len(tokens) + 1 /\ a # <<>> /\ a[Len(tokens) + 1] = token
      /\ \A i \in 1 .. Len(tokens) : a[i] = tokens[i]
  BY AppendProperties
<1>2. Len(tokens) \in Nat
  OBVIOUS
<1> HIDE DEF a
<1>3. Last(a) = token
  BY <1>1 DEF Last
<1>4. SubSeq(a, 1, Len(a) - 1) = tokens
  <2>1. Len(a) - 1 = Len(tokens)
    BY <1>1, <1>2
  <2>2. /\ SubSeq(a, 1, Len(tokens)) \in Seq(S) /\ Len(SubSeq(a, 1, Len(tokens))) = Len(tokens)
        /\ \A i \in 1 .. Len(tokens) : SubSeq(a, 1, Len(tokens))[i] = a[i]
    BY <1>1, <1>2
  <2> QED
    BY <1>1, <2>1, <2>2, SeqEqual
<1> QED
  BY <1>1, <1>3, <1>4 DEF a, Front

\* A sequence is its front and its last element.
LEMMA LastOf ==
  ASSUME NEW S, NEW s \in Seq(S), s # <<>>
  PROVE  Front(s) \in Seq(S) /\ Last(s) \in S /\ s = Append(Front(s), Last(s))
         /\ Len(s) \in Nat /\ Len(s) >= 1 /\ Last(s) = s[Len(s)]
<1>1. Len(s) \in Nat /\ Len(s) >= 1
  BY EmptySeq
<1>2. SubSeq(s, 1, Len(s) - 1) \in Seq(S) /\ s[Len(s)] \in S
      /\ Len(SubSeq(s, 1, Len(s) - 1)) = Len(s) - 1
      /\ \A i \in 1 .. Len(s) - 1 : SubSeq(s, 1, Len(s) - 1)[i] = s[i]
  <2> DEFINE k == Len(s) - 1
  <2>1. k \in Nat /\ k <= Len(s) /\ Len(s) \in 1 .. Len(s)
    BY <1>1
  <2> HIDE DEF k
  <2>2. SubSeq(s, 1, k) \in Seq(S) /\ Len(SubSeq(s, 1, k)) = k /\ \A i \in 1 .. k : SubSeq(s, 1, k)[i] = s[i]
    BY <2>1
  <2> QED
    BY <2>1, <2>2 DEF k
<1> DEFINE p == SubSeq(s, 1, Len(s) - 1)
           x == s[Len(s)]
<1>3. s = Append(p, x)
  <2> HIDE DEF p, x
  <2>1. Append(p, x) \in Seq(S) /\ Len(Append(p, x)) = Len(s)
    BY <1>1, <1>2 DEF p, x
  <2>2. ASSUME NEW i \in 1 .. Len(s) PROVE s[i] = Append(p, x)[i]
    <3>1. CASE i = Len(s)
      BY <1>1, <1>2, <3>1 DEF p, x
    <3>2. CASE i # Len(s)
      BY <1>1, <1>2, <3>2 DEF p, x
    <3> QED
      BY <3>1, <3>2
  <2> QED
    BY <2>1, <2>2, SeqEqual
<1> QED
  BY <1>1, <1>2, <1>3 DEF Front, Last

\* The steps of Tokens have their type.
LEMMA TokenStepping == Stepping(TokenStep, <<<<>>>>, Tokenized, Alphabet)
<1>1. <<<<>>>> \in Tokenized
  BY DEF Tokenized, Strings
<1>2. ASSUME NEW r \in Tokenized, NEW c \in Alphabet PROVE ReadCharacter(r, c) \in Tokenized
  <2>1. Front(r) \in Seq(Strings) /\ Last(r) \in Strings /\ r \in Seq(Strings)
    BY LastOf DEF Tokenized
  <2>2. Append(Last(r), c) \in Strings /\ <<>> \in Strings
    BY <2>1 DEF Strings
  <2>3. Append(r, <<>>) \in Tokenized /\ Append(Front(r), Append(Last(r), c)) \in Tokenized
    BY <2>1, <2>2, LastToken DEF Tokenized
  <2> QED
    BY <2>3 DEF ReadCharacter
<1> QED
  BY <1>1, <1>2 DEF Stepping, TokenStep

-----------------------------------------------------------------------------
(* Escapes.                                                                *)

\* An escape holds neither a tab nor an end of line, and ends in a carriage
\* return only for one.
LEMMA EscapedTyped ==
  ASSUME NEW c \in Alphabet
  PROVE  /\ Escaped(c) \in Strings /\ Len(Escaped(c)) >= 1
         /\ \A i \in 1 .. Len(Escaped(c)) : Escaped(c)[i] \notin {Tab, NewLine}
         /\ Escaped(c)[Len(Escaped(c))] = CarriageReturn <=> c = CarriageReturn
<1> USE DEF Strings, Alphabet
<1>1. CASE c = Backslash
  <2>1. Escaped(c) = <<Backslash, Backslash>>
    BY <1>1 DEF Escaped, Backslash, NewLine, Tab
  <2>2. Backslash \notin {Tab, NewLine, CarriageReturn}
    BY DEF Backslash, NewLine, Tab, CarriageReturn
  <2>3. Backslash \in Alphabet
    OBVIOUS
  <2> DEFINE e == <<Backslash, Backslash>>
  <2> HIDE DEF Strings, Alphabet
  <2>4. e \in Seq(Alphabet) /\ Len(e) = 2 /\ e[1] = Backslash /\ e[2] = Backslash
    BY <2>3
  <2> HIDE DEF e
  <2>5. \A i \in 1 .. Len(e) : e[i] = Backslash
    BY <2>4
  <2> QED
    BY <1>1, <2>1, <2>2, <2>4, <2>5 DEF e, Strings
<1>2. CASE c = NewLine
  <2>1. Escaped(c) = <<Backslash, "n">>
    BY <1>2 DEF Escaped, Backslash, NewLine, Tab
  <2> QED
    BY <1>2, <2>1, SMTT(30) DEF Backslash, NewLine, Tab, CarriageReturn
<1>3. CASE c = Tab
  <2>1. Escaped(c) = <<Backslash, "t">>
    BY <1>3 DEF Escaped, Backslash, NewLine, Tab
  <2> QED
    BY <1>3, <2>1, SMTT(30) DEF Backslash, NewLine, Tab, CarriageReturn
<1>4. CASE c \notin {Backslash, NewLine, Tab}
  <2>1. Escaped(c) = <<c>>
    BY <1>4 DEF Escaped
  <2> QED
    BY <1>4, <2>1
<1> QED
  BY <1>1, <1>2, <1>3, <1>4

\* A text is escaped character by character.
LEMMA EscapeFieldSteps ==
  /\ EscapeField(<<>>) = <<>>
  /\ \A v \in Strings : EscapeField(v) \in Strings
  /\ \A v \in Strings, c \in Alphabet : EscapeField(Append(v, c)) = EscapeField(v) \o Escaped(c)
<1> DEFINE parts(v) == [i \in DOMAIN v |-> Escaped(v[i])]
<1>1. ASSUME NEW v \in Strings PROVE parts(v) \in Seq(Strings) /\ Len(parts(v)) = Len(v)
  <2>1. DOMAIN v = 1 .. Len(v) /\ Len(v) \in Nat /\ \A i \in 1 .. Len(v) : v[i] \in Alphabet
    BY DEF Strings
  <2>2. parts(v) \in [1 .. Len(v) -> Strings]
    BY <2>1, EscapedTyped
  <2> QED
    BY <2>1, <2>2
<1>2. ASSUME NEW v \in Strings PROVE EscapeField(v) = FlattenSeq(parts(v))
  BY DEF EscapeField
<1>3. EscapeField(<<>>) = <<>>
  <2>1. <<>> \in Strings /\ Len(<<>>) = 0
    BY DEF Strings
  <2>2. parts(<<>>) \in Seq(Strings) /\ Len(parts(<<>>)) = 0
    BY <1>1, <2>1
  <2>3. parts(<<>>) = <<>>
    <3> HIDE DEF parts
    <3> QED
      BY <2>2, EmptySeq
  <2> QED
    BY <1>2, <2>1, <2>3, FlattenProperties
<1>4. ASSUME NEW v \in Strings, NEW c \in Alphabet
      PROVE  EscapeField(Append(v, c)) = EscapeField(v) \o Escaped(c)
  <2> DEFINE a == Append(v, c)
  <2>1. a \in Strings /\ Len(a) = Len(v) + 1 /\ Len(v) \in Nat /\ a[Len(v) + 1] = c
        /\ \A i \in 1 .. Len(v) : a[i] = v[i]
    BY DEF Strings
  <2>2. Escaped(c) \in Strings
    BY EscapedTyped
  <2>3. parts(v) \in Seq(Strings) /\ Len(parts(v)) = Len(v)
        /\ parts(a) \in Seq(Strings) /\ Len(parts(a)) = Len(a)
    <3> HIDE DEF parts, a
    <3> QED
      BY <1>1, <2>1
  <2>4. \A i \in 1 .. Len(v) : parts(v)[i] = Escaped(v[i])
    BY DEF Strings
  <2>5. \A i \in 1 .. Len(a) : parts(a)[i] = Escaped(a[i])
    <3> HIDE DEF a
    <3> QED
      BY <2>1 DEF Strings
  <2> HIDE DEF parts, a
  <2>6. Append(parts(v), Escaped(c)) \in Seq(Strings) /\ Len(Append(parts(v), Escaped(c))) = Len(a)
        /\ \A i \in 1 .. Len(a) : Append(parts(v), Escaped(c))[i] = parts(a)[i]
    <3> DEFINE p == parts(v)
               x == Escaped(c)
    <3> HIDE DEF p, x
    <3>1. p \in Seq(Strings) /\ x \in Strings /\ Len(p) = Len(v)
      BY <2>2, <2>3 DEF p, x
    <3>2. Append(p, x) \in Seq(Strings) /\ Len(Append(p, x)) = Len(a)
          /\ Append(p, x)[Len(v) + 1] = x /\ \A i \in 1 .. Len(v) : Append(p, x)[i] = p[i]
      BY <2>1, <3>1, AppendProperties
    <3>3. ASSUME NEW i \in 1 .. Len(a) PROVE Append(p, x)[i] = parts(a)[i]
      <4>1. CASE i = Len(v) + 1
        BY <2>1, <2>5, <3>2, <4>1 DEF x
      <4>2. CASE i # Len(v) + 1
        <5>1. i \in 1 .. Len(v)
          BY <2>1, <4>2
        <5> QED
          BY <2>1, <2>4, <2>5, <3>2, <5>1 DEF p
      <4> QED
        BY <4>1, <4>2
    <3> QED
      BY <3>2, <3>3 DEF p, x
  <2>7. parts(a) = Append(parts(v), Escaped(c))
    BY <2>3, <2>6, SeqEqual
  <2>8. FlattenSeq(parts(a)) = FlattenSeq(parts(v)) \o Escaped(c)
    BY <2>2, <2>3, <2>7, FlattenProperties DEF Strings
  <2> QED
    BY <1>2, <2>1, <2>8 DEF a
<1>5. ASSUME NEW v \in Strings PROVE EscapeField(v) \in Strings
  BY <1>1, <1>2, FlattenProperties DEF Strings
<1> QED
  BY <1>3, <1>4, <1>5

\* An escaped text holds neither a tab nor an end of line.
LEMMA EscapeFieldText ==
  ASSUME NEW v \in Strings
  PROVE  /\ EscapeField(v) \in Strings
         /\ \A i \in 1 .. Len(EscapeField(v)) : EscapeField(v)[i] \notin {Tab, NewLine}
<1> DEFINE Clean(s) == \A i \in 1 .. Len(s) : s[i] \notin {Tab, NewLine}
           G == {w \in Strings : Clean(EscapeField(w))}
<1>1. <<>> \in G
  <2>1. Len(<<>>) = 0 /\ <<>> \in Strings
    BY DEF Strings
  <2>2. Clean(<<>>)
    BY <2>1
  <2> HIDE DEF Clean
  <2> QED
    BY <2>1, <2>2, EscapeFieldSteps
<1>2. ASSUME NEW w \in Seq(Alphabet), NEW c \in Alphabet, w \in G PROVE Append(w, c) \in G
  <2> DEFINE e == EscapeField(w)
             x == Escaped(c)
  <2>1. e \in Seq(Alphabet) /\ x \in Seq(Alphabet) /\ Clean(e) /\ Clean(x)
        /\ EscapeField(Append(w, c)) = e \o x /\ Append(w, c) \in Strings
    <3>1. w \in Strings /\ Append(w, c) \in Strings
      BY <1>2 DEF Strings
    <3>2. e \in Strings /\ EscapeField(Append(w, c)) = e \o x
      BY <3>1, EscapeFieldSteps
    <3>3. x \in Strings /\ Clean(x)
      BY EscapedTyped
    <3>4. Clean(e)
      BY <1>2
    <3> QED
      BY <3>1, <3>2, <3>3, <3>4 DEF Strings
  <2> HIDE DEF e, x
  <2>2. Clean(e \o x)
    <3>1. ASSUME NEW i \in 1 .. Len(e \o x) PROVE (e \o x)[i] \notin {Tab, NewLine}
      <4>1. Len(e \o x) = Len(e) + Len(x) /\ Len(e) \in Nat /\ Len(x) \in Nat
        BY <2>1
      <4>2. CASE i <= Len(e)
        BY <2>1, <4>1, <4>2
      <4>3. CASE i > Len(e)
        <5>1. i - Len(e) \in 1 .. Len(x) /\ (e \o x)[i] = x[i - Len(e)]
          BY <2>1, <4>1, <4>3
        <5> QED
          BY <2>1, <5>1
      <4> QED
        BY <4>1, <4>2, <4>3
    <3> QED
      BY <3>1
  <2> HIDE DEF Clean
  <2> QED
    BY <2>1, <2>2
<1>3. Seq(Alphabet) \subseteq G
  <2> HIDE DEF G
  <2> QED
    BY <1>1, <1>2, SeqSetInduction
<1> QED
  BY <1>3, EscapeFieldSteps DEF Strings

\* An escaped text ends in a carriage return only if the text does.
LEMMA EscapeFieldEnd ==
  ASSUME NEW v \in Strings, NEW c \in Alphabet
  PROVE  LET e == EscapeField(Append(v, c))
         IN  /\ e \in Strings /\ Len(e) >= 1
             /\ e[Len(e)] = CarriageReturn <=> c = CarriageReturn
<1> DEFINE a == EscapeField(v)
           x == Escaped(c)
<1>1. a \in Seq(Alphabet) /\ x \in Seq(Alphabet) /\ EscapeField(Append(v, c)) = a \o x
      /\ Len(x) >= 1 /\ (x[Len(x)] = CarriageReturn <=> c = CarriageReturn)
  BY EscapeFieldSteps, EscapedTyped DEF Strings
<1> HIDE DEF a, x
<1>2. a \o x \in Seq(Alphabet) /\ Len(a \o x) = Len(a) + Len(x) /\ Len(a) \in Nat /\ Len(x) \in Nat
      /\ Len(x) >= 1
  BY <1>1
<1>3. (a \o x)[Len(a \o x)] = x[Len(x)]
  <2>1. Len(x) \in 1 .. Len(x) /\ Len(a) + Len(x) \in 1 .. Len(a) + Len(x) /\ Len(a) + Len(x) > Len(a)
        /\ (Len(a) + Len(x)) - Len(a) = Len(x)
    BY <1>2
  <2> QED
    BY <1>1, <1>2, <2>1
<1>4. Len(a \o x) >= 1
  BY <1>2
<1> QED
  BY <1>1, <1>2, <1>3, <1>4 DEF Strings

\* Short sequences, symbol by symbol.
LEMMA ShortSequences ==
  ASSUME NEW S, NEW x \in S, NEW y \in S
  PROVE  /\ <<>> \in Seq(S) /\ <<x>> \in Seq(S)
         /\ Append(<<>>, x) = <<x>> /\ Append(<<x>>, y) = <<x, y>>
<1> DEFINE e == <<>>
           o == <<x>>
           t == <<x, y>>
<1>1. /\ e \in Seq(S) /\ Len(e) = 0
      /\ o \in Seq(S) /\ Len(o) = 1 /\ o[1] = x
      /\ t \in Seq(S) /\ Len(t) = 2 /\ t[1] = x /\ t[2] = y
  OBVIOUS
<1> HIDE DEF e, o, t
<1>2. Append(e, x) \in Seq(S) /\ Len(Append(e, x)) = 1 /\ Append(e, x)[1] = x
  BY <1>1
<1>3. \A i \in 1 .. 1 : i = 1
  OBVIOUS
<1>4. Append(e, x) = o
  BY <1>1, <1>2, <1>3, SeqEqual
<1>5. Append(o, y) \in Seq(S) /\ Len(Append(o, y)) = 1 + 1 /\ Append(o, y)[1 + 1] = y
      /\ \A i \in 1 .. 1 : Append(o, y)[i] = o[i]
  <2>1. o \in Seq(S) /\ Len(o) = 1
    BY <1>1
  <2>2. /\ Append(o, y) \in Seq(S) /\ Len(Append(o, y)) = Len(o) + 1
        /\ \A i \in 1 .. Len(o) : Append(o, y)[i] = o[i]
        /\ Append(o, y)[Len(o) + 1] = y
    BY <2>1, AppendProperties, SMTT(30)
  <2> QED
    BY <2>1, <2>2
<1>6. \A i \in 1 .. 2 : i = 1 \/ i = 2
  OBVIOUS
<1>7. Append(o, y) = t
  <2>1. Append(o, y)[1] = x /\ Append(o, y)[2] = y /\ Len(Append(o, y)) = 2
    BY <1>1, <1>5
  <2>2. \A i \in 1 .. 2 : Append(o, y)[i] = t[i]
    BY <1>1, <1>6, <2>1
  <2> QED
    BY <1>1, <1>5, <2>1, <2>2, SeqEqual
<1> QED
  BY <1>1, <1>4, <1>7 DEF e, o, t

\* One step.
LEMMA StepsOne ==
  ASSUME NEW T, NEW S, NEW base, NEW step, Stepping(step, base, T, S), NEW x \in S
  PROVE  Steps(step, base, <<x>>) = step[base][x]
<1> DEFINE e == <<>>
           o == <<x>>
<1>1. e \in Seq(S) /\ Append(e, x) = o /\ Steps(step, base, e) = base
  BY ShortSequences, StepsEmpty
<1> HIDE DEF e, o
<1>2. Steps(step, base, Append(e, x)) = step[Steps(step, base, e)][x]
  <2>1. e \in Seq(S)
    BY <1>1
  <2> QED
    BY <2>1, StepsAppend
<1> QED
  BY <1>1, <1>2 DEF o

\* Two steps.
LEMMA StepsTwo ==
  ASSUME NEW T, NEW S, NEW base, NEW step, Stepping(step, base, T, S), NEW x \in S, NEW y \in S
  PROVE  Steps(step, base, <<x, y>>) = step[step[base][x]][y]
<1> DEFINE o == <<x>>
           t == <<x, y>>
<1>1. o \in Seq(S) /\ Append(o, y) = t /\ Steps(step, base, o) = step[base][x]
  BY ShortSequences, StepsOne
<1> HIDE DEF o, t
<1>2. Steps(step, base, Append(o, y)) = step[Steps(step, base, o)][y]
  <2>1. o \in Seq(S)
    BY <1>1
  <2> QED
    BY <2>1, StepsAppend
<1> QED
  BY <1>1, <1>2 DEF t

\* An escape means the character it is for.
LEMMA UnescapeEscaped ==
  ASSUME NEW t \in Strings, NEW c \in Alphabet
  PROVE  Steps(UnescapeStep, [text |-> t, escaped |-> FALSE], Escaped(c))
           = [text |-> Append(t, c), escaped |-> FALSE]
<1> DEFINE base == [text |-> t, escaped |-> FALSE]
           next == [text |-> t, escaped |-> TRUE]
<1>0. base \in Unescaping /\ next \in Unescaping
  BY DEF Unescaping
<1>1. Stepping(UnescapeStep, base, Unescaping, Alphabet)
  BY <1>0, UnescapeStepping DEF Stepping
<1>2. \A r \in Unescaping, x \in Alphabet : UnescapeStep[r][x] = Unescape(r, x)
  BY DEF UnescapeStep
<1>3. Backslash \in Alphabet /\ "n" \in Alphabet /\ "t" \in Alphabet
  BY DEF Alphabet
<1>4. Unescape(base, Backslash) = next
  BY DEF Unescape
<1>5. \A x \in Alphabet : Unescape(next, x) = [text |-> Append(t, Meant(x)), escaped |-> FALSE]
  BY DEF Unescape
<1>6. \A x \in Alphabet : x # Backslash => Unescape(base, x) = [text |-> Append(t, x), escaped |-> FALSE]
  BY DEF Unescape
<1> HIDE DEF base, next
<1>7. \A x \in Alphabet :
        Steps(UnescapeStep, base, <<Backslash, x>>) = [text |-> Append(t, Meant(x)), escaped |-> FALSE]
  <2> TAKE x \in Alphabet
  <2>1. Steps(UnescapeStep, base, <<Backslash, x>>) = UnescapeStep[UnescapeStep[base][Backslash]][x]
    BY <1>1, <1>3, StepsTwo
  <2>2. UnescapeStep[base][Backslash] = next
    BY <1>0, <1>2, <1>3, <1>4
  <2> QED
    BY <1>0, <1>2, <1>5, <2>1, <2>2
<1>8. CASE c = Backslash
  <2>1. Escaped(c) = <<Backslash, Backslash>> /\ Meant(Backslash) = Backslash
    BY <1>8 DEF Escaped, Meant, Backslash, NewLine, Tab
  <2> QED
    BY <1>3, <1>7, <1>8, <2>1 DEF base
<1>9. CASE c = NewLine
  <2>1. Escaped(c) = <<Backslash, "n">> /\ Meant("n") = NewLine
    BY <1>9 DEF Escaped, Meant, Backslash, NewLine, Tab
  <2> QED
    BY <1>3, <1>7, <1>9, <2>1 DEF base
<1>10. CASE c = Tab
  <2>1. Escaped(c) = <<Backslash, "t">> /\ Meant("t") = Tab
    BY <1>10 DEF Escaped, Meant, Backslash, NewLine, Tab
  <2> QED
    BY <1>3, <1>7, <1>10, <2>1 DEF base
<1>11. CASE c \notin {Backslash, NewLine, Tab}
  <2>1. Escaped(c) = <<c>>
    BY <1>11 DEF Escaped
  <2>2. Steps(UnescapeStep, base, <<c>>) = UnescapeStep[base][c]
    BY <1>1, StepsOne
  <2> QED
    BY <1>0, <1>2, <1>6, <1>11, <2>1, <2>2 DEF base
<1> QED
  BY <1>8, <1>9, <1>10, <1>11

\* What is escaped is unescaped again.
LEMMA UnescapeEscape ==
  ASSUME NEW v \in Strings
  PROVE  UnescapeField(EscapeField(v)) = v
<1> DEFINE End(w) == Steps(UnescapeStep, NoText, EscapeField(w))
           G == {w \in Strings : End(w) = [text |-> w, escaped |-> FALSE]}
<1>1. <<>> \in G
  <2>1. <<>> \in Strings /\ End(<<>>) = NoText
    BY EscapeFieldSteps, UnescapeStepping, StepsEmpty DEF Strings
  <2> QED
    BY <2>1 DEF NoText
<1>2. ASSUME NEW w \in Seq(Alphabet), NEW c \in Alphabet, w \in G PROVE Append(w, c) \in G
  <2>1. EscapeField(w) \in Strings /\ EscapeField(Append(w, c)) = EscapeField(w) \o Escaped(c)
        /\ Escaped(c) \in Strings /\ w \in Strings /\ Append(w, c) \in Strings
    <3>1. w \in Strings /\ Append(w, c) \in Strings
      BY DEF Strings
    <3> QED
      BY <3>1, EscapeFieldSteps, EscapedTyped
  <2>2. End(Append(w, c)) = Steps(UnescapeStep, End(w), Escaped(c))
    BY <2>1, UnescapeStepping, StepsConcat DEF Strings
  <2>3. End(w) = [text |-> w, escaped |-> FALSE]
    BY <1>2
  <2>4. End(Append(w, c)) = [text |-> Append(w, c), escaped |-> FALSE]
    <3> HIDE DEF End
    <3> QED
      BY <2>1, <2>2, <2>3, UnescapeEscaped
  <2> HIDE DEF End
  <2> QED
    BY <2>1, <2>4
<1>3. Seq(Alphabet) \subseteq G
  <2> HIDE DEF G
  <2> QED
    BY <1>1, <1>2, SeqSetInduction
<1>4. End(v) = [text |-> v, escaped |-> FALSE]
  <2> HIDE DEF End
  <2> QED
    BY <1>3 DEF Strings
<1>5. FoldLeft(Unescape, NoText, EscapeField(v)) = [text |-> v, escaped |-> FALSE]
  BY <1>4, EscapeFieldSteps, UnescapeStepping, UnescapeIsSteps DEF Strings
<1> DEFINE end == FoldLeft(Unescape, NoText, EscapeField(v))
<1>6. UnescapeField(EscapeField(v)) = IF end.escaped THEN Append(end.text, Backslash) ELSE end.text
  BY DEF UnescapeField, NoText
<1> HIDE DEF end
<1>7. end = [text |-> v, escaped |-> FALSE]
  BY <1>5 DEF end
<1> QED
  BY <1>6, <1>7

-----------------------------------------------------------------------------
(* Tokens.                                                                 *)

TabFree(s) == \A i \in 1 .. Len(s) : s[i] # Tab

\* What holds no tab goes on with the last token.
LEMMA TokenGoesOn ==
  ASSUME NEW tokens \in Seq(Strings), NEW token \in Strings, NEW s \in Strings, TabFree(s)
  PROVE  Steps(TokenStep, Append(tokens, token), s) = Append(tokens, token \o s)
<1> DEFINE base == Append(tokens, token)
           G == {r \in Strings : TabFree(r) => Steps(TokenStep, base, r) = Append(tokens, token \o r)}
<1>1. base \in Tokenized
  BY LastToken DEF Tokenized
<1>2. Stepping(TokenStep, base, Tokenized, Alphabet)
  BY <1>1, TokenStepping DEF Stepping
<1>3. <<>> \in G
  <2>1. token \o <<>> = token /\ <<>> \in Strings
    BY DEF Strings
  <2>2. Steps(TokenStep, base, <<>>) = base
    BY <1>2, StepsEmpty
  <2> QED
    BY <2>1, <2>2
<1>4. ASSUME NEW r \in Seq(Alphabet), NEW c \in Alphabet, r \in G PROVE Append(r, c) \in G
  <2> DEFINE a == Append(r, c)
  <2>1. a \in Strings
    BY DEF Strings
  <2>2. ASSUME TabFree(a) PROVE Steps(TokenStep, base, a) = Append(tokens, token \o a)
    <3>1. TabFree(r) /\ c # Tab
      <4>1. Len(a) = Len(r) + 1 /\ a[Len(r) + 1] = c /\ Len(r) \in Nat /\ \A i \in 1 .. Len(r) : a[i] = r[i]
        BY AppendProperties
      <4> HIDE DEF a
      <4>2. Len(r) + 1 \in 1 .. Len(a) /\ \A i \in 1 .. Len(r) : i \in 1 .. Len(a)
        BY <4>1
      <4> QED
        BY <2>2, <4>1, <4>2 DEF TabFree
    <3>2. Steps(TokenStep, base, r) = Append(tokens, token \o r)
      BY <1>4, <3>1
    <3>3. Steps(TokenStep, base, a) = TokenStep[Steps(TokenStep, base, r)][c]
      <4> HIDE DEF base
      <4> QED
        BY <1>2, StepsAppend
    <3> DEFINE t == token \o r
    <3>4. t \in Strings /\ Append(t, c) = token \o a
      <4>1. token \in Seq(Alphabet)
        BY DEF Strings
      <4>2. token \o Append(r, c) = Append(token \o r, c)
        BY <4>1, ConcatAppend
      <4>3. t \in Seq(Alphabet)
        BY <4>1
      <4> QED
        BY <4>2, <4>3 DEF Strings
    <3> HIDE DEF t, a
    <3>5. Append(tokens, t) \in Tokenized /\ Front(Append(tokens, t)) = tokens /\ Last(Append(tokens, t)) = t
      BY <3>4, LastToken DEF Tokenized
    <3>6. TokenStep[Append(tokens, t)][c] = ReadCharacter(Append(tokens, t), c)
      BY <3>5 DEF TokenStep
    <3>7. ReadCharacter(Append(tokens, t), c) = Append(tokens, Append(t, c))
      BY <3>1, <3>5 DEF ReadCharacter
    <3> QED
      BY <3>2, <3>3, <3>4, <3>6, <3>7 DEF t
  <2> QED
    BY <2>1, <2>2
<1>5. Seq(Alphabet) \subseteq G
  <2> HIDE DEF G
  <2> QED
    BY <1>3, <1>4, SeqSetInduction
<1> QED
  BY <1>5 DEF Strings

\* A tab begins the next token.
LEMMA NextToken ==
  ASSUME NEW tokens \in Tokenized, NEW s \in Strings, TabFree(s)
  PROVE  Steps(TokenStep, Steps(TokenStep, tokens, <<Tab>>), s) = Append(tokens, s)
<1>1. Stepping(TokenStep, tokens, Tokenized, Alphabet) /\ tokens \in Seq(Strings)
  BY TokenStepping DEF Stepping, Tokenized
<1>2. Tab \in Alphabet /\ <<>> \in Strings
  BY DEF Alphabet, Strings
<1>3. Steps(TokenStep, tokens, <<Tab>>) = TokenStep[tokens][Tab]
  BY <1>1, <1>2, StepsOne
<1>4. TokenStep[tokens][Tab] = Append(tokens, <<>>)
  BY <1>2 DEF TokenStep, ReadCharacter
<1>5. Steps(TokenStep, Append(tokens, <<>>), s) = Append(tokens, <<>> \o s)
  BY <1>1, <1>2, TokenGoesOn
<1>6. <<>> \o s = s
  BY DEF Strings
<1> QED
  BY <1>3, <1>4, <1>5, <1>6

\* A field is a token.
LEMMA FieldProperties ==
  ASSUME NEW key \in Keys \cup ReservedKeys, NEW v \in Strings
  PROVE  /\ Field(key, v) \in Strings /\ TabFree(Field(key, v)) /\ Field(key, v) \in FieldTokens
         /\ Len(Field(key, v)) = 2 + Len(EscapeField(v)) /\ Len(EscapeField(v)) \in Nat
         /\ Field(key, v)[1] = key /\ Field(key, v)[2] = "="
         /\ \A i \in 1 .. Len(EscapeField(v)) : Field(key, v)[2 + i] = EscapeField(v)[i]
<1> DEFINE h == <<key, "=">>
           e == EscapeField(v)
<1>1. key \in Alphabet /\ "=" \in Alphabet
  BY DEF Alphabet
<1>2. h \in Seq(Alphabet) /\ Len(h) = 2 /\ h[1] = key /\ h[2] = "="
  BY <1>1
<1>3. e \in Seq(Alphabet) /\ \A i \in 1 .. Len(e) : e[i] # Tab
  BY EscapeFieldText DEF Strings
<1>4. key # Tab /\ "=" # Tab
  BY WordAssumption DEF ReservedKeys, Tab
<1>5. Field(key, v) = h \o e
  BY DEF Field
<1> HIDE DEF h, e
<1> DEFINE f == h \o e
<1>6. f \in Seq(Alphabet) /\ Len(f) = 2 + Len(e) /\ Len(e) \in Nat /\ f[1] = key /\ f[2] = "="
      /\ \A i \in 1 .. Len(e) : f[2 + i] = e[i]
  <2>0. h \in Seq(Alphabet) /\ e \in Seq(Alphabet)
    BY <1>2, <1>3
  <2>1. f \in Seq(Alphabet) /\ Len(f) = Len(h) + Len(e)
    BY <2>0
  <2>2. Len(e) \in Nat
    BY <2>0
  <2>3. \A i \in 1 .. Len(h) : f[i] = h[i]
    BY <2>0
  <2>4. \A i \in 1 .. Len(e) : f[Len(h) + i] = e[i]
    BY <2>0
  <2> HIDE DEF f
  <2> QED
    BY <1>2, <2>1, <2>2, <2>3, <2>4
<1> HIDE DEF f
<1>7. TabFree(f)
  <2> SUFFICES ASSUME NEW i \in 1 .. Len(f) PROVE f[i] # Tab
    BY DEF TabFree
  <2>1. CASE i = 1 \/ i = 2
    BY <1>4, <1>6, <2>1
  <2>2. CASE i > 2
    <3>1. i - 2 \in 1 .. Len(e) /\ 2 + (i - 2) = i
      BY <1>6, <2>2
    <3> QED
      BY <1>3, <1>6, <3>1
  <2> QED
    BY <1>6, <2>1, <2>2
<1>8. f \in FieldTokens
  BY <1>6 DEF FieldTokens, Strings
<1> QED
  BY <1>5, <1>6, <1>7, <1>8 DEF e, f, Strings

-----------------------------------------------------------------------------
(* Fields.                                                                 *)

\* A character is taken off the end, if it is there.
LEMMA WithoutEnd ==
  ASSUME NEW S, NEW s \in Seq(S), NEW c
  PROVE  /\ Without(s, c) \in Seq(S)
         /\ Without(s, c) = s \/ (s # <<>> /\ Last(s) = c /\ Without(s, c) = Front(s))
         /\ s = <<>> \/ Last(s) # c => Without(s, c) = s
         /\ s # <<>> /\ Last(s) = c => Without(s, c) = Front(s)
<1>1. s # <<>> => Front(s) \in Seq(S)
  BY LastOf
<1> QED
  BY <1>1 DEF Without

\* The end of a line is taken off the value of a field.
LEMMA StrippedToken ==
  ASSUME NEW t \in FieldTokens, NEW c \in {NewLine, CarriageReturn}
  PROVE  Without(t, c) \in FieldTokens /\ Without(t, c)[1] = t[1]
<1>1. t \in Seq(Alphabet) /\ Len(t) \in Nat /\ Len(t) >= 2 /\ t[1] \in Keys \cup ReservedKeys /\ t[2] = "="
      /\ t # <<>>
  <2>1. t \in Seq(Alphabet) /\ Len(t) >= 2 /\ t[1] \in Keys \cup ReservedKeys /\ t[2] = "="
    BY DEF FieldTokens, Strings
  <2>2. Len(<<>>) = 0
    OBVIOUS
  <2>3. Len(t) \in Nat
    BY <2>1
  <2> QED
    BY <2>1, <2>2, <2>3
<1>2. Last(t) = t[Len(t)]
  BY DEF Last
<1>3. CASE Last(t) = c
  <2>1. Len(t) # 2
    BY <1>1, <1>2, <1>3 DEF NewLine, CarriageReturn
  <2> DEFINE k == Len(t) - 1
             f == SubSeq(t, 1, k)
  <2>2. k \in Nat /\ k >= 2 /\ k <= Len(t)
    <3>1. \A n \in Nat : n >= 2 /\ n # 2 => n - 1 \in Nat /\ n - 1 >= 2 /\ n - 1 <= n
      OBVIOUS
    <3>2. Len(t) \in Nat /\ Len(t) >= 2
      BY <1>1
    <3> QED
      BY <2>1, <3>1, <3>2
  <2>3. Without(t, c) = f
    BY <1>1, <1>3 DEF Without, Front
  <2> HIDE DEF k
  <2>4. f \in Seq(Alphabet) /\ Len(f) = k /\ \A i \in 1 .. k : f[i] = t[i]
    BY <1>1, <2>2
  <2> HIDE DEF f
  <2>5. f[1] = t[1] /\ f[2] = t[2]
    BY <2>2, <2>4
  <2> QED
    BY <1>1, <2>2, <2>3, <2>4, <2>5 DEF FieldTokens, Strings
<1>4. CASE Last(t) # c
  BY <1>4 DEF Without
<1> QED
  BY <1>3, <1>4

\* A key is one symbol, and the separator is the next one.
LEMMA TokenKey ==
  ASSUME NEW text \in FieldTokens
  PROVE  LET separator == {i \in DOMAIN text : text[i] = "="}
             first == CHOOSE i \in separator : \A j \in separator : i <= j
         IN  separator # {} /\ first = 2
<1> DEFINE separator == {i \in DOMAIN text : text[i] = "="}
           first == CHOOSE i \in separator : \A j \in separator : i <= j
<1>1. text \in Seq(Alphabet) /\ Len(text) >= 2 /\ text[1] \in Keys \cup ReservedKeys /\ text[2] = "="
  BY DEF FieldTokens, Strings
<1>2. DOMAIN text = 1 .. Len(text) /\ Len(text) \in Nat
  BY <1>1
<1>3. 2 \in separator
  BY <1>1, <1>2
<1>4. text[1] # "="
  BY <1>1, WordAssumption DEF ReservedKeys
<1>5. \A i \in separator : i \in Nat /\ 2 <= i
  <2>1. \A i \in separator : i \in 1 .. Len(text) /\ i # 1
    BY <1>2, <1>4
  <2> HIDE DEF separator
  <2> QED
    BY <1>2, <2>1
<1> HIDE DEF separator
<1>6. first \in separator /\ \A j \in separator : first <= j
  BY <1>3, <1>5
<1>7. first = 2
  <2> HIDE DEF first
  <2> QED
    BY <1>3, <1>5, <1>6
<1> QED
  BY <1>3, <1>7 DEF separator

\* A text is read.
LEMMA UnescapeFieldTyped ==
  ASSUME NEW v \in Strings
  PROVE  UnescapeField(v) \in Strings
<1> DEFINE end == FoldLeft(Unescape, NoText, v)
<1>1. end \in Unescaping
  BY UnescapeStepping, UnescapeIsSteps, StepsType DEF Strings
<1>2. UnescapeField(v) = IF end.escaped THEN Append(end.text, Backslash) ELSE end.text
  BY DEF UnescapeField, NoText
<1> HIDE DEF end
<1>3. end.text \in Seq(Alphabet) /\ Backslash \in Alphabet
  BY <1>1 DEF Unescaping, Strings, Alphabet
<1> QED
  BY <1>2, <1>3 DEF Strings

\* What is read of a token: its key, and its value.
LEMMA ReadTokenTakes ==
  ASSUME NEW m, NEW token \in FieldTokens
  PROVE  LET text == Without(Without(token, NewLine), CarriageReturn)
             value == UnescapeField(SubSeq(text, 3, Len(text)))
         IN  /\ text[1] \in Keys \cup ReservedKeys /\ value \in Strings
             /\ ReadToken(m, token) = IF m.type = Rejected THEN m ELSE TakeField(m, text[1], value)
<1> DEFINE text == Without(Without(token, NewLine), CarriageReturn)
           value == UnescapeField(SubSeq(text, 3, Len(text)))
           separator == {i \in DOMAIN text : text[i] = "="}
           first == CHOOSE i \in separator : \A j \in separator : i <= j
<1>1. text \in FieldTokens
  BY StrippedToken
<1>2. ReadToken(m, token)
        = IF m.type = Rejected \/ separator = {} THEN m
          ELSE TakeField(m, text[first - 1], UnescapeField(SubSeq(text, first + 1, Len(text))))
  BY DEF ReadToken
<1> HIDE DEF text
<1>3. separator # {} /\ first = 2
  BY <1>1, TokenKey
<1> HIDE DEF separator, first
<1>4. first - 1 = 1 /\ first + 1 = 3
  BY <1>3
<1>5. text[1] \in Keys \cup ReservedKeys /\ text \in Strings /\ Len(text) >= 2
  BY <1>1 DEF FieldTokens
<1>6. SubSeq(text, 3, Len(text)) \in Strings
  BY <1>5 DEF Strings
<1>7. value \in Strings
  BY <1>6, UnescapeFieldTyped
<1> QED
  BY <1>2, <1>3, <1>4, <1>5, <1>7 DEF text

\* A field is taken into a message.
LEMMA TakeFieldTyped ==
  ASSUME NEW m \in Understood, NEW key \in Keys \cup ReservedKeys, NEW value \in Strings
  PROVE  TakeField(m, key, value) \in Understood
<1> USE DEF Understood
<1>1. CASE key = "event"
  BY <1>1 DEF TakeField
<1>2. CASE key \in {"packets", "dropped"}
  <2>1. [m EXCEPT !.type = Rejected] \in Understood
    OBVIOUS
  <2>2. \A n \in Numbers : [m EXCEPT ![key] = n] \in Understood
    BY <1>2
  <2> QED
    BY <1>2, <2>1, <2>2 DEF TakeField
<1>3. CASE key = "capture_path"
  BY <1>3 DEF TakeField
<1>4. CASE key = "message"
  BY <1>4 DEF TakeField
<1>5. CASE key \in Keys
  <2> DEFINE f == [k \in DOMAIN m.fields \cup {key} |-> IF k = key THEN value ELSE m.fields[k]]
  <2>1. PICK some \in SUBSET Keys : m.fields \in [some -> Strings]
    OBVIOUS
  <2>2. some \cup {key} \in SUBSET Keys /\ f \in [some \cup {key} -> Strings]
    BY <1>5, <2>1
  <2>3. TakeField(m, key, value) = [m EXCEPT !.fields = f]
    BY <1>5, WordAssumption DEF TakeField
  <2> HIDE DEF f
  <2>4. f \in UNION {[set -> Strings] : set \in SUBSET Keys}
    BY <2>2
  <2> QED
    BY <2>3, <2>4
<1> QED
  BY <1>1, <1>2, <1>3, <1>4, <1>5 DEF ReservedKeys

\* The steps of ParseMessage have their type.
LEMMA FieldStepping == Stepping(FieldStep, Unread, Understood, FieldTokens)
<1>1. Unread \in Understood
  <2> DEFINE f == [key \in {} |-> <<>>]
  <2>1. f \in [{} -> Strings] /\ {} \in SUBSET Keys
    OBVIOUS
  <2>2. f \in UNION {[set -> Strings] : set \in SUBSET Keys}
    BY <2>1
  <2>3. Unread = [type |-> NoType, packets |-> "0", dropped |-> "0", capturePath |-> <<>>, message |-> <<>>,
                  fields |-> f]
    BY DEF Unread, Message
  <2>4. <<>> \in Strings
    BY DEF Strings
  <2> HIDE DEF f
  <2> QED
    BY <2>2, <2>3, <2>4 DEF Understood
<1>2. ASSUME NEW m \in Understood, NEW t \in FieldTokens PROVE ReadToken(m, t) \in Understood
  BY ReadTokenTakes, TakeFieldTyped
<1> QED
  BY <1>1, <1>2 DEF Stepping, FieldStep

\* A field is read as it was written, but for a carriage return at its end.
LEMMA ReadField ==
  ASSUME NEW m, m.type # Rejected, NEW key \in Keys \cup ReservedKeys, NEW v \in Strings
  PROVE  /\ Without(v, CarriageReturn) \in Strings
         /\ Last(Field(key, v)) # NewLine
         /\ ReadToken(m, Field(key, v)) = TakeField(m, key, Without(v, CarriageReturn))
<1> DEFINE f == Field(key, v)
           w == Without(v, CarriageReturn)
           e == EscapeField(v)
<1>1. w \in Strings
  BY WithoutEnd DEF Strings
<1>2. f \in Seq(Alphabet) /\ Len(f) = 2 + Len(e) /\ Len(e) \in Nat /\ f[2] = "=" /\ f[1] = key
      /\ (\A i \in 1 .. Len(e) : f[2 + i] = e[i]) /\ f \in FieldTokens
  BY FieldProperties DEF Strings
<1>3. \A i \in 1 .. Len(e) : e[i] # NewLine
  BY EscapeFieldText
<1>4. f # <<>> /\ Last(f) = f[Len(f)]
  <2>1. Len(<<>>) = 0
    OBVIOUS
  <2> HIDE DEF f, e
  <2> QED
    BY <1>2, <2>1 DEF Last
<1>5. f[Len(f)] = IF Len(e) = 0 THEN "=" ELSE e[Len(e)]
  <2> HIDE DEF f, e
  <2>1. Len(e) # 0 => Len(e) \in 1 .. Len(e)
    BY <1>2
  <2> QED
    BY <1>2, <2>1
<1>6. Last(f) # NewLine
  <2>1. "=" # NewLine
    BY DEF NewLine
  <2> HIDE DEF f, e
  <2>2. Len(e) # 0 => Len(e) \in 1 .. Len(e)
    BY <1>2
  <2> QED
    BY <1>3, <1>4, <1>5, <2>1, <2>2
<1>7. Without(f, NewLine) = f
  <2> HIDE DEF f
  <2> QED
    BY <1>2, <1>6, WithoutEnd
<1>8. Without(f, CarriageReturn) = Field(key, w)
  <2>1. CASE v = <<>>
    <3>1. w = <<>>
      BY <2>1 DEF Without
    <3>2. e = <<>> /\ Len(<<>>) = 0
      BY <2>1, EscapeFieldSteps
    <3>3. Last(f) # CarriageReturn
      <4> HIDE DEF f, e
      <4> QED
        BY <1>4, <1>5, <3>2 DEF CarriageReturn
    <3>4. Without(f, CarriageReturn) = f
      <4> HIDE DEF f
      <4> QED
        BY <1>2, <3>3, WithoutEnd
    <3> QED
      BY <2>1, <3>1, <3>4
  <2>2. CASE v # <<>>
    <3> DEFINE u == Front(v)
               c == Last(v)
    <3>1. u \in Strings /\ c \in Alphabet /\ v = Append(u, c)
      BY <2>2, LastOf DEF Strings
    <3> HIDE DEF u, c
    <3>2. Len(e) >= 1 /\ (e[Len(e)] = CarriageReturn <=> c = CarriageReturn)
      BY <3>1, EscapeFieldEnd
    <3>3. Last(f) = e[Len(e)]
      <4> HIDE DEF f, e
      <4> QED
        BY <1>2, <1>4, <1>5, <3>2
    <3>4. CASE c = CarriageReturn
      <4>1. w = u
        BY <2>2, <3>4, WithoutEnd DEF u, c, Strings
      <4>2. Escaped(c) = <<c>> /\ EscapeField(u) \in Seq(Alphabet)
        <5>1. c \notin {Backslash, NewLine, Tab}
          BY <3>4 DEF Backslash, NewLine, Tab, CarriageReturn
        <5>2. EscapeField(u) \in Strings
          BY <3>1, EscapeFieldSteps
        <5> QED
          BY <5>1, <5>2 DEF Escaped, Strings
      <4>3. e = Append(EscapeField(u), c)
        <5>1. e = EscapeField(u) \o <<c>>
          BY <3>1, <4>2, EscapeFieldSteps
        <5> QED
          BY <3>1, <4>2, <5>1, AppendIsConcat
      <4> DEFINE h == <<key, "=">>
      <4>4. h \in Seq(Alphabet) /\ f = h \o e /\ Field(key, u) = h \o EscapeField(u)
        BY DEF Field, Alphabet
      <4> HIDE DEF h, f, e
      <4>5. f = Append(Field(key, u), c)
        BY <3>1, <4>2, <4>3, <4>4, ConcatAppend
      <4>6. Field(key, u) \in Seq(Alphabet)
        BY <3>1, FieldProperties DEF Strings
      <4>7. Front(f) = Field(key, u) /\ Last(f) = c
        BY <3>1, <4>5, <4>6, LastToken
      <4> QED
        BY <1>2, <1>4, <3>4, <4>1, <4>7, WithoutEnd
    <3>5. CASE c # CarriageReturn
      <4>1. w = v
        BY <3>5, WithoutEnd DEF c, Strings
      <4>2. Last(f) # CarriageReturn
        BY <3>2, <3>3, <3>5
      <4>3. Without(f, CarriageReturn) = f
        <5> HIDE DEF f
        <5> QED
          BY <1>2, <4>2, WithoutEnd
      <4> QED
        BY <4>1, <4>3
    <3> QED
      BY <3>4, <3>5
  <2> QED
    BY <2>1, <2>2
<1> DEFINE g == Field(key, w)
           d == EscapeField(w)
<1>9. g \in Seq(Alphabet) /\ Len(g) = 2 + Len(d) /\ Len(d) \in Nat /\ g[1] = key
      /\ \A i \in 1 .. Len(d) : g[2 + i] = d[i]
  BY <1>1, FieldProperties DEF Strings
<1>10. d \in Seq(Alphabet) /\ UnescapeField(d) = w
  BY <1>1, UnescapeEscape, EscapeFieldSteps DEF Strings
<1> HIDE DEF g, d
<1>11. SubSeq(g, 3, Len(g)) = d
  <2>1. /\ SubSeq(g, 3, Len(g)) \in Seq(Alphabet) /\ Len(SubSeq(g, 3, Len(g))) = Len(d)
        /\ \A i \in 1 .. Len(d) : SubSeq(g, 3, Len(g))[i] = g[2 + i]
    <3>1. \A i \in 1 .. Len(d) : 3 + i - 1 = 2 + i /\ i \in 1 .. (Len(g) - 3 + 1)
      BY <1>9
    <3> QED
      BY <1>9, <3>1
  <2> QED
    BY <1>9, <1>10, <2>1, SeqEqual
<1>12. ReadToken(m, f) = TakeField(m, g[1], UnescapeField(SubSeq(g, 3, Len(g))))
  <2>1. Without(Without(f, NewLine), CarriageReturn) = g
    BY <1>7, <1>8 DEF g
  <2> HIDE DEF f
  <2> QED
    BY <1>2, <2>1, ReadTokenTakes
<1> QED
  BY <1>1, <1>6, <1>9, <1>10, <1>11, <1>12

\* The end of the line is no part of the last token.
LEMMA ReadLastToken ==
  ASSUME NEW m, NEW t \in FieldTokens, Last(t) # NewLine
  PROVE  /\ Append(t, NewLine) \in FieldTokens
         /\ ReadToken(m, Append(t, NewLine)) = ReadToken(m, t)
<1>1. t \in Seq(Alphabet) /\ Len(t) >= 2 /\ NewLine \in Alphabet /\ t[1] \in Keys \cup ReservedKeys
      /\ t[2] = "="
  BY DEF FieldTokens, Strings, Alphabet
<1> DEFINE a == Append(t, NewLine)
<1>2. a \in Seq(Alphabet) /\ a # <<>> /\ Front(a) = t /\ Last(a) = NewLine
  BY <1>1, LastToken
<1>3. a \in FieldTokens
  <2>1. Len(a) = Len(t) + 1 /\ Len(t) \in Nat /\ \A i \in 1 .. Len(t) : a[i] = t[i]
    BY <1>1, AppendProperties
  <2> HIDE DEF a
  <2>2. a[1] = t[1] /\ a[2] = t[2]
    BY <1>1, <2>1
  <2> QED
    BY <1>1, <1>2, <2>1, <2>2 DEF FieldTokens, Strings
<1>4. Without(a, NewLine) = t
  <2> HIDE DEF a
  <2> QED
    BY <1>2, WithoutEnd
<1>5. Without(t, NewLine) = t
  BY <1>1, WithoutEnd
<1> QED
  BY <1>3, <1>4, <1>5, ReadTokenTakes

-----------------------------------------------------------------------------
(* Lines.                                                                  *)

TokensOf(line) == Steps(TokenStep, <<<<>>>>, line)

\* A part of a line that ends with a field, and what is understood of it.
Reads(line, m) ==
  /\ line \in Strings /\ m \in Understood
  /\ TokensOf(line) \in Seq(FieldTokens) /\ TokensOf(line) # <<>>
  /\ Last(Last(TokensOf(line))) # NewLine
  /\ Steps(FieldStep, Unread, TokensOf(line)) = m

\* Fields are texts.
LEMMA FieldTokensTyped ==
  /\ FieldTokens \subseteq Strings
  /\ \A s \in Seq(FieldTokens) : s \in Seq(Strings) /\ (s # <<>> => s \in Tokenized)
<1>1. FieldTokens \subseteq Strings
  BY DEF FieldTokens
<1>2. \A s \in Seq(FieldTokens) : s \in Seq(Strings)
  BY <1>1, SeqMonotonic
<1> QED
  BY <1>1, <1>2 DEF Tokenized

\* A field more of what was read so far.
LEMMA ReadsToken ==
  ASSUME NEW tokens \in Seq(FieldTokens), NEW m, Steps(FieldStep, Unread, tokens) = m, m.type # Rejected,
         m \in Understood, NEW key \in Keys \cup ReservedKeys, NEW v \in Strings
  PROVE  LET read == Append(tokens, Field(key, v))
             next == TakeField(m, key, Without(v, CarriageReturn))
         IN  /\ read \in Seq(FieldTokens) /\ read # <<>> /\ Last(Last(read)) # NewLine
             /\ next \in Understood /\ Steps(FieldStep, Unread, read) = next
<1> DEFINE f == Field(key, v)
           w == Without(v, CarriageReturn)
           read == Append(tokens, f)
<1>1. f \in FieldTokens
  BY FieldProperties
<1>2. w \in Strings /\ Last(f) # NewLine /\ ReadToken(m, f) = TakeField(m, key, w)
  BY ReadField
<1> HIDE DEF f, w
<1>3. read \in Seq(FieldTokens) /\ read # <<>> /\ Last(read) = f
  BY <1>1, LastToken
<1>4. Steps(FieldStep, Unread, read) = FieldStep[m][f]
  BY <1>1, FieldStepping, StepsAppend
<1>5. FieldStep[m][f] = ReadToken(m, f)
  BY <1>1 DEF FieldStep
<1>6. TakeField(m, key, w) \in Understood
  BY <1>2, TakeFieldTyped
<1> HIDE DEF read
<1> QED
  BY <1>2, <1>3, <1>4, <1>5, <1>6 DEF read, f, w

\* A line may be one field.
LEMMA ReadsFirst ==
  ASSUME NEW key \in Keys \cup ReservedKeys, NEW v \in Strings
  PROVE  Reads(Field(key, v), TakeField(Unread, key, Without(v, CarriageReturn)))
<1> DEFINE f == Field(key, v)
           none == <<>>
<1>1. f \in Strings /\ TabFree(f)
  BY FieldProperties
<1> HIDE DEF f
<1>2. none \in Seq(Strings) /\ none \in Strings /\ Append(none, none) = <<none>> /\ none \o f = f
  <2>1. none \in Seq(Strings) /\ none \in Strings
    BY DEF Strings
  <2>2. Append(none, none) = <<none>>
    <3>1. none \in Strings
      BY <2>1
    <3> HIDE DEF none
    <3>2. Append(<<>>, none) = <<none>>
      BY <3>1, ShortSequences
    <3> QED
      BY <3>2 DEF none
  <2> QED
    BY <1>1, <2>1, <2>2 DEF Strings
<1> HIDE DEF none
<1>3. Steps(TokenStep, Append(none, none), f) = Append(none, none \o f)
  BY <1>1, <1>2, TokenGoesOn
<1>4. TokensOf(f) = Append(<<>>, f)
  BY <1>2, <1>3 DEF TokensOf, none
<1>5. <<>> \in Seq(FieldTokens) /\ Steps(FieldStep, Unread, <<>>) = Unread /\ Unread \in Understood
  <2>1. Steps(FieldStep, Unread, <<>>) = Unread
    BY FieldStepping, StepsEmpty
  <2>2. Unread \in Understood
    BY FieldStepping DEF Stepping
  <2> QED
    BY <2>1, <2>2
<1>6. Unread.type # Rejected
  BY DEF Unread, Message, NoType, Rejected
<1>7. Append(<<>>, f) \in Seq(FieldTokens) /\ Append(<<>>, f) # <<>> /\ Last(Last(Append(<<>>, f))) # NewLine
      /\ TakeField(Unread, key, Without(v, CarriageReturn)) \in Understood
      /\ Steps(FieldStep, Unread, Append(<<>>, f)) = TakeField(Unread, key, Without(v, CarriageReturn))
  <2> DEFINE tokens == <<>>
  <2>1. tokens \in Seq(FieldTokens) /\ Steps(FieldStep, Unread, tokens) = Unread
    BY <1>5
  <2> HIDE DEF tokens
  <2>2. Append(tokens, f) \in Seq(FieldTokens) /\ Append(tokens, f) # <<>> /\ Last(Last(Append(tokens, f))) # NewLine
        /\ TakeField(Unread, key, Without(v, CarriageReturn)) \in Understood
        /\ Steps(FieldStep, Unread, Append(tokens, f)) = TakeField(Unread, key, Without(v, CarriageReturn))
    BY <1>5, <1>6, <2>1, ReadsToken DEF f
  <2> QED
    BY <2>2 DEF tokens
<1> QED
  BY <1>1, <1>4, <1>7 DEF Reads, f

\* After a tab comes another field.
LEMMA ReadsNext ==
  ASSUME NEW line, NEW m, Reads(line, m), m.type # Rejected, NEW key \in Keys \cup ReservedKeys, NEW v \in Strings
  PROVE  /\ Reads(line \o (<<Tab>> \o Field(key, v)), TakeField(m, key, Without(v, CarriageReturn)))
         /\ Reads(line \o <<Tab>> \o Field(key, v), TakeField(m, key, Without(v, CarriageReturn)))
<1> DEFINE f == Field(key, v)
           t == <<Tab>>
           tokens == TokensOf(line)
           all == (line \o t) \o f
<1>1. f \in Strings /\ TabFree(f)
  BY FieldProperties
<1>2. line \in Strings /\ tokens \in Seq(FieldTokens) /\ tokens \in Tokenized /\ m \in Understood
      /\ Steps(FieldStep, Unread, tokens) = m
  BY FieldTokensTyped DEF Reads
<1>3. t \in Strings
  BY DEF Strings, Alphabet
<1> HIDE DEF f, t, tokens
<1>4. line \o t \in Strings /\ all \in Strings /\ line \o (t \o f) = all
  <2>1. line \in Seq(Alphabet) /\ t \in Seq(Alphabet) /\ f \in Seq(Alphabet)
    BY <1>1, <1>2, <1>3 DEF Strings
  <2>2. line \o (t \o f) = all
    BY <2>1, ConcatThree
  <2> QED
    BY <2>1, <2>2 DEF Strings
<1>5. TokensOf(all) = Append(tokens, f)
  <2>1. line \in Seq(Alphabet) /\ t \in Seq(Alphabet) /\ f \in Seq(Alphabet) /\ line \o t \in Seq(Alphabet)
    BY <1>1, <1>2, <1>3, <1>4 DEF Strings
  <2>2. TokensOf(all) = Steps(TokenStep, TokensOf(line \o t), f)
    <3> DEFINE q == line \o t
    <3>1. q \in Seq(Alphabet) /\ f \in Seq(Alphabet)
      BY <2>1
    <3> HIDE DEF q
    <3>2. Steps(TokenStep, <<<<>>>>, q \o f) = Steps(TokenStep, Steps(TokenStep, <<<<>>>>, q), f)
      BY <3>1, TokenStepping, StepsConcat
    <3> QED
      BY <3>2 DEF TokensOf, q
  <2>3. TokensOf(line \o t) = Steps(TokenStep, tokens, t)
    BY <2>1, TokenStepping, StepsConcat DEF TokensOf, tokens
  <2>4. Steps(TokenStep, Steps(TokenStep, tokens, t), f) = Append(tokens, f)
    BY <1>1, <1>2, NextToken DEF t
  <2> QED
    BY <2>2, <2>3, <2>4
<1>6. /\ Append(tokens, f) \in Seq(FieldTokens) /\ Append(tokens, f) # <<>>
      /\ Last(Last(Append(tokens, f))) # NewLine
      /\ TakeField(m, key, Without(v, CarriageReturn)) \in Understood
      /\ Steps(FieldStep, Unread, Append(tokens, f)) = TakeField(m, key, Without(v, CarriageReturn))
  BY <1>2, ReadsToken DEF f
<1> HIDE DEF all
<1>7. Reads(all, TakeField(m, key, Without(v, CarriageReturn)))
  BY <1>4, <1>5, <1>6 DEF Reads
<1> QED
  BY <1>4, <1>7 DEF all, f, t

\* The line is complete with its end.
LEMMA ReadsLine ==
  ASSUME NEW line, NEW m, Reads(line, m)
  PROVE  ParseMessage(line \o <<NewLine>>) = m
<1> DEFINE n == <<NewLine>>
           tokens == TokensOf(line)
           a == Front(tokens)
           t == Last(tokens)
<1>1. line \in Seq(Alphabet) /\ tokens \in Seq(FieldTokens) /\ tokens # <<>> /\ tokens \in Tokenized
      /\ m \in Understood /\ Steps(FieldStep, Unread, tokens) = m /\ Last(t) # NewLine
  BY FieldTokensTyped DEF Reads, Strings
<1>2. n \in Seq(Alphabet) /\ NewLine \in Alphabet /\ NewLine # Tab
  BY DEF Alphabet, NewLine, Tab
<1> HIDE DEF n, tokens
<1>3. a \in Seq(FieldTokens) /\ t \in FieldTokens /\ tokens = Append(a, t)
  BY <1>1, LastOf
<1> HIDE DEF a, t
<1>4. Steps(TokenStep, <<<<>>>>, line \o n) = Append(a, Append(t, NewLine))
  <2>1. Steps(TokenStep, <<<<>>>>, line \o n) = Steps(TokenStep, tokens, n)
    BY <1>1, <1>2, TokenStepping, StepsConcat DEF TokensOf, tokens
  <2>2. Stepping(TokenStep, tokens, Tokenized, Alphabet)
    BY <1>1, TokenStepping DEF Stepping
  <2>3. Steps(TokenStep, tokens, n) = TokenStep[tokens][NewLine]
    BY <1>2, <2>2, StepsOne DEF n
  <2>4. TokenStep[tokens][NewLine] = ReadCharacter(tokens, NewLine)
    BY <1>1, <1>2 DEF TokenStep
  <2>5. ReadCharacter(tokens, NewLine) = Append(a, Append(t, NewLine))
    BY <1>2 DEF ReadCharacter, a, t
  <2> QED
    BY <2>1, <2>3, <2>4, <2>5
<1>5. Tokens(line \o n) = Append(a, Append(t, NewLine))
  <2>1. line \o n \in Seq(Alphabet)
    BY <1>1, <1>2
  <2>2. FoldLeft(ReadCharacter, <<<<>>>>, line \o n) = Steps(TokenStep, <<<<>>>>, line \o n)
    BY <2>1, TokenStepping, TokensIsSteps
  <2> QED
    BY <1>4, <2>2 DEF Tokens
<1> DEFINE l == Append(t, NewLine)
           r == Steps(FieldStep, Unread, a)
<1>6. l \in FieldTokens /\ ReadToken(r, l) = ReadToken(r, t)
  BY <1>1, <1>3, ReadLastToken
<1>7. r \in Understood
  BY <1>3, FieldStepping, StepsType
<1> HIDE DEF l
<1>8. Append(a, l) \in Seq(FieldTokens) /\ Steps(FieldStep, Unread, Append(a, l)) = FieldStep[r][l]
      /\ Steps(FieldStep, Unread, Append(a, t)) = FieldStep[r][t]
  <2>1. Append(a, l) \in Seq(FieldTokens)
    BY <1>3, <1>6
  <2> QED
    BY <1>3, <1>6, <2>1, FieldStepping, StepsAppend
<1> HIDE DEF r
<1>9. FieldStep[r][l] = ReadToken(r, l) /\ FieldStep[r][t] = ReadToken(r, t)
  BY <1>3, <1>6, <1>7 DEF FieldStep
<1>10. FoldLeft(ReadToken, Unread, Append(a, l)) = Steps(FieldStep, Unread, Append(a, l))
  BY <1>8, FieldStepping, ParseIsSteps
<1>11. ParseMessage(line \o n) = FoldLeft(ReadToken, Unread, Append(a, l))
  BY <1>5 DEF ParseMessage, l
<1> QED
  BY <1>1, <1>3, <1>6, <1>8, <1>9, <1>10, <1>11 DEF n

-----------------------------------------------------------------------------
(* Messages.                                                               *)

\* The keys of a message, in some order, are all there.
LEMMA KeysInOrder ==
  ASSUME NEW D, IsFiniteSet(D)
  PROVE  SetToSeq(D) \in Seq(D) /\ {SetToSeq(D)[i] : i \in DOMAIN SetToSeq(D)} = D
<1> DEFINE n == Cardinality(D)
           N == 1 .. n
           s == SetToSeq(D)
<1>1. n \in Nat /\ ExistsBijection(N, D)
  BY FS_CardinalityType
<1>2. \E f \in [N -> D] : IsInjective(f)
  BY <1>1 DEF ExistsBijection, Bijection, Injection
<1>3. s \in [N -> D] /\ IsInjective(s)
  BY <1>2 DEF SetToSeq
<1>4. IsFiniteSet(N) /\ Cardinality(N) = n
  <2>1. 1 \in Int /\ n \in Int
    BY <1>1
  <2>2. Cardinality(N) = IF 1 > n THEN 0 ELSE n - 1 + 1
    BY <2>1, FS_Interval
  <2> HIDE DEF n
  <2> QED
    BY <1>1, <2>1, <2>2, FS_Interval
<1> HIDE DEF s, n
<1>5. s \in Surjection(N, D)
  <2>1. s \in Injection(N, D)
    BY <1>3 DEF Injection
  <2>2. Cardinality(N) = Cardinality(D) <=> s \in Surjection(N, D)
    <3> HIDE DEF N
    <3> QED
      BY <2>1, FS_Injection
  <2> QED
    BY <1>4, <2>2 DEF n
<1>6. DOMAIN s = N
  BY <1>3
<1>7. {s[i] : i \in DOMAIN s} = D
  BY <1>3, <1>5, <1>6 DEF Surjection
<1>8. s \in Seq(D)
  BY <1>1, <1>3
<1> QED
  BY <1>7, <1>8 DEF s

\* A value for each of some keys.
WithFields(m, f, some) == [m EXCEPT !.fields = [key \in some |-> Without(f[key], CarriageReturn)]]

NoFields == [key \in {} |-> <<>>]

\* Fields as they are written, in the order of `keys`.
FieldText(f, keys) == FlattenSeq([i \in DOMAIN keys |-> <<Tab>> \o Field(keys[i], f[keys[i]])])

Elements(keys) == {keys[i] : i \in DOMAIN keys}

\* The fields are read one by one.
LEMMA ReadsFields ==
  ASSUME NEW line, NEW m, Reads(line, m), m.type # Rejected, m.fields = NoFields,
         NEW D, D \subseteq Keys, NEW f \in [D -> Strings], NEW keys \in Seq(D)
  PROVE  Reads(line \o FieldText(f, keys), WithFields(m, f, Elements(keys)))
<1> DEFINE parts(s) == [i \in DOMAIN s |-> <<Tab>> \o Field(s[i], f[s[i]])]
           some(s) == {s[i] : i \in DOMAIN s}
           Good(s) == Reads(line \o FlattenSeq(parts(s)), WithFields(m, f, some(s)))
           G == {s \in Seq(D) : Good(s)}
<1>0. m \in Understood /\ line \in Seq(Alphabet)
  BY DEF Reads, Strings
<1>1. ASSUME NEW s \in Seq(D)
      PROVE  parts(s) \in Seq(Strings) /\ Len(parts(s)) = Len(s) /\ some(s) \subseteq D
  <2>1. DOMAIN s = 1 .. Len(s) /\ Len(s) \in Nat /\ \A i \in 1 .. Len(s) : s[i] \in D
    OBVIOUS
  <2>2. ASSUME NEW i \in 1 .. Len(s) PROVE <<Tab>> \o Field(s[i], f[s[i]]) \in Strings
    <3>1. Field(s[i], f[s[i]]) \in Seq(Alphabet)
      <4>1. s[i] \in Keys \cup ReservedKeys /\ f[s[i]] \in Strings
        BY <2>1
      <4> QED
        BY <4>1, FieldProperties DEF Strings
    <3>2. <<Tab>> \in Seq(Alphabet)
      BY DEF Alphabet
    <3> QED
      BY <3>1, <3>2 DEF Strings
  <2>3. parts(s) \in [1 .. Len(s) -> Strings]
    BY <2>1, <2>2
  <2> QED
    BY <2>1, <2>3
<1>2. <<>> \in G
  <2>1. parts(<<>>) = <<>>
    <3>1. parts(<<>>) \in Seq(Strings) /\ Len(parts(<<>>)) = 0
      <4>1. <<>> \in Seq(D) /\ Len(<<>>) = 0
        OBVIOUS
      <4> HIDE DEF parts
      <4> QED
        BY <1>1, <4>1
    <3> HIDE DEF parts
    <3> QED
      BY <3>1, EmptySeq
  <2>2. FlattenSeq(<<>>) = <<>> /\ line \o <<>> = line
    BY <1>0, FlattenProperties
  <2>3. some(<<>>) = {}
    OBVIOUS
  <2>4. WithFields(m, f, {}) = m
    <3>1. [key \in {} |-> Without(f[key], CarriageReturn)] = [key \in {} |-> <<>>]
      OBVIOUS
    <3> QED
      BY <1>0, <3>1 DEF WithFields, Understood, NoFields
  <2>5. Good(<<>>)
    <3>1. Reads(line, m)
      OBVIOUS
    <3> HIDE DEF parts, some
    <3> QED
      BY <2>1, <2>2, <2>3, <2>4, <3>1
  <2> HIDE DEF Good
  <2> QED
    BY <2>5
<1>3. ASSUME NEW s \in Seq(D), NEW k \in D, s \in G PROVE Append(s, k) \in G
  <2> DEFINE a == Append(s, k)
             x == <<Tab>> \o Field(k, f[k])
             w == Without(f[k], CarriageReturn)
             old == WithFields(m, f, some(s))
  <2>1. a \in Seq(D) /\ Len(a) = Len(s) + 1 /\ Len(s) \in Nat /\ a[Len(s) + 1] = k
        /\ (\A i \in 1 .. Len(s) : a[i] = s[i]) /\ DOMAIN a = 1 .. Len(a) /\ DOMAIN s = 1 .. Len(s)
    OBVIOUS
  <2>2. x \in Seq(Alphabet) /\ f[k] \in Strings /\ k \in Keys /\ k \in Keys \cup ReservedKeys
    <3>1. f[k] \in Strings /\ k \in Keys /\ k \in Keys \cup ReservedKeys
      OBVIOUS
    <3>2. Field(k, f[k]) \in Seq(Alphabet) /\ <<Tab>> \in Seq(Alphabet)
      BY <3>1, FieldProperties DEF Strings, Alphabet
    <3> QED
      BY <3>1, <3>2
  <2>3. parts(a) = Append(parts(s), x)
    <3>1. parts(s) \in Seq(Strings) /\ Len(parts(s)) = Len(s) /\ parts(a) \in Seq(Strings) /\ Len(parts(a)) = Len(a)
      <4> HIDE DEF parts, a, some
      <4> QED
        BY <1>1, <2>1
    <3>2. \A i \in 1 .. Len(s) : parts(s)[i] = <<Tab>> \o Field(s[i], f[s[i]])
      BY <2>1
    <3>3. \A i \in 1 .. Len(a) : parts(a)[i] = <<Tab>> \o Field(a[i], f[a[i]])
      <4> HIDE DEF a
      <4> QED
        BY <2>1
    <3> DEFINE p == parts(s)
               q == parts(a)
    <3>4. p \in Seq(Strings) /\ x \in Strings /\ Len(p) = Len(s) /\ q \in Seq(Strings) /\ Len(q) = Len(a)
      BY <2>2, <3>1 DEF Strings
    <3>5. (\A i \in 1 .. Len(s) : p[i] = q[i]) /\ q[Len(s) + 1] = x
      <4> HIDE DEF a, parts
      <4>1. Len(s) + 1 \in 1 .. Len(a) /\ \A i \in 1 .. Len(s) : i \in 1 .. Len(a)
        BY <2>1
      <4> QED
        BY <2>1, <3>2, <3>3, <4>1
    <3> HIDE DEF p, q, x, a, parts
    <3>6. Append(p, x) \in Seq(Strings) /\ Len(Append(p, x)) = Len(a)
          /\ Append(p, x)[Len(s) + 1] = x /\ \A i \in 1 .. Len(s) : Append(p, x)[i] = p[i]
      BY <2>1, <3>4, AppendProperties
    <3>7. ASSUME NEW i \in 1 .. Len(a) PROVE Append(p, x)[i] = q[i]
      <4>1. i = Len(s) + 1 \/ i \in 1 .. Len(s)
        BY <2>1
      <4> QED
        BY <3>5, <3>6, <4>1
    <3>8. Append(p, x) = q
      BY <3>4, <3>6, <3>7, SeqEqual
    <3> QED
      BY <3>8 DEF p, q
  <2>4. FlattenSeq(parts(a)) = FlattenSeq(parts(s)) \o x /\ FlattenSeq(parts(s)) \in Seq(Alphabet)
    <3>1. parts(s) \in Seq(Seq(Alphabet))
      <4> HIDE DEF parts
      <4> QED
        BY <1>1 DEF Strings
    <3> HIDE DEF parts, x
    <3> QED
      BY <2>2, <2>3, <3>1, FlattenProperties
  <2>5. line \o (FlattenSeq(parts(s)) \o x) = (line \o FlattenSeq(parts(s))) \o x
    <3> DEFINE y == FlattenSeq(parts(s))
    <3>1. y \in Seq(Alphabet)
      BY <2>4
    <3> HIDE DEF y, x
    <3>2. line \o (y \o x) = (line \o y) \o x
      BY <1>0, <2>2, <3>1, ConcatThree
    <3> QED
      BY <3>2 DEF y
  <2>6. old.type # Rejected
    BY <1>0 DEF WithFields, Understood
  <2>7. Reads((line \o FlattenSeq(parts(s))) \o x, TakeField(old, k, w))
    <3>1. Reads(line \o FlattenSeq(parts(s)), old)
      BY <1>3
    <3> HIDE DEF parts, old, some
    <3> QED
      BY <2>2, <2>6, <3>1, ReadsNext
  <2>8. TakeField(old, k, w) = WithFields(m, f, some(a))
    <3> DEFINE F(set) == [key \in set |-> Without(f[key], CarriageReturn)]
    <3>1. old.fields = F(some(s)) /\ old = [m EXCEPT !.fields = F(some(s))]
      BY <1>0 DEF WithFields, Understood
    <3>2. TakeField(old, k, w)
            = [old EXCEPT !.fields = [j \in DOMAIN old.fields \cup {k} |-> IF j = k THEN w ELSE old.fields[j]]]
      <4> HIDE DEF old, w
      <4> QED
        BY <2>2, WordAssumption DEF TakeField
    <3>3. some(a) = some(s) \cup {k}
      <4>1. \A i \in 1 .. Len(a) : i = Len(s) + 1 \/ i \in 1 .. Len(s)
        BY <2>1
      <4>2. Len(s) + 1 \in 1 .. Len(a) /\ \A i \in 1 .. Len(s) : i \in 1 .. Len(a)
        BY <2>1
      <4> HIDE DEF a
      <4> QED
        BY <2>1, <4>1, <4>2
    <3> HIDE DEF some, a, old
    <3>4. [j \in DOMAIN old.fields \cup {k} |-> IF j = k THEN w ELSE old.fields[j]] = F(some(a))
      BY <3>1, <3>3
    <3> HIDE DEF F, w
    <3> QED
      BY <1>0, <3>1, <3>2, <3>4 DEF WithFields, F, Understood
  <2>9. Good(a)
    <3> HIDE DEF parts, old, some, x, w, a
    <3> QED
      BY <2>4, <2>5, <2>7, <2>8
  <2> HIDE DEF Good
  <2> QED
    BY <2>1, <2>9
<1>4. Seq(D) \subseteq G
  <2> HIDE DEF G
  <2> QED
    BY <1>2, <1>3, SeqSetInduction
<1>5. Good(keys)
  <2> HIDE DEF Good
  <2> QED
    BY <1>4
<1> QED
  BY <1>5 DEF FieldText, Elements

\* A type or a number, with which a message is not rejected.
LEMMA TakeWord ==
  ASSUME NEW m \in Understood, NEW type \in MessageTypes, NEW n \in Numbers
  PROVE  /\ Without(<<type>>, CarriageReturn) = <<type>> /\ <<type>> \in Strings
         /\ Without(<<n>>, CarriageReturn) = <<n>> /\ <<n>> \in Strings
         /\ TakeField(m, "event", <<type>>) = [m EXCEPT !.type = type]
         /\ TakeField(m, "packets", <<n>>) = [m EXCEPT !.packets = n]
         /\ TakeField(m, "dropped", <<n>>) = [m EXCEPT !.dropped = n]
<1>1. ASSUME NEW x \in MessageTypes \cup Numbers
      PROVE  /\ Without(<<x>>, CarriageReturn) = <<x>> /\ <<x>> \in Strings
             /\ Len(<<x>>) = 1 /\ <<x>>[1] = x
  <2>1. x # CarriageReturn /\ x \in Alphabet
    BY WordAssumption DEF Alphabet
  <2>2. <<x>> \in Seq(Alphabet) /\ Len(<<x>>) = 1 /\ <<x>>[1] = x
    BY <2>1
  <2>3. Last(<<x>>) = x
    BY <2>2 DEF Last
  <2> DEFINE s == <<x>>
  <2> HIDE DEF s
  <2>4. Without(s, CarriageReturn) = s
    BY <2>1, <2>2, <2>3, WithoutEnd DEF s
  <2> QED
    BY <2>2, <2>4 DEF s, Strings
<1> DEFINE s == <<type>>
           q == <<n>>
<1>2. Len(s) = 1 /\ s[1] = type /\ Len(q) = 1 /\ q[1] = n
  BY <1>1
<1>3. /\ Without(s, CarriageReturn) = s /\ s \in Strings
      /\ Without(q, CarriageReturn) = q /\ q \in Strings
  BY <1>1
<1> HIDE DEF s, q
<1>4. TakeField(m, "event", s) = [m EXCEPT !.type = type]
  BY <1>2 DEF TakeField
<1>5. TakeField(m, "packets", q) = [m EXCEPT !["packets"] = n]
  BY <1>2 DEF TakeField
<1>6. TakeField(m, "dropped", q) = [m EXCEPT !["dropped"] = n]
  BY <1>2 DEF TakeField
<1>7. [m EXCEPT !["packets"] = n] = [m EXCEPT !.packets = n] /\ [m EXCEPT !["dropped"] = n] = [m EXCEPT !.dropped = n]
  BY DEF Understood
<1> QED
  BY <1>3, <1>4, <1>5, <1>6, <1>7 DEF s, q

\* A text may be empty, and is then not there.
LEMMA ReadsText ==
  ASSUME NEW line, NEW m, Reads(line, m), m.type # Rejected, NEW v \in Strings
  PROVE  /\ m.capturePath = <<>> =>
              Reads(line \o (IF v = <<>> THEN <<>> ELSE <<Tab>> \o Field("capture_path", v)),
                    [m EXCEPT !.capturePath = Without(v, CarriageReturn)])
         /\ m.message = <<>> =>
              Reads(line \o (IF v = <<>> THEN <<>> ELSE <<Tab>> \o Field("message", v)),
                    [m EXCEPT !.message = Without(v, CarriageReturn)])
<1>1. line \o <<>> = line /\ m \in Understood
  BY DEF Reads, Strings
<1>2. CASE v = <<>>
  <2>1. Without(v, CarriageReturn) = <<>>
    BY <1>2 DEF Without
  <2>2. ASSUME m.capturePath = <<>> PROVE [m EXCEPT !.capturePath = <<>>] = m
    BY <1>1, <2>2 DEF Understood
  <2>3. ASSUME m.message = <<>> PROVE [m EXCEPT !.message = <<>>] = m
    BY <1>1, <2>3 DEF Understood
  <2> QED
    BY <1>1, <1>2, <2>1, <2>2, <2>3
<1>3. CASE v # <<>>
  <2>1. "capture_path" \in Keys \cup ReservedKeys /\ "message" \in Keys \cup ReservedKeys
    BY DEF ReservedKeys
  <2>2. /\ Reads(line \o (<<Tab>> \o Field("capture_path", v)),
                 TakeField(m, "capture_path", Without(v, CarriageReturn)))
        /\ Reads(line \o (<<Tab>> \o Field("message", v)), TakeField(m, "message", Without(v, CarriageReturn)))
    BY <2>1, ReadsNext
  <2>3. \A w : TakeField(m, "capture_path", w) = [m EXCEPT !.capturePath = w]
    BY DEF TakeField
  <2>4. \A w : TakeField(m, "message", w) = [m EXCEPT !.message = w]
    BY DEF TakeField
  <2> QED
    BY <1>3, <2>2, <2>3, <2>4
<1> QED
  BY <1>2, <1>3

\* The fields are written in some order, and all are read.
LEMMA ReadsAllFields ==
  ASSUME NEW line, NEW m, Reads(line, m), m.type # Rejected, m.fields = NoFields,
         NEW D, D \subseteq Keys, IsFiniteSet(D), NEW f \in [D -> Strings]
  PROVE  Reads(line \o SerializeFields(f), WithFields(m, f, D))
<1> DEFINE keys == SetToSeq(D)
<1>1. keys \in Seq(D) /\ Elements(keys) = D
  BY KeysInOrder DEF Elements
<1>2. SerializeFields(f) = FieldText(f, keys)
  BY DOMAIN f = D DEF SerializeFields, FieldText
<1> HIDE DEF keys
<1> QED
  BY <1>1, <1>2, ReadsFields

\* A message is understood as it was meant.
LEMMA ParseSerialized ==
  ASSUME NEW m \in Messages
  PROVE  ParseMessage(SerializeMessage(m)) = Kept(m)
<1> DEFINE D == DOMAIN m.fields
           f == m.fields
           path == m.capturePath
           text == m.message
           Line1 == Field("event", <<m.type>>)
           Line2 == Line1 \o <<Tab>> \o Field("packets", <<m.packets>>)
           Line3 == Line2 \o <<Tab>> \o Field("dropped", <<m.dropped>>)
           Line4 == Line3 \o (IF path = <<>> THEN <<>> ELSE <<Tab>> \o Field("capture_path", path))
           Line5 == Line4 \o (IF text = <<>> THEN <<>> ELSE <<Tab>> \o Field("message", text))
           Line6 == Line5 \o SerializeFields(f)
           Kept2(s) == Without(s, CarriageReturn)
           m1 == Message(m.type, "0", "0", <<>>, <<>>, NoFields)
           m2 == Message(m.type, m.packets, "0", <<>>, <<>>, NoFields)
           m3 == Message(m.type, m.packets, m.dropped, <<>>, <<>>, NoFields)
           m4 == Message(m.type, m.packets, m.dropped, Kept2(path), <<>>, NoFields)
           m5 == Message(m.type, m.packets, m.dropped, Kept2(path), Kept2(text), NoFields)
           m6 == Message(m.type, m.packets, m.dropped, Kept2(path), Kept2(text), [key \in D |-> Kept2(f[key])])
<1>1. /\ m = Message(m.type, m.packets, m.dropped, path, text, f)
      /\ m.type \in MessageTypes /\ m.packets \in Numbers /\ m.dropped \in Numbers
      /\ path \in Seq(Characters) /\ text \in Seq(Characters)
      /\ f \in [D -> Seq(Characters)] /\ D \subseteq Keys /\ IsFiniteSet(D)
  BY MessageAssumption
<1>2. path \in Strings /\ text \in Strings /\ f \in [D -> Strings]
  <2>1. Seq(Characters) \subseteq Strings
    <3>1. Characters \subseteq Alphabet
      BY DEF Alphabet
    <3> QED
      BY <3>1, SeqMonotonic DEF Strings
  <2> QED
    BY <1>1, <2>1
<1>3. m.type # Rejected
  BY <1>1, WordAssumption
<1>4. {"event", "packets", "dropped"} \subseteq Keys \cup ReservedKeys
  BY DEF ReservedKeys
<1>5. Reads(Line1, m1)
  <2>1. Unread \in Understood
    BY FieldStepping DEF Stepping
  <2>2. Without(<<m.type>>, CarriageReturn) = <<m.type>> /\ <<m.type>> \in Strings
        /\ TakeField(Unread, "event", <<m.type>>) = [Unread EXCEPT !.type = m.type]
    BY <1>1, <2>1, TakeWord
  <2>3. [Unread EXCEPT !.type = m.type] = m1
    BY DEF Unread, Message, NoFields
  <2>4. Reads(Line1, TakeField(Unread, "event", Without(<<m.type>>, CarriageReturn)))
    BY <1>4, <2>2, ReadsFirst
  <2> QED
    BY <2>2, <2>3, <2>4
<1> HIDE DEF Line1
<1>6. Reads(Line2, m2)
  <2>1. m1 \in Understood /\ m1.type # Rejected
    BY <1>3, <1>5 DEF Reads, Message
  <2>2. Without(<<m.packets>>, CarriageReturn) = <<m.packets>> /\ <<m.packets>> \in Strings
        /\ TakeField(m1, "packets", <<m.packets>>) = [m1 EXCEPT !.packets = m.packets]
    <3> HIDE DEF m1
    <3> QED
      BY <1>1, <2>1, TakeWord
  <2>3. [m1 EXCEPT !.packets = m.packets] = m2
    BY DEF Message
  <2>4. Reads(Line2, TakeField(m1, "packets", Without(<<m.packets>>, CarriageReturn)))
    <3> HIDE DEF m1
    <3> QED
      BY <1>4, <1>5, <2>1, <2>2, ReadsNext
  <2> QED
    BY <2>2, <2>3, <2>4
<1> HIDE DEF Line2
<1>7. Reads(Line3, m3)
  <2>1. m2 \in Understood /\ m2.type # Rejected
    BY <1>3, <1>6 DEF Reads, Message
  <2>2. Without(<<m.dropped>>, CarriageReturn) = <<m.dropped>> /\ <<m.dropped>> \in Strings
        /\ TakeField(m2, "dropped", <<m.dropped>>) = [m2 EXCEPT !.dropped = m.dropped]
    <3> HIDE DEF m2
    <3> QED
      BY <1>1, <2>1, TakeWord
  <2>3. [m2 EXCEPT !.dropped = m.dropped] = m3
    BY DEF Message
  <2>4. Reads(Line3, TakeField(m2, "dropped", Without(<<m.dropped>>, CarriageReturn)))
    <3> HIDE DEF m2
    <3> QED
      BY <1>4, <1>6, <2>1, <2>2, ReadsNext
  <2> QED
    BY <2>2, <2>3, <2>4
<1> HIDE DEF Line3
<1>8. Reads(Line4, m4)
  <2>1. m3.type # Rejected /\ m3.capturePath = <<>> /\ [m3 EXCEPT !.capturePath = Kept2(path)] = m4
    BY <1>3 DEF Message
  <2> HIDE DEF m3, m4
  <2> QED
    BY <1>2, <1>7, <2>1, ReadsText
<1> HIDE DEF Line4
<1>9. Reads(Line5, m5)
  <2>1. m4.type # Rejected /\ m4.message = <<>> /\ [m4 EXCEPT !.message = Kept2(text)] = m5
    BY <1>3 DEF Message
  <2> HIDE DEF m4, m5
  <2> QED
    BY <1>2, <1>8, <2>1, ReadsText
<1> HIDE DEF Line5
<1>10. Reads(Line6, m6)
  <2>1. m5.type # Rejected /\ m5.fields = NoFields
    BY <1>3 DEF Message
  <2>2. WithFields(m5, f, D) = m6
    BY DEF Message, WithFields
  <2>3. f \in [D -> Strings] /\ D \subseteq Keys /\ IsFiniteSet(D)
    BY <1>1, <1>2
  <2> HIDE DEF m5, m6, D, f
  <2>4. Reads(Line5 \o SerializeFields(f), WithFields(m5, f, D))
    BY <1>9, <2>1, <2>3, ReadsAllFields
  <2> QED
    BY <2>2, <2>4
<1>11. SerializeMessage(m) = Line6 \o <<NewLine>>
  BY DEF SerializeMessage, Line1, Line2, Line3, Line4, Line5
<1> HIDE DEF Line6
<1>12. ParseMessage(SerializeMessage(m)) = m6
  BY <1>10, <1>11, ReadsLine
<1>13. Kept(m) = m6
  <2>1. m = [type |-> m.type, packets |-> m.packets, dropped |-> m.dropped,
            capturePath |-> path, message |-> text, fields |-> f]
    BY <1>1 DEF Message
  <2>2. Kept(m) = [m EXCEPT !.capturePath = Kept2(path), !.message = Kept2(text),
                             !.fields = [key \in D |-> Kept2(f[key])]]
    BY DEF Kept
  <2> DEFINE g == [key \in D |-> Kept2(f[key])]
             p == Kept2(path)
             q == Kept2(text)
  <2>3. Kept(m) = [m EXCEPT !.capturePath = p, !.message = q, !.fields = g]
    BY <2>2
  <2>4. m6 = [type |-> m.type, packets |-> m.packets, dropped |-> m.dropped,
              capturePath |-> p, message |-> q, fields |-> g]
    BY DEF Message
  <2> HIDE DEF g, p, q, f, path, text, D, m6
  <2> QED
    BY <2>1, <2>3, <2>4
<1> QED
  BY <1>12, <1>13

\* Whatever its texts contain and however long they are, a message that is
\* written and read says the same (serializeCaptureChildMessage and
\* parseCaptureChildMessage), but for a carriage return at the end of a text.
THEOREM MessagesSurviveTheirLine == MessageSpec => []MessagesAsSent
<1> DEFINE Inv == /\ said \in {<<m>> : m \in Messages}
                  /\ MessagesAsSent
<1>1. SayMessage => Inv
  BY DEF SayMessage, MessagesAsSent
<1>2. Inv /\ [Exchange]_<<said, heard>> => Inv'
  <2> SUFFICES ASSUME Inv, [Exchange]_<<said, heard>> PROVE Inv'
    OBVIOUS
  <2>1. CASE Exchange
    <3>1. PICK m \in Messages : said = <<m>>
      OBVIOUS
    <3>2. said' = said /\ heard' = <<ParseMessage(SerializeMessage(m))>> /\ said[1] = m
      BY <2>1, <3>1 DEF Exchange
    <3>3. heard'[1] = Kept(m)
      BY <3>2, ParseSerialized
    <3> QED
      BY <3>2, <3>3 DEF MessagesAsSent
  <2>2. CASE UNCHANGED <<said, heard>>
    BY <2>2 DEF MessagesAsSent
  <2> QED
    BY <2>1, <2>2
<1>3. Inv => MessagesAsSent
  OBVIOUS
<1> QED
  BY <1>1, <1>2, <1>3, PTL DEF MessageSpec
=============================================================================
