---------------------------- MODULE CaptureChild ----------------------------
(***************************************************************************)
(* CaptureChildSupervisor (src/capture/CaptureChildSupervisor.cpp) and the   *)
(* child processes it starts, which run src/capture/AssetCaptureMain.cpp.    *)
(*                                                                         *)
(* A child is a number, in the order of their start; 0 stands for a pid or a  *)
(* descriptor of -1.  A process that has died is a zombie until it is waited  *)
(* for, or is reaped by the system where SIGCHLD is ignored.                  *)
(***************************************************************************)
EXTENDS Integers, Sequences

CONSTANTS
  Arguments,      \* what a child may be started with
  MaxStarts,      \* bound: successful starts
  MaxPolls,       \* how often stop() polls before it kills: 100
  PipeCapacity    \* lines that fit in a pipe nobody reads

ASSUME StartAssumption == MaxStarts \in Nat
ASSUME PollAssumption == MaxPolls \in Nat /\ PipeCapacity \in Nat

VARIABLES
  childPid, stdoutFd, stderrFd, exitCode,     \* of the supervisor
  doing, stage, polls,                        \* the call it is in, and where
  processes,        \* the children started so far
  open,             \* the read ends of pipes the parent has open
  unread,           \* lines in the pipe of the last child
  sigchldIgnored,   \* the parent's disposition of SIGCHLD
  forgotten,        \* history: children given up by an interrupted wait
  strayed           \* history: a signal went to a pid that was free

known == <<childPid, stdoutFd, stderrFd, exitCode>>
supervisor == <<known, doing, stage, polls>>
childHistory == <<forgotten, strayed>>
childVars == <<supervisor, processes, open, unread, sigchldIgnored, childHistory>>

NoCode == -1
Children == DOMAIN processes

\* main of asset-capture.
AssetCaptureMain(args, backend) ==
  LET Has(options) == \E i \in DOMAIN args : args[i] \in options
  IN  CASE args = <<>> \/ Has({"--help", "-h", "--version"}) -> 0
        [] OTHER -> IF Has({"--backend-status"}) THEN (IF backend THEN 0 ELSE 3)
                    ELSE IF Has({"--self-test-protocol"}) THEN 0
                    ELSE 2

\* The self test says three lines, all else one; a program that cannot be
\* executed none.
Lines(args, code) ==
  IF code = 127 THEN 0 ELSE IF code = 0 /\ args = <<"--self-test-protocol">> THEN 3 ELSE 1

ChildInit ==
  /\ childPid = 0 /\ stdoutFd = 0 /\ stderrFd = 0
  /\ exitCode = NoCode
  /\ doing = "none" /\ stage = "none"
  /\ polls = 0
  /\ processes = <<>>
  /\ open = {}
  /\ unread = 0
  /\ sigchldIgnored \in BOOLEAN
  /\ forgotten = {}
  /\ strayed = FALSE

-----------------------------------------------------------------------------
(* The system.                                                             *)

State(c) == processes[c].state

Dies(c, code) ==
  processes' = [processes EXCEPT ![c].state = IF sigchldIgnored THEN "reaped" ELSE "zombie",
                                 ![c].code = code]

\* Signals are delivered after a while; a process that ignores SIGTERM, or is stuck
\* in the kernel, goes on.  128 and the number of the signal, as waitForExit reports it.
ChildDiesOfSignal(c) ==
  /\ State(c) = "running"
  /\ \/ processes[c].signal = "TERM" /\ Dies(c, 143)
     \/ processes[c].signal = "KILL" /\ Dies(c, 137)
  /\ UNCHANGED <<supervisor, open, unread, sigchldIgnored, childHistory>>

\* A line of the child, for which there must be room; it says all before it ends.
ChildWrites(c) ==
  /\ State(c) = "running"
  /\ processes[c].left > 0
  /\ c = stdoutFd => unread < PipeCapacity
  /\ processes' = [processes EXCEPT ![c].left = @ - 1]
  /\ unread' = IF c = stdoutFd THEN unread + 1 ELSE unread
  /\ UNCHANGED <<supervisor, open, sigchldIgnored, childHistory>>

ChildExits(c) ==
  /\ State(c) = "running"
  /\ processes[c].left = 0
  /\ Dies(c, processes[c].result)
  /\ UNCHANGED <<supervisor, open, unread, sigchldIgnored, childHistory>>

-----------------------------------------------------------------------------
(* Waiting for the child.                                                  *)

StillRuns == State(childPid) = "running"

\* What waitForExit finds of a child that has ended is noted and its pid
\* dropped; ECHILD passes for an exit with 0.
NoteExit ==
  /\ exitCode' = IF State(childPid) = "reaped" THEN 0 ELSE processes[childPid].code
  /\ childPid' = 0
  /\ processes' = [processes EXCEPT ![childPid].state = "reaped"]

\* isRunning and exitCode; start() too when a pipe or the fork fails.
IsRunning ==
  /\ doing = "none"
  /\ childPid # 0 /\ ~StillRuns
  /\ NoteExit
  /\ UNCHANGED <<stdoutFd, stderrFd, doing, stage, polls, open, unread, sigchldIgnored, childHistory>>

\* readStdout and readStderr.
ReadAvailable ==
  /\ doing = "none"
  /\ unread' = 0
  /\ UNCHANGED <<supervisor, processes, open, sigchldIgnored, childHistory>>

-----------------------------------------------------------------------------
(* start.                                                                  *)

MayStartUnasked == Len(processes) < MaxStarts

\* isRunning() is asked first.
MayStart == Len(processes) < MaxStarts /\ (childPid # 0 => ~StillRuns)

NewChild(args, result) ==
  [state |-> "running", signal |-> "none", code |-> NoCode, result |-> result, left |-> Lines(args, result)]

\* The descriptors of an earlier child are overwritten.
StartChild(args, backend, executable) ==
  /\ doing = "none"
  /\ MayStart
  /\ LET c == Len(processes) + 1
         result == IF executable THEN AssetCaptureMain(args, backend) ELSE 127
         waitedFor == [i \in Children |-> IF i = childPid /\ ~StillRuns
                                          THEN [processes[i] EXCEPT !.state = "reaped"] ELSE processes[i]]
     IN  /\ processes' = Append(waitedFor, NewChild(args, result))
         /\ childPid' = c /\ stdoutFd' = c /\ stderrFd' = c
         /\ open' = open \cup {<<c, "stdout">>, <<c, "stderr">>}
  /\ exitCode' = NoCode
  /\ unread' = 0
  /\ UNCHANGED <<doing, stage, polls, sigchldIgnored, childHistory>>

-----------------------------------------------------------------------------
(* stop, and the destructor, which stops and closes the pipes.               *)

BeginStop(call) ==
  /\ doing = "none"
  /\ doing' = call
  /\ stage' = "look"
  /\ UNCHANGED <<known, polls, processes, open, unread, sigchldIgnored, childHistory>>

Return ==
  /\ stage' = "none"
  /\ IF doing = "stop" THEN doing' = "none" /\ UNCHANGED <<stdoutFd, stderrFd, open>>
     ELSE /\ doing' = "gone"
          /\ stdoutFd' = 0 /\ stderrFd' = 0
          /\ open' = open \ {<<stdoutFd, "stdout">>, <<stderrFd, "stderr">>}

\* The child has ended.
StopFindsEnd ==
  /\ stage \in {"look", "poll", "wait"}
  /\ childPid # 0 /\ ~StillRuns
  /\ NoteExit
  /\ Return
  /\ UNCHANGED <<polls, unread, sigchldIgnored, childHistory>>

StopFindsNone ==
  /\ stage = "look"
  /\ childPid = 0
  /\ Return
  /\ UNCHANGED <<childPid, exitCode, polls, processes, unread, sigchldIgnored, childHistory>>

\* It has not; between the look and the signal it may.
Goes(from, to) == stage = from /\ stage' = to /\ UNCHANGED <<known, doing, open, unread, sigchldIgnored>>

StopFindsChild ==
  /\ Goes("look", "terminate")
  /\ childPid # 0 /\ StillRuns
  /\ UNCHANGED <<polls, processes, childHistory>>

Signal(signal) ==
  /\ IF StillRuns THEN processes' = [processes EXCEPT ![childPid].signal = signal]
     ELSE UNCHANGED processes
  /\ strayed' = (strayed \/ State(childPid) = "reaped")
  /\ UNCHANGED forgotten

Terminate == Goes("terminate", "poll") /\ Signal("TERM") /\ polls' = 0

PollAgain ==
  /\ Goes("poll", "poll")
  /\ StillRuns
  /\ polls < MaxPolls
  /\ polls' = polls + 1
  /\ UNCHANGED <<processes, childHistory>>

\* All polls were in vain.
Kill == Goes("poll", "wait") /\ polls = MaxPolls /\ Signal("KILL") /\ UNCHANGED polls

\* A signal interrupts the wait, and the child is given up.
WaitInterrupted ==
  /\ stage = "wait"
  /\ StillRuns
  /\ childPid' = 0
  /\ forgotten' = forgotten \cup {childPid}
  /\ Return
  /\ UNCHANGED <<exitCode, polls, processes, unread, sigchldIgnored, strayed>>

ChildNext ==
  \/ \E c \in Children : ChildWrites(c) \/ ChildExits(c) \/ ChildDiesOfSignal(c)
  \/ \E args \in Arguments, backend, executable \in BOOLEAN : StartChild(args, backend, executable)
  \/ \E call \in {"stop", "destroy"} : BeginStop(call)
  \/ IsRunning \/ ReadAvailable
  \/ StopFindsEnd \/ StopFindsNone \/ StopFindsChild \/ Terminate \/ PollAgain \/ Kill
  \/ WaitInterrupted

ChildSpec == ChildInit /\ [][ChildNext]_childVars

-----------------------------------------------------------------------------
(* Properties.                                                             *)

\* However children end, ignore signals and are restarted: each is waited for,
\* known, or was given up by an interrupted wait, so at most one of the others
\* runs; the code reported is the last child's, and there is one once it is
\* no longer known, except that a lost code passes for 0; a signal reaches a
\* free pid only where the system reaps; and in the end the only descriptors
\* left open are those that a restart has overwritten.
ChildrenAccountedFor ==
  /\ \A c \in Children : State(c) = "reaped" \/ c = childPid \/ c \in forgotten
  /\ LET last == Len(processes)
     IN  /\ exitCode # NoCode => exitCode = processes[last].code \/ (sigchldIgnored /\ exitCode = 0)
         /\ last > 0 /\ childPid = 0 => exitCode # NoCode \/ last \in forgotten
         /\ doing = "gone" => \A end \in open : end[1] < last
  /\ strayed => sigchldIgnored
=============================================================================
