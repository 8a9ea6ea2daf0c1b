------------------------- MODULE EmailAlertNotifier -------------------------
(***************************************************************************)
(* EmailAlertNotifier (src/gui/EmailAlertNotifier.cpp): the aggregator of a *)
(* running capture hands new-asset events to it ("caller"); a thread of its *)
(* own ("worker") mails them one by one; the capture worker configures it   *)
(* before the run and destroys it after the run ("owner").                  *)
(*                                                                         *)
(* All state is guarded by mutex_, which is not recursive.  A critical      *)
(* section that leaves no thread blocked is one step; the one that does not *)
(* return, the report of a full queue, keeps the mutex between its steps.   *)
(***************************************************************************)
EXTENDS Naturals, Sequences, FiniteSets, Functions

CONSTANTS
  Macs,             \* MAC addresses of discovered assets
  kMaxQueuedEmails

ASSUME LimitAssumption == kMaxQueuedEmails \in Nat

VARIABLES
  mutex,         \* who holds mutex_ across steps, "nobody" otherwise
  owner,         \* what the owner is doing
  callbackSet,   \* failureCallback_ is set
  stopping,      \* stopping_
  alertedMacs,
  queue,
  at,            \* where the caller and the worker are
  inHand,        \* the MAC address the caller or the worker is busy with
  asleep,        \* the worker sleeps on cv_
  accepted,      \* history: MACs handleAssetEvent returned true for
  sent,          \* history: MACs of the mails handed to sender_->send, in order
  failed,        \* history: MACs whose mail could not be delivered
  reported       \* history: MACs whose failure reached the callback

history == <<accepted, sent, failed, reported>>
vars == <<mutex, owner, callbackSet, stopping, alertedMacs, queue, at, inHand, asleep, history>>

None == "none"

\* An event without a MAC address is ignored.
ASSUME MacAssumption == None \notin Macs

Init ==
  /\ mutex = "nobody"
  /\ owner = "setFailureCallback"
  /\ callbackSet = FALSE
  /\ stopping = FALSE
  /\ alertedMacs = {}
  /\ queue = <<>>
  /\ at = [caller |-> "idle", worker |-> "looping"]
  /\ inHand = [caller |-> None, worker |-> None]
  /\ asleep = FALSE
  /\ accepted = {}
  /\ sent = <<>>
  /\ failed = {}
  /\ reported = {}

MutexFree == mutex = "nobody"

-----------------------------------------------------------------------------
(* The owner: createEmailNotifier, the run, the destructor.                *)

SetFailureCallback ==
  /\ owner = "setFailureCallback"
  /\ MutexFree
  /\ callbackSet' = TRUE
  /\ owner' = "resetSession"
  /\ UNCHANGED <<mutex, stopping, alertedMacs, queue, at, inHand, asleep, history>>

ResetSession ==
  /\ owner = "resetSession"
  /\ MutexFree
  /\ alertedMacs' = {}
  /\ queue' = <<>>
  /\ owner' = "running"
  /\ UNCHANGED <<mutex, callbackSet, stopping, at, inHand, asleep, history>>

\* stop, called by the destructor when the pipeline has joined the aggregator.
Stop ==
  /\ owner = "running"
  /\ at.caller = "idle"
  /\ MutexFree
  /\ stopping' = TRUE
  /\ owner' = "notifying"
  /\ UNCHANGED <<mutex, callbackSet, alertedMacs, queue, at, inHand, asleep, history>>

\* The worker is joined without being notified.
NotifyStopSilently ==
  /\ owner = "notifying"
  /\ owner' = "joining"
  /\ UNCHANGED <<mutex, callbackSet, stopping, alertedMacs, queue, at, inHand, asleep, history>>

\* notify_all comes after the mutex is released.
NotifyStop ==
  /\ owner = "notifying"
  /\ asleep' = FALSE
  /\ owner' = "joining"
  /\ UNCHANGED <<mutex, callbackSet, stopping, alertedMacs, queue, at, inHand, history>>

JoinWorker ==
  /\ owner = "joining"
  /\ at.worker = "done"
  /\ owner' = "stopped"
  /\ UNCHANGED <<mutex, callbackSet, stopping, alertedMacs, queue, at, inHand, asleep, history>>

Owner == SetFailureCallback \/ ResetSession \/ Stop \/ NotifyStop \/ JoinWorker

-----------------------------------------------------------------------------
(* handleAssetEvent, for an event that carries a MAC address.              *)

\* The address is not looked up.
NewAlertUnchecked(mac) ==
  /\ owner = "running"
  /\ at.caller = "idle"
  /\ MutexFree
  /\ alertedMacs' = alertedMacs \union {mac}
  /\ UNCHANGED <<owner, callbackSet, stopping>>

\* An address alerted before returns at once.  The address counts as alerted
\* even when the queue turns out to be full.
NewAlert(mac) ==
  /\ owner = "running"
  /\ at.caller = "idle"
  /\ MutexFree
  /\ mac \notin alertedMacs
  /\ alertedMacs' = alertedMacs \union {mac}
  /\ UNCHANGED <<owner, callbackSet, stopping>>

\* The mail is queued without notify_one.
QueueAlertSilently(mac) ==
  /\ NewAlert(mac)
  /\ Len(queue) < kMaxQueuedEmails
  /\ queue' = Append(queue, mac)
  /\ accepted' = accepted \union {mac}
  /\ UNCHANGED <<mutex, asleep, at, inHand, sent, failed, reported>>

QueueAlert(mac) ==
  /\ NewAlert(mac)
  /\ Len(queue) < kMaxQueuedEmails
  /\ queue' = Append(queue, mac)
  /\ accepted' = accepted \union {mac}
  /\ asleep' = FALSE
  /\ UNCHANGED <<mutex, at, inHand, sent, failed, reported>>

\* reportFailure is called with mutex_ still held.
AlertQueueFull(mac) ==
  /\ NewAlert(mac)
  /\ Len(queue) >= kMaxQueuedEmails
  /\ mutex' = "caller"
  /\ at' = [at EXCEPT !.caller = "reporting"]
  /\ inHand' = [inHand EXCEPT !.caller = mac]
  /\ UNCHANGED <<queue, asleep, history>>

-----------------------------------------------------------------------------
(* workerLoop.                                                             *)

WorkerSleeps ==
  /\ at.worker = "looping"
  /\ ~asleep
  /\ MutexFree
  /\ ~stopping
  /\ queue = <<>>
  /\ asleep' = TRUE
  /\ UNCHANGED <<mutex, owner, callbackSet, stopping, alertedMacs, queue, at, inHand, history>>

SpuriousWakeup ==
  /\ asleep
  /\ asleep' = FALSE
  /\ UNCHANGED <<mutex, owner, callbackSet, stopping, alertedMacs, queue, at, inHand, history>>

\* The worker swaps the whole queue out and sends its first mail only.
TakeMessageClearingQueue ==
  /\ at.worker = "looping"
  /\ ~asleep
  /\ MutexFree
  /\ queue # <<>>
  /\ inHand' = [inHand EXCEPT !.worker = Head(queue)]
  /\ queue' = <<>>
  /\ at' = [at EXCEPT !.worker = "sending"]
  /\ UNCHANGED <<mutex, owner, callbackSet, stopping, alertedMacs, asleep, history>>

TakeMessage ==
  /\ at.worker = "looping"
  /\ ~asleep
  /\ MutexFree
  /\ queue # <<>>
  /\ inHand' = [inHand EXCEPT !.worker = Head(queue)]
  /\ queue' = Tail(queue)
  /\ at' = [at EXCEPT !.worker = "sending"]
  /\ UNCHANGED <<mutex, owner, callbackSet, stopping, alertedMacs, asleep, history>>

\* The worker returns as soon as it is asked to stop.
WorkerStopsAtOnce ==
  /\ at.worker = "looping"
  /\ ~asleep
  /\ MutexFree
  /\ stopping
  /\ at' = [at EXCEPT !.worker = "done"]
  /\ UNCHANGED <<mutex, owner, callbackSet, stopping, alertedMacs, queue, inHand, asleep, history>>

WorkerReturns ==
  /\ at.worker = "looping"
  /\ ~asleep
  /\ MutexFree
  /\ stopping
  /\ queue = <<>>
  /\ at' = [at EXCEPT !.worker = "done"]
  /\ UNCHANGED <<mutex, owner, callbackSet, stopping, alertedMacs, queue, inHand, asleep, history>>

\* sender_->send, outside the mutex.  It gives up on curl after 5 and after 30
\* seconds, so it always returns; any error of it is a failure.
Send ==
  /\ at.worker = "sending"
  /\ sent' = Append(sent, inHand.worker)
  /\ \/ /\ at' = [at EXCEPT !.worker = "looping"]
        /\ inHand' = [inHand EXCEPT !.worker = None]
        /\ UNCHANGED failed
     \/ /\ at' = [at EXCEPT !.worker = "reporting"]
        /\ failed' = failed \union {inHand.worker}
        /\ UNCHANGED inHand
  /\ UNCHANGED <<mutex, owner, callbackSet, stopping, alertedMacs, queue, asleep, accepted,
                 reported>>

-----------------------------------------------------------------------------
\* reportFailure: takes mutex_ to copy the callback, then runs it.  The caller
\* arrives here holding mutex_ itself; locking a std::mutex twice is undefined,
\* and the pthread mutex under it blocks.
ReportFailure(t) ==
  /\ at[t] = "reporting"
  /\ MutexFree
  /\ reported' = IF callbackSet THEN reported \union {inHand[t]} ELSE reported
  /\ at' = [at EXCEPT ![t] = IF t = "worker" THEN "looping" ELSE "idle"]
  /\ inHand' = [inHand EXCEPT ![t] = None]
  /\ UNCHANGED <<mutex, owner, callbackSet, stopping, alertedMacs, queue, asleep, accepted,
                 sent, failed>>

Worker == WorkerSleeps \/ TakeMessage \/ WorkerReturns \/ Send \/ ReportFailure("worker")

Next ==
  \/ Owner
  \/ \E mac \in Macs : QueueAlert(mac) \/ AlertQueueFull(mac)
  \/ WorkerSleeps \/ TakeMessage \/ WorkerReturns \/ Send \/ SpuriousWakeup
  \/ \E t \in {"caller", "worker"} : ReportFailure(t)

Spec == Init /\ [][Next]_vars

\* The worker and the destructor are run whenever they can; nothing is assumed
\* of the capture, which need not find assets nor end.
Fairness ==
  /\ WF_vars(Worker)
  /\ WF_vars(NotifyStop \/ JoinWorker)
  /\ WF_vars(ReportFailure("caller"))

FairSpec == Spec /\ Fairness

-----------------------------------------------------------------------------
(* Properties.                                                             *)

\* However events, sends and failures interleave, an asset is mailed at most
\* once in a session.
OneMailPerAsset == \A i, j \in DOMAIN sent : sent[i] = sent[j] => i = j

\* stop() drains: when it returns, every alert that was accepted has been
\* tried, and every failed one has been reported.
StopDrains ==
  owner = "stopped" =>
    /\ accepted = Range(sent)
    /\ failed \subseteq reported

\* No alerted address is forgotten: it is queued, in the hands of the caller or
\* the worker, or has been tried.
AlertsAccountedFor ==
  alertedMacs = Range(queue) \union Range(sent) \union (Range(inHand) \ {None})

\* An accepted alert is tried sooner or later, whether or not the session ends,
\* unless a full queue has stopped the notifier.
AcceptedIsTried ==
  \A mac \in Macs : (mac \in accepted) ~> (mac \in Range(sent) \/ at.caller = "reporting")

\* Once begun, stop() returns: the worker is not left asleep by the
\* notification that comes after the mutex is released.
StopReturns == (owner = "notifying") ~> (owner = "stopped")

\* "Email alert queue is full; dropping alert for ..." (line 234): the alert is
\* dropped with a report and handleAssetEvent returns.
FullQueueIsReported == (at.caller = "reporting") ~> (at.caller = "idle")
=============================================================================
