---------------------------- MODULE BoundedQueue ----------------------------
(***************************************************************************)
(* BoundedQueue<T> (include/pnad/system/BoundedQueue.hpp): a monitor with   *)
(* one mutex and two condition variables, used by any number of threads.    *)
(*                                                                         *)
(* One step is what a thread does between taking the mutex and giving it    *)
(* up: a whole call, or the part of a call up to its going to sleep, or the *)
(* part from its waking up.  A sleeping thread is a member of the condition *)
(* variable it sleeps on; notify_one removes an arbitrary member, and a     *)
(* woken thread competes for the mutex with every thread that starts a new  *)
(* call, so what it was woken for may be gone when it runs.                 *)
(***************************************************************************)
EXTENDS QueueOps, FiniteSets

CONSTANTS
  Threads,   \* the threads that share the queue
  Values,    \* what is queued
  Capacity   \* capacity_

ASSUME ThreadsAssumption == IsFiniteSet(Threads)
ASSUME CapacityAssumption == Capacity \in Nat

VARIABLES
  queue,     \* queue_, closed_ and highWatermark_
  call,      \* the blocking call each thread is inside, "none" outside one
  argument,  \* the value a thread inside waitPush wants to push
  notFull,   \* threads asleep on notFull_
  notEmpty   \* threads asleep on notEmpty_

queueVars == <<queue, call, argument, notFull, notEmpty>>

QueueInit ==
  /\ queue = NewQueue
  /\ call = [t \in Threads |-> "none"]
  /\ argument \in [Threads -> Values]
  /\ notFull = {}
  /\ notEmpty = {}

-----------------------------------------------------------------------------
(* Condition variables.                                                    *)

NotifyNobody(asleep, stillAsleep) == stillAsleep = asleep

\* notify_one: wakes one sleeper, any one, if there is one.
NotifyOne(asleep, stillAsleep) ==
  \/ asleep = {} /\ stillAsleep = {}
  \/ \E t \in asleep : stillAsleep = asleep \ {t}

Return(t) == call' = [call EXCEPT ![t] = "none"]

-----------------------------------------------------------------------------
(* The calls.                                                              *)

\* A push without the test of closed_ that follows the wait.
EnqueueEvenIfClosed(v) ==
  /\ HasRoom(queue, Capacity)
  /\ queue' = Pushed(queue, v)
  /\ NotifyOne(notEmpty, notEmpty')
  /\ UNCHANGED notFull

\* A push that forgets notEmpty_.notify_one().
EnqueueSilently(v) ==
  /\ ~queue.closed
  /\ HasRoom(queue, Capacity)
  /\ queue' = Pushed(queue, v)
  /\ NotifyNobody(notEmpty, notEmpty')
  /\ UNCHANGED notFull

\* The part tryPush and waitPush share: append and wake one popper.
Enqueue(v) ==
  /\ ~queue.closed
  /\ HasRoom(queue, Capacity)
  /\ queue' = Pushed(queue, v)
  /\ NotifyOne(notEmpty, notEmpty')
  /\ UNCHANGED notFull

\* tryPush never sleeps.  Full and Closed leave the queue as it is.
TryPush(t) ==
  /\ call[t] = "none"
  /\ \E v \in Values : Enqueue(v)
  /\ UNCHANGED <<call, argument>>

\* waitPush from the point where the thread holds the mutex.
RunPush(t, v) ==
  \/ /\ Enqueue(v)
     /\ Return(t)
     /\ UNCHANGED argument
  \/ /\ queue.closed
     /\ Return(t)
     /\ UNCHANGED <<queue, argument, notFull, notEmpty>>
  \/ /\ ~queue.closed
     /\ ~HasRoom(queue, Capacity)
     /\ notFull' = notFull \union {t}
     /\ call' = [call EXCEPT ![t] = "waitPush"]
     /\ argument' = [argument EXCEPT ![t] = v]
     /\ UNCHANGED <<queue, notEmpty>>

WaitPush(t) == call[t] = "none" /\ \E v \in Values : RunPush(t, v)

\* A pop that wakes no pusher.
RunPopSilently(t) ==
  \/ /\ ~IsEmpty(queue)
     /\ queue' = Popped(queue)
     /\ NotifyNobody(notFull, notFull')
     /\ Return(t)
     /\ UNCHANGED <<argument, notEmpty>>
  \/ /\ IsEmpty(queue)
     /\ queue.closed
     /\ Return(t)
     /\ UNCHANGED <<queue, argument, notFull, notEmpty>>
  \/ /\ IsEmpty(queue)
     /\ ~queue.closed
     /\ notEmpty' = notEmpty \union {t}
     /\ call' = [call EXCEPT ![t] = "waitPop"]
     /\ UNCHANGED <<queue, argument, notFull>>

\* A waitPop whose wait predicate tests the queue but not closed_.
RunPopIgnoringClose(t) ==
  \/ /\ ~IsEmpty(queue)
     /\ queue' = Popped(queue)
     /\ NotifyOne(notFull, notFull')
     /\ Return(t)
     /\ UNCHANGED <<argument, notEmpty>>
  \/ /\ IsEmpty(queue)
     /\ notEmpty' = notEmpty \union {t}
     /\ call' = [call EXCEPT ![t] = "waitPop"]
     /\ UNCHANGED <<queue, argument, notFull>>

\* waitPop from the point where the thread holds the mutex: a closed queue
\* is drained before the call reports that it is closed.
RunPop(t) ==
  \/ /\ ~IsEmpty(queue)
     /\ queue' = Popped(queue)
     /\ NotifyOne(notFull, notFull')
     /\ Return(t)
     /\ UNCHANGED <<argument, notEmpty>>
  \/ /\ IsEmpty(queue)
     /\ queue.closed
     /\ Return(t)
     /\ UNCHANGED <<queue, argument, notFull, notEmpty>>
  \/ /\ IsEmpty(queue)
     /\ ~queue.closed
     /\ notEmpty' = notEmpty \union {t}
     /\ call' = [call EXCEPT ![t] = "waitPop"]
     /\ UNCHANGED <<queue, argument, notFull>>

WaitPop(t) == call[t] = "none" /\ RunPop(t)

\* A close that wakes the poppers only.
CloseForgettingPushers(t) ==
  /\ call[t] = "none"
  /\ queue' = Closed(queue)
  /\ notEmpty' = {}
  /\ UNCHANGED <<call, argument, notFull>>

\* close: notify_all on both condition variables.
Close(t) ==
  /\ call[t] = "none"
  /\ queue' = Closed(queue)
  /\ notFull' = {}
  /\ notEmpty' = {}
  /\ UNCHANGED <<call, argument>>

-----------------------------------------------------------------------------
(* Inside a call.                                                          *)

Awake(t) == t \notin notFull \union notEmpty

\* A woken thread has the mutex again and re-evaluates its wait predicate.
ResumePush(t) == call[t] = "waitPush" /\ Awake(t) /\ RunPush(t, argument[t])

ResumePop(t) == call[t] = "waitPop" /\ Awake(t) /\ RunPop(t)

\* std::condition_variable::wait may return without a notification.
SpuriousWakeup(t) ==
  /\ ~Awake(t)
  /\ notFull' = notFull \ {t}
  /\ notEmpty' = notEmpty \ {t}
  /\ UNCHANGED <<queue, call, argument>>

QueueNext ==
  \E t \in Threads :
    \/ TryPush(t)
    \/ WaitPush(t)
    \/ WaitPop(t)
    \/ Close(t)
    \/ ResumePush(t)
    \/ ResumePop(t)
    \/ SpuriousWakeup(t)

\* A woken thread gets the mutex sooner or later.  Nothing makes a caller
\* start a call, and nothing makes a wakeup happen that nobody caused.
QueueFairness == \A t \in Threads : WF_queueVars(ResumePush(t) \/ ResumePop(t))

QueueSpec == QueueInit /\ [][QueueNext]_queueVars

FairQueueSpec == QueueSpec /\ QueueFairness

-----------------------------------------------------------------------------
(* Properties.                                                             *)

Awaiting(name, asleep) == {t \in Threads : call[t] = name /\ t \notin asleep}

\* Types; the queue never holds more than Capacity items and highWatermark_ is
\* the most it ever held (QueueType); a thread sleeps on the condition variable
\* of its own call: waitPush on notFull_, waitPop on notEmpty_.
QueueTypeOK ==
  /\ queue \in QueueType(Values, Capacity)
  /\ call \in [Threads -> {"none", "waitPush", "waitPop"}]
  /\ argument \in [Threads -> Values]
  /\ notFull \subseteq {t \in Threads : call[t] = "waitPush"}
  /\ notEmpty \subseteq {t \in Threads : call[t] = "waitPop"}

\* notify_one suffices for poppers: whenever one of them sleeps, as many
\* others are awake on their way to the queue as it holds items, however
\* wakeups, barging callers and spurious wakeups interleave.
NoLostItem ==
  notEmpty # {} => Cardinality(Awaiting("waitPop", notEmpty)) >= Len(queue.items)

\* The same for pushers: whenever one of them sleeps, each free place has an
\* awake pusher on its way.
NoLostRoom ==
  notFull # {} =>
    Cardinality(Awaiting("waitPush", notFull)) + Len(queue.items) >= Capacity

\* Nobody sleeps on a closed queue: no thread falls asleep after close() nor
\* sleeps through it, so joining the pipeline's threads cannot hang on one.
NobodySleepsOnceClosed == queue.closed => notFull = {} /\ notEmpty = {}

\* With close(), every thread blocked in waitPush or waitPop returns.
CloseReleases ==
  \A t \in Threads : (queue.closed /\ call[t] # "none") ~> (call[t] = "none")

\* The monitor implements the closable queue: first in first out, bounded,
\* nothing accepted once closed, nothing lost.
Promise == INSTANCE ClosableQueue WITH items <- queue.items, closed <- queue.closed

ImplementsClosableQueue == Promise!Spec
=============================================================================
