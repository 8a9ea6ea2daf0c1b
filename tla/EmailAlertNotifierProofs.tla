---------------------- MODULE EmailAlertNotifierProofs ----------------------
(***************************************************************************)
(* Theorems about EmailAlertNotifier, for any assets and any capacity of    *)
(* its queue, 0 included.                                                   *)
(***************************************************************************)
EXTENDS EmailAlertNotifier, TLAPS

-----------------------------------------------------------------------------
(* Sequences without repetition.                                           *)

Distinct(s) == \A i, j \in DOMAIN s : s[i] = s[j] => i = j

\* What a sequence holds once an element is appended to it.
LEMMA AppendedRange ==
  ASSUME NEW S, NEW s \in Seq(S), NEW x \in S
  PROVE  /\ Range(Append(s, x)) = Range(s) \union {x}
         /\ Distinct(s) /\ x \notin Range(s) => Distinct(Append(s, x))
<1>1. /\ Len(s) \in Nat /\ DOMAIN s = 1 .. Len(s)
      /\ DOMAIN Append(s, x) = 1 .. (Len(s) + 1)
      /\ \A i \in 1 .. Len(s) : Append(s, x)[i] = s[i]
      /\ Append(s, x)[Len(s) + 1] = x
  OBVIOUS
<1>2. \A i : i \in 1 .. (Len(s) + 1) <=> i \in 1 .. Len(s) \/ i = Len(s) + 1
  BY <1>1
<1> QED
  BY <1>1, <1>2 DEF Range, Distinct

\* What it holds once its head is taken.
LEMMA TailRange ==
  ASSUME NEW S, NEW s \in Seq(S), s # <<>>
  PROVE  /\ Head(s) \in S /\ Tail(s) \in Seq(S)
         /\ Range(s) = Range(Tail(s)) \union {Head(s)}
         /\ Distinct(s) => Head(s) \notin Range(Tail(s)) /\ Distinct(Tail(s))
<1>1. /\ Len(s) \in Nat /\ Len(s) > 0 /\ DOMAIN s = 1 .. Len(s)
      /\ Head(s) = s[1] /\ Head(s) \in S
      /\ Tail(s) \in Seq(S) /\ DOMAIN Tail(s) = 1 .. (Len(s) - 1)
      /\ \A i \in 1 .. (Len(s) - 1) : Tail(s)[i] = s[i + 1]
  OBVIOUS
<1>2. \A i \in 1 .. Len(s) : i = 1 \/ (i - 1 \in 1 .. (Len(s) - 1) /\ s[i] = Tail(s)[i - 1])
  BY <1>1
<1>3. \A i \in 1 .. (Len(s) - 1) : i + 1 \in 1 .. Len(s) /\ i + 1 # 1
  BY <1>1
<1>4. Range(s) = Range(Tail(s)) \union {Head(s)}
  <2>1. ASSUME NEW i \in DOMAIN s
        PROVE  s[i] \in Range(Tail(s)) \union {Head(s)}
    BY <1>1, <1>2, <2>1 DEF Range
  <2>2. ASSUME NEW i \in DOMAIN Tail(s)
        PROVE  Tail(s)[i] \in Range(s)
    BY <1>1, <1>3, <2>2 DEF Range
  <2>3. Head(s) \in Range(s)
    BY <1>1 DEF Range
  <2> QED
    BY <2>1, <2>2, <2>3 DEF Range
<1>5. ASSUME Distinct(s)
      PROVE  Head(s) \notin Range(Tail(s)) /\ Distinct(Tail(s))
  BY <1>1, <1>3, <1>5 DEF Range, Distinct
<1> QED
  BY <1>1, <1>4, <1>5

-----------------------------------------------------------------------------
(* The inductive invariant.                                                *)

TypeOK ==
  /\ mutex \in {"nobody", "caller"}
  /\ owner \in {"setFailureCallback", "resetSession", "running", "notifying", "joining", "stopped"}
  /\ callbackSet \in BOOLEAN /\ stopping \in BOOLEAN /\ asleep \in BOOLEAN
  /\ alertedMacs \subseteq Macs
  /\ queue \in Seq(Macs) /\ sent \in Seq(Macs)
  /\ at \in [caller : {"idle", "reporting"}, worker : {"looping", "sending", "reporting", "done"}]
  /\ inHand \in [caller : Macs \union {None}, worker : Macs \union {None}]
  /\ accepted \subseteq Macs /\ failed \subseteq Macs /\ reported \subseteq Macs

\* Before the session is reset nothing has happened, and the callback is set by then.
Beginning ==
  /\ owner # "setFailureCallback" => callbackSet
  /\ owner \in {"setFailureCallback", "resetSession"} =>
       /\ alertedMacs = {} /\ queue = <<>> /\ sent = <<>>
       /\ at.caller = "idle" /\ at.worker = "looping"

\* stop() has been called once the owner no longer runs, which it does not do
\* while the caller is busy; the worker returns only then, and leaves an empty
\* queue; it is joined before the owner has stopped.
Ending ==
  /\ at.caller = "reporting" => owner = "running"
  /\ stopping <=> owner \in {"notifying", "joining", "stopped"}
  /\ at.worker = "done" => stopping /\ queue = <<>>
  /\ owner = "stopped" => at.worker = "done"

\* Who holds an address, and the mutex while the caller reports.
Hands ==
  /\ at.caller = "reporting" <=> inHand.caller # None
  /\ at.caller = "reporting" <=> mutex = "caller"
  /\ at.worker \in {"sending", "reporting"} <=> inHand.worker # None

\* The address the worker is about to mail.
Sending == IF at.worker = "sending" THEN {inHand.worker} ELSE {}

\* An accepted address is in one place: the queue, the hands of the worker or
\* among those tried.
Places ==
  /\ Distinct(queue)
  /\ Distinct(sent)
  /\ Range(queue) \intersect Range(sent) = {}
  /\ Sending \intersect (Range(queue) \union Range(sent)) = {}
  /\ accepted = Range(queue) \union Range(sent) \union Sending
  /\ alertedMacs = accepted \union ({inHand.caller} \ {None})
  /\ at.worker = "reporting" => inHand.worker \in Range(sent)

\* A failed mail has been reported or is being reported.
Failures ==
  failed \subseteq reported \union (IF at.worker = "reporting" THEN {inHand.worker} ELSE {})

IInv == TypeOK /\ Beginning /\ Ending /\ Hands /\ Places /\ Failures

-----------------------------------------------------------------------------
(* Every step keeps it.                                                    *)

\* It holds initially.
LEMMA Initially == Init => IInv
<1> SUFFICES ASSUME Init PROVE IInv
  OBVIOUS
<1>1. \A S : <<>> \in Seq(S)
  OBVIOUS
<1>2. Range(<<>>) = {} /\ Distinct(<<>>)
  BY DEF Range, Distinct
<1>3. TypeOK
  BY <1>1 DEF Init, TypeOK
<1>4. Beginning /\ Ending /\ Hands /\ Failures
  BY DEF Init, Beginning, Ending, Hands, Failures
<1>5. Places
  BY <1>2 DEF Init, Places, Sending
<1> QED
  BY <1>3, <1>4, <1>5 DEF IInv

\* The owner moves no address; the reset finds nothing to forget.
LEMMA OwnerKeeps ==
  ASSUME IInv, Owner
  PROVE  IInv'
<1> USE DEF IInv
<1>1. CASE SetFailureCallback
  BY <1>1 DEF SetFailureCallback, history, TypeOK, Beginning, Ending, Hands, Places, Sending, Failures
<1>2. CASE ResetSession
  <2>1. alertedMacs' = alertedMacs /\ queue' = queue
    BY <1>2 DEF ResetSession, Beginning
  <2> QED
    BY <1>2, <2>1 DEF ResetSession, history, TypeOK, Beginning, Ending, Hands, Places, Sending, Failures
<1>3. CASE Stop
  BY <1>3 DEF Stop, history, TypeOK, Beginning, Ending, Hands, Places, Sending, Failures
<1>4. CASE NotifyStop
  BY <1>4 DEF NotifyStop, history, TypeOK, Beginning, Ending, Hands, Places, Sending, Failures
<1>5. CASE JoinWorker
  BY <1>5 DEF JoinWorker, history, TypeOK, Beginning, Ending, Hands, Places, Sending, Failures
<1> QED
  BY <1>1, <1>2, <1>3, <1>4, <1>5 DEF Owner

\* An address that was not alerted before is in no place, and enters the queue.
LEMMA QueueAlertKeeps ==
  ASSUME IInv, NEW mac \in Macs, QueueAlert(mac)
  PROVE  IInv'
<1> USE DEF IInv
<1>1. /\ mac \notin Range(queue) /\ mac \notin Range(sent) /\ mac \notin Sending
      /\ queue' = Append(queue, mac) /\ queue \in Seq(Macs)
      /\ accepted' = accepted \union {mac} /\ alertedMacs' = alertedMacs \union {mac}
      /\ sent' = sent /\ at' = at /\ inHand' = inHand
  BY DEF QueueAlert, NewAlert, Places, TypeOK
<1>2. Range(queue') = Range(queue) \union {mac} /\ (Distinct(queue) => Distinct(queue'))
  BY <1>1, AppendedRange
<1>3. Places'
  BY <1>1, <1>2 DEF Places, Sending
<1>4. TypeOK'
  <2>1. queue' \in Seq(Macs)
    BY <1>1
  <2> QED
    BY <1>1, <2>1 DEF QueueAlert, NewAlert, TypeOK
<1>5. Beginning' /\ Ending' /\ Hands' /\ Failures'
  BY DEF QueueAlert, NewAlert, Beginning, Ending, Hands, Failures
<1> QED
  BY <1>3, <1>4, <1>5

\* With the queue full it stays in the hands of the caller, with the mutex.
LEMMA AlertQueueFullKeeps ==
  ASSUME IInv, NEW mac \in Macs, AlertQueueFull(mac)
  PROVE  IInv'
<1> USE DEF IInv
<1>1. /\ at' = [at EXCEPT !.caller = "reporting"] /\ inHand' = [inHand EXCEPT !.caller = mac]
      /\ mutex' = "caller" /\ owner = "running" /\ owner' = owner
      /\ queue' = queue /\ sent' = sent /\ accepted' = accepted
      /\ failed' = failed /\ reported' = reported
      /\ callbackSet' = callbackSet /\ stopping' = stopping /\ asleep' = asleep
      /\ alertedMacs' = alertedMacs \union {mac}
      /\ at.caller = "idle"
  BY DEF AlertQueueFull, NewAlert, history
<1>2. /\ at'.caller = "reporting" /\ at'.worker = at.worker
      /\ inHand'.caller = mac /\ inHand'.worker = inHand.worker
  BY <1>1 DEF TypeOK
<1>3. TypeOK'
  BY <1>1 DEF TypeOK
<1>4. mac # None /\ inHand.caller = None
  BY <1>1, MacAssumption DEF Hands, TypeOK
<1>5. Hands'
  BY <1>1, <1>2, <1>4 DEF Hands
<1>6. Places'
  BY <1>1, <1>2, <1>4 DEF Places, Sending
<1>7. Beginning' /\ Ending' /\ Failures'
  BY <1>1, <1>2 DEF Beginning, Ending, Failures
<1> QED
  BY <1>3, <1>5, <1>6, <1>7

\* The head of the queue goes into the hands of the worker.
LEMMA TakeMessageKeeps ==
  ASSUME IInv, TakeMessage
  PROVE  IInv'
<1> USE DEF IInv
<1>1. /\ at' = [at EXCEPT !.worker = "sending"] /\ inHand' = [inHand EXCEPT !.worker = Head(queue)]
      /\ queue' = Tail(queue) /\ queue # <<>> /\ queue \in Seq(Macs) /\ at.worker = "looping"
      /\ mutex' = mutex /\ owner' = owner /\ callbackSet' = callbackSet /\ stopping' = stopping
      /\ alertedMacs' = alertedMacs /\ asleep' = asleep
      /\ accepted' = accepted /\ sent' = sent /\ failed' = failed /\ reported' = reported
  BY DEF TakeMessage, history, TypeOK
<1>2. /\ Head(queue) \in Macs /\ Tail(queue) \in Seq(Macs)
      /\ Range(queue) = Range(Tail(queue)) \union {Head(queue)}
      /\ Distinct(queue) => Head(queue) \notin Range(Tail(queue)) /\ Distinct(Tail(queue))
  BY <1>1, TailRange
<1>3. TypeOK'
  BY <1>1, <1>2 DEF TypeOK
<1>4. /\ at'.caller = at.caller /\ at'.worker = "sending"
      /\ inHand'.caller = inHand.caller /\ inHand'.worker = Head(queue)
  BY <1>1 DEF TypeOK
<1>5. Head(queue) # None
  BY <1>2, MacAssumption
<1>6. Hands'
  BY <1>1, <1>4, <1>5 DEF Hands
<1>7. Sending = {} /\ Sending' = {Head(queue)}
  BY <1>1, <1>4 DEF Sending
<1>8. Places'
  BY <1>1, <1>2, <1>4, <1>7 DEF Places
<1>9. Beginning' /\ Ending' /\ Failures'
  BY <1>1, <1>4 DEF Beginning, Ending, Failures
<1> QED
  BY <1>3, <1>6, <1>8, <1>9

\* It was tried nowhere before.
LEMMA SendKeeps ==
  ASSUME IInv, Send
  PROVE  IInv'
<1> USE DEF IInv
<1> DEFINE mac == inHand.worker
<1>1. /\ at.worker = "sending" /\ sent' = Append(sent, mac) /\ sent \in Seq(Macs)
      /\ mutex' = mutex /\ owner' = owner /\ callbackSet' = callbackSet /\ stopping' = stopping
      /\ alertedMacs' = alertedMacs /\ queue' = queue /\ asleep' = asleep
      /\ accepted' = accepted /\ reported' = reported
  BY DEF Send, TypeOK
<1>2. mac \in Macs /\ mac # None
  BY <1>1 DEF Hands, TypeOK
<1>3. Sending = {mac} /\ mac \notin Range(queue) /\ mac \notin Range(sent)
  BY <1>1 DEF Sending, Places
<1>4. Range(sent') = Range(sent) \union {mac} /\ (Distinct(sent) => Distinct(sent'))
  BY <1>1, <1>2, <1>3, AppendedRange
<1>5. sent' \in Seq(Macs)
  BY <1>1, <1>2
<1>6. CASE /\ at' = [at EXCEPT !.worker = "looping"]
           /\ inHand' = [inHand EXCEPT !.worker = None]
           /\ failed' = failed
  <2>1. /\ at'.caller = at.caller /\ at'.worker = "looping"
        /\ inHand'.caller = inHand.caller /\ inHand'.worker = None
    BY <1>6 DEF TypeOK
  <2>2. TypeOK'
    BY <1>1, <1>5, <1>6 DEF TypeOK
  <2>3. Sending' = {}
    BY <2>1 DEF Sending
  <2>4. Places'
    BY <1>1, <1>3, <1>4, <2>1, <2>3 DEF Places
  <2>5. Beginning' /\ Ending' /\ Hands' /\ Failures'
    BY <1>1, <1>6, <2>1 DEF Beginning, Ending, Hands, Failures
  <2> QED
    BY <2>2, <2>4, <2>5
<1>7. CASE /\ at' = [at EXCEPT !.worker = "reporting"]
           /\ failed' = failed \union {mac}
           /\ inHand' = inHand
  <2>1. at'.caller = at.caller /\ at'.worker = "reporting"
    BY <1>7 DEF TypeOK
  <2>2. TypeOK'
    BY <1>1, <1>2, <1>5, <1>7 DEF TypeOK
  <2>3. Sending' = {}
    BY <2>1 DEF Sending
  <2>4. Places'
    BY <1>1, <1>3, <1>4, <1>7, <2>1, <2>3 DEF Places
  <2>5. Beginning' /\ Ending' /\ Hands' /\ Failures'
    BY <1>1, <1>7, <2>1 DEF Beginning, Ending, Hands, Failures
  <2> QED
    BY <2>2, <2>4, <2>5
<1> QED
  BY <1>6, <1>7 DEF Send

\* Only the worker gets to report: the caller holds the mutex that reporting takes.
LEMMA ReportFailureKeeps ==
  ASSUME IInv, NEW t \in {"caller", "worker"}, ReportFailure(t)
  PROVE  IInv' /\ t = "worker"
<1> USE DEF IInv
<1>1. t = "worker" /\ at.worker = "reporting"
  BY DEF ReportFailure, MutexFree, Hands
<1>2. /\ reported' = IF callbackSet THEN reported \union {inHand.worker} ELSE reported
      /\ at' = [at EXCEPT !.worker = "looping"] /\ inHand' = [inHand EXCEPT !.worker = None]
      /\ mutex' = mutex /\ owner' = owner /\ callbackSet' = callbackSet /\ stopping' = stopping
      /\ alertedMacs' = alertedMacs /\ queue' = queue /\ asleep' = asleep
      /\ accepted' = accepted /\ sent' = sent /\ failed' = failed
  BY <1>1 DEF ReportFailure
<1>3. callbackSet /\ inHand.worker \in Macs
  BY <1>1 DEF Beginning, Hands, TypeOK
<1>4. /\ at'.caller = at.caller /\ at'.worker = "looping"
      /\ inHand'.caller = inHand.caller /\ inHand'.worker = None
  BY <1>2 DEF TypeOK
<1>5. TypeOK'
  BY <1>2, <1>3 DEF TypeOK
<1>6. Places'
  BY <1>1, <1>2, <1>4 DEF Places, Sending
<1>7. Beginning' /\ Ending' /\ Hands' /\ Failures'
  BY <1>1, <1>2, <1>3, <1>4 DEF Beginning, Ending, Hands, Failures
<1> QED
  BY <1>1, <1>5, <1>6, <1>7

\* The other steps of the worker.
LEMMA WaitingKeeps ==
  ASSUME IInv, WorkerSleeps \/ WorkerReturns \/ SpuriousWakeup
  PROVE  IInv'
<1> USE DEF IInv
<1>1. CASE WorkerSleeps
  BY <1>1 DEF WorkerSleeps, history, TypeOK, Beginning, Ending, Hands, Places, Sending, Failures
<1>2. CASE SpuriousWakeup
  BY <1>2 DEF SpuriousWakeup, history, TypeOK, Beginning, Ending, Hands, Places, Sending, Failures
<1>3. CASE WorkerReturns
  <2>1. /\ at' = [at EXCEPT !.worker = "done"] /\ at.worker = "looping" /\ stopping /\ queue = <<>>
        /\ mutex' = mutex /\ owner' = owner /\ callbackSet' = callbackSet /\ stopping' = stopping
        /\ alertedMacs' = alertedMacs /\ queue' = queue /\ inHand' = inHand /\ asleep' = asleep
        /\ accepted' = accepted /\ sent' = sent /\ failed' = failed /\ reported' = reported
    BY <1>3 DEF WorkerReturns, history
  <2>2. at'.caller = at.caller /\ at'.worker = "done"
    BY <2>1 DEF TypeOK
  <2>3. TypeOK'
    BY <2>1 DEF TypeOK
  <2>4. Places'
    BY <2>1, <2>2 DEF Places, Sending
  <2>5. Beginning' /\ Ending' /\ Hands' /\ Failures'
    BY <2>1, <2>2 DEF Beginning, Ending, Hands, Failures
  <2> QED
    BY <2>3, <2>4, <2>5
<1> QED
  BY <1>1, <1>2, <1>3

\* The invariant is inductive.
LEMMA Inductive == IInv /\ [Next]_vars => IInv'
<1> SUFFICES ASSUME IInv, [Next]_vars PROVE IInv'
  OBVIOUS
<1>1. CASE UNCHANGED vars
  BY <1>1 DEF IInv, vars, history, TypeOK, Beginning, Ending, Hands, Places, Sending, Failures
<1>2. CASE Owner
  BY <1>2, OwnerKeeps
<1>3. ASSUME NEW mac \in Macs, QueueAlert(mac) \/ AlertQueueFull(mac)
      PROVE  IInv'
  BY <1>3, QueueAlertKeeps, AlertQueueFullKeeps
<1>4. CASE WorkerSleeps \/ WorkerReturns \/ SpuriousWakeup
  BY <1>4, WaitingKeeps
<1>5. CASE TakeMessage
  BY <1>5, TakeMessageKeeps
<1>6. CASE Send
  BY <1>6, SendKeeps
<1>7. ASSUME NEW t \in {"caller", "worker"}, ReportFailure(t)
      PROVE  IInv'
  BY <1>7, ReportFailureKeeps
<1> QED
  BY <1>1, <1>2, <1>3, <1>4, <1>5, <1>6, <1>7 DEF Next

\* It is an invariant of the notifier.
LEMMA Invariant == Spec => []IInv
  BY Initially, Inductive, PTL DEF Spec

-----------------------------------------------------------------------------
(* Theorems.                                                               *)

\* Types; the mutex is kept across steps by the caller alone.
THEOREM TypeCorrect == Spec => []TypeOK
<1>1. IInv => TypeOK
  BY DEF IInv
<1> QED
  BY <1>1, Invariant, PTL

\* EmailAlertNotifier mails no asset twice in a session, whatever the number of
\* assets, the capacity of its queue and the failures of its sends.
THEOREM NoAssetMailedTwice == Spec => []OneMailPerAsset
<1>1. IInv => OneMailPerAsset
  BY DEF IInv, Places, Distinct, OneMailPerAsset
<1> QED
  BY <1>1, Invariant, PTL

\* Every address in alertedMacs_ is queued, in somebody's hands or has been tried.
THEOREM NoAlertForgotten == Spec => []AlertsAccountedFor
<1>1. ASSUME IInv
      PROVE  AlertsAccountedFor
  <2>1. Range(inHand) = {inHand.caller, inHand.worker}
    BY <1>1 DEF IInv, TypeOK, Range
  <2>2. {inHand.worker} \ {None} \subseteq Range(sent) \union Sending /\ Sending \subseteq {inHand.worker} \ {None}
    BY <1>1 DEF IInv, Hands, Places, Sending
  <2>3. alertedMacs = Range(queue) \union Range(sent) \union Sending \union ({inHand.caller} \ {None})
    BY <1>1 DEF IInv, Places
  <2> QED
    BY <2>1, <2>2, <2>3 DEF AlertsAccountedFor
<1> QED
  BY <1>1, Invariant, PTL

\* When stop() has returned every accepted alert has been tried and every failed
\* one was reported: workerLoop leaves its loop with an empty queue only.
THEOREM StopLeavesNothing == Spec => []StopDrains
<1>1. ASSUME IInv, owner = "stopped"
      PROVE  accepted = Range(sent) /\ failed \subseteq reported
  <2>1. at.worker = "done" /\ queue = <<>>
    BY <1>1 DEF IInv, Ending
  <2>2. Range(queue) = {} /\ Sending = {}
    BY <2>1 DEF Range, Sending
  <2>3. failed \subseteq reported
    BY <1>1, <2>1 DEF IInv, Failures
  <2> QED
    BY <1>1, <2>2, <2>3 DEF IInv, Places
<1>2. IInv => StopDrains
  BY <1>1 DEF StopDrains
<1> QED
  BY <1>2, Invariant, PTL

\* An alert that finds the queue full stops the notifier for good, whatever the
\* capacity: handleAssetEvent reports it with mutex_ held, which reportFailure
\* takes again, and no step of any thread frees it.
THEOREM FullQueueBlocks ==
  Spec => [][at.caller = "reporting" =>
               at'.caller = "reporting" /\ UNCHANGED <<mutex, owner, queue, alertedMacs>>]_vars
<1>1. ASSUME IInv, [Next]_vars, at.caller = "reporting"
      PROVE  at'.caller = "reporting" /\ UNCHANGED <<mutex, owner, queue, alertedMacs>>
  <2>1. mutex = "caller" /\ owner = "running" /\ ~MutexFree
    BY <1>1 DEF IInv, TypeOK, Beginning, Ending, Hands, MutexFree
  <2>2. CASE UNCHANGED vars
    BY <1>1, <2>2 DEF vars
  <2>3. CASE Owner
    BY <1>1, <2>1, <2>3 DEF Owner, SetFailureCallback, ResetSession, Stop, NotifyStop, JoinWorker
  <2>4. ASSUME NEW mac \in Macs, QueueAlert(mac) \/ AlertQueueFull(mac)
        PROVE  FALSE
    BY <2>1, <2>4 DEF QueueAlert, AlertQueueFull, NewAlert
  <2>5. CASE WorkerSleeps \/ TakeMessage \/ WorkerReturns
    BY <2>1, <2>5 DEF WorkerSleeps, TakeMessage, WorkerReturns
  <2>6. CASE SpuriousWakeup
    BY <1>1, <2>6 DEF SpuriousWakeup
  <2>7. CASE Send
    <3>1. at' = [at EXCEPT !.worker = "looping"] \/ at' = [at EXCEPT !.worker = "reporting"]
      BY <2>7 DEF Send
    <3>2. at'.caller = at.caller
      BY <1>1, <3>1 DEF IInv, TypeOK
    <3> QED
      BY <1>1, <2>7, <3>2 DEF Send
  <2>8. ASSUME NEW t \in {"caller", "worker"}, ReportFailure(t)
        PROVE  FALSE
    BY <2>1, <2>8 DEF ReportFailure
  <2> QED
    BY <1>1, <2>2, <2>3, <2>4, <2>5, <2>6, <2>7, <2>8 DEF Next
<1> QED
  BY <1>1, Invariant, PTL DEF Spec
=============================================================================
