---------------------------- MODULE LivePipeline ----------------------------
(***************************************************************************)
(* PipelineRunner (src/app/LiveCapturePipeline.cpp): the capture thread     *)
(* batches packets into the packet queue without ever blocking; parser      *)
(* workers turn packet batches into observation batches; one aggregator     *)
(* applies them to the AssetMonitor and runs the callbacks.                 *)
(*                                                                         *)
(* A step is one queue operation, one packet parsed or one observation      *)
(* applied.  A blocking queue operation is a step enabled when the queue    *)
(* lets the call return: BoundedQueue.tla shows that its wait loops and     *)
(* notifications amount to that.  Packets are numbered in order of arrival. *)
(* Each statistics counter is kept per packet (events per MAC address);     *)
(* what the code reports is the sum.  The counters are only read when all   *)
(* threads are joined, so the atomic increment next to a step is part of it.*)
(***************************************************************************)
EXTENDS QueueOps, FiniteSets, Functions

CONSTANTS
  MaxPackets,            \* bound: how many packets the capture delivers
  Macs,                  \* MAC addresses seen in them
  ParseResults,          \* what a packet may parse to: sequences of Macs
  RequestedOptions,      \* the LivePipelineOptions callers may pass
  DefaultPacketBatchSize,
  DefaultQueueCapacity,
  DefaultWorkerCount     \* defaultWorkerCount() on this machine

Packets == 1 .. MaxPackets

Observations == [packet : Packets, mac : Macs]

ASSUME BoundAssumption == MaxPackets \in Nat

ASSUME ParseAssumption == ParseResults \subseteq Seq(Macs)

ASSUME DefaultsAssumption ==
  /\ DefaultPacketBatchSize \in Nat \ {0}
  /\ DefaultQueueCapacity \in Nat \ {0}
  /\ DefaultWorkerCount \in Nat \ {0}

\* callbacks: whether eventCallback and assetCallback are set.
ASSUME OptionsAssumption ==
  RequestedOptions \subseteq
    [packetBatchSize : Nat, packetQueueCapacity : Nat,
     observationQueueCapacity : Nat, parserWorkerCount : Nat, callbacks : BOOLEAN]

OrDefault(n, default) == IF n = 0 THEN default ELSE n

\* normalizeLivePipelineOptions: a packet queue capacity of 0 stays 0.
NormalizeLivePipelineOptions(o) ==
  [o EXCEPT !.packetBatchSize = OrDefault(@, DefaultPacketBatchSize),
            !.observationQueueCapacity = OrDefault(@, DefaultQueueCapacity),
            !.parserWorkerCount = OrDefault(@, DefaultWorkerCount)]

VARIABLES
  options,           \* the normalised LivePipelineOptions
  runner,            \* where PipelineRunner::run has got to
  captureError,      \* producerError: the capture backend returned an error
  pending,           \* pendingPacketBatch_
  packetQueue,
  observationQueue,
  worker,            \* parser worker: control point, packets left, observations
  aggregator,        \* aggregator: control point, batch, index of the next one
  store,             \* per MAC, the packet whose data the asset holds; 0: no asset
  error,             \* error_, the first failure reported by a thread
  captured, enqueued, dropped, parsed,   \* packet counters, per packet
  produced, applied,                     \* observation counters, per packet
  events                                 \* eventsProduced, per MAC

capture == <<runner, captureError, pending, captured, enqueued, dropped>>
parsing == <<worker, parsed, produced>>
monitor == <<aggregator, store, applied, events>>
vars == <<options, capture, packetQueue, observationQueue, parsing, monitor, error>>

Workers == 1 .. options.parserWorkerCount

Init ==
  /\ options \in {NormalizeLivePipelineOptions(o) : o \in RequestedOptions}
  /\ runner = "producing"
  /\ captureError = FALSE
  /\ pending = <<>>
  /\ packetQueue = NewQueue
  /\ observationQueue = NewQueue
  /\ worker = [w \in Workers |-> [at |-> "popping", packets |-> <<>>, observations |-> <<>>]]
  /\ aggregator = [at |-> "popping", batch |-> <<>>, next |-> 1]
  /\ store = [m \in Macs |-> 0]
  /\ error = "none"
  /\ captured = [p \in Packets |-> 0]
  /\ enqueued = [p \in Packets |-> 0]
  /\ dropped = [p \in Packets |-> 0]
  /\ parsed = [p \in Packets |-> 0]
  /\ produced = [p \in Packets |-> 0]
  /\ applied = [p \in Packets |-> 0]
  /\ events = [m \in Macs |-> 0]

\* counter.fetch_add(1) for every member of S.
Bump(counter, S) == [x \in DOMAIN counter |-> counter[x] + (IF x \in S THEN 1 ELSE 0)]

\* setError: the first failure is the one that is kept.
SetError(message) == error' = IF error = "none" THEN message ELSE error

-----------------------------------------------------------------------------
(* The thread that runs the pipeline and its capture callback.             *)

\* A flush that resets the pending batch only when the queue took it.
FlushKeepingDroppedBatch(batch) ==
  \/ /\ batch = <<>>
     /\ UNCHANGED <<pending, packetQueue, enqueued, dropped>>
  \/ /\ batch # <<>>
     /\ ~packetQueue.closed
     /\ HasRoom(packetQueue, options.packetQueueCapacity)
     /\ pending' = <<>>
     /\ packetQueue' = Pushed(packetQueue, batch)
     /\ enqueued' = Bump(enqueued, Range(batch))
     /\ UNCHANGED dropped
  \/ /\ batch # <<>>
     /\ packetQueue.closed \/ ~HasRoom(packetQueue, options.packetQueueCapacity)
     /\ pending' = batch
     /\ dropped' = Bump(dropped, Range(batch))
     /\ UNCHANGED <<packetQueue, enqueued>>

\* flushPacketBatch with batch the contents of pendingPacketBatch_.
FlushPacketBatch(batch) ==
  /\ pending' = <<>>
  /\ \/ /\ batch = <<>>
        /\ UNCHANGED <<packetQueue, enqueued, dropped>>
     \/ /\ batch # <<>>
        /\ ~packetQueue.closed
        /\ HasRoom(packetQueue, options.packetQueueCapacity)
        /\ packetQueue' = Pushed(packetQueue, batch)
        /\ enqueued' = Bump(enqueued, Range(batch))
        /\ UNCHANGED dropped
     \/ /\ batch # <<>>
        /\ packetQueue.closed \/ ~HasRoom(packetQueue, options.packetQueueCapacity)
        /\ dropped' = Bump(dropped, Range(batch))
        /\ UNCHANGED <<packetQueue, enqueued>>

\* enqueuePacket: capture delivers its next packet.
EnqueuePacket(p) ==
  /\ runner = "producing"
  /\ captured[p] = 0
  /\ \A q \in 1 .. (p - 1) : captured[q] > 0
  /\ captured' = Bump(captured, {p})
  /\ LET batch == Append(pending, p)
     IN  \/ /\ Len(batch) >= options.packetBatchSize
            /\ FlushPacketBatch(batch)
         \/ /\ Len(batch) < options.packetBatchSize
            /\ pending' = batch
            /\ UNCHANGED <<packetQueue, enqueued, dropped>>
  /\ UNCHANGED <<options, runner, captureError, observationQueue, parsing, monitor, error>>

\* The capture ends: stopped by the user, at the end of the input or with an
\* error.  What it left in the pending batch is flushed.
EndCapture ==
  /\ runner = "producing"
  /\ captureError' \in BOOLEAN
  /\ FlushPacketBatch(pending)
  /\ runner' = "closePackets"
  /\ UNCHANGED <<options, captured, observationQueue, parsing, monitor, error>>

RunnerStep(from, to) ==
  /\ runner = from
  /\ runner' = to
  /\ UNCHANGED <<options, captureError, pending, captured, enqueued, dropped,
                 parsing, monitor, error>>

ClosePacketQueue ==
  /\ RunnerStep("closePackets", "joinWorkers")
  /\ packetQueue' = Closed(packetQueue)
  /\ UNCHANGED observationQueue

\* Both queues closed before the workers are joined.
JoinWorkersTooEarly ==
  /\ RunnerStep("joinWorkers", "closeObservations")
  /\ UNCHANGED <<packetQueue, observationQueue>>

JoinWorkers ==
  /\ \A w \in Workers : worker[w].at = "done"
  /\ RunnerStep("joinWorkers", "closeObservations")
  /\ UNCHANGED <<packetQueue, observationQueue>>

CloseObservationQueue ==
  /\ RunnerStep("closeObservations", "joinAggregator")
  /\ observationQueue' = Closed(observationQueue)
  /\ UNCHANGED packetQueue

\* The aggregator is joined and the statistics are read: run() returns.
JoinAggregator ==
  /\ aggregator.at = "done"
  /\ RunnerStep("joinAggregator", "returned")
  /\ UNCHANGED <<packetQueue, observationQueue>>

-----------------------------------------------------------------------------
(* parserWorkerLoop.                                                       *)

WorkerGoes(w, to) == worker' = [worker EXCEPT ![w].at = to]

\* The front batch is read and left in the queue.
PopPacketsWithoutRemoval(w) ==
  /\ worker[w].at = "popping"
  /\ ~IsEmpty(packetQueue)
  /\ worker' = [worker EXCEPT ![w] = [at |-> "parsing", packets |-> Head(packetQueue.items),
                                      observations |-> <<>>]]
  /\ UNCHANGED <<options, capture, packetQueue, observationQueue, parsed, produced, monitor,
                 error>>

PopPackets(w) ==
  /\ worker[w].at = "popping"
  /\ ~IsEmpty(packetQueue)
  /\ packetQueue' = Popped(packetQueue)
  /\ worker' = [worker EXCEPT ![w] = [at |-> "parsing", packets |-> Head(packetQueue.items),
                                      observations |-> <<>>]]
  /\ UNCHANGED <<options, capture, observationQueue, parsed, produced, monitor, error>>

PacketsExhausted(w) ==
  /\ worker[w].at = "popping"
  /\ IsEmpty(packetQueue)
  /\ packetQueue.closed
  /\ WorkerGoes(w, "done")
  /\ UNCHANGED <<options, capture, packetQueue, observationQueue, parsed, produced,
                 monitor, error>>

ObservationsOf(p, macs) == [i \in DOMAIN macs |-> [packet |-> p, mac |-> macs[i]]]

ParsePacket(w) ==
  /\ worker[w].at = "parsing"
  /\ worker[w].packets # <<>>
  /\ LET p == Head(worker[w].packets)
     IN  /\ parsed' = Bump(parsed, {p})
         /\ \E macs \in ParseResults :
              /\ produced' = [produced EXCEPT ![p] = @ + Len(macs)]
              /\ worker' = [worker EXCEPT ![w].packets = Tail(@),
                                          ![w].observations = @ \o ObservationsOf(p, macs)]
  /\ UNCHANGED <<options, capture, packetQueue, observationQueue, monitor, error>>

\* An exception caught without setError: the worker goes on with the next batch.
ParserSwallowsException(w) ==
  /\ worker[w].at = "parsing"
  /\ worker[w].packets # <<>>
  /\ parsed' = Bump(parsed, {Head(worker[w].packets)})
  /\ WorkerGoes(w, "popping")
  /\ UNCHANGED <<options, capture, packetQueue, observationQueue, produced, monitor, error>>

\* A parser throws: the rest of the batch is abandoned with it.
ParserThrows(w) ==
  /\ worker[w].at = "parsing"
  /\ worker[w].packets # <<>>
  /\ parsed' = Bump(parsed, {Head(worker[w].packets)})
  /\ SetError("parser worker failed")
  /\ WorkerGoes(w, "closePackets")
  /\ UNCHANGED <<options, capture, packetQueue, observationQueue, produced, monitor>>

BatchParsed(w) == worker[w].at = "parsing" /\ worker[w].packets = <<>>

NothingToPush(w) ==
  /\ BatchParsed(w)
  /\ worker[w].observations = <<>>
  /\ WorkerGoes(w, "popping")
  /\ UNCHANGED <<options, capture, packetQueue, observationQueue, parsed, produced,
                 monitor, error>>

\* waitPush returns true.
PushObservations(w) ==
  /\ BatchParsed(w)
  /\ worker[w].observations # <<>>
  /\ ~observationQueue.closed
  /\ HasRoom(observationQueue, options.observationQueueCapacity)
  /\ observationQueue' = Pushed(observationQueue, worker[w].observations)
  /\ WorkerGoes(w, "popping")
  /\ UNCHANGED <<options, capture, packetQueue, parsed, produced, monitor, error>>

\* waitPush returns false.
PushRefused(w) ==
  /\ BatchParsed(w)
  /\ worker[w].observations # <<>>
  /\ observationQueue.closed
  /\ SetError("observation queue closed")
  /\ WorkerGoes(w, "refused")
  /\ UNCHANGED <<options, capture, packetQueue, observationQueue, parsed, produced, monitor>>

\* packetQueue_.close() on either way out; after a refusal it is the last step.
WorkerClosesPackets(w) ==
  /\ worker[w].at \in {"closePackets", "refused"}
  /\ packetQueue' = Closed(packetQueue)
  /\ WorkerGoes(w, IF worker[w].at = "refused" THEN "done" ELSE "closeObservations")
  /\ UNCHANGED <<options, capture, observationQueue, parsed, produced, monitor, error>>

WorkerClosesObservations(w) ==
  /\ worker[w].at = "closeObservations"
  /\ observationQueue' = Closed(observationQueue)
  /\ WorkerGoes(w, "done")
  /\ UNCHANGED <<options, capture, packetQueue, parsed, produced, monitor, error>>

ParserWorker(w) ==
  \/ PopPackets(w) \/ PacketsExhausted(w)
  \/ ParsePacket(w) \/ ParserThrows(w)
  \/ NothingToPush(w) \/ PushObservations(w) \/ PushRefused(w)
  \/ WorkerClosesPackets(w) \/ WorkerClosesObservations(w)

-----------------------------------------------------------------------------
(* startAggregator's thread.                                               *)

AggregatorGoes(to) == aggregator' = [aggregator EXCEPT !.at = to]

PopObservations ==
  /\ aggregator.at = "popping"
  /\ ~IsEmpty(observationQueue)
  /\ observationQueue' = Popped(observationQueue)
  /\ aggregator' = [at |-> "applying", batch |-> Head(observationQueue.items), next |-> 1]
  /\ UNCHANGED <<options, capture, packetQueue, parsing, store, applied, events, error>>

\* The aggregator stops at the close without draining the queue.
ObservationsAbandoned ==
  /\ aggregator.at = "popping"
  /\ observationQueue.closed
  /\ AggregatorGoes("done")
  /\ UNCHANGED <<options, capture, packetQueue, observationQueue, parsing, store, applied,
                 events, error>>

ObservationsExhausted ==
  /\ aggregator.at = "popping"
  /\ IsEmpty(observationQueue)
  /\ observationQueue.closed
  /\ AggregatorGoes("done")
  /\ UNCHANGED <<options, capture, packetQueue, observationQueue, parsing, store, applied,
                 events, error>>

Current == aggregator.batch[aggregator.next]

\* AssetStore::applyObservation: the asset exists and holds this packet's data.
StoreApplies(o) == store' = [store EXCEPT ![o.mac] = o.packet]

\* dispatchEvent, for a new asset and only if there is an event callback.
EventDispatched(o) == options.callbacks /\ store[o.mac] = 0

\* AssetMonitor::applyObservation.
ApplyObservation ==
  /\ aggregator.at = "applying"
  /\ aggregator.next <= Len(aggregator.batch)
  /\ StoreApplies(Current)
  /\ events' = Bump(events, IF EventDispatched(Current) THEN {Current.mac} ELSE {})
  /\ aggregator' = [aggregator EXCEPT !.next = @ + 1]
  /\ UNCHANGED <<options, capture, packetQueue, observationQueue, parsing, applied, error>>

\* An exception in the store, in assetCallback or in eventCallback ends the
\* aggregator in the middle of its batch.
ApplyThrows ==
  /\ aggregator.at = "applying"
  /\ aggregator.next <= Len(aggregator.batch)
  /\ \/ UNCHANGED <<store, events>>
     \/ options.callbacks /\ StoreApplies(Current) /\ UNCHANGED events
     \/ /\ EventDispatched(Current)
        /\ StoreApplies(Current)
        /\ events' = Bump(events, {Current.mac})
  /\ SetError("asset aggregator failed")
  /\ AggregatorGoes("closePackets")
  /\ UNCHANGED <<options, capture, packetQueue, observationQueue, parsing, applied>>

\* observationsApplied counts whole batches only.
CountBatch ==
  /\ aggregator.at = "applying"
  /\ aggregator.next > Len(aggregator.batch)
  /\ applied' = [p \in Packets |->
                   applied[p] + Cardinality({i \in DOMAIN aggregator.batch :
                                               aggregator.batch[i].packet = p})]
  /\ aggregator' = [at |-> "popping", batch |-> <<>>, next |-> 1]
  /\ UNCHANGED <<options, capture, packetQueue, observationQueue, parsing, store, events,
                 error>>

AggregatorClosesPackets ==
  /\ aggregator.at = "closePackets"
  /\ packetQueue' = Closed(packetQueue)
  /\ AggregatorGoes("closeObservations")
  /\ UNCHANGED <<options, capture, observationQueue, parsing, store, applied, events, error>>

\* A failed aggregator that leaves the observation queue open.
AggregatorLeavesObservationsOpen ==
  /\ aggregator.at = "closeObservations"
  /\ AggregatorGoes("done")
  /\ UNCHANGED <<options, capture, packetQueue, observationQueue, parsing, store, applied,
                 events, error>>

AggregatorClosesObservations ==
  /\ aggregator.at = "closeObservations"
  /\ observationQueue' = Closed(observationQueue)
  /\ AggregatorGoes("done")
  /\ UNCHANGED <<options, capture, packetQueue, parsing, store, applied, events, error>>

Aggregator ==
  \/ PopObservations \/ ObservationsExhausted
  \/ ApplyObservation \/ ApplyThrows \/ CountBatch
  \/ AggregatorClosesPackets \/ AggregatorClosesObservations

-----------------------------------------------------------------------------

Runner == ClosePacketQueue \/ JoinWorkers \/ CloseObservationQueue \/ JoinAggregator

\* run() has returned: the one state in which nothing is left to do.
Returned == runner = "returned" /\ UNCHANGED vars

Next ==
  \/ \E p \in Packets : EnqueuePacket(p)
  \/ EndCapture
  \/ Runner
  \/ \E w \in Workers : ParserWorker(w)
  \/ Aggregator
  \/ Returned

Spec == Init /\ [][Next]_vars

\* The operating system runs every thread that can run, and callbacks return.
\* Nothing is assumed of the capture: it may deliver packets, or not, and go
\* on for ever.
Fairness ==
  /\ WF_vars(Runner)
  /\ WF_vars(\E w \in Workers : ParserWorker(w))
  /\ WF_vars(Aggregator)

FairSpec == Spec /\ Fairness

-----------------------------------------------------------------------------
(* Properties.                                                             *)

WorkerControl ==
  {"popping", "parsing", "closePackets", "refused", "closeObservations", "done"}

AggregatorControl == {"popping", "applying", "closePackets", "closeObservations", "done"}

RunnerControl ==
  {"producing", "closePackets", "joinWorkers", "closeObservations", "joinAggregator", "returned"}

ErrorMessages ==
  {"none", "parser worker failed", "observation queue closed", "asset aggregator failed"}

NormalOptions == {NormalizeLivePipelineOptions(o) : o \in RequestedOptions}

TypeOK ==
  /\ options \in NormalOptions
  /\ runner \in RunnerControl
  /\ captureError \in BOOLEAN
  /\ pending \in Seq(Packets)
  /\ packetQueue \in QueueType(Seq(Packets), options.packetQueueCapacity)
  /\ observationQueue \in QueueType(Seq(Observations), options.observationQueueCapacity)
  /\ worker \in [Workers -> [at : WorkerControl, packets : Seq(Packets),
                            observations : Seq(Observations)]]
  /\ aggregator \in [at : AggregatorControl, batch : Seq(Observations), next : Nat \ {0}]
  /\ store \in [Macs -> 0 .. MaxPackets]
  /\ error \in ErrorMessages
  /\ captured \in [Packets -> Nat]
  /\ enqueued \in [Packets -> Nat]
  /\ dropped \in [Packets -> Nat]
  /\ parsed \in [Packets -> Nat]
  /\ produced \in [Packets -> Nat]
  /\ applied \in [Packets -> Nat]
  /\ events \in [Macs -> Nat]

\* At every moment each captured packet is counted exactly once as enqueued or
\* as dropped, or is in the pending batch: packets_captured can only exceed
\* packets_enqueued + packets_dropped_queue_full by the pending batch.
PacketsConserved ==
  \A p \in Packets :
    /\ captured[p] = enqueued[p] + dropped[p] + (IF p \in Range(pending) THEN 1 ELSE 0)
    /\ captured[p] <= 1

\* No packet is parsed twice and none that was dropped is parsed, whatever the
\* number of workers and whichever threads have failed.
ParsedAtMostOnce == \A p \in Packets : parsed[p] <= enqueued[p]

\* A run that reports no worker failure has lost nothing on the way: every
\* captured packet was parsed or counted as dropped, every observation was
\* applied, and each asset was announced exactly once.
CleanRunIsComplete ==
  runner = "returned" /\ error = "none" =>
    /\ \A p \in Packets : /\ captured[p] = parsed[p] + dropped[p]
                          /\ produced[p] = applied[p]
    /\ \A m \in Macs : events[m] = (IF options.callbacks /\ store[m] # 0 THEN 1 ELSE 0)

\* The reported error is the cause, not its echo: a refused push always follows
\* another thread's failure, which got to setError first.  In an orderly
\* shutdown no worker finds the observation queue closed.
RefusalIsNeverTheCause == error # "observation queue closed"

\* With one parser worker (what the GUI runs) an asset's data never goes back
\* to those of an earlier packet; two workers do not promise that.
OneWorkerKeepsArrivalOrder ==
  [][options.parserWorkerCount = 1 => \A m \in Macs : store'[m] >= store[m]]_vars

\* Once the capture has ended run() returns, also after any failure: no thread
\* stays blocked on a queue whose other end has gone.
StopTerminates == (runner # "producing") ~> (runner = "returned")

\* The pipeline keeps the promise of PacketDelivery.
StageOf(p) ==
  CASE parsed[p] > 0   -> "parsed"
    [] dropped[p] > 0  -> "dropped"
    [] enqueued[p] > 0 /\ parsed[p] = 0 -> "accepted"
    [] captured[p] > 0 /\ enqueued[p] = 0 /\ dropped[p] = 0 -> "pending"
    [] captured[p] = 0 -> "unseen"

Verdict ==
  IF runner # "returned" THEN "running" ELSE IF error = "none" THEN "complete" ELSE "failed"

Delivery == INSTANCE PacketDelivery
              WITH stage <- [p \in Packets |-> StageOf(p)], verdict <- Verdict

ImplementsPacketDelivery == Delivery!Spec
=============================================================================
