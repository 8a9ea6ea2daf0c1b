------------------------- MODULE LivePipelineProofs -------------------------
(***************************************************************************)
(* What holds of the live pipeline for any number of packets and workers,   *)
(* any parser and any options a caller may pass, and of the queue it is     *)
(* built of for any finite set of threads, any values and any capacity.     *)
(***************************************************************************)
EXTENDS LivePipeline, BoundedQueue, FiniteSetTheorems, TLAPS

-----------------------------------------------------------------------------
(* What the operations of QueueOps keep, for items of any type and any capacity. *)

\* A fresh BoundedQueue is well typed whatever its capacity, 0 included.
LEMMA NewQueueType ==
  ASSUME NEW Items, NEW capacity \in Nat
  PROVE  NewQueue \in QueueType(Items, capacity)
  BY DEF NewQueue, QueueType

\* A push into a queue with room keeps the bound and the high watermark right,
\* and adds the item at the back.
LEMMA PushedType ==
  ASSUME NEW Items, NEW capacity \in Nat,
         NEW q \in QueueType(Items, capacity), NEW item \in Items,
         HasRoom(q, capacity)
  PROVE  /\ Pushed(q, item) \in QueueType(Items, capacity)
         /\ Pushed(q, item).items = Append(q.items, item)
         /\ Pushed(q, item).closed = q.closed
         /\ Len(Pushed(q, item).items) = Len(q.items) + 1
<1>1. /\ q.items \in Seq(Items)
      /\ q.closed \in BOOLEAN
      /\ q.highWatermark \in 0 .. capacity
      /\ Len(q.items) <= q.highWatermark
      /\ Len(q.items) \in Nat
  BY DEF QueueType
<1> DEFINE items == Append(q.items, item)
           high == IF Len(items) > q.highWatermark THEN Len(items) ELSE q.highWatermark
<1>2. items \in Seq(Items) /\ Len(items) = Len(q.items) + 1
  BY <1>1
<1>3. Len(items) <= capacity
  BY <1>1, <1>2 DEF HasRoom
<1>4. high \in 0 .. capacity /\ Len(items) <= high
  BY <1>1, <1>2, <1>3
<1>5. Pushed(q, item) = [items |-> items, closed |-> q.closed, highWatermark |-> high]
  BY DEF Pushed
<1> HIDE DEF items, high
<1>6. Pushed(q, item) \in QueueType(Items, capacity)
  BY <1>1, <1>2, <1>4, <1>5 DEF QueueType
<1> QED
  BY <1>2, <1>5, <1>6 DEF items

\* A pop keeps the type and removes the front item.
LEMMA PoppedType ==
  ASSUME NEW Items, NEW capacity \in Nat,
         NEW q \in QueueType(Items, capacity), ~IsEmpty(q)
  PROVE  /\ Popped(q) \in QueueType(Items, capacity)
         /\ Popped(q).items = Tail(q.items)
         /\ Popped(q).closed = q.closed
         /\ Len(Popped(q).items) = Len(q.items) - 1
         /\ Head(q.items) \in Items
         /\ Len(q.items) > 0
<1>1. /\ q.items \in Seq(Items)
      /\ q.items # <<>>
      /\ Len(q.items) \in Nat
  BY DEF QueueType, IsEmpty
<1>2. /\ Tail(q.items) \in Seq(Items)
      /\ Len(Tail(q.items)) = Len(q.items) - 1
      /\ Head(q.items) \in Items
      /\ Len(q.items) > 0
  BY <1>1
<1>3. Popped(q) \in QueueType(Items, capacity)
  BY <1>1, <1>2 DEF Popped, QueueType
<1> QED
  BY <1>2, <1>3 DEF Popped

\* close() changes nothing but closed_.
LEMMA ClosedType ==
  ASSUME NEW Items, NEW capacity \in Nat, NEW q \in QueueType(Items, capacity)
  PROVE  /\ Closed(q) \in QueueType(Items, capacity)
         /\ Closed(q).items = q.items
         /\ Closed(q).closed = TRUE
  BY DEF Closed, QueueType

-----------------------------------------------------------------------------
(* Options and counters.                                                   *)

\* Normalised options have positive sizes, except for the packet queue, whose
\* capacity may be 0.
LEMMA NormalOptionsType ==
  ASSUME NEW o \in NormalOptions
  PROVE  /\ o.packetBatchSize \in Nat \ {0}
         /\ o.packetQueueCapacity \in Nat
         /\ o.observationQueueCapacity \in Nat \ {0}
         /\ o.parserWorkerCount \in Nat \ {0}
         /\ o.callbacks \in BOOLEAN
<1>1. PICK r \in RequestedOptions : o = NormalizeLivePipelineOptions(r)
  BY DEF NormalOptions
<1>2. r \in [packetBatchSize : Nat, packetQueueCapacity : Nat,
             observationQueueCapacity : Nat, parserWorkerCount : Nat, callbacks : BOOLEAN]
  BY OptionsAssumption
<1>3. /\ o.packetBatchSize = OrDefault(r.packetBatchSize, DefaultPacketBatchSize)
      /\ o.packetQueueCapacity = r.packetQueueCapacity
      /\ o.observationQueueCapacity = OrDefault(r.observationQueueCapacity, DefaultQueueCapacity)
      /\ o.parserWorkerCount = OrDefault(r.parserWorkerCount, DefaultWorkerCount)
      /\ o.callbacks = r.callbacks
  BY <1>1, <1>2 DEF NormalizeLivePipelineOptions
<1> QED
  BY <1>2, <1>3, DefaultsAssumption DEF OrDefault

\* A counter stays a counter, whatever it is incremented for.
LEMMA BumpType ==
  ASSUME NEW Index, NEW counter \in [Index -> Nat], NEW S
  PROVE  /\ Bump(counter, S) \in [Index -> Nat]
         /\ \A x \in Index : Bump(counter, S)[x] = counter[x] + (IF x \in S THEN 1 ELSE 0)
  BY DEF Bump

\* What a packet parses to are observations, one per reported MAC address.
LEMMA ObservationsOfType ==
  ASSUME NEW p \in Packets, NEW macs \in ParseResults
  PROVE  /\ ObservationsOf(p, macs) \in Seq(Observations)
         /\ Len(macs) \in Nat
<1>1. macs \in Seq(Macs)
  BY ParseAssumption
<1>2. /\ Len(macs) \in Nat
      /\ DOMAIN macs = 1 .. Len(macs)
      /\ \A i \in 1 .. Len(macs) : macs[i] \in Macs
  BY <1>1
<1>3. \A i \in 1 .. Len(macs) : [packet |-> p, mac |-> macs[i]] \in Observations
  BY <1>2 DEF Observations
<1>4. ObservationsOf(p, macs) \in [1 .. Len(macs) -> Observations]
  BY <1>2, <1>3 DEF ObservationsOf
<1> QED
  BY <1>2, <1>4

-----------------------------------------------------------------------------
(* Type correctness, one lemma per thread.                                 *)

\* A flush, of the pending batch or of the batch a packet has just completed,
\* preserves the types.
LEMMA FlushType ==
  ASSUME TypeOK, NEW batch \in Seq(Packets), FlushPacketBatch(batch)
  PROVE  /\ pending' \in Seq(Packets)
         /\ packetQueue' \in QueueType(Seq(Packets), options.packetQueueCapacity)
         /\ enqueued' \in [Packets -> Nat]
         /\ dropped' \in [Packets -> Nat]
<1>1. options.packetQueueCapacity \in Nat
  BY NormalOptionsType DEF TypeOK
<1>2. pending' \in Seq(Packets)
  BY DEF FlushPacketBatch
<1>3. CASE UNCHANGED <<packetQueue, enqueued, dropped>>
  BY <1>2, <1>3 DEF TypeOK
<1>4. CASE /\ HasRoom(packetQueue, options.packetQueueCapacity)
           /\ packetQueue' = Pushed(packetQueue, batch)
           /\ enqueued' = Bump(enqueued, Range(batch))
           /\ UNCHANGED dropped
  BY <1>1, <1>2, <1>4, PushedType, BumpType DEF TypeOK
<1>5. CASE /\ dropped' = Bump(dropped, Range(batch))
           /\ UNCHANGED <<packetQueue, enqueued>>
  BY <1>2, <1>5, BumpType DEF TypeOK
<1> QED
  BY <1>3, <1>4, <1>5 DEF FlushPacketBatch

\* The capture callback and the end of the capture.
LEMMA CaptureType ==
  ASSUME TypeOK, (\E p \in Packets : EnqueuePacket(p)) \/ EndCapture
  PROVE  TypeOK'
<1>1. ASSUME NEW p \in Packets, EnqueuePacket(p)
      PROVE  TypeOK'
  <2> DEFINE batch == Append(pending, p)
  <2>1. batch \in Seq(Packets)
    BY DEF TypeOK
  <2>2. captured' \in [Packets -> Nat]
    <3>1. captured' = Bump(captured, {p}) /\ captured \in [Packets -> Nat]
      BY <1>1 DEF EnqueuePacket, TypeOK
    <3> QED
      BY <3>1, BumpType
  <2>3. /\ pending' \in Seq(Packets)
        /\ packetQueue' \in QueueType(Seq(Packets), options.packetQueueCapacity)
        /\ enqueued' \in [Packets -> Nat]
        /\ dropped' \in [Packets -> Nat]
    <3>1. CASE FlushPacketBatch(batch)
      BY <2>1, <3>1, FlushType
    <3>2. CASE pending' = batch /\ UNCHANGED <<packetQueue, enqueued, dropped>>
      BY <2>1, <3>2 DEF TypeOK
    <3> QED
      BY <1>1, <3>1, <3>2 DEF EnqueuePacket
  <2> QED
    BY <1>1, <2>2, <2>3 DEF EnqueuePacket, TypeOK, parsing, monitor, Workers
<1>2. ASSUME EndCapture
      PROVE  TypeOK'
  <2>1. /\ pending' \in Seq(Packets)
        /\ packetQueue' \in QueueType(Seq(Packets), options.packetQueueCapacity)
        /\ enqueued' \in [Packets -> Nat]
        /\ dropped' \in [Packets -> Nat]
    BY <1>2, FlushType DEF EndCapture, TypeOK
  <2> QED
    BY <1>2, <2>1 DEF EndCapture, TypeOK, parsing, monitor, Workers, RunnerControl
<1> QED
  BY <1>1, <1>2

\* The shutdown sequence of run().
LEMMA RunnerType ==
  ASSUME TypeOK, Runner
  PROVE  TypeOK'
<1>1. /\ options.packetQueueCapacity \in Nat
      /\ options.observationQueueCapacity \in Nat
  BY NormalOptionsType DEF TypeOK
<1>2. CASE ClosePacketQueue
  <2>1. packetQueue' \in QueueType(Seq(Packets), options.packetQueueCapacity)
    BY <1>1, <1>2, ClosedType DEF ClosePacketQueue, TypeOK
  <2> QED
    BY <1>2, <2>1 DEF ClosePacketQueue, RunnerStep, TypeOK, parsing, monitor, Workers,
                      RunnerControl
<1>3. CASE JoinWorkers
  BY <1>3 DEF JoinWorkers, RunnerStep, TypeOK, parsing, monitor, Workers, RunnerControl
<1>4. CASE CloseObservationQueue
  <2>1. observationQueue' \in QueueType(Seq(Observations), options.observationQueueCapacity)
    BY <1>1, <1>4, ClosedType DEF CloseObservationQueue, TypeOK
  <2> QED
    BY <1>4, <2>1 DEF CloseObservationQueue, RunnerStep, TypeOK, parsing, monitor, Workers,
                      RunnerControl
<1>5. CASE JoinAggregator
  BY <1>5 DEF JoinAggregator, RunnerStep, TypeOK, parsing, monitor, Workers, RunnerControl
<1> QED
  BY <1>2, <1>3, <1>4, <1>5 DEF Runner
\* A parser worker, moving on to a control point.
LEMMA WorkerGoesType ==
  ASSUME TypeOK, NEW w \in Workers, NEW to \in WorkerControl, WorkerGoes(w, to)
  PROVE  worker' \in [Workers -> [at : WorkerControl, packets : Seq(Packets),
                                  observations : Seq(Observations)]]
  BY DEF TypeOK, WorkerGoes

\* A first error is recorded; a later one changes nothing.
LEMMA SetErrorType ==
  ASSUME TypeOK, NEW message \in ErrorMessages, SetError(message)
  PROVE  error' \in ErrorMessages
  BY DEF TypeOK, SetError

\* The body of parserWorkerLoop.
LEMMA ParserWorkerType ==
  ASSUME TypeOK, NEW w \in Workers, ParserWorker(w)
  PROVE  TypeOK'
<1> DEFINE WorkerStates == [at : WorkerControl, packets : Seq(Packets),
                            observations : Seq(Observations)]
<1>1. /\ options.packetQueueCapacity \in Nat
      /\ options.observationQueueCapacity \in Nat
      /\ worker \in [Workers -> WorkerStates]
      /\ parsed \in [Packets -> Nat]
      /\ produced \in [Packets -> Nat]
  BY NormalOptionsType DEF TypeOK
<1>2. CASE PopPackets(w)
  <2>1. /\ packetQueue' \in QueueType(Seq(Packets), options.packetQueueCapacity)
        /\ Head(packetQueue.items) \in Seq(Packets)
    BY <1>1, <1>2, PoppedType DEF PopPackets, TypeOK
  <2>2. [at |-> "parsing", packets |-> Head(packetQueue.items), observations |-> <<>>]
          \in WorkerStates
    BY <2>1 DEF WorkerControl
  <2>3. worker' \in [Workers -> WorkerStates]
    BY <1>1, <1>2, <2>2 DEF PopPackets
  <2> QED
    BY <1>2, <2>1, <2>3 DEF PopPackets, TypeOK, capture, monitor, Workers
<1>3. CASE PacketsExhausted(w)
  <2>1. worker' \in [Workers -> WorkerStates]
    BY <1>3, WorkerGoesType DEF PacketsExhausted, WorkerControl
  <2> QED
    BY <1>3, <2>1 DEF PacketsExhausted, TypeOK, capture, monitor, Workers
<1>4. CASE ParsePacket(w)
  <2> DEFINE p == Head(worker[w].packets)
  <2>1. p \in Packets /\ Tail(worker[w].packets) \in Seq(Packets)
    BY <1>1, <1>4 DEF ParsePacket
  <2>2. PICK macs \in ParseResults :
          /\ produced' = [produced EXCEPT ![p] = @ + Len(macs)]
          /\ worker' = [worker EXCEPT ![w].packets = Tail(@),
                                      ![w].observations = @ \o ObservationsOf(p, macs)]
    BY <1>4 DEF ParsePacket
  <2>3. Len(macs) \in Nat /\ ObservationsOf(p, macs) \in Seq(Observations)
    BY <2>1, ObservationsOfType
  <2> HIDE DEF p
  <2>4. produced' \in [Packets -> Nat]
    BY <1>1, <2>1, <2>2, <2>3
  <2>5. worker[w].observations \o ObservationsOf(p, macs) \in Seq(Observations)
    BY <1>1, <2>3
  <2>6. worker' \in [Workers -> WorkerStates]
    BY <1>1, <2>1, <2>2, <2>5
  <2>7. parsed' \in [Packets -> Nat]
    <3>1. PICK S : parsed' = Bump(parsed, S)
      BY <1>4 DEF ParsePacket
    <3>2. parsed \in [Packets -> Nat]
      BY <1>1
    <3> QED
      BY <3>1, <3>2, BumpType
  <2> QED
    BY <1>4, <2>4, <2>6, <2>7 DEF ParsePacket, TypeOK, capture, monitor, Workers
<1>5. CASE ParserThrows(w)
  <2>1. worker' \in [Workers -> WorkerStates]
    BY <1>5, WorkerGoesType DEF ParserThrows, WorkerControl
  <2>2. error' \in ErrorMessages
    BY <1>5, SetErrorType DEF ParserThrows, ErrorMessages
  <2>3. parsed' \in [Packets -> Nat]
    <3>1. PICK S : parsed' = Bump(parsed, S)
      BY <1>5 DEF ParserThrows
    <3>2. parsed \in [Packets -> Nat]
      BY <1>1
    <3> QED
      BY <3>1, <3>2, BumpType
  <2> QED
    BY <1>5, <2>1, <2>2, <2>3 DEF ParserThrows, TypeOK, capture, monitor, Workers
<1>6. CASE NothingToPush(w)
  <2>1. worker' \in [Workers -> WorkerStates]
    BY <1>6, WorkerGoesType DEF NothingToPush, WorkerControl
  <2> QED
    BY <1>6, <2>1 DEF NothingToPush, TypeOK, capture, monitor, Workers
<1>7. CASE PushObservations(w)
  <2>1. worker' \in [Workers -> WorkerStates]
    BY <1>7, WorkerGoesType DEF PushObservations, WorkerControl
  <2>2. observationQueue' \in QueueType(Seq(Observations), options.observationQueueCapacity)
    BY <1>1, <1>7, PushedType DEF PushObservations, TypeOK
  <2> QED
    BY <1>7, <2>1, <2>2 DEF PushObservations, TypeOK, capture, monitor, Workers
<1>8. CASE PushRefused(w)
  <2>1. worker' \in [Workers -> WorkerStates]
    BY <1>8, WorkerGoesType DEF PushRefused, WorkerControl
  <2>2. error' \in ErrorMessages
    BY <1>8, SetErrorType DEF PushRefused, ErrorMessages
  <2> QED
    BY <1>8, <2>1, <2>2 DEF PushRefused, TypeOK, capture, monitor, Workers
<1>9. CASE WorkerClosesPackets(w)
  <2>1. worker' \in [Workers -> WorkerStates]
    BY <1>9, WorkerGoesType DEF WorkerClosesPackets, WorkerControl
  <2>2. packetQueue' \in QueueType(Seq(Packets), options.packetQueueCapacity)
    BY <1>1, <1>9, ClosedType DEF WorkerClosesPackets, TypeOK
  <2> QED
    BY <1>9, <2>1, <2>2 DEF WorkerClosesPackets, TypeOK, capture, monitor, Workers
<1>10. CASE WorkerClosesObservations(w)
  <2>1. worker' \in [Workers -> WorkerStates]
    BY <1>10, WorkerGoesType DEF WorkerClosesObservations, WorkerControl
  <2>2. observationQueue' \in QueueType(Seq(Observations), options.observationQueueCapacity)
    BY <1>1, <1>10, ClosedType DEF WorkerClosesObservations, TypeOK
  <2> QED
    BY <1>10, <2>1, <2>2 DEF WorkerClosesObservations, TypeOK, capture, monitor, Workers
<1> QED
  BY <1>2, <1>3, <1>4, <1>5, <1>6, <1>7, <1>8, <1>9, <1>10 DEF ParserWorker

\* The aggregator thread.
LEMMA AggregatorType ==
  ASSUME TypeOK, Aggregator
  PROVE  TypeOK'
<1> DEFINE AggregatorStates == [at : AggregatorControl, batch : Seq(Observations),
                                next : Nat \ {0}]
<1>1. /\ options.packetQueueCapacity \in Nat
      /\ options.observationQueueCapacity \in Nat
      /\ aggregator \in AggregatorStates
      /\ store \in [Macs -> 0 .. MaxPackets]
      /\ events \in [Macs -> Nat]
  BY NormalOptionsType DEF TypeOK
<1>2. ASSUME NEW to \in AggregatorControl, AggregatorGoes(to)
      PROVE  aggregator' \in AggregatorStates
  BY <1>1, <1>2 DEF AggregatorGoes
<1>3. CASE PopObservations
  <2>1. /\ observationQueue' \in QueueType(Seq(Observations), options.observationQueueCapacity)
        /\ Head(observationQueue.items) \in Seq(Observations)
    BY <1>1, <1>3, PoppedType DEF PopObservations, TypeOK
  <2>2. aggregator' \in AggregatorStates
    BY <1>3, <2>1 DEF PopObservations, AggregatorControl
  <2> QED
    BY <1>3, <2>1, <2>2 DEF PopObservations, TypeOK, capture, parsing, Workers
<1>4. CASE ObservationsExhausted
  <2>1. aggregator' \in AggregatorStates
    BY <1>2, <1>4 DEF ObservationsExhausted, AggregatorControl
  <2> QED
    BY <1>4, <2>1 DEF ObservationsExhausted, TypeOK, capture, parsing, Workers
<1>5. ASSUME aggregator.next <= Len(aggregator.batch)
      PROVE  /\ Current.packet \in Packets
             /\ Current.mac \in Macs
             /\ StoreApplies(Current) => store' \in [Macs -> 0 .. MaxPackets]
  <2>1. Current \in Observations
    BY <1>1, <1>5 DEF Current
  <2>2. Current.packet \in 0 .. MaxPackets
    BY <2>1, BoundAssumption DEF Observations, Packets
  <2> QED
    BY <2>1, <2>2 DEF Observations, StoreApplies, TypeOK
<1>6. CASE ApplyObservation
  <2>1. store' \in [Macs -> 0 .. MaxPackets]
    BY <1>5, <1>6 DEF ApplyObservation
  <2>2. events' \in [Macs -> Nat]
    <3>1. \E S \in SUBSET Macs : events' = Bump(events, S)
      BY <1>5, <1>6 DEF ApplyObservation
    <3> QED
      BY <1>1, <3>1, BumpType
  <2>3. aggregator' \in AggregatorStates
    BY <1>1, <1>6 DEF ApplyObservation
  <2> QED
    <3>1. /\ UNCHANGED <<options, runner, captureError, pending, packetQueue, observationQueue>>
          /\ UNCHANGED <<worker, error, captured, enqueued, dropped, parsed, produced, applied>>
      BY <1>6 DEF ApplyObservation, capture, parsing
    <3> QED
      BY <2>1, <2>2, <2>3, <3>1 DEF TypeOK, Workers
<1>7. CASE ApplyThrows
  <2>1. aggregator' \in AggregatorStates
    BY <1>2, <1>7 DEF ApplyThrows, AggregatorControl
  <2>2. error' \in ErrorMessages
    BY <1>7, SetErrorType DEF ApplyThrows, ErrorMessages
  <2>3. store' \in [Macs -> 0 .. MaxPackets]
    BY <1>5, <1>7 DEF ApplyThrows, TypeOK
  <2>4. events' \in [Macs -> Nat]
    <3>1. events' = events \/ events' = Bump(events, {Current.mac})
      BY <1>7 DEF ApplyThrows
    <3> QED
      BY <1>1, <3>1, BumpType
  <2> QED
    BY <1>7, <2>1, <2>2, <2>3, <2>4 DEF ApplyThrows, TypeOK, capture, parsing, Workers
<1>8. CASE CountBatch
  <2>1. ASSUME NEW p \in Packets
        PROVE  Cardinality({i \in DOMAIN aggregator.batch : aggregator.batch[i].packet = p}) \in Nat
    <3>1. DOMAIN aggregator.batch = 1 .. Len(aggregator.batch) /\ Len(aggregator.batch) \in Nat
      BY <1>1
    <3>2. IsFiniteSet(DOMAIN aggregator.batch)
      BY <3>1, FS_Interval
    <3> QED
      BY <3>2, FS_Subset, FS_CardinalityType
  <2>2. applied' \in [Packets -> Nat]
    <3> DEFINE times(p) == Cardinality({i \in DOMAIN aggregator.batch :
                                          aggregator.batch[i].packet = p})
    <3>1. applied' = [p \in Packets |-> applied[p] + times(p)]
      BY <1>8 DEF CountBatch
    <3>2. \A p \in Packets : times(p) \in Nat
      BY <2>1
    <3>3. \A p \in Packets : applied[p] \in Nat
      BY DEF TypeOK
    <3> HIDE DEF times
    <3> QED
      BY <3>1, <3>2, <3>3
  <2>3. aggregator' \in AggregatorStates
    BY <1>8 DEF CountBatch, AggregatorControl
  <2> QED
    BY <1>8, <2>2, <2>3 DEF CountBatch, TypeOK, capture, parsing, Workers
<1>9. CASE AggregatorClosesPackets
  <2>1. aggregator' \in AggregatorStates
    BY <1>2, <1>9 DEF AggregatorClosesPackets, AggregatorControl
  <2>2. packetQueue' \in QueueType(Seq(Packets), options.packetQueueCapacity)
    BY <1>1, <1>9, ClosedType DEF AggregatorClosesPackets, TypeOK
  <2> QED
    BY <1>9, <2>1, <2>2 DEF AggregatorClosesPackets, TypeOK, capture, parsing, Workers
<1>10. CASE AggregatorClosesObservations
  <2>1. aggregator' \in AggregatorStates
    BY <1>2, <1>10 DEF AggregatorClosesObservations, AggregatorControl
  <2>2. observationQueue' \in QueueType(Seq(Observations), options.observationQueueCapacity)
    BY <1>1, <1>10, ClosedType DEF AggregatorClosesObservations, TypeOK
  <2> QED
    BY <1>10, <2>1, <2>2 DEF AggregatorClosesObservations, TypeOK, capture, parsing, Workers
<1> QED
  BY <1>3, <1>4, <1>6, <1>7, <1>8, <1>9, <1>10 DEF Aggregator

\* The options a run starts with, and every thread in its initial state.
LEMMA InitType ==
  ASSUME Init
  PROVE  TypeOK
<1>1. options \in NormalOptions
  BY DEF Init, NormalOptions
<1>2. /\ options.packetQueueCapacity \in Nat
      /\ options.observationQueueCapacity \in Nat
  BY <1>1, NormalOptionsType
<1>3. /\ packetQueue \in QueueType(Seq(Packets), options.packetQueueCapacity)
      /\ observationQueue \in QueueType(Seq(Observations), options.observationQueueCapacity)
  BY <1>2, NewQueueType DEF Init
<1>4. worker \in [Workers -> [at : WorkerControl, packets : Seq(Packets),
                              observations : Seq(Observations)]]
  BY DEF Init, WorkerControl
<1>5. aggregator \in [at : AggregatorControl, batch : Seq(Observations), next : Nat \ {0}]
  BY DEF Init, AggregatorControl
<1>6. store \in [Macs -> 0 .. MaxPackets]
  BY BoundAssumption DEF Init
<1>7. /\ captured \in [Packets -> Nat]
      /\ enqueued \in [Packets -> Nat]
      /\ dropped \in [Packets -> Nat]
      /\ parsed \in [Packets -> Nat]
      /\ produced \in [Packets -> Nat]
      /\ applied \in [Packets -> Nat]
      /\ events \in [Macs -> Nat]
  BY DEF Init
<1>8. /\ runner \in RunnerControl
      /\ captureError \in BOOLEAN
      /\ pending = <<>>
      /\ error \in ErrorMessages
  BY DEF Init, RunnerControl, ErrorMessages
<1> QED
  BY <1>1, <1>3, <1>4, <1>5, <1>6, <1>7, <1>8 DEF TypeOK

\* Every reachable state of the pipeline is well typed: in particular neither
\* queue ever exceeds its capacity, and error_ is only ever one of the messages
\* the threads set.
THEOREM TypeCorrect == Spec => []TypeOK
<1>1. Init => TypeOK
  BY InitType
<1>2. TypeOK /\ [Next]_vars => TypeOK'
  <2> SUFFICES ASSUME TypeOK, [Next]_vars
               PROVE  TypeOK'
    OBVIOUS
  <2>1. CASE UNCHANGED vars
    BY <2>1 DEF vars, capture, parsing, monitor, TypeOK, Workers
  <2> QED
    BY <2>1, CaptureType, RunnerType, ParserWorkerType, AggregatorType DEF Next, Returned
<1> QED
  BY <1>1, <1>2, PTL DEF Spec
-----------------------------------------------------------------------------
(* Conservation.  PacketsConserved is inductive: a packet is captured once, *)
(* and a flush moves what the batch holds into exactly one counter.         *)

Waiting(batch, p) == IF p \in Range(batch) THEN 1 ELSE 0

\* No packet waits in an empty batch.
LEMMA NothingWaiting ==
  ASSUME NEW p
  PROVE  Waiting(<<>>, p) = 0
  BY DEF Waiting, Range

\* Appending to a batch adds one packet to those waiting in it.
LEMMA WaitingInBatch ==
  ASSUME NEW batch \in Seq(Packets), NEW p \in Packets
  PROVE  Range(Append(batch, p)) = Range(batch) \union {p}
<1> DEFINE longer == Append(batch, p)
<1>1. /\ DOMAIN batch = 1 .. Len(batch)
      /\ Len(batch) \in Nat
      /\ DOMAIN longer = 1 .. (Len(batch) + 1)
      /\ longer[Len(batch) + 1] = p
      /\ \A i \in 1 .. Len(batch) : longer[i] = batch[i]
  OBVIOUS
<1> HIDE DEF longer
<1>2. Range(longer) \subseteq Range(batch) \union {p}
  <2> SUFFICES ASSUME NEW i \in DOMAIN longer
               PROVE  longer[i] \in Range(batch) \union {p}
    BY DEF Range
  <2>1. i \in 1 .. Len(batch) \/ i = Len(batch) + 1
    BY <1>1
  <2> QED
    BY <1>1, <2>1 DEF Range
<1>3. Range(batch) \union {p} \subseteq Range(longer)
  <2>1. ASSUME NEW i \in DOMAIN batch
        PROVE  batch[i] \in Range(longer)
    <3>1. i \in DOMAIN longer /\ longer[i] = batch[i]
      BY <1>1
    <3> QED
      BY <3>1 DEF Range
  <2>2. p \in Range(longer)
    <3>1. Len(batch) + 1 \in DOMAIN longer
      BY <1>1
    <3> QED
      BY <1>1, <3>1 DEF Range
  <2> QED
    BY <2>1, <2>2 DEF Range
<1> QED
  BY <1>2, <1>3 DEF longer

\* A flush counts every packet of the batch once and leaves none pending.
LEMMA FlushConserves ==
  ASSUME TypeOK, NEW batch \in Seq(Packets), FlushPacketBatch(batch), NEW p \in Packets
  PROVE  enqueued'[p] + dropped'[p] + Waiting(pending', p)
           = enqueued[p] + dropped[p] + Waiting(batch, p)
<1>1. Waiting(pending', p) = 0
  BY NothingWaiting DEF FlushPacketBatch
<1>2. enqueued \in [Packets -> Nat] /\ dropped \in [Packets -> Nat]
  BY DEF TypeOK
<1>3. CASE batch = <<>> /\ UNCHANGED <<enqueued, dropped>>
  <2>1. Waiting(batch, p) = 0
    BY <1>3, NothingWaiting
  <2> QED
    BY <1>1, <1>2, <1>3, <2>1
<1>4. CASE enqueued' = Bump(enqueued, Range(batch)) /\ UNCHANGED dropped
  <2>1. enqueued'[p] = enqueued[p] + Waiting(batch, p)
    BY <1>2, <1>4, BumpType DEF Waiting
  <2>2. Waiting(batch, p) \in Nat
    BY DEF Waiting
  <2> QED
    BY <1>1, <1>2, <1>4, <2>1, <2>2
<1>5. CASE dropped' = Bump(dropped, Range(batch)) /\ UNCHANGED enqueued
  <2>1. dropped'[p] = dropped[p] + Waiting(batch, p)
    BY <1>2, <1>5, BumpType DEF Waiting
  <2>2. Waiting(batch, p) \in Nat
    BY DEF Waiting
  <2> QED
    BY <1>1, <1>2, <1>5, <2>1, <2>2
<1> QED
  BY <1>3, <1>4, <1>5 DEF FlushPacketBatch

\* Only the thread that runs the capture touches the pending batch and the
\* counters of captured, enqueued and dropped packets.
LEMMA OthersLeaveCapture ==
  ASSUME Runner \/ (\E w \in Workers : ParserWorker(w)) \/ Aggregator
  PROVE  UNCHANGED <<pending, captured, enqueued, dropped>>
<1>1. CASE Runner
  BY <1>1 DEF Runner, ClosePacketQueue, JoinWorkers, CloseObservationQueue, JoinAggregator,
              RunnerStep
<1>2. ASSUME NEW w \in Workers, ParserWorker(w)
      PROVE  UNCHANGED capture
  BY <1>2 DEF ParserWorker, PopPackets, PacketsExhausted, ParsePacket, ParserThrows,
              NothingToPush, PushObservations, PushRefused, WorkerClosesPackets,
              WorkerClosesObservations
<1>3. CASE Aggregator
  <2>1. UNCHANGED capture
    BY <1>3 DEF Aggregator, PopObservations, ObservationsExhausted, ApplyObservation,
                ApplyThrows, CountBatch, AggregatorClosesPackets,
                AggregatorClosesObservations
  <2> QED
    BY <2>1 DEF capture
<1> QED
  BY <1>1, <1>2, <1>3 DEF capture

\* packets_captured = packets_enqueued + packets_dropped_queue_full + pending,
\* per packet and at every moment, for any batch size and queue capacity.
THEOREM EveryPacketCounted == Spec => []PacketsConserved
<1> DEFINE Balanced(p) ==
             captured[p] = enqueued[p] + dropped[p] + Waiting(pending, p) /\ captured[p] <= 1
<1>0. PacketsConserved <=> \A p \in Packets : Balanced(p)
  BY DEF PacketsConserved, Waiting
<1>0p. PacketsConserved' <=> \A p \in Packets : Balanced(p)'
  BY DEF PacketsConserved, Waiting
<1>1. Init => PacketsConserved
  <2> SUFFICES ASSUME Init, NEW p \in Packets
               PROVE  Balanced(p)
    BY <1>0
  <2>1. Waiting(pending, p) = 0
    <3>1. pending = <<>>
      BY DEF Init
    <3> QED
      BY <3>1, NothingWaiting
  <2> QED
    BY <2>1 DEF Init
<1>2. TypeOK /\ TypeOK' /\ PacketsConserved /\ [Next]_vars => PacketsConserved'
  <2> SUFFICES ASSUME TypeOK, TypeOK', PacketsConserved, [Next]_vars, NEW p \in Packets
               PROVE  Balanced(p)'
    BY <1>0p
  <2>0. /\ captured[p] \in Nat /\ enqueued[p] \in Nat /\ dropped[p] \in Nat
        /\ captured \in [Packets -> Nat]
        /\ enqueued'[p] \in Nat /\ dropped'[p] \in Nat
        /\ pending \in Seq(Packets)
        /\ Waiting(pending, p) \in Nat
        /\ Waiting(pending', p) \in Nat
        /\ Balanced(p)
    BY <1>0 DEF TypeOK, Waiting
  <2>1. ASSUME NEW q \in Packets, EnqueuePacket(q)
        PROVE  Balanced(p)'
    <3> DEFINE batch == Append(pending, q)
    <3>1. batch \in Seq(Packets) /\ Range(batch) = Range(pending) \union {q}
      BY <2>0, WaitingInBatch
    <3>2. captured'[p] = captured[p] + (IF p = q THEN 1 ELSE 0)
      BY <2>0, <2>1, BumpType DEF EnqueuePacket
    <3>3. p = q => captured[p] = 0
      BY <2>1 DEF EnqueuePacket
    <3>4. Waiting(batch, p) = Waiting(pending, p) + (IF p = q THEN 1 ELSE 0)
      BY <2>0, <3>1, <3>3 DEF Waiting
    <3>5. enqueued'[p] + dropped'[p] + Waiting(pending', p)
            = enqueued[p] + dropped[p] + Waiting(batch, p)
      <4>1. CASE FlushPacketBatch(batch)
        BY <3>1, <4>1, FlushConserves
      <4>2. CASE pending' = batch /\ UNCHANGED <<enqueued, dropped>>
        BY <4>2
      <4> QED
        BY <2>1, <4>1, <4>2 DEF EnqueuePacket
    <3> HIDE DEF batch
    <3>6. captured'[p] = enqueued'[p] + dropped'[p] + Waiting(pending', p)
      BY <2>0, <3>2, <3>4, <3>5
    <3> QED
      BY <2>0, <3>2, <3>3, <3>6
  <2>2. CASE EndCapture
    <3>1. enqueued'[p] + dropped'[p] + Waiting(pending', p)
            = enqueued[p] + dropped[p] + Waiting(pending, p)
      BY <2>0, <2>2, FlushConserves DEF EndCapture
    <3>2. captured' = captured
      BY <2>2 DEF EndCapture
    <3> QED
      BY <2>0, <3>1, <3>2
  <2>3. CASE UNCHANGED <<pending, captured, enqueued, dropped>>
    BY <2>0, <2>3
  <2>4. CASE UNCHANGED vars
    BY <2>3, <2>4 DEF vars, capture
  <2> QED
    BY <2>1, <2>2, <2>3, <2>4, OthersLeaveCapture DEF Next, Returned
<1> QED
  BY <1>1, <1>2, TypeCorrect, PTL DEF Spec

-----------------------------------------------------------------------------
(* The order of a shutdown.                                                *)

\* Who may have closed the observation queue, and when: a thread that failed,
\* and has reported its failure first, or run() after it joined the workers.
ShutdownOrder ==
  /\ observationQueue.closed => error # "none" \/ runner \in {"joinAggregator", "returned"}
  /\ \A w \in Workers :
       worker[w].at \in {"closePackets", "refused", "closeObservations"} => error # "none"
  /\ aggregator.at \in {"closePackets", "closeObservations"} => error # "none"
  /\ runner \in {"closeObservations", "joinAggregator", "returned"} =>
       \A w \in Workers : worker[w].at = "done"
  /\ runner = "returned" => aggregator.at = "done"
  /\ RefusalIsNeverTheCause

\* A worker that is not done finds every failure reported and no one to close the
\* observation queue behind its back.
LEMMA WorkerKeepsShutdownOrder ==
  ASSUME TypeOK, ShutdownOrder, NEW w \in Workers, ParserWorker(w)
  PROVE  ShutdownOrder'
<1>0. /\ worker \in [Workers -> [at : WorkerControl, packets : Seq(Packets),
                                 observations : Seq(Observations)]]
      /\ Workers' = Workers
      /\ runner' = runner
      /\ aggregator' = aggregator
      /\ worker[w].at # "done"
  BY DEF ParserWorker, PopPackets, PacketsExhausted, ParsePacket, ParserThrows, NothingToPush,
         PushObservations, PushRefused, WorkerClosesPackets, WorkerClosesObservations,
         BatchParsed, Workers, capture, monitor, TypeOK
<1>1. runner \notin {"closeObservations", "joinAggregator", "returned"}
  BY <1>0 DEF ShutdownOrder
<1>2. \A v \in Workers : v # w => worker'[v] = worker[v]
  BY <1>0 DEF ParserWorker, PopPackets, PacketsExhausted, ParsePacket, ParserThrows,
         NothingToPush, PushObservations, PushRefused, WorkerClosesPackets,
         WorkerClosesObservations, WorkerGoes
<1>3. ASSUME /\ error # "none" => error' # "none"
             /\ error' # "observation queue closed"
             /\ observationQueue'.closed => error' # "none"
             /\ worker'[w].at \in {"closePackets", "refused", "closeObservations"}
                  => error' # "none"
      PROVE  ShutdownOrder'
  BY <1>0, <1>1, <1>2, <1>3 DEF ShutdownOrder, RefusalIsNeverTheCause
<1>4. /\ observationQueue.closed => error # "none"
      /\ error # "observation queue closed"
      /\ worker[w].at \in {"closePackets", "refused", "closeObservations"} => error # "none"
  BY <1>1 DEF ShutdownOrder, RefusalIsNeverTheCause
<1>5. CASE PopPackets(w)
  BY <1>0, <1>3, <1>4, <1>5 DEF PopPackets
<1>6. CASE PacketsExhausted(w)
  BY <1>0, <1>3, <1>4, <1>6 DEF PacketsExhausted, WorkerGoes
<1>7. CASE ParsePacket(w)
  <2>1. worker'[w].at = "parsing"
    BY <1>0, <1>7 DEF ParsePacket
  <2> QED
    BY <2>1, <1>3, <1>4, <1>7 DEF ParsePacket
<1>8. CASE ParserThrows(w)
  BY <1>0, <1>3, <1>4, <1>8 DEF ParserThrows, WorkerGoes, SetError
<1>9. CASE NothingToPush(w)
  BY <1>0, <1>3, <1>4, <1>9 DEF NothingToPush, WorkerGoes
<1>10. CASE PushObservations(w)
  BY <1>0, <1>3, <1>4, <1>10 DEF PushObservations, WorkerGoes, Pushed
<1>11. CASE PushRefused(w)
  BY <1>0, <1>3, <1>4, <1>11 DEF PushRefused, WorkerGoes, SetError
<1>12. CASE WorkerClosesPackets(w)
  BY <1>0, <1>3, <1>4, <1>12 DEF WorkerClosesPackets, WorkerGoes
<1>13. CASE WorkerClosesObservations(w)
  BY <1>0, <1>3, <1>4, <1>13 DEF WorkerClosesObservations, WorkerGoes
<1> QED
  BY <1>5, <1>6, <1>7, <1>8, <1>9, <1>10, <1>11, <1>12, <1>13 DEF ParserWorker

\* A failed aggregator reports before it closes anything.
LEMMA AggregatorKeepsShutdownOrder ==
  ASSUME TypeOK, ShutdownOrder, Aggregator
  PROVE  ShutdownOrder'
<1>0. /\ aggregator \in [at : AggregatorControl, batch : Seq(Observations), next : Nat \ {0}]
      /\ Workers' = Workers
      /\ runner' = runner
      /\ worker' = worker
      /\ aggregator.at # "done"
  BY DEF Aggregator, PopObservations, ObservationsExhausted, ApplyObservation, ApplyThrows,
         CountBatch, AggregatorClosesPackets, AggregatorClosesObservations, Workers, capture,
         parsing, TypeOK
<1>1. ASSUME /\ error # "none" => error' # "none"
             /\ error' # "observation queue closed"
             /\ observationQueue'.closed => observationQueue.closed \/ error' # "none"
             /\ aggregator'.at \in {"closePackets", "closeObservations"} => error' # "none"
      PROVE  ShutdownOrder'
  BY <1>0, <1>1 DEF ShutdownOrder, RefusalIsNeverTheCause
<1>2. /\ error # "observation queue closed"
      /\ aggregator.at \in {"closePackets", "closeObservations"} => error # "none"
  BY DEF ShutdownOrder, RefusalIsNeverTheCause
<1>3. CASE PopObservations
  BY <1>0, <1>1, <1>2, <1>3 DEF PopObservations, Popped
<1>4. CASE ObservationsExhausted
  BY <1>0, <1>1, <1>2, <1>4 DEF ObservationsExhausted, AggregatorGoes
<1>5. CASE ApplyObservation
  BY <1>0, <1>1, <1>2, <1>5 DEF ApplyObservation
<1>6. CASE ApplyThrows
  BY <1>0, <1>1, <1>2, <1>6 DEF ApplyThrows, AggregatorGoes, SetError
<1>7. CASE CountBatch
  BY <1>0, <1>1, <1>2, <1>7 DEF CountBatch
<1>8. CASE AggregatorClosesPackets
  BY <1>0, <1>1, <1>2, <1>8 DEF AggregatorClosesPackets, AggregatorGoes
<1>9. CASE AggregatorClosesObservations
  BY <1>0, <1>1, <1>2, <1>9 DEF AggregatorClosesObservations, AggregatorGoes
<1> QED
  BY <1>3, <1>4, <1>5, <1>6, <1>7, <1>8, <1>9 DEF Aggregator

\* ShutdownOrder holds in every reachable state.
LEMMA ShutdownInOrder == Spec => []ShutdownOrder
<1>1. Init => ShutdownOrder
  BY DEF Init, ShutdownOrder, NewQueue, RefusalIsNeverTheCause
<1>2. TypeOK /\ ShutdownOrder /\ [Next]_vars => ShutdownOrder'
  <2> SUFFICES ASSUME TypeOK, ShutdownOrder, [Next]_vars
               PROVE  ShutdownOrder'
    OBVIOUS
  <2>1. CASE UNCHANGED vars
    BY <2>1 DEF vars, capture, parsing, monitor, ShutdownOrder, RefusalIsNeverTheCause, Workers
  <2>2. CASE (\E p \in Packets : EnqueuePacket(p)) \/ EndCapture
    BY <2>2 DEF EnqueuePacket, EndCapture, parsing, monitor, ShutdownOrder,
                RefusalIsNeverTheCause, Workers
  <2>3. CASE Runner
    <3>1. CASE ClosePacketQueue
      BY <3>1 DEF ClosePacketQueue, RunnerStep, parsing, monitor, ShutdownOrder,
                  RefusalIsNeverTheCause, Workers
    <3>2. CASE JoinWorkers
      BY <3>2 DEF JoinWorkers, RunnerStep, parsing, monitor, ShutdownOrder,
                  RefusalIsNeverTheCause, Workers
    <3>3. CASE CloseObservationQueue
      BY <3>3 DEF CloseObservationQueue, RunnerStep, parsing, monitor, ShutdownOrder,
                  RefusalIsNeverTheCause, Workers
    <3>4. CASE JoinAggregator
      BY <3>4 DEF JoinAggregator, RunnerStep, parsing, monitor, ShutdownOrder,
                  RefusalIsNeverTheCause, Workers
    <3> QED
      BY <2>3, <3>1, <3>2, <3>3, <3>4 DEF Runner
  <2> QED
    BY <2>1, <2>2, <2>3, WorkerKeepsShutdownOrder, AggregatorKeepsShutdownOrder
       DEF Next, Returned
<1> QED
  BY <1>1, <1>2, TypeCorrect, PTL DEF Spec

\* The reported error is never the refusal of a push: whoever closed the
\* observation queue under a worker's feet had called setError before.
THEOREM RefusalNeverReported == Spec => []RefusalIsNeverTheCause
<1>1. ShutdownOrder => RefusalIsNeverTheCause
  BY DEF ShutdownOrder
<1> QED
  BY <1>1, ShutdownInOrder, PTL

-----------------------------------------------------------------------------
(* Where the packets are.                                                  *)

\* What a worker still has to parse of its batch.
Left(w) == IF worker[w].at = "parsing" THEN worker[w].packets ELSE <<>>

\* No element is in both sequences.
Disjoint(s, t) == Range(s) \intersect Range(t) = {}

\* No packet is in two places, or twice in one; what waits for a parser was
\* accepted and has not been parsed.
PacketPlaces ==
  LET items == packetQueue.items
  IN  /\ IsInjective(pending)
      /\ \A i \in DOMAIN items : IsInjective(items[i])
      /\ \A w \in Workers : IsInjective(Left(w))
      /\ \A i, j \in DOMAIN items : i # j => Disjoint(items[i], items[j])
      /\ \A v, w \in Workers : v # w => Disjoint(Left(v), Left(w))
      /\ \A i \in DOMAIN items, w \in Workers : Disjoint(items[i], Left(w))
      /\ \A i \in DOMAIN items : \A p \in Range(items[i]) : enqueued[p] = 1 /\ parsed[p] = 0
      /\ \A w \in Workers : \A p \in Range(Left(w)) : enqueued[p] = 1 /\ parsed[p] = 0
      /\ ParsedAtMostOnce

\* Unless a thread has failed, an accepted packet that is not parsed is waiting
\* for a parser.
NothingMislaid ==
  error = "none" =>
    \A p \in Packets :
      \/ enqueued[p] = parsed[p]
      \/ \E i \in DOMAIN packetQueue.items : p \in Range(packetQueue.items[i])
      \/ \E w \in Workers : p \in Range(Left(w))

\* An element of a sequence is in its range.
LEMMA RangeOfSeq ==
  ASSUME NEW S, NEW s \in Seq(S)
  PROVE  /\ \A p : p \in Range(s) <=> \E k \in 1 .. Len(s) : s[k] = p
         /\ Range(s) \subseteq S
  BY DEF Range

\* A counter incremented for one packet.
LEMMA BumpOne ==
  ASSUME NEW Index, NEW counter \in [Index -> Nat], NEW p \in Index,
         NEW next, next = Bump(counter, {p})
  PROVE  /\ next[p] = counter[p] + 1
         /\ \A q \in Index : q # p => next[q] = counter[q]
<1>1. \A q \in Index : next[q] = counter[q] + (IF q \in {p} THEN 1 ELSE 0)
  BY BumpType
<1>2. \A q \in Index : counter[q] \in Nat
  OBVIOUS
<1>3. ASSUME NEW q \in Index, q # p
      PROVE  next[q] = counter[q]
  <2>1. next[q] = counter[q] + 0
    BY <1>1, <1>3
  <2> QED
    BY <1>2, <2>1
<1>4. next[p] = counter[p] + 1
  BY <1>1
<1> QED
  BY <1>3, <1>4

\* parsed counts the packet that is parsed and no other.
LEMMA OnePacketParsed ==
  ASSUME TypeOK, NEW p \in Packets, parsed' = Bump(parsed, {p})
  PROVE  /\ parsed'[p] = parsed[p] + 1
         /\ \A q \in Packets : q # p => parsed'[q] = parsed[q]
<1>1. parsed \in [Packets -> Nat]
  BY DEF TypeOK
<1> QED
  BY <1>1, BumpOne

\* A batch without repetition keeps none when it grows by a packet it lacks.
LEMMA AppendInjective ==
  ASSUME NEW S, NEW s \in Seq(S), NEW p \in S, IsInjective(s), p \notin Range(s)
  PROVE  IsInjective(Append(s, p))
<1> DEFINE t == Append(s, p)
<1>1. /\ DOMAIN t = 1 .. (Len(s) + 1) /\ t[Len(s) + 1] = p
      /\ \A i \in 1 .. Len(s) : t[i] = s[i] /\ t[i] # p
      /\ DOMAIN s = 1 .. Len(s) /\ Len(s) \in Nat
  BY DEF Range
<1> HIDE DEF t
<1>2. \A i, j \in DOMAIN t : t[i] = t[j] => i = j
  <2> SUFFICES ASSUME NEW i \in DOMAIN t, NEW j \in DOMAIN t, t[i] = t[j]
               PROVE  i = j
    OBVIOUS
  <2>1. CASE i \in 1 .. Len(s) /\ j \in 1 .. Len(s)
    BY <1>1, <2>1 DEF IsInjective
  <2>2. CASE i = Len(s) + 1 \/ j = Len(s) + 1
    BY <1>1, <2>2
  <2> QED
    BY <1>1, <2>1, <2>2
<1> QED
  BY <1>2 DEF t, IsInjective

\* Taking the first packet of a batch leaves the others.
LEMMA TailOfInjective ==
  ASSUME NEW S, NEW s \in Seq(S), s # <<>>, IsInjective(s)
  PROVE  /\ IsInjective(Tail(s))
         /\ Range(Tail(s)) = Range(s) \ {Head(s)}
         /\ Head(s) \in Range(s)
<1> DEFINE t == Tail(s)
<1>1. /\ DOMAIN t = 1 .. (Len(s) - 1) /\ Len(s) \in Nat \ {0}
      /\ \A i \in 1 .. (Len(s) - 1) : t[i] = s[i + 1]
      /\ DOMAIN s = 1 .. Len(s) /\ Head(s) = s[1]
  OBVIOUS
<1>2. \A i, j \in 1 .. Len(s) : s[i] = s[j] => i = j
  BY <1>1 DEF IsInjective
<1> HIDE DEF t
<1>3. \A i, j \in DOMAIN t : t[i] = t[j] => i = j
  <2> SUFFICES ASSUME NEW i \in 1 .. (Len(s) - 1), NEW j \in 1 .. (Len(s) - 1), t[i] = t[j]
               PROVE  i = j
    BY <1>1
  <2>1. s[i + 1] = s[j + 1] /\ i + 1 \in 1 .. Len(s) /\ j + 1 \in 1 .. Len(s)
    BY <1>1
  <2>2. i + 1 = j + 1
    BY <1>2, <2>1
  <2> QED
    BY <2>2
<1>4. Range(t) \subseteq Range(s) \ {Head(s)}
  <2> SUFFICES ASSUME NEW i \in 1 .. (Len(s) - 1)
               PROVE  t[i] \in Range(s) /\ t[i] # s[1]
    BY <1>1 DEF Range
  <2>1. i + 1 \in 1 .. Len(s) /\ 1 \in 1 .. Len(s) /\ i + 1 # 1
    BY <1>1
  <2> QED
    BY <1>1, <1>2, <2>1 DEF Range
<1>5. Range(s) \ {Head(s)} \subseteq Range(t)
  <2> SUFFICES ASSUME NEW i \in 1 .. Len(s), s[i] # s[1]
               PROVE  s[i] \in Range(t)
    BY <1>1 DEF Range
  <2>1. i - 1 \in 1 .. (Len(s) - 1) /\ (i - 1) + 1 = i
    BY <1>1
  <2>2. t[i - 1] = s[i]
    BY <1>1, <2>1
  <2> QED
    BY <1>1, <2>1, <2>2 DEF Range
<1>6. Head(s) \in Range(s)
  BY <1>1 DEF Range
<1>7. IsInjective(t)
  BY <1>3 DEF IsInjective
<1> QED
  BY <1>4, <1>5, <1>6, <1>7 DEF t

\* Each place is a sequence of packets.
LEMMA PlacesType ==
  ASSUME TypeOK
  PROVE  /\ packetQueue.items \in Seq(Seq(Packets))
         /\ \A i \in DOMAIN packetQueue.items : /\ packetQueue.items[i] \in Seq(Packets)
                                               /\ Range(packetQueue.items[i]) \subseteq Packets
         /\ \A w \in Workers : Left(w) \in Seq(Packets) /\ Range(Left(w)) \subseteq Packets
<1> DEFINE items == packetQueue.items
<1>1. items \in Seq(Seq(Packets))
  BY DEF TypeOK, QueueType
<1>2. \A w \in Workers : Left(w) \in Seq(Packets)
  BY DEF TypeOK, Left
<1> HIDE DEF items
<1>3. \A i \in DOMAIN items : items[i] \in Seq(Packets)
  BY <1>1
<1> QED
  BY <1>1, <1>2, <1>3, RangeOfSeq DEF items

\* A batch that the queue takes holds packets that are in no place yet.
LEMMA FlushKeepsPlaces ==
  ASSUME TypeOK, PacketPlaces, NEW batch \in Seq(Packets), FlushPacketBatch(batch),
         IsInjective(batch), \A p \in Range(batch) : enqueued[p] = 0,
         UNCHANGED <<options, worker, parsed>>
  PROVE  PacketPlaces'
<1> DEFINE items == packetQueue.items
<1>0. /\ items \in Seq(Seq(Packets))
      /\ enqueued \in [Packets -> Nat] /\ parsed \in [Packets -> Nat]
      /\ Workers' = Workers
      /\ \A w \in Workers : Left(w)' = Left(w) /\ Range(Left(w)) \subseteq Packets
      /\ Range(batch) \subseteq Packets
      /\ \A i \in DOMAIN items : Range(items[i]) \subseteq Packets
  <2>1. \A w \in Workers : Left(w)' = Left(w)
    BY DEF Left
  <2>2. enqueued \in [Packets -> Nat] /\ parsed \in [Packets -> Nat]
    BY DEF TypeOK
  <2>3. Workers' = Workers
    BY DEF Workers
  <2> QED
    BY <2>1, <2>2, <2>3, PlacesType, RangeOfSeq
<1>1. IsInjective(pending')
  BY DEF FlushPacketBatch, IsInjective
<1>2. CASE UNCHANGED <<packetQueue, enqueued>>
  BY <1>0, <1>1, <1>2 DEF PacketPlaces, ParsedAtMostOnce, Disjoint
<1>3. CASE packetQueue' = Pushed(packetQueue, batch) /\ enqueued' = Bump(enqueued, Range(batch))
  <2> DEFINE n == Len(items) + 1
  <2>1. /\ n \in Nat /\ DOMAIN items = 1 .. Len(items) /\ Len(items) \in Nat
        /\ DOMAIN items' = 1 .. n
        /\ items'[n] = batch
        /\ \A i \in DOMAIN items : i \in 1 .. n /\ i # n /\ items'[i] = items[i]
        /\ \A i \in 1 .. n : i = n \/ i \in DOMAIN items
    BY <1>0, <1>3 DEF Pushed
  <2>2. \A p \in Packets : enqueued'[p] = enqueued[p] + (IF p \in Range(batch) THEN 1 ELSE 0)
    <3>1. enqueued' = Bump(enqueued, Range(batch)) /\ enqueued \in [Packets -> Nat]
      BY <1>0, <1>3
    <3> QED
      BY <3>1, BumpType
  <2>3. \A p \in Range(batch) : enqueued[p] = 0 /\ parsed[p] = 0 /\ enqueued'[p] = 1
    BY <1>0, <2>2 DEF PacketPlaces, ParsedAtMostOnce
  <2>4. \A p \in Packets : p \notin Range(batch) => enqueued'[p] = enqueued[p]
    BY <1>0, <2>2
  <2>5. \A i \in DOMAIN items : Disjoint(items[i], batch) /\ Disjoint(batch, items[i])
    BY <2>3 DEF PacketPlaces, Disjoint
  <2>6. \A w \in Workers : Disjoint(batch, Left(w))
    BY <2>3 DEF PacketPlaces, Disjoint
  <2> HIDE DEF n, items
  <2>7. /\ \A i \in DOMAIN items' : IsInjective(items'[i])
        /\ \A w \in Workers : IsInjective(Left(w)')
        /\ \A v, w \in Workers : v # w => Disjoint(Left(v)', Left(w)')
    BY <1>0, <2>1 DEF PacketPlaces, items
  <2>8. /\ \A i, j \in DOMAIN items' : i # j => Disjoint(items'[i], items'[j])
        /\ \A i \in DOMAIN items', w \in Workers : Disjoint(items'[i], Left(w)')
    <3>1. /\ \A i, j \in DOMAIN items : i # j => Disjoint(items[i], items[j])
          /\ \A i \in DOMAIN items, w \in Workers : Disjoint(items[i], Left(w))
      BY DEF PacketPlaces, items
    <3>2. ASSUME NEW i \in DOMAIN items', NEW j \in DOMAIN items', i # j
          PROVE  Disjoint(items'[i], items'[j])
      <4>1. CASE i = n
        <5>1. j \in DOMAIN items /\ items'[i] = batch /\ items'[j] = items[j]
          BY <2>1, <3>2, <4>1
        <5> QED
          BY <2>5, <5>1
      <4>2. CASE j = n
        <5>1. i \in DOMAIN items /\ items'[j] = batch /\ items'[i] = items[i]
          BY <2>1, <3>2, <4>2
        <5> QED
          BY <2>5, <5>1
      <4>3. CASE i # n /\ j # n
        BY <2>1, <3>1, <3>2, <4>3
      <4> QED
        BY <4>1, <4>2, <4>3
    <3>3. ASSUME NEW i \in DOMAIN items', NEW w \in Workers
          PROVE  Disjoint(items'[i], Left(w)')
      <4>1. Left(w)' = Left(w)
        BY <1>0
      <4>2. CASE i = n
        <5>1. items'[i] = batch
          BY <2>1, <4>2
        <5> QED
          BY <2>6, <4>1, <5>1
      <4>3. CASE i # n
        <5>1. i \in DOMAIN items /\ items'[i] = items[i]
          BY <2>1, <4>3
        <5> QED
          BY <3>1, <4>1, <5>1
      <4> QED
        BY <4>2, <4>3
    <3> QED
      BY <3>2, <3>3
  <2>9. \A i \in DOMAIN items' : \A p \in Range(items'[i]) : enqueued'[p] = 1 /\ parsed[p] = 0
    <3> SUFFICES ASSUME NEW i \in DOMAIN items', NEW p \in Range(items'[i])
                 PROVE  enqueued'[p] = 1 /\ parsed[p] = 0
      OBVIOUS
    <3>1. CASE i = n
      BY <2>1, <2>3, <3>1
    <3>2. CASE i \in DOMAIN items
      <4>1. p \in Range(items[i]) /\ p \in Packets
        BY <1>0, <2>1, <3>2
      <4>2. enqueued[p] = 1 /\ parsed[p] = 0
        BY <3>2, <4>1 DEF PacketPlaces, items
      <4> QED
        BY <2>3, <2>4, <4>1, <4>2
    <3> QED
      BY <2>1, <3>1, <3>2
  <2>10. \A w \in Workers : \A p \in Range(Left(w)') : enqueued'[p] = 1 /\ parsed[p] = 0
    <3> SUFFICES ASSUME NEW w \in Workers, NEW p \in Range(Left(w))
                 PROVE  enqueued'[p] = 1 /\ parsed[p] = 0
      BY <1>0
    <3>1. enqueued[p] = 1 /\ parsed[p] = 0 /\ p \in Packets
      BY <1>0 DEF PacketPlaces
    <3> QED
      BY <2>3, <2>4, <3>1
  <2>11. \A p \in Packets : parsed[p] <= enqueued'[p]
    <3> SUFFICES ASSUME NEW p \in Packets
                 PROVE  parsed[p] <= enqueued'[p]
      OBVIOUS
    <3>1. parsed[p] <= enqueued[p] /\ parsed[p] \in Nat /\ enqueued[p] \in Nat
      BY <1>0 DEF PacketPlaces, ParsedAtMostOnce
    <3> QED
      BY <2>2, <3>1
  <2> QED
    BY <1>0, <1>1, <2>7, <2>8, <2>9, <2>10, <2>11 DEF PacketPlaces, ParsedAtMostOnce, items
<1> QED
  BY <1>2, <1>3 DEF FlushPacketBatch

\* What a flush takes is waiting in the queue; nothing else moves.
LEMMA FlushMislaysNothing ==
  ASSUME TypeOK, NothingMislaid, NEW batch \in Seq(Packets), FlushPacketBatch(batch),
         UNCHANGED <<options, worker, parsed, error>>
  PROVE  NothingMislaid'
<1> DEFINE items == packetQueue.items
<1>0. /\ items \in Seq(Seq(Packets))
      /\ enqueued \in [Packets -> Nat] /\ parsed \in [Packets -> Nat]
      /\ Workers' = Workers
      /\ \A w \in Workers : Left(w)' = Left(w)
  BY DEF TypeOK, QueueType, Workers, Left
<1>1. CASE UNCHANGED <<packetQueue, enqueued>>
  BY <1>0, <1>1 DEF NothingMislaid
<1>2. CASE packetQueue' = Pushed(packetQueue, batch) /\ enqueued' = Bump(enqueued, Range(batch))
  <2> DEFINE n == Len(items) + 1
  <2>1. /\ n \in DOMAIN items' /\ items'[n] = batch
        /\ \A i \in DOMAIN items : i \in DOMAIN items' /\ items'[i] = items[i]
    BY <1>0, <1>2 DEF Pushed
  <2>2. \A p \in Packets : enqueued'[p] = enqueued[p] + (IF p \in Range(batch) THEN 1 ELSE 0)
    <3>1. enqueued' = Bump(enqueued, Range(batch)) /\ enqueued \in [Packets -> Nat]
      BY <1>0, <1>2
    <3> QED
      BY <3>1, BumpType
  <2> HIDE DEF n, items
  <2> SUFFICES ASSUME error = "none", NEW p \in Packets, enqueued'[p] # parsed[p],
                      ~ \E w \in Workers : p \in Range(Left(w))
               PROVE  \E i \in DOMAIN items' : p \in Range(items'[i])
    BY <1>0 DEF NothingMislaid, items
  <2>3. CASE p \in Range(batch)
    BY <2>1, <2>3
  <2>4. CASE p \notin Range(batch)
    <3>1. enqueued[p] # parsed[p]
      BY <1>0, <2>2, <2>4
    <3>2. PICK i \in DOMAIN items : p \in Range(items[i])
      BY <3>1 DEF NothingMislaid, items
    <3> QED
      BY <2>1, <3>2
  <2> QED
    BY <2>3, <2>4
<1> QED
  BY <1>1, <1>2 DEF FlushPacketBatch

\* A step that moves no packet.
LEMMA NoPacketMoves ==
  ASSUME TypeOK, PacketPlaces, NothingMislaid,
         packetQueue'.items = packetQueue.items,
         \A w \in Workers : Left(w)' = Left(w),
         error' = "none" => error = "none",
         UNCHANGED <<options, pending, enqueued, parsed>>
  PROVE  PacketPlaces' /\ NothingMislaid'
<1>1. Workers' = Workers
  BY DEF Workers
<1>2. PacketPlaces'
  BY <1>1 DEF PacketPlaces, ParsedAtMostOnce, Disjoint
<1>3. NothingMislaid'
  BY <1>1 DEF NothingMislaid
<1> QED
  BY <1>2, <1>3

\* A pop moves the front batch from the queue to the worker.
LEMMA PopMovesBatch ==
  ASSUME TypeOK, PacketPlaces, NothingMislaid, NEW w \in Workers, PopPackets(w)
  PROVE  PacketPlaces' /\ NothingMislaid'
<1> DEFINE items == packetQueue.items
           rest == Tail(items)
<1>1. /\ items' = rest /\ items # <<>> /\ items \in Seq(Seq(Packets))
      /\ UNCHANGED <<options, pending, enqueued, parsed, error>>
      /\ Workers' = Workers
      /\ Left(w)' = Head(items) /\ Left(w) = <<>>
  BY PlacesType DEF PopPackets, Popped, IsEmpty, capture, Workers, TypeOK, Left
<1>2. \A v \in Workers : v # w => Left(v)' = Left(v)
  BY DEF PopPackets, TypeOK, Left
<1>3. /\ DOMAIN items = 1 .. Len(items) /\ Len(items) \in Nat \ {0}
      /\ DOMAIN rest = 1 .. (Len(items) - 1)
      /\ \A i \in 1 .. (Len(items) - 1) : rest[i] = items[i + 1]
      /\ Head(items) = items[1]
  BY <1>1
<1> HIDE DEF rest, items
<1>4. /\ 1 \in DOMAIN items
      /\ \A i \in DOMAIN rest : i + 1 \in DOMAIN items /\ i + 1 # 1 /\ rest[i] = items[i + 1]
      /\ \A i, j \in DOMAIN rest : i # j => i + 1 # j + 1
      /\ \A i \in DOMAIN items : i = 1 \/ (i - 1 \in DOMAIN rest /\ rest[i - 1] = items[i])
  <2>1. ASSUME NEW i \in DOMAIN items, i # 1
        PROVE  i - 1 \in DOMAIN rest /\ rest[i - 1] = items[i]
    <3>1. i - 1 \in 1 .. (Len(items) - 1) /\ (i - 1) + 1 = i
      BY <1>3, <2>1
    <3> QED
      BY <1>3, <3>1
  <2>2. 1 \in DOMAIN items
    BY <1>3
  <2>3. \A i \in DOMAIN rest : i + 1 \in DOMAIN items /\ i + 1 # 1 /\ rest[i] = items[i + 1]
    BY <1>3
  <2>4. \A i, j \in DOMAIN rest : i # j => i + 1 # j + 1
    BY <1>3
  <2> QED
    BY <2>1, <2>2, <2>3, <2>4
<1>5. /\ \A i \in DOMAIN rest : IsInjective(rest[i])
      /\ \A v \in Workers : IsInjective(Left(v)')
      /\ IsInjective(pending')
  <2>1. /\ \A i \in DOMAIN items : IsInjective(items[i])
        /\ \A v \in Workers : IsInjective(Left(v))
        /\ IsInjective(pending)
    BY DEF PacketPlaces, items
  <2>2. \A v \in Workers : IsInjective(Left(v)')
    <3>1. Left(w)' = items[1]
      BY <1>1, <1>3
    <3>2. IsInjective(Left(w)')
      BY <1>4, <2>1, <3>1
    <3> QED
      BY <1>2, <2>1, <3>2
  <2> QED
    BY <1>1, <1>4, <2>1, <2>2
<1>6. \A i, j \in DOMAIN rest : i # j => Disjoint(rest[i], rest[j])
  <2>1. \A i, j \in DOMAIN items : i # j => Disjoint(items[i], items[j])
    BY DEF PacketPlaces, items
  <2> QED
    BY <1>4, <2>1
<1>7. \A u, v \in Workers : u # v => Disjoint(Left(u)', Left(v)')
  <2>1. /\ \A u, v \in Workers : u # v => Disjoint(Left(u), Left(v))
        /\ \A i \in DOMAIN items, v \in Workers : Disjoint(items[i], Left(v))
    BY DEF PacketPlaces, items
  <2>2. \A v \in Workers : Disjoint(items[1], Left(v)) /\ Disjoint(Left(v), items[1])
    BY <1>4, <2>1 DEF Disjoint
  <2>3. Left(w)' = items[1]
    BY <1>1, <1>3
  <2> QED
    BY <1>2, <2>1, <2>2, <2>3
<1>8. \A i \in DOMAIN rest, v \in Workers : Disjoint(rest[i], Left(v)')
  <2>1. /\ \A i, j \in DOMAIN items : i # j => Disjoint(items[i], items[j])
        /\ \A i \in DOMAIN items, v \in Workers : Disjoint(items[i], Left(v))
    BY DEF PacketPlaces, items
  <2>2. Left(w)' = items[1]
    BY <1>1, <1>3
  <2> QED
    BY <1>2, <1>4, <2>1, <2>2
<1>9. /\ \A i \in DOMAIN rest : \A p \in Range(rest[i]) : enqueued'[p] = 1 /\ parsed'[p] = 0
      /\ \A v \in Workers : \A p \in Range(Left(v)') : enqueued'[p] = 1 /\ parsed'[p] = 0
  <2>1. /\ \A i \in DOMAIN items : \A p \in Range(items[i]) : enqueued[p] = 1 /\ parsed[p] = 0
        /\ \A v \in Workers : \A p \in Range(Left(v)) : enqueued[p] = 1 /\ parsed[p] = 0
    BY DEF PacketPlaces, items
  <2>2. Left(w)' = items[1]
    BY <1>1, <1>3
  <2> QED
    BY <1>1, <1>2, <1>4, <2>1, <2>2
<1>10. PacketPlaces'
  <2>1. ParsedAtMostOnce'
    BY <1>1 DEF PacketPlaces, ParsedAtMostOnce
  <2>2. packetQueue'.items = rest
    BY <1>1 DEF items
  <2> QED
    BY <1>1, <1>5, <1>6, <1>7, <1>8, <1>9, <2>1, <2>2 DEF PacketPlaces
<1>11. NothingMislaid'
  <2> SUFFICES ASSUME error = "none", NEW p \in Packets, enqueued[p] # parsed[p]
               PROVE  \/ \E i \in DOMAIN rest : p \in Range(rest[i])
                      \/ \E v \in Workers : p \in Range(Left(v)')
    BY <1>1 DEF NothingMislaid, items
  <2>1. CASE \E i \in DOMAIN items : p \in Range(items[i])
    <3>1. PICK i \in DOMAIN items : p \in Range(items[i])
      BY <2>1
    <3>2. CASE i = 1
      BY <1>1, <1>3, <3>1, <3>2
    <3> QED
      BY <1>4, <3>1, <3>2
  <2>2. CASE \E v \in Workers : p \in Range(Left(v))
    <3>1. PICK v \in Workers : p \in Range(Left(v))
      BY <2>2
    <3>2. v # w
      BY <1>1, <3>1 DEF Range
    <3> QED
      BY <1>2, <3>1, <3>2
  <2> QED
    BY <2>1, <2>2 DEF NothingMislaid, items
<1> QED
  BY <1>10, <1>11

\* A parse takes the first packet from the worker's hand, a throw all of them.
LEMMA ParseTakesPacket ==
  ASSUME TypeOK, PacketPlaces, NEW w \in Workers,
         worker[w].at = "parsing", worker[w].packets # <<>>,
         parsed' = Bump(parsed, {Head(worker[w].packets)}),
         Left(w)' \in {Tail(worker[w].packets), <<>>},
         \A v \in Workers : v # w => Left(v)' = Left(v),
         UNCHANGED <<options, packetQueue, pending, enqueued>>
  PROVE  PacketPlaces'
<1> DEFINE items == packetQueue.items
           p == Head(Left(w))
<1>0. /\ parsed \in [Packets -> Nat] /\ enqueued \in [Packets -> Nat]
      /\ Workers' = Workers
      /\ items' = items
      /\ Left(w) = worker[w].packets
      /\ Left(w) \in Seq(Packets)
  BY PlacesType DEF TypeOK, Workers, Left
<1> HIDE DEF items
<1>1. /\ IsInjective(Left(w)') /\ p \in Range(Left(w)) /\ Range(Left(w)') \subseteq Range(Left(w))
      /\ p \notin Range(Left(w)')
      /\ p \in Packets
  <2>1. IsInjective(Left(w))
    BY DEF PacketPlaces
  <2>2. CASE Left(w)' = Tail(Left(w))
    BY <1>0, <2>1, <2>2, TailOfInjective, RangeOfSeq
  <2>3. CASE Left(w)' = <<>>
    <3>1. Range(Left(w)') = {} /\ IsInjective(Left(w)')
      BY <2>3 DEF Range, IsInjective
    <3> QED
      BY <1>0, <2>1, <3>1, TailOfInjective, RangeOfSeq
  <2> QED
    BY <1>0, <2>2, <2>3
<1>2. /\ parsed'[p] = parsed[p] + 1
      /\ \A q \in Packets : q # p => parsed'[q] = parsed[q]
  <2>1. parsed' = Bump(parsed, {p})
    BY <1>0
  <2> HIDE DEF p
  <2>2. p \in Packets
    BY <1>1
  <2> QED
    BY <2>1, <2>2, OnePacketParsed
<1>3. enqueued[p] = 1 /\ parsed[p] = 0
  BY <1>1 DEF PacketPlaces
<1> HIDE DEF p
<1>4. \A v \in Workers : Range(Left(v)') \subseteq Range(Left(v)) /\ p \notin Range(Left(v)')
  <2> SUFFICES ASSUME NEW v \in Workers, v # w
               PROVE  p \notin Range(Left(v))
    BY <1>1
  <2>1. Disjoint(Left(v), Left(w))
    BY DEF PacketPlaces
  <2> QED
    BY <1>1, <2>1 DEF Disjoint
<1>5. \A i \in DOMAIN items : p \notin Range(items[i])
  <2>1. \A i \in DOMAIN items : Disjoint(items[i], Left(w))
    BY DEF PacketPlaces, items
  <2> QED
    BY <1>1, <2>1 DEF Disjoint
<1>6. \A v \in Workers : IsInjective(Left(v)')
  BY <1>1 DEF PacketPlaces
<1>7. /\ \A u, v \in Workers : u # v => Disjoint(Left(u)', Left(v)')
      /\ \A i \in DOMAIN items, v \in Workers : Disjoint(items[i], Left(v)')
  <2>1. /\ \A u, v \in Workers : u # v => Disjoint(Left(u), Left(v))
        /\ \A i \in DOMAIN items, v \in Workers : Disjoint(items[i], Left(v))
    BY DEF PacketPlaces, items
  <2> QED
    BY <1>4, <2>1 DEF Disjoint
<1>8. \A i \in DOMAIN items : \A q \in Range(items[i]) : enqueued[q] = 1 /\ parsed'[q] = 0
  <2>1. ASSUME NEW i \in DOMAIN items, NEW q \in Range(items[i])
        PROVE  enqueued[q] = 1 /\ parsed'[q] = 0
    <3>1. q \in Packets /\ q # p
      BY <1>5, <2>1, PlacesType DEF items
    <3>2. enqueued[q] = 1 /\ parsed[q] = 0
      BY <2>1 DEF PacketPlaces, items
    <3> QED
      BY <1>2, <3>1, <3>2
  <2> QED
    BY <2>1
<1>9. \A v \in Workers : \A q \in Range(Left(v)') : enqueued[q] = 1 /\ parsed'[q] = 0
  <2>1. ASSUME NEW v \in Workers, NEW q \in Range(Left(v)')
        PROVE  enqueued[q] = 1 /\ parsed'[q] = 0
    <3>1. q \in Packets /\ q # p /\ q \in Range(Left(v))
      BY <1>4, <2>1, PlacesType
    <3>2. enqueued[q] = 1 /\ parsed[q] = 0
      BY <3>1 DEF PacketPlaces
    <3> QED
      BY <1>2, <3>1, <3>2
  <2> QED
    BY <2>1
<1>10. ParsedAtMostOnce'
  <2> SUFFICES ASSUME NEW q \in Packets
               PROVE  parsed'[q] <= enqueued[q]
    BY DEF ParsedAtMostOnce
  <2>1. CASE q = p
    BY <1>2, <1>3, <2>1
  <2>2. CASE q # p
    BY <1>2, <2>2 DEF PacketPlaces, ParsedAtMostOnce
  <2> QED
    BY <2>1, <2>2
<1> QED
  <2>1. packetQueue'.items = items /\ packetQueue.items = items
    BY <1>0 DEF items
  <2> QED
    BY <1>0, <1>6, <1>7, <1>8, <1>9, <1>10, <2>1 DEF PacketPlaces

\* A parsed packet is no longer waiting, and is the only one to leave.
LEMMA ParseMislaysNothing ==
  ASSUME TypeOK, PacketPlaces, NothingMislaid, NEW w \in Workers, ParsePacket(w)
  PROVE  NothingMislaid'
<1> DEFINE p == Head(Left(w))
<1>0. /\ parsed \in [Packets -> Nat] /\ enqueued \in [Packets -> Nat]
      /\ UNCHANGED <<packetQueue, enqueued, error>>
      /\ Workers' = Workers
      /\ Left(w) = worker[w].packets
      /\ Left(w) \in Seq(Packets)
      /\ Left(w) # <<>>
      /\ parsed' = Bump(parsed, {p})
  BY PlacesType DEF ParsePacket, TypeOK, Workers, Left, capture
<1>1. /\ Left(w)' = Tail(Left(w))
      /\ \A v \in Workers : v # w => Left(v)' = Left(v)
  <2>1. worker \in [Workers -> [at : WorkerControl, packets : Seq(Packets),
                                observations : Seq(Observations)]]
    BY DEF TypeOK
  <2>2. /\ Left(w)' = Tail(worker[w].packets)
        /\ \A v \in Workers : v # w => Left(v)' = Left(v)
    BY <2>1 DEF ParsePacket, Left
  <2> QED
    BY <1>0, <2>2
<1>2. p \in Packets /\ enqueued[p] = 1 /\ parsed[p] = 0 /\ p \in Range(Left(w))
  <2>1. IsInjective(Left(w))
    BY DEF PacketPlaces
  <2>2. p \in Range(Left(w)) /\ p \in Packets
    BY <1>0, <2>1, TailOfInjective, RangeOfSeq
  <2> QED
    BY <2>2 DEF PacketPlaces
<1>3. Range(Left(w)') = Range(Left(w)) \ {p}
  BY <1>0, <1>1, TailOfInjective DEF PacketPlaces
<1> HIDE DEF p
<1>4. /\ parsed'[p] = 1
      /\ \A q \in Packets : q # p => parsed'[q] = parsed[q]
  <2>1. parsed' = Bump(parsed, {p}) /\ p \in Packets
    BY <1>0, <1>2
  <2>2. parsed'[p] = parsed[p] + 1 /\ \A q \in Packets : q # p => parsed'[q] = parsed[q]
    BY <2>1, OnePacketParsed
  <2> QED
    BY <1>2, <2>2
<1> SUFFICES ASSUME error = "none", NEW q \in Packets, enqueued[q] # parsed'[q],
                    ~ \E i \in DOMAIN packetQueue.items : q \in Range(packetQueue.items[i])
             PROVE  \E v \in Workers : q \in Range(Left(v)')
  BY <1>0 DEF NothingMislaid
<1>5. q # p
  BY <1>2, <1>4
<1>6. PICK v \in Workers : q \in Range(Left(v))
  BY <1>4, <1>5 DEF NothingMislaid
<1> QED
  BY <1>1, <1>3, <1>5, <1>6

\* Every step of a parser worker keeps the packets in their places.
LEMMA WorkerKeepsPlaces ==
  ASSUME TypeOK, PacketPlaces, NothingMislaid, NEW w \in Workers, ParserWorker(w)
  PROVE  PacketPlaces' /\ NothingMislaid'
<1>0. worker \in [Workers -> [at : WorkerControl, packets : Seq(Packets),
                              observations : Seq(Observations)]]
  BY DEF TypeOK
<1>1. ASSUME NEW to, WorkerGoes(w, to), to # "parsing"
      PROVE  /\ Left(w)' = <<>>
             /\ \A v \in Workers : v # w => Left(v)' = Left(v)
  BY <1>0, <1>1 DEF WorkerGoes, Left
<1>2. ASSUME NEW to, WorkerGoes(w, to), to # "parsing", Left(w) = <<>>,
             packetQueue'.items = packetQueue.items,
             error' = "none" => error = "none",
             UNCHANGED <<options, pending, enqueued, parsed>>
      PROVE  PacketPlaces' /\ NothingMislaid'
  BY <1>1, <1>2, NoPacketMoves
<1>3. CASE PopPackets(w)
  BY <1>3, PopMovesBatch
<1>4. CASE PacketsExhausted(w)
  BY <1>2, <1>4 DEF PacketsExhausted, capture, Left
<1>5. CASE ParsePacket(w)
  <2>1. /\ Left(w)' = Tail(worker[w].packets)
        /\ \A v \in Workers : v # w => Left(v)' = Left(v)
    BY <1>0, <1>5 DEF ParsePacket, Left
  <2>2. /\ worker[w].at = "parsing" /\ worker[w].packets # <<>>
        /\ parsed' = Bump(parsed, {Head(worker[w].packets)})
        /\ UNCHANGED <<options, packetQueue, pending, enqueued>>
    BY <1>5 DEF ParsePacket, capture
  <2> QED
    BY <1>5, <2>1, <2>2, ParseTakesPacket, ParseMislaysNothing
<1>6. CASE ParserThrows(w)
  <2>1. /\ Left(w)' = <<>>
        /\ \A v \in Workers : v # w => Left(v)' = Left(v)
    BY <1>1, <1>6 DEF ParserThrows
  <2>2. /\ worker[w].at = "parsing" /\ worker[w].packets # <<>>
        /\ parsed' = Bump(parsed, {Head(worker[w].packets)})
        /\ UNCHANGED <<options, packetQueue, pending, enqueued>>
        /\ error' # "none"
    BY <1>6 DEF ParserThrows, SetError, capture
  <2>3. PacketPlaces'
    BY <2>1, <2>2, ParseTakesPacket
  <2> QED
    BY <2>2, <2>3 DEF NothingMislaid
<1>7. CASE NothingToPush(w)
  BY <1>2, <1>7 DEF NothingToPush, BatchParsed, capture, Left
<1>8. CASE PushObservations(w)
  BY <1>2, <1>8 DEF PushObservations, BatchParsed, capture, Left
<1>9. CASE PushRefused(w)
  BY <1>2, <1>9 DEF PushRefused, BatchParsed, capture, Left, SetError
<1>10. CASE WorkerClosesPackets(w)
  <2>1. Left(w) = <<>>
    BY <1>10 DEF WorkerClosesPackets, Left
  <2>2. packetQueue'.items = packetQueue.items
    BY <1>10 DEF WorkerClosesPackets, Closed
  <2>3. UNCHANGED <<options, pending, enqueued, parsed, error>>
    BY <1>10 DEF WorkerClosesPackets, capture
  <2>4. \E to \in {"done", "closeObservations"} : WorkerGoes(w, to)
    BY <1>10 DEF WorkerClosesPackets
  <2> QED
    BY <1>2, <2>1, <2>2, <2>3, <2>4
<1>11. CASE WorkerClosesObservations(w)
  BY <1>2, <1>11 DEF WorkerClosesObservations, capture, Left
<1> QED
  BY <1>3, <1>4, <1>5, <1>6, <1>7, <1>8, <1>9, <1>10, <1>11 DEF ParserWorker

\* The capture thread: a packet it delivers is new to every place.
LEMMA CaptureKeepsPlaces ==
  ASSUME TypeOK, PacketsConserved, PacketPlaces, NothingMislaid,
         (\E p \in Packets : EnqueuePacket(p)) \/ EndCapture
  PROVE  PacketPlaces' /\ NothingMislaid'
<1>0. /\ pending \in Seq(Packets) /\ IsInjective(pending)
      /\ \A p \in Packets : captured[p] \in Nat /\ enqueued[p] \in Nat /\ dropped[p] \in Nat
  BY DEF TypeOK, PacketPlaces
<1>1. \A p \in Range(pending) : p \in Packets /\ enqueued[p] = 0 /\ captured[p] = 1
  <2> SUFFICES ASSUME NEW p \in Range(pending)
               PROVE  p \in Packets /\ enqueued[p] = 0 /\ captured[p] = 1
    OBVIOUS
  <2>1. p \in Packets
    BY <1>0, RangeOfSeq
  <2>2. captured[p] = enqueued[p] + dropped[p] + 1 /\ captured[p] <= 1
    BY <2>1 DEF PacketsConserved
  <2> QED
    BY <1>0, <2>1, <2>2
<1>2. ASSUME NEW p \in Packets, EnqueuePacket(p)
      PROVE  PacketPlaces' /\ NothingMislaid'
  <2> DEFINE batch == Append(pending, p)
  <2>1. /\ captured[p] = 0
        /\ UNCHANGED <<options, worker, parsed, error>>
    BY <1>2 DEF EnqueuePacket, parsing
  <2>2. p \notin Range(pending)
    BY <1>1, <2>1
  <2>3. enqueued[p] = 0
    BY <1>0, <2>1 DEF PacketsConserved
  <2>4. batch \in Seq(Packets) /\ IsInjective(batch) /\ Range(batch) = Range(pending) \union {p}
    BY <1>0, <2>2, AppendInjective, WaitingInBatch
  <2> HIDE DEF batch
  <2>5. \A q \in Range(batch) : enqueued[q] = 0
    BY <1>1, <2>3, <2>4
  <2>6. CASE FlushPacketBatch(batch)
    BY <2>1, <2>4, <2>5, <2>6, FlushKeepsPlaces, FlushMislaysNothing
  <2>7. CASE pending' = batch /\ UNCHANGED <<packetQueue, enqueued, dropped>>
    <3>1. Workers' = Workers /\ \A w \in Workers : Left(w)' = Left(w)
      BY <2>1 DEF Workers, Left
    <3>2. PacketPlaces'
      BY <2>1, <2>4, <2>7, <3>1 DEF PacketPlaces, ParsedAtMostOnce, Disjoint
    <3>3. NothingMislaid'
      BY <2>1, <2>7, <3>1 DEF NothingMislaid
    <3> QED
      BY <3>2, <3>3
  <2> QED
    BY <1>2, <2>6, <2>7 DEF EnqueuePacket, batch
<1>3. ASSUME EndCapture
      PROVE  PacketPlaces' /\ NothingMislaid'
  <2>1. /\ FlushPacketBatch(pending)
        /\ UNCHANGED <<options, worker, parsed, error>>
    BY <1>3 DEF EndCapture, parsing
  <2> QED
    BY <1>0, <1>1, <2>1, FlushKeepsPlaces, FlushMislaysNothing
<1> QED
  BY <1>2, <1>3

\* The other threads move no packet.
LEMMA OthersKeepPlaces ==
  ASSUME TypeOK, PacketPlaces, NothingMislaid, Runner \/ Aggregator
  PROVE  PacketPlaces' /\ NothingMislaid'
<1>1. /\ packetQueue'.items = packetQueue.items
      /\ UNCHANGED <<options, worker, pending, enqueued, parsed>>
      /\ error' = "none" => error = "none"
  <2>1. CASE Runner
    BY <2>1 DEF Runner, ClosePacketQueue, JoinWorkers, CloseObservationQueue, JoinAggregator,
                RunnerStep, Closed, parsing
  <2>2. CASE Aggregator
    <3>1. packetQueue'.items = packetQueue.items
      <4>1. \/ UNCHANGED packetQueue
            \/ AggregatorClosesPackets
        BY <2>2 DEF Aggregator, PopObservations, ObservationsExhausted, ApplyObservation,
                    ApplyThrows, CountBatch, AggregatorClosesObservations
      <4> QED
        BY <4>1 DEF AggregatorClosesPackets, Closed
    <3>2. UNCHANGED <<options, capture, parsing>>
      BY <2>2 DEF Aggregator, PopObservations, ObservationsExhausted, ApplyObservation,
                  ApplyThrows, CountBatch, AggregatorClosesPackets,
                  AggregatorClosesObservations
    <3>3. error' = "none" => error = "none"
      BY <2>2 DEF Aggregator, PopObservations, ObservationsExhausted, ApplyObservation,
                  ApplyThrows, CountBatch, AggregatorClosesPackets,
                  AggregatorClosesObservations, SetError
    <3> QED
      BY <3>1, <3>2, <3>3 DEF capture, parsing
  <2> QED
    BY <2>1, <2>2
<1>2. \A w \in Workers : Left(w)' = Left(w)
  BY <1>1 DEF Left
<1> QED
  BY <1>1, <1>2, NoPacketMoves

\* PacketPlaces and NothingMislaid hold in every reachable state.
LEMMA PacketsInTheirPlaces == Spec => [](PacketPlaces /\ NothingMislaid)
<1>1. Init => PacketPlaces /\ NothingMislaid
  <2> SUFFICES ASSUME Init
               PROVE  PacketPlaces /\ NothingMislaid
    OBVIOUS
  <2>1. /\ packetQueue.items = <<>> /\ pending = <<>>
        /\ \A w \in Workers : Left(w) = <<>>
        /\ \A p \in Packets : enqueued[p] = 0 /\ parsed[p] = 0
    BY DEF Init, NewQueue, Left
  <2>2. Range(<<>>) = {} /\ DOMAIN <<>> = {}
    BY DEF Range
  <2>3. IsInjective(<<>>)
    BY DEF IsInjective
  <2> QED
    BY <2>1, <2>2, <2>3 DEF PacketPlaces, NothingMislaid, Disjoint, ParsedAtMostOnce
<1>2. TypeOK /\ PacketsConserved /\ PacketPlaces /\ NothingMislaid /\ [Next]_vars
        => PacketPlaces' /\ NothingMislaid'
  <2> SUFFICES ASSUME TypeOK, PacketsConserved, PacketPlaces, NothingMislaid, [Next]_vars
               PROVE  PacketPlaces' /\ NothingMislaid'
    OBVIOUS
  <2>1. CASE UNCHANGED vars
    <3>1. UNCHANGED <<options, pending, enqueued, parsed, packetQueue, worker, error>>
      BY <2>1 DEF vars, capture, parsing
    <3>2. \A w \in Workers : Left(w)' = Left(w)
      BY <3>1 DEF Left
    <3> QED
      BY <3>1, <3>2, NoPacketMoves
  <2> QED
    BY <2>1, WorkerKeepsPlaces, CaptureKeepsPlaces, OthersKeepPlaces DEF Next, Returned
<1> QED
  BY <1>1, <1>2, TypeCorrect, EveryPacketCounted, PTL DEF Spec

\* No packet is parsed twice, and none that was dropped is parsed, for any number
\* of workers and whatever fails.
THEOREM NoPacketParsedTwice == Spec => []ParsedAtMostOnce
<1>1. PacketPlaces => ParsedAtMostOnce
  BY DEF PacketPlaces
<1> QED
  BY <1>1, PacketsInTheirPlaces, PTL

-----------------------------------------------------------------------------
(* Where the observations are, as long as nothing has failed.              *)

\* The observations a worker has not pushed yet.
Held(w) == IF worker[w].at = "parsing" THEN worker[w].observations ELSE <<>>

\* The batches on their way to the store: the one being applied, then the queue.
Line ==
  IF aggregator.at = "applying" THEN <<aggregator.batch>> \o observationQueue.items
                                ELSE observationQueue.items

\* A batch of observations holds one of packet p.
Holds(batch, p) == \E i \in DOMAIN batch : batch[i].packet = p

\* How many observations of packet p a batch holds.
Times(batch, p) == Cardinality({i \in DOMAIN batch : batch[i].packet = p})

\* No packet has observations in both batches.
Apart(s, t) == \A p \in Packets : ~(Holds(s, p) /\ Holds(t, p))

\* A batch that holds an observation of a packet holds all there are of it, and
\* none of them is counted as applied.
Whole(batch) ==
  \A p \in Packets :
    Holds(batch, p) => /\ parsed[p] = 1
                       /\ produced[p] = Times(batch, p)
                       /\ applied[p] = 0

\* The observations of a packet are in one place, whole, until they are counted.
ObservationPlaces ==
  /\ \A i \in DOMAIN Line : Whole(Line[i])
  /\ \A w \in Workers : Whole(Held(w))
  /\ \A i, j \in DOMAIN Line : i # j => Apart(Line[i], Line[j])
  /\ \A v, w \in Workers : v # w => Apart(Held(v), Held(w))
  /\ \A i \in DOMAIN Line, w \in Workers : Apart(Line[i], Held(w))
  /\ \A p \in Packets : parsed[p] = 0 => produced[p] = 0 /\ applied[p] = 0
  /\ \A p \in Packets :
       \/ produced[p] = applied[p]
       \/ \E i \in DOMAIN Line : Holds(Line[i], p)
       \/ \E w \in Workers : Holds(Held(w), p)

\* Each place is a sequence of observations.
LEMMA ObservationPlacesType ==
  ASSUME TypeOK
  PROVE  /\ Line \in Seq(Seq(Observations))
         /\ \A i \in DOMAIN Line : Line[i] \in Seq(Observations)
         /\ \A w \in Workers : Held(w) \in Seq(Observations)
<1>1. /\ aggregator.batch \in Seq(Observations)
      /\ observationQueue.items \in Seq(Seq(Observations))
  BY DEF TypeOK, QueueType
<1>2. Line \in Seq(Seq(Observations))
  BY <1>1 DEF Line
<1>3. \A w \in Workers : Held(w) \in Seq(Observations)
  BY DEF TypeOK, Held
<1>4. \A i \in DOMAIN Line : Line[i] \in Seq(Observations)
  BY <1>2
<1> QED
  BY <1>2, <1>3, <1>4

\* What is pushed into the observation queue comes to the end of the line.
LEMMA LineGrows ==
  ASSUME TypeOK, NEW batch \in Seq(Observations),
         observationQueue'.items = Append(observationQueue.items, batch),
         aggregator' = aggregator
  PROVE  Line' = Append(Line, batch)
<1> DEFINE items == observationQueue.items
           first == aggregator.batch
<1>1. items \in Seq(Seq(Observations)) /\ first \in Seq(Observations)
  BY DEF TypeOK, QueueType
<1>2. CASE aggregator.at = "applying"
  <2>1. Line = <<first>> \o items /\ Line' = <<first>> \o Append(items, batch)
    BY <1>2 DEF Line
  <2>2. <<first>> \o Append(items, batch) = Append(<<first>> \o items, batch)
    <3> HIDE DEF items, first
    <3> QED
      BY <1>1
  <2> QED
    BY <2>1, <2>2
<1>3. CASE aggregator.at # "applying"
  BY <1>3 DEF Line
<1> QED
  BY <1>2, <1>3

\* How often a packet occurs in a batch of observations.
LEMMA TimesType ==
  ASSUME NEW batch \in Seq(Observations), NEW p
  PROVE  /\ Times(batch, p) \in Nat
         /\ ~Holds(batch, p) => Times(batch, p) = 0
         /\ Holds(<<>>, p) = FALSE
<1>1. IsFiniteSet(DOMAIN batch)
  <2>1. DOMAIN batch = 1 .. Len(batch) /\ Len(batch) \in Nat
    OBVIOUS
  <2> QED
    BY <2>1, FS_Interval
<1>2. Times(batch, p) \in Nat
  BY <1>1, FS_Subset, FS_CardinalityType DEF Times
<1>3. ASSUME ~Holds(batch, p)
      PROVE  Times(batch, p) = 0
  <2>1. {i \in DOMAIN batch : batch[i].packet = p} = {}
    BY <1>3 DEF Holds
  <2> QED
    BY <2>1, FS_EmptySet DEF Times
<1> QED
  BY <1>2, <1>3 DEF Holds

\* What parsing a packet adds to a batch that held nothing of it.
LEMMA ParsedBatch ==
  ASSUME NEW batch \in Seq(Observations), NEW p \in Packets, NEW macs \in ParseResults,
         ~Holds(batch, p)
  PROVE  LET longer == batch \o ObservationsOf(p, macs)
         IN  /\ \A q \in Packets : q # p => /\ Holds(longer, q) <=> Holds(batch, q)
                                            /\ Times(longer, q) = Times(batch, q)
             /\ Times(longer, p) = Len(macs)
             /\ ~Holds(longer, p) => Len(macs) = 0
<1> DEFINE longer == batch \o ObservationsOf(p, macs)
           n == Len(batch)
           m == Len(macs)
<1>1. /\ n \in Nat /\ m \in Nat /\ DOMAIN batch = 1 .. n
      /\ ObservationsOf(p, macs) \in Seq(Observations)
      /\ Len(ObservationsOf(p, macs)) = m
      /\ \A i \in 1 .. m : ObservationsOf(p, macs)[i].packet = p
  <2>1. macs \in Seq(Macs)
    BY ParseAssumption
  <2> QED
    BY <2>1, ObservationsOfType DEF ObservationsOf
<1>2. /\ DOMAIN longer = 1 .. (n + m)
      /\ \A i \in 1 .. n : longer[i] = batch[i]
      /\ \A i \in 1 .. (n + m) : i > n => longer[i] = ObservationsOf(p, macs)[i - n]
  BY <1>1
<1>3. \A i \in (n + 1) .. (n + m) : longer[i].packet = p
  <2> SUFFICES ASSUME NEW i \in (n + 1) .. (n + m)
               PROVE  longer[i].packet = p
    OBVIOUS
  <2>1. i - n \in 1 .. m /\ i \in 1 .. (n + m) /\ i > n
    BY <1>1
  <2> QED
    BY <1>1, <1>2, <2>1
<1>4. \A i \in 1 .. (n + m) : i \in 1 .. n \/ i \in (n + 1) .. (n + m)
  BY <1>1
<1>5. \A i \in 1 .. n : i \in 1 .. (n + m)
  BY <1>1
<1> HIDE DEF longer, n, m
<1>6. ASSUME NEW q \in Packets, q # p
      PROVE  /\ Holds(longer, q) <=> Holds(batch, q)
             /\ Times(longer, q) = Times(batch, q)
  <2>1. {i \in DOMAIN longer : longer[i].packet = q} = {i \in DOMAIN batch : batch[i].packet = q}
    BY <1>1, <1>2, <1>3, <1>4, <1>5, <1>6
  <2> QED
    BY <2>1 DEF Holds, Times
<1>7. Times(longer, p) = m
  <2>1. \A i \in 1 .. n : longer[i].packet # p
    BY <1>1, <1>2 DEF Holds
  <2>2. \A i \in (n + 1) .. (n + m) : i \in 1 .. (n + m)
    BY <1>1
  <2>3. {i \in DOMAIN longer : longer[i].packet = p} = (n + 1) .. (n + m)
    BY <1>2, <1>3, <1>4, <2>1, <2>2
  <2>4. Cardinality((n + 1) .. (n + m)) = m
    <3>1. n + 1 \in Int /\ n + m \in Int
      BY <1>1
    <3>2. Cardinality((n + 1) .. (n + m)) =
            IF n + 1 > n + m THEN 0 ELSE (n + m) - (n + 1) + 1
      BY <3>1, FS_Interval
    <3> QED
      BY <1>1, <3>2
  <2> QED
    BY <2>3, <2>4 DEF Times
<1>8. ~Holds(longer, p) => m = 0
  <2> SUFFICES ASSUME m # 0
               PROVE  Holds(longer, p)
    OBVIOUS
  <2>1. n + 1 \in 1 .. (n + m) /\ n + 1 \in (n + 1) .. (n + m)
    BY <1>1
  <2> QED
    BY <1>2, <1>3, <2>1 DEF Holds
<1> QED
  BY <1>6, <1>7, <1>8 DEF longer, m

\* A step that moves no observation and counts none.
LEMMA NoObservationMoves ==
  ASSUME ObservationPlaces, Line' = Line, \A w \in Workers : Held(w)' = Held(w),
         UNCHANGED <<options, parsed, produced, applied>>
  PROVE  ObservationPlaces'
<1>1. Workers' = Workers
  BY DEF Workers
<1>2. ASSUME NEW batch, Whole(batch), NEW p \in Packets, Holds(batch, p)
      PROVE  parsed'[p] = 1 /\ produced'[p] = Times(batch, p) /\ applied'[p] = 0
  BY <1>2 DEF Whole
<1>3. \A i \in DOMAIN Line' : Whole(Line[i])'
  <2>1. \A i \in DOMAIN Line' : Whole(Line'[i])
    BY DEF ObservationPlaces
  <2> QED
    BY <1>2, <2>1 DEF Whole, Holds, Times
<1>4. \A w \in Workers : Whole(Held(w))'
  <2>1. \A w \in Workers : Whole(Held(w)')
    BY DEF ObservationPlaces
  <2> QED
    BY <1>2, <2>1 DEF Whole, Holds, Times
<1> QED
  BY <1>1, <1>3, <1>4 DEF ObservationPlaces, Apart, Holds

\* The observations of a packet that is being parsed all go to one worker.
LEMMA ParseKeepsObservations ==
  ASSUME TypeOK, PacketPlaces, ObservationPlaces, NEW w \in Workers, ParsePacket(w)
  PROVE  ObservationPlaces'
<1> DEFINE p == Head(worker[w].packets)
<1>1. /\ Workers' = Workers /\ Line' = Line
      /\ \A v \in Workers : v # w => Held(v)' = Held(v)
      /\ Held(w) = worker[w].observations
      /\ applied' = applied
      /\ parsed \in [Packets -> Nat] /\ produced \in [Packets -> Nat]
      /\ applied \in [Packets -> Nat]
      /\ worker \in [Workers -> [at : WorkerControl, packets : Seq(Packets),
                                 observations : Seq(Observations)]]
  BY DEF ParsePacket, TypeOK, Workers, Line, Held, monitor
<1>2. PICK macs \in ParseResults :
        /\ produced' = [produced EXCEPT ![p] = @ + Len(macs)]
        /\ worker' = [worker EXCEPT ![w].packets = Tail(@),
                                    ![w].observations = @ \o ObservationsOf(p, macs)]
  BY DEF ParsePacket
<1>3. Held(w)' = Held(w) \o ObservationsOf(p, macs)
  <2>1. worker'[w].at = "parsing"
    BY <1>1, <1>2 DEF ParsePacket
  <2>2. worker'[w].observations = worker[w].observations \o ObservationsOf(p, macs)
    BY <1>1, <1>2
  <2> QED
    BY <1>1, <2>1, <2>2 DEF Held
<1>4. p \in Packets /\ parsed[p] = 0 /\ parsed' = Bump(parsed, {p})
  <2>1. Left(w) = worker[w].packets /\ Left(w) # <<>> /\ Left(w) \in Seq(Packets)
    BY PlacesType DEF ParsePacket, Left
  <2>2. p \in Range(Left(w)) /\ p \in Packets
    BY <2>1, TailOfInjective, RangeOfSeq DEF PacketPlaces
  <2>3. parsed' = Bump(parsed, {p})
    BY DEF ParsePacket
  <2> QED
    BY <2>2, <2>3 DEF PacketPlaces
<1> HIDE DEF p
<1>5. /\ parsed'[p] = 1
      /\ \A q \in Packets : q # p => parsed'[q] = parsed[q]
  <2>1. parsed'[p] = parsed[p] + 1 /\ \A q \in Packets : q # p => parsed'[q] = parsed[q]
    BY <1>4, OnePacketParsed
  <2> QED
    BY <1>4, <2>1
<1>6. /\ produced[p] = 0 /\ applied[p] = 0
      /\ produced'[p] = Len(macs)
      /\ \A q \in Packets : q # p => produced'[q] = produced[q]
  <2>1. produced[p] = 0 /\ applied[p] = 0
    BY <1>4 DEF ObservationPlaces
  <2>2. Len(macs) \in Nat
    BY <1>4, ObservationsOfType
  <2> QED
    BY <1>1, <1>2, <1>4, <2>1, <2>2
<1>7. /\ \A i \in DOMAIN Line : ~Holds(Line[i], p)
      /\ \A v \in Workers : ~Holds(Held(v), p)
  BY <1>4 DEF ObservationPlaces, Whole
<1> DEFINE longer == Held(w)'
<1>8. /\ \A q \in Packets : q # p => /\ Holds(longer, q) <=> Holds(Held(w), q)
                                     /\ Times(longer, q) = Times(Held(w), q)
      /\ Times(longer, p) = Len(macs)
      /\ ~Holds(longer, p) => Len(macs) = 0
  BY <1>3, <1>4, <1>7, ParsedBatch, ObservationPlacesType
<1> HIDE DEF longer
<1>9. ASSUME NEW batch, Whole(batch), ~Holds(batch, p)
      PROVE  Whole(batch)'
  <2> SUFFICES ASSUME NEW q \in Packets, Holds(batch, q)
               PROVE  parsed'[q] = 1 /\ produced'[q] = Times(batch, q) /\ applied'[q] = 0
    BY DEF Whole, Holds, Times
  <2>1. q # p
    BY <1>9
  <2> QED
    BY <1>1, <1>5, <1>6, <1>9, <2>1 DEF Whole
<1>10. \A i \in DOMAIN Line' : Whole(Line[i])'
  <2> SUFFICES ASSUME NEW i \in DOMAIN Line
               PROVE  Whole(Line[i])'
    BY <1>1
  <2> DEFINE batch == Line[i]
  <2>1. batch' = batch
    BY <1>1
  <2>2. Whole(batch) /\ ~Holds(batch, p)
    BY <1>7 DEF ObservationPlaces
  <2>3. \A q \in Packets : Holds(batch, q) =>
          parsed'[q] = 1 /\ produced'[q] = Times(batch, q) /\ applied'[q] = 0
    <3> SUFFICES ASSUME NEW q \in Packets, Holds(batch, q)
                 PROVE  parsed'[q] = 1 /\ produced'[q] = Times(batch, q) /\ applied'[q] = 0
      OBVIOUS
    <3>1. q # p
      BY <2>2
    <3> QED
      BY <1>1, <1>5, <1>6, <2>2, <3>1 DEF Whole
  <2> QED
    BY <2>1, <2>3 DEF Whole, Holds, Times
<1>11. \A v \in Workers' : Whole(Held(v))'
  <2> SUFFICES ASSUME NEW v \in Workers, NEW q \in Packets, Holds(Held(v)', q)
               PROVE  parsed'[q] = 1 /\ produced'[q] = Times(Held(v)', q) /\ applied'[q] = 0
    BY <1>1 DEF Whole, Holds, Times
  <2>1. CASE v # w
    <3>1. q # p /\ Holds(Held(v), q)
      BY <1>1, <1>7, <2>1
    <3>2. Whole(Held(v))
      BY DEF ObservationPlaces
    <3> QED
      BY <1>1, <1>5, <1>6, <2>1, <3>1, <3>2 DEF Whole
  <2>2. CASE v = w /\ q # p
    <3>1. Holds(Held(w), q)
      BY <1>8, <2>2 DEF longer
    <3>2. Whole(Held(w))
      BY DEF ObservationPlaces
    <3> QED
      BY <1>1, <1>5, <1>6, <1>8, <2>2, <3>1, <3>2 DEF Whole, longer
  <2>3. CASE v = w /\ q = p
    BY <1>1, <1>5, <1>6, <1>8, <2>3 DEF longer
  <2> QED
    BY <2>1, <2>2, <2>3
<1>12. \A v \in Workers, q \in Packets : Holds(Held(v)', q) => (q = p /\ v = w) \/ Holds(Held(v), q)
  BY <1>1, <1>8 DEF longer
<1>13. \A u, v \in Workers : u # v => Apart(Held(u)', Held(v)')
  <2> SUFFICES ASSUME NEW u \in Workers, NEW v \in Workers, u # v, NEW q \in Packets,
                      Holds(Held(u)', q), Holds(Held(v)', q)
               PROVE  FALSE
    BY DEF Apart
  <2>1. Apart(Held(u), Held(v))
    BY DEF ObservationPlaces
  <2> QED
    BY <1>7, <1>12, <2>1 DEF Apart
<1>14. \A i \in DOMAIN Line', v \in Workers : Apart(Line'[i], Held(v)')
  <2> SUFFICES ASSUME NEW i \in DOMAIN Line, NEW v \in Workers, NEW q \in Packets,
                      Holds(Line[i], q), Holds(Held(v)', q)
               PROVE  FALSE
    BY <1>1 DEF Apart
  <2>1. Apart(Line[i], Held(v))
    BY DEF ObservationPlaces
  <2> QED
    BY <1>7, <1>12, <2>1 DEF Apart
<1>15. \A q \in Packets : \/ produced'[q] = applied'[q]
                          \/ \E i \in DOMAIN Line' : Holds(Line'[i], q)
                          \/ \E v \in Workers : Holds(Held(v)', q)
  <2> SUFFICES ASSUME NEW q \in Packets
               PROVE  \/ produced'[q] = applied'[q]
                      \/ \E i \in DOMAIN Line : Holds(Line[i], q)
                      \/ \E v \in Workers : Holds(Held(v)', q)
    BY <1>1
  <2>1. CASE q = p
    BY <1>1, <1>6, <1>8, <2>1 DEF longer
  <2>2. CASE q # p
    <3>1. \/ produced[q] = applied[q]
          \/ \E i \in DOMAIN Line : Holds(Line[i], q)
          \/ \E v \in Workers : Holds(Held(v), q)
      BY DEF ObservationPlaces
    <3>2. \A v \in Workers : Holds(Held(v), q) => Holds(Held(v)', q)
      BY <1>1, <1>8, <2>2 DEF longer
    <3> QED
      BY <1>1, <1>6, <2>2, <3>1, <3>2
  <2> QED
    BY <2>1, <2>2
<1>16. \A q \in Packets : parsed'[q] = 0 => produced'[q] = 0 /\ applied'[q] = 0
  <2>1. \A q \in Packets : parsed[q] = 0 => produced[q] = 0 /\ applied[q] = 0
    BY DEF ObservationPlaces
  <2>2. ASSUME NEW q \in Packets, parsed'[q] = 0
        PROVE  produced'[q] = 0 /\ applied'[q] = 0
    <3>1. q # p
      BY <1>5, <2>2
    <3> QED
      BY <1>1, <1>5, <1>6, <2>1, <2>2, <3>1
  <2> QED
    BY <2>2
<1> QED
  <2>1. \A i, j \in DOMAIN Line' : i # j => Apart(Line'[i], Line'[j])
    BY <1>1 DEF ObservationPlaces
  <2> QED
    BY <1>1, <1>10, <1>11, <1>13, <1>14, <1>15, <1>16, <2>1 DEF ObservationPlaces, Apart, Holds

\* A push takes the worker's batch to the end of the line.
LEMMA PushKeepsObservations ==
  ASSUME TypeOK, ObservationPlaces, NEW w \in Workers, PushObservations(w)
  PROVE  ObservationPlaces'
<1> DEFINE n == Len(Line) + 1
<1>1. /\ Workers' = Workers
      /\ UNCHANGED <<parsed, produced, applied>>
      /\ worker[w].at = "parsing"
      /\ observationQueue'.items = Append(observationQueue.items, Held(w))
      /\ aggregator' = aggregator
      /\ observationQueue.items \in Seq(Seq(Observations))
      /\ Held(w) \in Seq(Observations)
  BY ObservationPlacesType DEF PushObservations, BatchParsed, Pushed, Workers, Held, monitor,
     TypeOK, QueueType
<1>2. Held(w)' = <<>> /\ \A v \in Workers : v # w => Held(v)' = Held(v)
  BY DEF PushObservations, WorkerGoes, TypeOK, Held
<1>3. Line' = Append(Line, Held(w)) /\ Line \in Seq(Seq(Observations))
  BY <1>1, LineGrows, ObservationPlacesType
<1>4. /\ DOMAIN Line = 1 .. Len(Line) /\ Len(Line) \in Nat /\ n \in DOMAIN Line'
      /\ DOMAIN Line' = 1 .. n
      /\ Line'[n] = Held(w)
      /\ \A i \in DOMAIN Line : i \in DOMAIN Line' /\ i # n /\ Line'[i] = Line[i]
      /\ \A i \in DOMAIN Line' : i = n \/ i \in DOMAIN Line
  <2> DEFINE line == Line
             longer == Line'
  <2>1. line \in Seq(Seq(Observations)) /\ longer = Append(line, Held(w))
        /\ Held(w) \in Seq(Observations)
    BY <1>1, <1>3
  <2> HIDE DEF line, longer
  <2>2. /\ DOMAIN line = 1 .. Len(line) /\ Len(line) \in Nat
        /\ DOMAIN longer = 1 .. (Len(line) + 1)
        /\ longer[Len(line) + 1] = Held(w)
        /\ \A i \in 1 .. Len(line) : longer[i] = line[i]
    BY <2>1
  <2> QED
    BY <2>2 DEF line, longer
<1> HIDE DEF n
<1>5. \A p : ~Holds(<<>>, p)
  BY DEF Holds
<1>6. /\ \A i \in DOMAIN Line' : Whole(Line[i])'
      /\ \A v \in Workers' : Whole(Held(v))'
  <2>1. ASSUME NEW batch, Whole(batch), NEW q \in Packets, Holds(batch, q)
        PROVE  parsed'[q] = 1 /\ produced'[q] = Times(batch, q) /\ applied'[q] = 0
    BY <1>1, <2>1 DEF Whole
  <2>2. ASSUME NEW i \in DOMAIN Line', NEW q \in Packets, Holds(Line'[i], q)
        PROVE  parsed'[q] = 1 /\ produced'[q] = Times(Line'[i], q) /\ applied'[q] = 0
    <3>1. Whole(Line'[i])
      BY <1>4 DEF ObservationPlaces
    <3> QED
      BY <2>1, <2>2, <3>1
  <2>3. ASSUME NEW v \in Workers, NEW q \in Packets, Holds(Held(v)', q)
        PROVE  parsed'[q] = 1 /\ produced'[q] = Times(Held(v)', q) /\ applied'[q] = 0
    <3>1. Held(v)' = Held(v) /\ Whole(Held(v))
      BY <1>2, <1>5, <2>3 DEF ObservationPlaces
    <3> QED
      BY <2>1, <2>3, <3>1
  <2>4. \A i \in DOMAIN Line' : Whole(Line[i])'
    BY <2>2 DEF Whole, Holds, Times
  <2>5. \A v \in Workers' : Whole(Held(v))'
    BY <1>1, <2>3 DEF Whole, Holds, Times
  <2> QED
    BY <2>4, <2>5
<1>7. \A i, j \in DOMAIN Line' : i # j => Apart(Line'[i], Line'[j])
  <2>1. /\ \A i, j \in DOMAIN Line : i # j => Apart(Line[i], Line[j])
        /\ \A i \in DOMAIN Line : Apart(Line[i], Held(w)) /\ Apart(Held(w), Line[i])
    BY DEF ObservationPlaces, Apart
  <2> QED
    BY <1>4, <2>1
<1>8. \A u, v \in Workers : u # v => Apart(Held(u)', Held(v)')
  <2>1. \A u, v \in Workers : u # v => Apart(Held(u), Held(v))
    BY DEF ObservationPlaces
  <2>2. ASSUME NEW batch
        PROVE  Apart(batch, <<>>) /\ Apart(<<>>, batch)
    BY <1>5 DEF Apart
  <2> QED
    BY <1>2, <2>1, <2>2
<1>9. \A i \in DOMAIN Line', v \in Workers : Apart(Line'[i], Held(v)')
  <2>1. /\ \A i \in DOMAIN Line, v \in Workers : Apart(Line[i], Held(v))
        /\ \A u, v \in Workers : u # v => Apart(Held(u), Held(v))
    BY DEF ObservationPlaces
  <2>2. ASSUME NEW batch
        PROVE  Apart(batch, <<>>)
    BY <1>5 DEF Apart
  <2>3. ASSUME NEW i \in DOMAIN Line', NEW v \in Workers
        PROVE  Apart(Line'[i], Held(v)')
    <3>1. CASE v = w
      BY <1>2, <2>2, <3>1
    <3>2. CASE v # w
      BY <1>2, <1>4, <2>1, <3>2
    <3> QED
      BY <3>1, <3>2
  <2> QED
    BY <2>3
<1>10. \A q \in Packets : \/ produced'[q] = applied'[q]
                          \/ \E i \in DOMAIN Line' : Holds(Line'[i], q)
                          \/ \E v \in Workers : Holds(Held(v)', q)
  <2> SUFFICES ASSUME NEW q \in Packets, produced[q] # applied[q]
               PROVE  \/ \E i \in DOMAIN Line' : Holds(Line'[i], q)
                      \/ \E v \in Workers : Holds(Held(v)', q)
    BY <1>1
  <2>1. CASE \E i \in DOMAIN Line : Holds(Line[i], q)
    BY <1>4, <2>1
  <2>2. CASE \E v \in Workers : Holds(Held(v), q)
    <3>1. PICK v \in Workers : Holds(Held(v), q)
      BY <2>2
    <3>2. CASE v = w
      BY <1>4, <3>1, <3>2
    <3>3. CASE v # w
      BY <1>2, <3>1, <3>3
    <3> QED
      BY <3>2, <3>3
  <2> QED
    BY <2>1, <2>2 DEF ObservationPlaces
<1> QED
  <2>1. \A q \in Packets : parsed'[q] = 0 => produced'[q] = 0 /\ applied'[q] = 0
    BY <1>1 DEF ObservationPlaces
  <2> QED
    BY <1>1, <1>6, <1>7, <1>8, <1>9, <1>10, <2>1 DEF ObservationPlaces, Apart, Holds

\* The batch that is counted leaves the line, applied as a whole.
LEMMA CountKeepsObservations ==
  ASSUME TypeOK, ObservationPlaces, CountBatch
  PROVE  ObservationPlaces'
<1> DEFINE batch == aggregator.batch
           items == observationQueue.items
<1>1. /\ Workers' = Workers
      /\ UNCHANGED <<parsed, produced>>
      /\ \A v \in Workers : Held(v)' = Held(v)
      /\ Line = <<batch>> \o items
      /\ Line' = items
      /\ batch \in Seq(Observations) /\ items \in Seq(Seq(Observations))
      /\ applied \in [Packets -> Nat]
  BY DEF CountBatch, Workers, Held, Line, TypeOK, QueueType, parsing
<1>2. \A p \in Packets : applied'[p] = applied[p] + Times(batch, p)
  BY DEF CountBatch, Times
<1> HIDE DEF batch, items
<1>3. /\ DOMAIN Line = 1 .. (Len(items) + 1) /\ Len(items) \in Nat
      /\ DOMAIN items = 1 .. Len(items)
      /\ Line[1] = batch
      /\ \A i \in 1 .. Len(items) : Line[i + 1] = items[i]
  BY <1>1
<1>4. 1 \in DOMAIN Line
  BY <1>3
<1>5. \A i \in DOMAIN items : i + 1 \in DOMAIN Line /\ i + 1 # 1 /\ Line[i + 1] = items[i]
  BY <1>3
<1>6. \A i \in DOMAIN Line : i = 1 \/ (i - 1 \in DOMAIN items /\ Line[i] = items[i - 1])
  <2> SUFFICES ASSUME NEW i \in DOMAIN Line, i # 1
               PROVE  i - 1 \in DOMAIN items /\ Line[i] = items[i - 1]
    OBVIOUS
  <2>1. i - 1 \in 1 .. Len(items) /\ (i - 1) + 1 = i
    BY <1>3
  <2> QED
    BY <1>3, <2>1
<1>7. Whole(batch)
  BY <1>3, <1>4 DEF ObservationPlaces
<1>8. ASSUME NEW p \in Packets, ~Holds(batch, p)
      PROVE  applied'[p] = applied[p]
  <2>1. Times(batch, p) = 0
    BY <1>1, <1>8, TimesType
  <2>2. applied[p] \in Nat
    BY <1>1
  <2> QED
    BY <1>2, <2>1, <2>2
<1>9. ASSUME NEW p \in Packets, Holds(batch, p)
      PROVE  /\ applied'[p] = produced[p]
             /\ \A i \in DOMAIN items : ~Holds(items[i], p)
             /\ \A v \in Workers : ~Holds(Held(v), p)
  <2>1. applied'[p] = produced[p]
    <3>1. applied[p] = 0 /\ produced[p] = Times(batch, p)
      BY <1>7, <1>9 DEF Whole
    <3>2. Times(batch, p) \in Nat
      BY <1>1, TimesType
    <3> QED
      BY <1>2, <3>1, <3>2
  <2>2. \A i \in DOMAIN items : Apart(batch, items[i])
    BY <1>3, <1>4, <1>5 DEF ObservationPlaces
  <2>3. \A v \in Workers : Apart(batch, Held(v))
    BY <1>3, <1>4 DEF ObservationPlaces
  <2> QED
    BY <1>9, <2>1, <2>2, <2>3 DEF Apart
<1>10. /\ \A i \in DOMAIN items : Whole(items[i])
       /\ \A i, j \in DOMAIN items : i # j => Apart(items[i], items[j])
       /\ \A i \in DOMAIN items, v \in Workers : Apart(items[i], Held(v))
  <2>1. \A i \in DOMAIN items : Whole(items[i])
    BY <1>5 DEF ObservationPlaces
  <2>2. ASSUME NEW i \in DOMAIN items, NEW j \in DOMAIN items, i # j
        PROVE  Apart(items[i], items[j])
    <3>1. i + 1 # j + 1
      BY <1>3, <2>2
    <3> QED
      BY <1>5, <3>1 DEF ObservationPlaces
  <2>3. \A i \in DOMAIN items, v \in Workers : Apart(items[i], Held(v))
    BY <1>5 DEF ObservationPlaces
  <2> QED
    BY <2>1, <2>2, <2>3
<1>11. ASSUME NEW i \in DOMAIN items, NEW p \in Packets, Holds(items[i], p)
       PROVE  parsed[p] = 1 /\ produced[p] = Times(items[i], p) /\ applied'[p] = 0
  BY <1>8, <1>9, <1>10, <1>11 DEF Whole
<1>12. ASSUME NEW v \in Workers, NEW p \in Packets, Holds(Held(v), p)
       PROVE  parsed[p] = 1 /\ produced[p] = Times(Held(v), p) /\ applied'[p] = 0
  <2>1. Whole(Held(v))
    BY DEF ObservationPlaces
  <2> QED
    BY <1>8, <1>9, <1>12, <2>1 DEF Whole
<1>13. /\ \A i \in DOMAIN Line' : Whole(Line[i])'
       /\ \A v \in Workers' : Whole(Held(v))'
  <2>1. \A i \in DOMAIN Line' : Whole(Line[i])'
    <3>1. ASSUME NEW i \in DOMAIN Line', NEW p \in Packets, Holds(Line'[i], p)
          PROVE  parsed'[p] = 1 /\ produced'[p] = Times(Line'[i], p) /\ applied'[p] = 0
      BY <1>1, <1>11, <3>1
    <3> QED
      BY <3>1 DEF Whole, Holds, Times
  <2>2. \A v \in Workers' : Whole(Held(v))'
    <3>1. ASSUME NEW v \in Workers, NEW p \in Packets, Holds(Held(v)', p)
          PROVE  parsed'[p] = 1 /\ produced'[p] = Times(Held(v)', p) /\ applied'[p] = 0
      BY <1>1, <1>12, <3>1
    <3> QED
      BY <1>1, <3>1 DEF Whole, Holds, Times
  <2> QED
    BY <2>1, <2>2
<1>14. \A p \in Packets : parsed[p] = 0 => produced[p] = 0 /\ applied'[p] = 0
  <2> SUFFICES ASSUME NEW p \in Packets, parsed[p] = 0
               PROVE  produced[p] = 0 /\ applied'[p] = 0
    OBVIOUS
  <2>1. produced[p] = 0 /\ applied[p] = 0
    BY DEF ObservationPlaces
  <2>2. ~Holds(batch, p)
    BY <1>7 DEF Whole
  <2> QED
    BY <1>8, <2>1, <2>2
<1>15. ASSUME NEW p \in Packets
       PROVE  \/ produced[p] = applied'[p]
              \/ \E i \in DOMAIN items : Holds(items[i], p)
              \/ \E v \in Workers : Holds(Held(v), p)
  <2>1. CASE Holds(batch, p)
    BY <1>9, <2>1
  <2>2. CASE ~Holds(batch, p)
    <3>1. \/ produced[p] = applied[p]
          \/ \E i \in DOMAIN Line : Holds(Line[i], p)
          \/ \E v \in Workers : Holds(Held(v), p)
      BY DEF ObservationPlaces
    <3>2. ASSUME NEW i \in DOMAIN Line, Holds(Line[i], p)
          PROVE  \E j \in DOMAIN items : Holds(items[j], p)
      BY <1>3, <1>6, <2>2, <3>2
    <3> QED
      BY <1>8, <2>2, <3>1, <3>2
  <2> QED
    BY <2>1, <2>2
<1>16. \A u, v \in Workers : u # v => Apart(Held(u), Held(v))
  BY DEF ObservationPlaces
<1> QED
  <2>1. /\ \A i, j \in DOMAIN Line' : i # j => Apart(Line'[i], Line'[j])
        /\ \A i \in DOMAIN Line', v \in Workers : Apart(Line'[i], Held(v)')
        /\ \A u, v \in Workers : u # v => Apart(Held(u)', Held(v)')
    BY <1>1, <1>10, <1>16
  <2>2. \A p \in Packets : \/ produced'[p] = applied'[p]
                           \/ \E i \in DOMAIN Line' : Holds(Line'[i], p)
                           \/ \E v \in Workers : Holds(Held(v)', p)
    BY <1>1, <1>15
  <2>3. \A p \in Packets : parsed'[p] = 0 => produced'[p] = 0 /\ applied'[p] = 0
    BY <1>1, <1>14
  <2> QED
    BY <1>1, <1>13, <2>1, <2>2, <2>3 DEF ObservationPlaces, Apart, Holds

\* A pop moves a batch from the queue to the aggregator, within the line.
LEMMA PopKeepsLine ==
  ASSUME TypeOK, PopObservations
  PROVE  Line' = Line
<1> DEFINE items == observationQueue.items
<1>1. /\ items \in Seq(Seq(Observations)) /\ items # <<>>
      /\ Line = items
      /\ Line' = <<Head(items)>> \o Tail(items)
  BY DEF PopObservations, Popped, IsEmpty, Line, TypeOK, QueueType
<1> HIDE DEF items
<1>2. <<Head(items)>> \o Tail(items) = items
  <2>1. /\ Len(items) \in Nat \ {0} /\ DOMAIN items = 1 .. Len(items)
        /\ Head(items) = items[1]
        /\ Head(items) \in Seq(Observations)
        /\ Tail(items) \in Seq(Seq(Observations))
        /\ Len(Tail(items)) = Len(items) - 1
        /\ \A i \in 1 .. (Len(items) - 1) : Tail(items)[i] = items[i + 1]
    BY <1>1
  <2> DEFINE joined == <<Head(items)>> \o Tail(items)
  <2>2. /\ joined \in Seq(Seq(Observations))
        /\ Len(joined) = Len(items)
        /\ joined[1] = items[1]
        /\ \A i \in 2 .. Len(items) : joined[i] = Tail(items)[i - 1]
    BY <2>1
  <2>3. \A i \in 2 .. Len(items) : joined[i] = items[i]
    BY <2>1, <2>2
  <2> HIDE DEF joined
  <2>4. ASSUME NEW i \in 1 .. Len(items)
        PROVE  joined[i] = items[i]
    <3>1. i = 1 \/ i \in 2 .. Len(items)
      BY <2>1
    <3> QED
      BY <2>2, <2>3, <3>1
  <2> QED
    BY <1>1, <2>2, <2>4 DEF joined
<1> QED
  BY <1>1, <1>2

\* Unless a thread has failed: a thread that is done found its queue closed and
\* empty, and the assets in the store are the ones that were announced.
DoneMeansDrained ==
  /\ \A w \in Workers :
       worker[w].at = "done" => packetQueue.closed /\ packetQueue.items = <<>>
  /\ aggregator.at = "done" => observationQueue.closed /\ observationQueue.items = <<>>
  /\ \A m \in Macs : events[m] = (IF options.callbacks /\ store[m] # 0 THEN 1 ELSE 0)

\* All that a run without failures owes.
CleanAccounts == error = "none" => ObservationPlaces /\ DoneMeansDrained

\* The capture leaves no packet in the pending batch.
CaptureFlushed == runner # "producing" => pending = <<>>

\* The parser workers.
LEMMA WorkerKeepsAccounts ==
  ASSUME TypeOK, PacketPlaces, ShutdownOrder, CleanAccounts, NEW w \in Workers,
         ParserWorker(w), error' = "none"
  PROVE  ObservationPlaces' /\ DoneMeansDrained'
<1>1. error = "none"
  BY DEF ParserWorker, PopPackets, PacketsExhausted, ParsePacket, ParserThrows, NothingToPush,
         PushObservations, PushRefused, WorkerClosesPackets, WorkerClosesObservations, SetError
<1>2. ObservationPlaces /\ DoneMeansDrained
  BY <1>1 DEF CleanAccounts
<1>3. /\ worker \in [Workers -> [at : WorkerControl, packets : Seq(Packets),
                                 observations : Seq(Observations)]]
      /\ worker[w].at \notin {"closePackets", "refused", "closeObservations"}
  BY <1>1 DEF TypeOK, ShutdownOrder
<1>4. ASSUME NEW to, WorkerGoes(w, to), to # "parsing", Held(w) = <<>>,
             UNCHANGED <<options, observationQueue, aggregator, parsed, produced, applied>>
      PROVE  ObservationPlaces'
  <2>1. \A v \in Workers : Held(v)' = Held(v)
    BY <1>3, <1>4 DEF WorkerGoes, Held
  <2>2. Line' = Line
    BY <1>4 DEF Line
  <2> QED
    BY <1>2, <1>4, <2>1, <2>2, NoObservationMoves
<1>5. ASSUME NEW to, WorkerGoes(w, to), to # "done",
             UNCHANGED <<options, monitor, packetQueue>>,
             observationQueue' = observationQueue \/ aggregator.at # "done"
      PROVE  DoneMeansDrained'
  <2>1. Workers' = Workers
    BY <1>5 DEF Workers
  <2>2. \A v \in Workers : worker'[v].at = "done" => worker[v].at = "done"
    BY <1>3, <1>5 DEF WorkerGoes
  <2> QED
    BY <1>2, <1>5, <2>1, <2>2 DEF DoneMeansDrained, monitor
<1>6. CASE PopPackets(w)
  <2>1. /\ \A v \in Workers : Held(v)' = Held(v)
        /\ \A v \in Workers : worker'[v].at # "done"
    <3>1. \A v \in Workers : worker[v].at # "done"
      BY <1>2, <1>6 DEF DoneMeansDrained, PopPackets, IsEmpty
    <3> QED
      BY <1>3, <1>6, <3>1 DEF PopPackets, Held
  <2>2. Line' = Line /\ UNCHANGED <<options, parsed, produced, applied>> /\ Workers' = Workers
    BY <1>6 DEF PopPackets, monitor, Line, Workers
  <2>3. ObservationPlaces'
    BY <1>2, <2>1, <2>2, NoObservationMoves
  <2>4. DoneMeansDrained'
    BY <1>2, <1>6, <2>1, <2>2 DEF DoneMeansDrained, PopPackets, monitor
  <2> QED
    BY <2>3, <2>4
<1>7. CASE PacketsExhausted(w)
  <2>1. ObservationPlaces'
    BY <1>4, <1>7 DEF PacketsExhausted, Held, monitor
  <2>2. DoneMeansDrained'
    BY <1>2, <1>7 DEF PacketsExhausted, DoneMeansDrained, monitor, IsEmpty, Workers
  <2> QED
    BY <2>1, <2>2
<1>8. CASE ParsePacket(w)
  <2>1. ObservationPlaces'
    BY <1>2, <1>8, ParseKeepsObservations
  <2>2. \A v \in Workers : worker'[v].at = worker[v].at
    BY <1>3, <1>8 DEF ParsePacket
  <2>3. DoneMeansDrained'
    BY <1>2, <1>8, <2>2 DEF ParsePacket, DoneMeansDrained, monitor, Workers
  <2> QED
    BY <2>1, <2>3
<1>9. CASE ParserThrows(w)
  BY <1>9 DEF ParserThrows, SetError
<1>10. CASE NothingToPush(w)
  <2>1. Held(w) = <<>>
    BY <1>10 DEF NothingToPush, BatchParsed, Held
  <2>2. ObservationPlaces'
    BY <1>4, <1>10, <2>1 DEF NothingToPush, monitor
  <2>3. DoneMeansDrained'
    BY <1>5, <1>10 DEF NothingToPush
  <2> QED
    BY <2>2, <2>3
<1>11. CASE PushObservations(w)
  <2>1. ObservationPlaces'
    BY <1>2, <1>11, PushKeepsObservations
  <2>2. aggregator.at # "done"
    BY <1>2, <1>11 DEF PushObservations, DoneMeansDrained
  <2>3. DoneMeansDrained'
    BY <1>5, <1>11, <2>2 DEF PushObservations
  <2> QED
    BY <2>1, <2>3
<1>12. CASE PushRefused(w)
  BY <1>12 DEF PushRefused, SetError
<1>13. CASE WorkerClosesPackets(w) \/ WorkerClosesObservations(w)
  BY <1>3, <1>13 DEF WorkerClosesPackets, WorkerClosesObservations
<1> QED
  BY <1>6, <1>7, <1>8, <1>9, <1>10, <1>11, <1>12, <1>13 DEF ParserWorker

\* The aggregator.
LEMMA AggregatorKeepsAccounts ==
  ASSUME TypeOK, ShutdownOrder, CleanAccounts, Aggregator, error' = "none"
  PROVE  ObservationPlaces' /\ DoneMeansDrained'
<1>1. error = "none"
  BY DEF Aggregator, PopObservations, ObservationsExhausted, ApplyObservation, ApplyThrows,
         CountBatch, AggregatorClosesPackets, AggregatorClosesObservations, SetError
<1>2. ObservationPlaces /\ DoneMeansDrained
  BY <1>1 DEF CleanAccounts
<1>3. /\ aggregator.at \notin {"closePackets", "closeObservations"}
      /\ aggregator \in [at : AggregatorControl, batch : Seq(Observations), next : Nat \ {0}]
  BY <1>1 DEF TypeOK, ShutdownOrder
<1>4. CASE PopObservations
  <2>1. Line' = Line
    BY <1>4, PopKeepsLine
  <2>2. /\ UNCHANGED <<options, parsed, produced, applied, packetQueue, worker, store, events>>
        /\ \A v \in Workers : Held(v)' = Held(v)
        /\ aggregator'.at = "applying"
        /\ Workers' = Workers
    BY <1>4 DEF PopObservations, parsing, Held, Workers
  <2>3. ObservationPlaces'
    BY <1>2, <2>1, <2>2, NoObservationMoves
  <2>4. DoneMeansDrained'
    BY <1>2, <2>2 DEF DoneMeansDrained
  <2> QED
    BY <2>3, <2>4
<1>5. CASE ObservationsExhausted
  <2>1. /\ UNCHANGED <<options, parsed, produced, applied, packetQueue, observationQueue, worker,
                      store, events>>
        /\ \A v \in Workers : Held(v)' = Held(v)
        /\ aggregator'.at = "done"
        /\ observationQueue.closed /\ observationQueue.items = <<>>
        /\ Workers' = Workers
    BY <1>3, <1>5 DEF ObservationsExhausted, AggregatorGoes, IsEmpty, parsing, Held, Workers
  <2>2. Line' = Line
    BY <1>5, <2>1 DEF ObservationsExhausted, Line
  <2>3. ObservationPlaces'
    BY <1>2, <2>1, <2>2, NoObservationMoves
  <2>4. DoneMeansDrained'
    BY <1>2, <2>1 DEF DoneMeansDrained
  <2> QED
    BY <2>3, <2>4
<1>6. CASE ApplyObservation
  <2>1. /\ UNCHANGED <<options, parsed, produced, applied, packetQueue, observationQueue, worker>>
        /\ \A v \in Workers : Held(v)' = Held(v)
        /\ aggregator'.at = "applying" /\ aggregator'.batch = aggregator.batch
        /\ Workers' = Workers
    BY <1>3, <1>6 DEF ApplyObservation, parsing, Held, Workers
  <2>2. Line' = Line
    BY <1>6, <2>1 DEF ApplyObservation, Line
  <2>3. ObservationPlaces'
    BY <1>2, <2>1, <2>2, NoObservationMoves
  <2>4. Current.mac \in Macs /\ Current.packet \in Nat \ {0}
    <3>1. Current \in Observations
      BY <1>3, <1>6 DEF ApplyObservation, Current
    <3> QED
      BY <3>1, BoundAssumption DEF Observations, Packets
  <2>5. /\ store \in [Macs -> 0 .. MaxPackets] /\ events \in [Macs -> Nat]
        /\ options.callbacks \in BOOLEAN
    BY NormalOptionsType DEF TypeOK
  <2> DEFINE o == Current
  <2>6. /\ store' = [store EXCEPT ![o.mac] = o.packet]
        /\ events' = Bump(events, IF options.callbacks /\ store[o.mac] = 0 THEN {o.mac} ELSE {})
    BY <1>6 DEF ApplyObservation, StoreApplies, EventDispatched
  <2> HIDE DEF o
  <2>7. ASSUME NEW m \in Macs
        PROVE  events'[m] = (IF options'.callbacks /\ store'[m] # 0 THEN 1 ELSE 0)
    <3> DEFINE S == IF options.callbacks /\ store[o.mac] = 0 THEN {o.mac} ELSE {}
    <3>1. events[m] = (IF options.callbacks /\ store[m] # 0 THEN 1 ELSE 0)
      BY <1>2 DEF DoneMeansDrained
    <3>2. events'[m] = events[m] + (IF m \in S THEN 1 ELSE 0)
      <4>1. events' = Bump(events, S)
        BY <2>6
      <4> HIDE DEF S
      <4> QED
        BY <2>5, <4>1, BumpType
    <3>3. CASE m # o.mac
      <4>1. store'[m] = store[m] /\ m \notin S
        BY <2>5, <2>6, <3>3
      <4> QED
        BY <2>1, <3>1, <3>2, <4>1
    <3>4. CASE m = o.mac
      <4>1. store'[m] = o.packet /\ o.packet # 0
        BY <2>4, <2>5, <2>6, <3>4 DEF o
      <4>2. m \in S <=> options.callbacks /\ store[m] = 0
        BY <3>4
      <4> QED
        BY <2>1, <2>5, <3>1, <3>2, <4>1, <4>2
    <3> QED
      BY <3>3, <3>4
  <2>8. DoneMeansDrained'
    BY <1>2, <2>1, <2>7 DEF DoneMeansDrained
  <2> QED
    BY <2>3, <2>8
<1>7. CASE ApplyThrows
  BY <1>7 DEF ApplyThrows, SetError
<1>8. CASE CountBatch
  <2>1. ObservationPlaces'
    BY <1>2, <1>8, CountKeepsObservations
  <2>2. /\ UNCHANGED <<options, packetQueue, worker, store, events>>
        /\ aggregator'.at = "popping"
        /\ Workers' = Workers
    BY <1>8 DEF CountBatch, parsing, Workers
  <2>3. DoneMeansDrained'
    BY <1>2, <2>2 DEF DoneMeansDrained
  <2> QED
    BY <2>1, <2>3
<1>9. CASE AggregatorClosesPackets \/ AggregatorClosesObservations
  BY <1>3, <1>9 DEF AggregatorClosesPackets, AggregatorClosesObservations
<1> QED
  BY <1>4, <1>5, <1>6, <1>7, <1>8, <1>9 DEF Aggregator

\* The capture and the thread that runs the pipeline.
LEMMA CaptureKeepsAccounts ==
  ASSUME TypeOK, CleanAccounts, error' = "none",
         (\E p \in Packets : EnqueuePacket(p)) \/ EndCapture \/ Runner
  PROVE  ObservationPlaces' /\ DoneMeansDrained'
<1>1. /\ UNCHANGED <<options, worker, parsed, produced, applied, aggregator, store, events, error>>
      /\ observationQueue'.items = observationQueue.items
      /\ observationQueue.closed => observationQueue'.closed
  <2>1. CASE (\E p \in Packets : EnqueuePacket(p)) \/ EndCapture
    BY <2>1 DEF EnqueuePacket, EndCapture, parsing, monitor
  <2>2. CASE Runner
    BY <2>2 DEF Runner, ClosePacketQueue, JoinWorkers, CloseObservationQueue, JoinAggregator,
                RunnerStep, parsing, monitor, Closed
  <2> QED
    BY <2>1, <2>2
<1>2. packetQueue.closed => packetQueue'.closed /\ packetQueue'.items = packetQueue.items
  <2>1. CASE (\E p \in Packets : EnqueuePacket(p)) \/ EndCapture
    BY <2>1 DEF EnqueuePacket, EndCapture, FlushPacketBatch
  <2>2. CASE Runner
    BY <2>2 DEF Runner, ClosePacketQueue, JoinWorkers, CloseObservationQueue, JoinAggregator,
                RunnerStep, Closed
  <2> QED
    BY <2>1, <2>2
<1>3. ObservationPlaces /\ DoneMeansDrained
  BY <1>1 DEF CleanAccounts
<1>4. Line' = Line /\ Workers' = Workers /\ \A v \in Workers : Held(v)' = Held(v)
  BY <1>1 DEF Line, Workers, Held
<1>5. ObservationPlaces'
  BY <1>1, <1>3, <1>4, NoObservationMoves
<1>6. DoneMeansDrained'
  BY <1>1, <1>2, <1>3, <1>4 DEF DoneMeansDrained
<1> QED
  BY <1>5, <1>6

\* CleanAccounts and CaptureFlushed hold in every reachable state.
LEMMA AccountsAreClean == Spec => [](CleanAccounts /\ CaptureFlushed)
<1>1. Init => CleanAccounts /\ CaptureFlushed
  <2> SUFFICES ASSUME Init
               PROVE  CleanAccounts /\ CaptureFlushed
    OBVIOUS
  <2>1. Line = <<>> /\ \A w \in Workers : Held(w) = <<>> /\ worker[w].at # "done"
    BY DEF Init, NewQueue, Line, Held
  <2>2. \A p : ~Holds(<<>>, p)
    BY DEF Holds
  <2>3. \A w \in Workers : Whole(Held(w))
    BY <2>1, <2>2 DEF Whole
  <2>4. ObservationPlaces
    BY <2>1, <2>2, <2>3 DEF Init, ObservationPlaces, Apart
  <2>5. DoneMeansDrained
    BY <2>1 DEF Init, DoneMeansDrained
  <2> QED
    BY <2>4, <2>5 DEF CleanAccounts, CaptureFlushed, Init
<1>2. CaptureFlushed /\ [Next]_vars => CaptureFlushed'
  <2> SUFFICES ASSUME CaptureFlushed, [Next]_vars
               PROVE  CaptureFlushed'
    OBVIOUS
  <2>1. CASE (\E p \in Packets : EnqueuePacket(p)) \/ EndCapture
    BY <2>1 DEF EnqueuePacket, EndCapture, FlushPacketBatch, CaptureFlushed
  <2>2. CASE Runner
    BY <2>2 DEF Runner, ClosePacketQueue, JoinWorkers, CloseObservationQueue, JoinAggregator,
                RunnerStep, CaptureFlushed
  <2>3. CASE (\E w \in Workers : ParserWorker(w)) \/ Aggregator
    <3>1. UNCHANGED capture
      BY <2>3 DEF ParserWorker, PopPackets, PacketsExhausted, ParsePacket, ParserThrows,
                  NothingToPush, PushObservations, PushRefused, WorkerClosesPackets,
                  WorkerClosesObservations, Aggregator, PopObservations,
                  ObservationsExhausted, ApplyObservation, ApplyThrows, CountBatch,
                  AggregatorClosesPackets, AggregatorClosesObservations
    <3> QED
      BY <3>1 DEF capture, CaptureFlushed
  <2>4. CASE UNCHANGED vars
    BY <2>4 DEF vars, capture, CaptureFlushed
  <2> QED
    BY <2>1, <2>2, <2>3, <2>4 DEF Next, Returned
<1>3. TypeOK /\ PacketPlaces /\ ShutdownOrder /\ CleanAccounts /\ [Next]_vars => CleanAccounts'
  <2> SUFFICES ASSUME TypeOK, PacketPlaces, ShutdownOrder, CleanAccounts, [Next]_vars,
                      error' = "none"
               PROVE  ObservationPlaces' /\ DoneMeansDrained'
    BY DEF CleanAccounts
  <2>1. CASE UNCHANGED vars
    <3>1. /\ ObservationPlaces /\ DoneMeansDrained
          /\ UNCHANGED <<options, worker, parsed, produced, applied, aggregator, store, events,
                         packetQueue, observationQueue>>
      BY <2>1 DEF vars, capture, parsing, monitor, CleanAccounts
    <3>2. Line' = Line /\ Workers' = Workers /\ \A v \in Workers : Held(v)' = Held(v)
      BY <3>1 DEF Line, Workers, Held
    <3> QED
      BY <3>1, <3>2, NoObservationMoves DEF DoneMeansDrained
  <2> QED
    BY <2>1, WorkerKeepsAccounts, AggregatorKeepsAccounts, CaptureKeepsAccounts
       DEF Next, Returned
<1> QED
  BY <1>1, <1>2, <1>3, TypeCorrect, PacketsInTheirPlaces, ShutdownInOrder, PTL DEF Spec

\* A run that reports no failure has parsed or counted as dropped every packet
\* it captured, applied every observation, and announced every asset once.
THEOREM CleanRunLosesNothing == Spec => []CleanRunIsComplete
<1>1. TypeOK /\ PacketsConserved /\ PacketPlaces /\ NothingMislaid /\ ShutdownOrder
        /\ CleanAccounts /\ CaptureFlushed
        => CleanRunIsComplete
  <2> SUFFICES ASSUME TypeOK, PacketsConserved, PacketPlaces, NothingMislaid, ShutdownOrder,
                      CleanAccounts, CaptureFlushed, runner = "returned", error = "none"
               PROVE  /\ \A p \in Packets : /\ captured[p] = parsed[p] + dropped[p]
                                            /\ produced[p] = applied[p]
                      /\ \A m \in Macs :
                           events[m] = (IF options.callbacks /\ store[m] # 0 THEN 1 ELSE 0)
    BY DEF CleanRunIsComplete
  <2>1. /\ \A w \in Workers : worker[w].at = "done"
        /\ aggregator.at = "done"
        /\ pending = <<>>
        /\ ObservationPlaces /\ DoneMeansDrained
    BY DEF ShutdownOrder, CaptureFlushed, CleanAccounts
  <2>2. 1 \in Workers
    BY NormalOptionsType DEF TypeOK, Workers
  <2>3. packetQueue.items = <<>> /\ observationQueue.items = <<>>
    BY <2>1, <2>2 DEF DoneMeansDrained
  <2>4. \A w \in Workers : Left(w) = <<>> /\ Held(w) = <<>>
    BY <2>1 DEF Left, Held
  <2>5. Line = <<>>
    BY <2>1, <2>3 DEF Line
  <2>6. ASSUME NEW p \in Packets
        PROVE  captured[p] = parsed[p] + dropped[p]
    <3>1. Range(<<>>) = {} /\ DOMAIN <<>> = {}
      BY DEF Range
    <3>2. enqueued[p] = parsed[p]
      BY <2>3, <2>4, <3>1 DEF NothingMislaid
    <3>3. p \notin Range(pending)
      BY <2>1, <3>1
    <3>4. captured[p] = enqueued[p] + dropped[p] + 0
      BY <3>3 DEF PacketsConserved
    <3>5. enqueued[p] \in Nat /\ dropped[p] \in Nat
      BY DEF TypeOK
    <3> QED
      BY <3>2, <3>4, <3>5
  <2>7. ASSUME NEW p \in Packets
        PROVE  produced[p] = applied[p]
    <3>1. ~Holds(<<>>, p)
      BY DEF Holds
    <3> QED
      BY <2>1, <2>4, <2>5, <3>1 DEF ObservationPlaces
  <2> QED
    BY <2>1, <2>6, <2>7 DEF DoneMeansDrained
<1> QED
  BY <1>1, TypeCorrect, EveryPacketCounted, PacketsInTheirPlaces, ShutdownInOrder,
     AccountsAreClean, PTL

-----------------------------------------------------------------------------
(* The refinement of PacketDelivery.                                       *)

\* The stage of a packet, read off its counters.
StageRelation ==
  \A p \in Packets :
    /\ captured[p] = 0 => StageOf(p) = "unseen"
    /\ p \in Range(pending) => StageOf(p) = "pending"
    /\ dropped[p] > 0 => StageOf(p) = "dropped"
    /\ enqueued[p] > 0 /\ parsed[p] = 0 => StageOf(p) = "accepted"
    /\ parsed[p] > 0 => StageOf(p) = "parsed"
    /\ \/ captured[p] = 0
       \/ p \in Range(pending)
       \/ dropped[p] > 0
       \/ enqueued[p] > 0 /\ parsed[p] = 0
       \/ parsed[p] > 0

\* The counters of one packet exclude each other in all cases but these.
LEMMA StageOfPacket ==
  ASSUME TypeOK, PacketsConserved, ParsedAtMostOnce, NEW p \in Packets
  PROVE  /\ captured[p] = 0 => StageOf(p) = "unseen"
         /\ p \in Range(pending) => StageOf(p) = "pending"
         /\ dropped[p] > 0 => StageOf(p) = "dropped"
         /\ enqueued[p] > 0 /\ parsed[p] = 0 => StageOf(p) = "accepted"
         /\ parsed[p] > 0 => StageOf(p) = "parsed"
         /\ \/ captured[p] = 0
            \/ p \in Range(pending)
            \/ dropped[p] > 0
            \/ enqueued[p] > 0 /\ parsed[p] = 0
            \/ parsed[p] > 0
<1>1. /\ captured[p] \in Nat /\ enqueued[p] \in Nat /\ dropped[p] \in Nat /\ parsed[p] \in Nat
      /\ captured[p] = enqueued[p] + dropped[p] + (IF p \in Range(pending) THEN 1 ELSE 0)
      /\ captured[p] <= 1
      /\ parsed[p] <= enqueued[p]
  BY DEF TypeOK, PacketsConserved, ParsedAtMostOnce
<1>1k. PICK k \in {0, 1} : /\ captured[p] = enqueued[p] + dropped[p] + k
                           /\ p \in Range(pending) => k = 1
                           /\ p \notin Range(pending) => k = 0
  BY <1>1
<1>1n. /\ k = 0 \/ k = 1
       /\ captured[p] \in Nat /\ enqueued[p] \in Nat /\ dropped[p] \in Nat /\ parsed[p] \in Nat
       /\ captured[p] = enqueued[p] + dropped[p] + k
       /\ captured[p] <= 1
       /\ parsed[p] <= enqueued[p]
  BY <1>1, <1>1k
<1>2. captured[p] = 0 => enqueued[p] = 0 /\ dropped[p] = 0 /\ parsed[p] = 0
  BY <1>1n
<1>3. k = 1 => captured[p] = 1 /\ enqueued[p] = 0 /\ dropped[p] = 0 /\ parsed[p] = 0
  BY <1>1n
<1>4. dropped[p] > 0 => captured[p] = 1 /\ enqueued[p] = 0 /\ parsed[p] = 0
  BY <1>1n
<1>5. enqueued[p] > 0 => captured[p] = 1 /\ enqueued[p] = 1 /\ dropped[p] = 0
  BY <1>1n
<1>6. parsed[p] > 0 => captured[p] = 1 /\ enqueued[p] = 1 /\ dropped[p] = 0
  BY <1>1n
<1>7. captured[p] # 0 /\ p \notin Range(pending) /\ ~(dropped[p] > 0) => enqueued[p] > 0
  BY <1>1n, <1>1k
<1>8. captured[p] = 0 => StageOf(p) = "unseen"
  BY <1>1, <1>2 DEF StageOf
<1>9. p \in Range(pending) => StageOf(p) = "pending"
  BY <1>1, <1>3 DEF StageOf
<1>10. dropped[p] > 0 => StageOf(p) = "dropped"
  BY <1>1, <1>4 DEF StageOf
<1>11. enqueued[p] > 0 /\ parsed[p] = 0 => StageOf(p) = "accepted"
  BY <1>1, <1>5 DEF StageOf
<1>12. parsed[p] > 0 => StageOf(p) = "parsed"
  BY <1>1, <1>6 DEF StageOf
<1>13. parsed[p] = 0 \/ parsed[p] > 0
  BY <1>1, <1>1k
<1> QED
  BY <1>7, <1>8, <1>9, <1>10, <1>11, <1>12, <1>13

\* StageRelation holds in every reachable state.
LEMMA StagesRelated == Spec => []StageRelation
<1>1. TypeOK /\ PacketsConserved /\ ParsedAtMostOnce => StageRelation
  BY StageOfPacket DEF StageRelation
<1> QED
  BY <1>1, TypeCorrect, EveryPacketCounted, NoPacketParsedTwice, PTL

\* A packet is in the pending batch exactly when its stage says so.
LEMMA PendingStage ==
  ASSUME StageRelation, NEW p \in Packets
  PROVE  StageOf(p) = "pending" <=> p \in Range(pending)
<1>1. StageOf(p) = "pending" => p \in Range(pending)
  BY DEF StageRelation
<1>2. p \in Range(pending) => StageOf(p) = "pending"
  BY DEF StageRelation
<1> QED
  BY <1>1, <1>2

\* The stage of a packet depends on that packet's counters only.
LEMMA StageKept ==
  ASSUME NEW p \in Packets, captured'[p] = captured[p], enqueued'[p] = enqueued[p],
         dropped'[p] = dropped[p], parsed'[p] = parsed[p]
  PROVE  StageOf(p)' = StageOf(p)
  BY DEF StageOf

\* A flush gives every packet of the batch the same outcome.
LEMMA FlushIsFlush ==
  ASSUME TypeOK, PacketsConserved, ParsedAtMostOnce, StageRelation, StageRelation',
         NEW Last \in SUBSET Packets, \A p \in Last : captured[p] = 0,
         captured' = Bump(captured, Last),
         NEW batch \in Seq(Packets), batch # <<>>, Range(batch) = Range(pending) \union Last,
         FlushPacketBatch(batch), UNCHANGED parsed
  PROVE  \E outcome \in {"accepted", "dropped"} : \A p \in Packets :
           StageOf(p)' = IF p \in Last \/ StageOf(p) = "pending" THEN outcome ELSE StageOf(p)
<1>1. ASSUME NEW p \in Packets
      PROVE  /\ captured[p] \in Nat /\ enqueued[p] \in Nat /\ dropped[p] \in Nat
             /\ parsed[p] \in Nat
             /\ p \in Range(batch) => enqueued[p] = 0 /\ dropped[p] = 0 /\ parsed[p] = 0
             /\ captured'[p] = captured[p] + (IF p \in Last THEN 1 ELSE 0)
  <2>1. /\ captured[p] \in Nat /\ enqueued[p] \in Nat /\ dropped[p] \in Nat /\ parsed[p] \in Nat
        /\ parsed[p] <= enqueued[p]
        /\ captured \in [Packets -> Nat]
    BY DEF TypeOK, ParsedAtMostOnce
  <2>2. captured'[p] = captured[p] + (IF p \in Last THEN 1 ELSE 0)
    BY <2>1, BumpType
  <2>3. p \in Last => enqueued[p] = 0 /\ dropped[p] = 0
    <3>1. ASSUME p \in Last
          PROVE  enqueued[p] = 0 /\ dropped[p] = 0
      <4>1. captured[p] = 0
        BY <3>1
      <4>2. \E k \in {0, 1} : captured[p] = enqueued[p] + dropped[p] + k
        BY DEF PacketsConserved
      <4> QED
        BY <2>1, <4>1, <4>2
    <3> QED
      BY <3>1
  <2>4. p \in Range(pending) => enqueued[p] = 0 /\ dropped[p] = 0
    <3>1. ASSUME p \in Range(pending)
          PROVE  enqueued[p] = 0 /\ dropped[p] = 0
      <4>1. captured[p] = enqueued[p] + dropped[p] + 1 /\ captured[p] <= 1
        BY <3>1 DEF PacketsConserved
      <4> QED
        BY <2>1, <4>1
    <3> QED
      BY <3>1
  <2>5. enqueued[p] = 0 => parsed[p] = 0
    BY <2>1
  <2> QED
    BY <2>1, <2>2, <2>3, <2>4, <2>5
<1>2. ASSUME NEW p \in Packets, p \notin Range(batch)
      PROVE  /\ captured'[p] = captured[p]
             /\ p \notin Last
             /\ StageOf(p) # "pending"
  <2>1. p \notin Last /\ p \notin Range(pending)
    BY <1>2
  <2>2. StageOf(p) # "pending"
    BY <2>1, PendingStage
  <2>3. captured'[p] = captured[p]
    BY <1>1, <2>1
  <2> QED
    BY <2>1, <2>2, <2>3
<1>3. ASSUME NEW p \in Packets, p \in Range(batch)
      PROVE  p \in Last \/ StageOf(p) = "pending"
  BY <1>3, PendingStage
<1>4. CASE enqueued' = Bump(enqueued, Range(batch)) /\ UNCHANGED dropped
  <2>1. \A p \in Packets : enqueued'[p] = enqueued[p] + (IF p \in Range(batch) THEN 1 ELSE 0)
    <3>1. enqueued \in [Packets -> Nat]
      BY DEF TypeOK
    <3> QED
      BY <1>4, <3>1, BumpType
  <2>2. ASSUME NEW p \in Packets
        PROVE  StageOf(p)' = IF p \in Last \/ StageOf(p) = "pending" THEN "accepted"
                                                                     ELSE StageOf(p)
    <3>1. CASE p \in Range(batch)
      <4>1. enqueued'[p] = 0 + 1 /\ parsed'[p] = 0
        BY <1>1, <2>1, <3>1
      <4>2. StageOf(p)' = "accepted"
        BY <4>1 DEF StageRelation
      <4> QED
        BY <1>3, <3>1, <4>2
    <3>2. CASE p \notin Range(batch)
      <4>1. enqueued'[p] = enqueued[p]
        BY <1>1, <2>1, <3>2
      <4>2. StageOf(p)' = StageOf(p)
        BY <1>2, <1>4, <3>2, <4>1, StageKept
      <4> QED
        BY <1>2, <3>2, <4>2
    <3> QED
      BY <3>1, <3>2
  <2> QED
    BY <2>2
<1>5. CASE dropped' = Bump(dropped, Range(batch)) /\ UNCHANGED enqueued
  <2>1. \A p \in Packets : dropped'[p] = dropped[p] + (IF p \in Range(batch) THEN 1 ELSE 0)
    <3>1. dropped \in [Packets -> Nat]
      BY DEF TypeOK
    <3> QED
      BY <1>5, <3>1, BumpType
  <2>2. ASSUME NEW p \in Packets
        PROVE  StageOf(p)' = IF p \in Last \/ StageOf(p) = "pending" THEN "dropped"
                                                                     ELSE StageOf(p)
    <3>1. CASE p \in Range(batch)
      <4>1. dropped'[p] = 0 + 1
        BY <1>1, <2>1, <3>1
      <4>2. StageOf(p)' = "dropped"
        BY <4>1 DEF StageRelation
      <4> QED
        BY <1>3, <3>1, <4>2
    <3>2. CASE p \notin Range(batch)
      <4>1. dropped'[p] = dropped[p]
        BY <1>1, <2>1, <3>2
      <4>2. StageOf(p)' = StageOf(p)
        BY <1>2, <1>5, <3>2, <4>1, StageKept
      <4> QED
        BY <1>2, <3>2, <4>2
    <3> QED
      BY <3>1, <3>2
  <2> QED
    BY <2>2
<1> QED
  BY <1>4, <1>5 DEF FlushPacketBatch

\* A parser takes an accepted packet, whether it succeeds or throws.
LEMMA ParseIsParse ==
  ASSUME TypeOK, PacketPlaces, StageRelation, StageRelation', NEW w \in Workers,
         ParsePacket(w) \/ ParserThrows(w)
  PROVE  \E p \in Packets : /\ StageOf(p) = "accepted"
                            /\ StageOf(p)' = "parsed"
                            /\ \A q \in Packets : q # p => StageOf(q)' = StageOf(q)
<1>1. /\ Left(w) = worker[w].packets /\ Left(w) # <<>> /\ Left(w) \in Seq(Packets)
      /\ UNCHANGED <<captured, enqueued, dropped>>
  BY PlacesType DEF ParsePacket, ParserThrows, Left, capture
<1>2. Head(Left(w)) \in Range(Left(w)) /\ Head(Left(w)) \in Packets
  <2>1. IsInjective(Left(w))
    BY DEF PacketPlaces
  <2> QED
    BY <1>1, <2>1, TailOfInjective, RangeOfSeq
<1>3. PICK p \in Packets : p = Head(Left(w))
  BY <1>2
<1>3p. parsed' = Bump(parsed, {p})
  BY <1>1, <1>3 DEF ParsePacket, ParserThrows
<1>3q. enqueued[p] = 1 /\ parsed[p] = 0
  BY <1>2, <1>3 DEF PacketPlaces
<1>4. parsed'[p] = parsed[p] + 1 /\ \A q \in Packets : q # p => parsed'[q] = parsed[q]
  BY <1>3p, OnePacketParsed
<1>5. StageOf(p) = "accepted"
  BY <1>3q DEF StageRelation
<1>6. StageOf(p)' = "parsed"
  <2>1. parsed'[p] > 0
    BY <1>3q, <1>4
  <2> QED
    BY <2>1 DEF StageRelation
<1>7. \A q \in Packets : q # p => StageOf(q)' = StageOf(q)
  BY <1>1, <1>4, StageKept
<1> QED
  BY <1>5, <1>6, <1>7

\* Only a parse, of all that workers and aggregator do, changes a stage.
LEMMA OtherStepsKeepStages ==
  ASSUME \/ Runner \/ Aggregator \/ UNCHANGED vars
         \/ \E w \in Workers : ParserWorker(w) /\ ~ParsePacket(w) /\ ~ParserThrows(w)
  PROVE  \A p \in Packets : StageOf(p)' = StageOf(p)
<1>1. UNCHANGED <<captured, enqueued, dropped, parsed>>
  <2>1. CASE Runner
    BY <2>1 DEF Runner, ClosePacketQueue, JoinWorkers, CloseObservationQueue, JoinAggregator,
                RunnerStep, parsing
  <2>2. CASE Aggregator
    <3>1. UNCHANGED <<capture, parsing>>
      BY <2>2 DEF Aggregator, PopObservations, ObservationsExhausted, ApplyObservation,
                  ApplyThrows, CountBatch, AggregatorClosesPackets,
                  AggregatorClosesObservations
    <3> QED
      BY <3>1 DEF capture, parsing
  <2>3. CASE UNCHANGED vars
    BY <2>3 DEF vars, capture, parsing
  <2>4. ASSUME NEW w \in Workers, ParserWorker(w), ~ParsePacket(w), ~ParserThrows(w)
        PROVE  UNCHANGED <<captured, enqueued, dropped, parsed>>
    BY <2>4 DEF ParserWorker, PopPackets, PacketsExhausted, NothingToPush, PushObservations,
                PushRefused, WorkerClosesPackets, WorkerClosesObservations, capture
  <2> QED
    BY <2>1, <2>2, <2>3, <2>4
<1> QED
  BY <1>1, StageKept

\* What the pipeline does is what PacketDelivery allows: every step of the capture
\* receives or flushes, every step of a parser takes an accepted packet, and run()
\* reports completion only when nothing is left over.
THEOREM PipelineImplementsDelivery == Spec => ImplementsPacketDelivery
<1> DEFINE Stage == [p \in Packets |-> StageOf(p)]
           Reached == /\ TypeOK /\ PacketsConserved /\ PacketPlaces /\ ParsedAtMostOnce
                      /\ ShutdownOrder /\ CleanRunIsComplete /\ StageRelation
<1>1. Init => Delivery!Init
  <2> SUFFICES ASSUME Init
               PROVE  Delivery!Init
    OBVIOUS
  <2>1. \A p \in Packets : StageOf(p) = "unseen"
    BY DEF Init, StageOf
  <2>2. Verdict = "running"
    BY DEF Init, Verdict
  <2> QED
    BY <2>1, <2>2 DEF Delivery!Init
<1>2. Reached /\ Reached' /\ [Next]_vars => [Delivery!Next]_(Delivery!vars)
  <2> SUFFICES ASSUME Reached, Reached', [Next]_vars
               PROVE  Delivery!Next \/ UNCHANGED <<Stage, Verdict>>
    BY DEF Delivery!vars
  <2>0. \A p \in Packets : Stage[p] = StageOf(p) /\ Stage'[p] = StageOf(p)'
    OBVIOUS
  <2>k. ASSUME \A p \in Packets : StageOf(p)' = StageOf(p)
        PROVE  UNCHANGED Stage
    BY <2>k
  <2>1. ASSUME NEW p \in Packets, EnqueuePacket(p)
        PROVE  Delivery!Next
    <3> DEFINE batch == Append(pending, p)
    <3>1. /\ captured[p] = 0 /\ captured' = Bump(captured, {p})
          /\ UNCHANGED parsed /\ pending \in Seq(Packets)
          /\ captured \in [Packets -> Nat]
          /\ UNCHANGED Verdict
      BY <2>1 DEF EnqueuePacket, parsing, TypeOK, Verdict
    <3>2. batch \in Seq(Packets) /\ batch # <<>> /\ Range(batch) = Range(pending) \union {p}
      BY <3>1, WaitingInBatch
    <3>3. StageOf(p) = "unseen"
      BY <3>1 DEF StageRelation
    <3> HIDE DEF batch
    <3>4. CASE FlushPacketBatch(batch)
      <4>1. PICK outcome \in {"accepted", "dropped"} : \A q \in Packets :
              StageOf(q)' = IF q \in {p} \/ StageOf(q) = "pending" THEN outcome ELSE StageOf(q)
        <5>1. {p} \in SUBSET Packets /\ \A q \in {p} : captured[q] = 0
          BY <3>1
        <5> QED
          BY <3>1, <3>2, <3>4, <5>1, FlushIsFlush
      <4>2. Stage' = [q \in Packets |-> IF q \in {p} \/ Stage[q] = "pending" THEN outcome
                                                                          ELSE Stage[q]]
        BY <4>1
      <4>3. \A q \in {p} : Stage[q] = "unseen"
        BY <3>3
      <4>4. Delivery!Flush({p}, outcome)
        BY <3>1, <4>2, <4>3 DEF Delivery!Flush
      <4> QED
        BY <4>4 DEF Delivery!Next
    <3>5. CASE pending' = batch /\ UNCHANGED <<packetQueue, enqueued, dropped>>
      <4>1. StageOf(p)' = "pending"
        BY <3>2, <3>5 DEF StageRelation
      <4>2. ASSUME NEW q \in Packets, q # p
            PROVE  StageOf(q)' = StageOf(q)
        <5>1. captured'[q] = captured[q]
          <6>1. captured'[q] = captured[q] + 0 /\ captured[q] \in Nat
            BY <3>1, <4>2, BumpType
          <6> QED
            BY <6>1
        <5> QED
          BY <3>1, <3>5, <5>1, StageKept
      <4>3. Stage' = [Stage EXCEPT ![p] = "pending"]
        BY <4>1, <4>2
      <4>4. Delivery!Receive(p)
        BY <3>1, <3>3, <4>3 DEF Delivery!Receive
      <4> QED
        BY <4>4 DEF Delivery!Next
    <3> QED
      BY <2>1, <3>4, <3>5 DEF EnqueuePacket, batch
  <2>2. CASE EndCapture
    <3>1. /\ FlushPacketBatch(pending) /\ UNCHANGED <<captured, parsed>>
          /\ pending \in Seq(Packets)
          /\ UNCHANGED Verdict
          /\ captured' = Bump(captured, {})
      <4>1. captured' = captured /\ captured \in [Packets -> Nat]
        BY <2>2 DEF EndCapture, TypeOK
      <4>2. Bump(captured, {}) = captured
        BY <4>1 DEF Bump
      <4> QED
        BY <2>2, <4>1, <4>2 DEF EndCapture, parsing, TypeOK, Verdict
    <3>2. CASE pending = <<>>
      <4>1. UNCHANGED <<captured, enqueued, dropped, parsed>>
        BY <3>1, <3>2 DEF FlushPacketBatch
      <4>2. \A p \in Packets : StageOf(p)' = StageOf(p)
        BY <4>1, StageKept
      <4> QED
        BY <2>k, <3>1, <4>2
    <3>3. CASE pending # <<>>
      <4>1. PICK outcome \in {"accepted", "dropped"} : \A q \in Packets :
              StageOf(q)' = IF q \in {} \/ StageOf(q) = "pending" THEN outcome ELSE StageOf(q)
        <5>1. {} \in SUBSET Packets /\ \A q \in {} : captured[q] = 0
          OBVIOUS
        <5>2. Range(pending) = Range(pending) \union {}
          OBVIOUS
        <5> QED
          BY <3>1, <3>3, <5>1, <5>2, FlushIsFlush
      <4>2. Stage' = [q \in Packets |-> IF q \in {} \/ Stage[q] = "pending" THEN outcome
                                                                         ELSE Stage[q]]
        BY <4>1
      <4>3. Delivery!Flush({}, outcome)
        BY <3>1, <4>2 DEF Delivery!Flush
      <4> QED
        BY <4>3 DEF Delivery!Next
    <3> QED
      BY <3>2, <3>3
  <2>3. CASE Runner
    <3>1. UNCHANGED Stage
      BY <2>3, <2>k, OtherStepsKeepStages
    <3>2. CASE runner' # "returned"
      <4>1. runner # "returned"
        BY <2>3 DEF Runner, ClosePacketQueue, JoinWorkers, CloseObservationQueue,
                    JoinAggregator, RunnerStep
      <4>2. UNCHANGED Verdict
        BY <3>2, <4>1 DEF Verdict
      <4> QED
        BY <3>1, <4>2
    <3>3. CASE runner' = "returned"
      <4>1. runner # "returned" /\ UNCHANGED error
        BY <2>3 DEF Runner, ClosePacketQueue, JoinWorkers, CloseObservationQueue,
                    JoinAggregator, RunnerStep
      <4>2. Verdict = "running"
        BY <4>1 DEF Verdict
      <4>3. CASE error # "none"
        <5>1. Verdict' = "failed"
          BY <3>3, <4>1, <4>3 DEF Verdict
        <5> QED
          BY <3>1, <4>2, <5>1 DEF Delivery!Next, Delivery!Report
      <4>4. CASE error = "none"
        <5>1. Verdict' = "complete"
          BY <3>3, <4>1, <4>4 DEF Verdict
        <5>2. ASSUME NEW p \in Packets
              PROVE  StageOf(p)' \in {"unseen", "dropped", "parsed"}
          <6>1. captured'[p] = parsed'[p] + dropped'[p]
            BY <3>3, <4>1, <4>4 DEF CleanRunIsComplete
          <6>2. captured'[p] \in Nat /\ parsed'[p] \in Nat /\ dropped'[p] \in Nat
            BY DEF TypeOK
          <6>3. captured'[p] = 0 \/ parsed'[p] > 0 \/ dropped'[p] > 0
            BY <6>1, <6>2
          <6> QED
            BY <6>3 DEF StageRelation
        <5>3. Delivery!Settled
          BY <3>1, <5>2, <2>0 DEF Delivery!Settled
        <5> QED
          BY <3>1, <4>2, <5>1, <5>3 DEF Delivery!Next, Delivery!Report
      <4> QED
        BY <4>3, <4>4
    <3> QED
      BY <3>2, <3>3
  <2>4. ASSUME NEW w \in Workers, ParserWorker(w)
        PROVE  Delivery!Next \/ UNCHANGED <<Stage, Verdict>>
    <3>1. runner # "returned" /\ UNCHANGED runner
      BY <2>4 DEF ShutdownOrder, ParserWorker, PopPackets, PacketsExhausted, ParsePacket,
                  ParserThrows, NothingToPush, PushObservations, PushRefused, BatchParsed,
                  WorkerClosesPackets, WorkerClosesObservations, capture
    <3>2. UNCHANGED Verdict
      BY <3>1 DEF Verdict
    <3>3. CASE ParsePacket(w) \/ ParserThrows(w)
      <4>1. PICK p \in Packets : /\ StageOf(p) = "accepted"
                                 /\ StageOf(p)' = "parsed"
                                 /\ \A q \in Packets : q # p => StageOf(q)' = StageOf(q)
        BY <3>3, ParseIsParse
      <4>2. Stage[p] = "accepted" /\ Stage' = [Stage EXCEPT ![p] = "parsed"]
        BY <4>1
      <4>3. Delivery!Parse(p)
        BY <3>2, <4>2 DEF Delivery!Parse
      <4> QED
        BY <4>3 DEF Delivery!Next
    <3>4. CASE ~ParsePacket(w) /\ ~ParserThrows(w)
      BY <2>4, <2>k, <3>2, <3>4, OtherStepsKeepStages
    <3> QED
      BY <3>3, <3>4
  <2>5. CASE Aggregator
    <3>1. runner # "returned" /\ UNCHANGED runner
      BY <2>5 DEF ShutdownOrder, Aggregator, PopObservations, ObservationsExhausted,
                  ApplyObservation, ApplyThrows, CountBatch, AggregatorClosesPackets,
                  AggregatorClosesObservations, capture
    <3>2. UNCHANGED Verdict
      BY <3>1 DEF Verdict
    <3> QED
      BY <2>5, <2>k, <3>2, OtherStepsKeepStages
  <2>6. CASE UNCHANGED vars
    <3>1. UNCHANGED Verdict
      BY <2>6 DEF vars, capture, Verdict
    <3> QED
      BY <2>6, <2>k, <3>1, OtherStepsKeepStages
  <2> QED
    BY <2>1, <2>2, <2>3, <2>4, <2>5, <2>6 DEF Next, Returned
<1> QED
  BY <1>1, <1>2, TypeCorrect, EveryPacketCounted, PacketsInTheirPlaces, NoPacketParsedTwice,
     ShutdownInOrder, CleanRunLosesNothing, StagesRelated, PTL
     DEF Spec, ImplementsPacketDelivery, Delivery!Spec

-----------------------------------------------------------------------------
(* One parser worker keeps the order of arrival.                           *)

\* The packets of a batch are in the order of their arrival.
Ascending(batch) == \A i, j \in DOMAIN batch : i < j => batch[i] < batch[j]

\* Every packet of s arrived before every packet of t.
Before(s, t) == \A p \in Range(s), q \in Range(t) : p < q

\* Packets are captured in order, and enqueued before those still pending.
ArrivalOrder ==
  /\ \A p, q \in Packets : p < q /\ captured[q] > 0 => captured[p] > 0
  /\ \A p \in Packets, q \in Range(pending) : enqueued[p] > 0 => p < q
  /\ Ascending(pending)

\* What one worker has yet to parse comes in order, and after all it has parsed.
ParseOrder ==
  LET items == packetQueue.items
  IN  /\ \A i \in DOMAIN items : Ascending(items[i]) /\ Before(Left(1), items[i])
      /\ \A i, j \in DOMAIN items : i < j => Before(items[i], items[j])
      /\ Ascending(Left(1))
      /\ \A p \in Packets : parsed[p] > 0 =>
           /\ \A q \in Range(Left(1)) : p < q
           /\ \A i \in DOMAIN items : \A q \in Range(items[i]) : p < q

\* No observation of s is of a later packet than one of t.
NotAfter(s, t) == \A i \in DOMAIN s, j \in DOMAIN t : s[i].packet <= t[j].packet

\* The observations of a batch are in the order of their packets.
InOrder(batch) == \A i, j \in DOMAIN batch : i <= j => batch[i].packet <= batch[j].packet

\* Every packet that a batch has observations of was parsed.
AllParsed(batch) == \A k \in DOMAIN batch : parsed[batch[k].packet] > 0

\* The k-th observation of the i-th batch of the line is still to be applied.
ToApply(i, k) == ~(i = 1 /\ aggregator.at = "applying" /\ k < aggregator.next)

\* What a store holds comes from packets that were parsed, and from none later
\* than those still to be applied.
NoneLater(contents) ==
  \A m \in Macs :
    /\ contents[m] # 0 => parsed[contents[m]] > 0
    /\ \A i \in DOMAIN Line : \A k \in DOMAIN Line[i] :
         ToApply(i, k) => contents[m] <= Line[i][k].packet
    /\ \A k \in DOMAIN Held(1) : contents[m] <= Held(1)[k].packet

\* The observations of one worker come in the order of their packets.
ApplyOrder ==
  /\ \A i \in DOMAIN Line : InOrder(Line[i]) /\ NotAfter(Line[i], Held(1)) /\ AllParsed(Line[i])
  /\ \A i, j \in DOMAIN Line : i < j => NotAfter(Line[i], Line[j])
  /\ InOrder(Held(1)) /\ AllParsed(Held(1))
  /\ NoneLater(store)

\* A packet that has not been captured comes after all that have.
LEMMA CapturedBefore ==
  ASSUME TypeOK, PacketsConserved, ArrivalOrder, NEW p \in Packets, captured[p] = 0,
         NEW q \in Packets, captured[q] > 0 \/ enqueued[q] > 0 \/ q \in Range(pending)
  PROVE  q < p
<1>1. captured[q] > 0
  <2>1. /\ captured[q] \in Nat /\ enqueued[q] \in Nat /\ dropped[q] \in Nat
        /\ \E k \in {0, 1} : /\ captured[q] = enqueued[q] + dropped[q] + k
                             /\ q \in Range(pending) => k = 1
    BY DEF TypeOK, PacketsConserved
  <2>2. PICK k \in {0, 1} : /\ captured[q] = enqueued[q] + dropped[q] + k
                            /\ q \in Range(pending) => k = 1
    BY <2>1
  <2> QED
    BY <2>1, <2>2
<1>2. ~(p < q)
  BY <1>1 DEF ArrivalOrder
<1>3. p # q
  BY <1>1
<1> QED
  BY <1>2, <1>3 DEF Packets

\* The batch that the next packet completes is in order, and after all that is enqueued.
LEMMA AppendInOrder ==
  ASSUME TypeOK, PacketsConserved, ArrivalOrder, NEW p \in Packets, captured[p] = 0
  PROVE  /\ Ascending(Append(pending, p))
         /\ \A x \in Packets, q \in Range(Append(pending, p)) : enqueued[x] > 0 => x < q
<1> DEFINE batch == Append(pending, p)
<1>1. /\ pending \in Seq(Packets)
      /\ DOMAIN pending = 1 .. Len(pending) /\ Len(pending) \in Nat
      /\ DOMAIN batch = 1 .. (Len(pending) + 1)
      /\ batch[Len(pending) + 1] = p
      /\ \A i \in 1 .. Len(pending) : batch[i] = pending[i]
  BY DEF TypeOK
<1>2. \A i \in 1 .. Len(pending) : pending[i] \in Packets /\ pending[i] < p
  <2> SUFFICES ASSUME NEW i \in 1 .. Len(pending)
               PROVE  pending[i] \in Packets /\ pending[i] < p
    OBVIOUS
  <2>1. pending[i] \in Range(pending) /\ pending[i] \in Packets
    BY <1>1, RangeOfSeq
  <2> QED
    BY <2>1, CapturedBefore
<1>3. Range(batch) = Range(pending) \union {p}
  BY <1>1, WaitingInBatch
<1> HIDE DEF batch
<1>4. Ascending(batch)
  <2> SUFFICES ASSUME NEW i \in DOMAIN batch, NEW j \in DOMAIN batch, i < j
               PROVE  batch[i] < batch[j]
    BY DEF Ascending
  <2>1. i \in 1 .. Len(pending)
    BY <1>1
  <2>2. CASE j = Len(pending) + 1
    BY <1>1, <1>2, <2>1, <2>2
  <2>3. CASE j \in 1 .. Len(pending)
    BY <1>1, <2>1, <2>3 DEF ArrivalOrder, Ascending
  <2> QED
    BY <1>1, <2>2, <2>3
<1>5. \A x \in Packets, q \in Range(batch) : enqueued[x] > 0 => x < q
  <2> SUFFICES ASSUME NEW x \in Packets, NEW q \in Range(batch), enqueued[x] > 0
               PROVE  x < q
    OBVIOUS
  <2>1. CASE q = p
    BY <2>1, CapturedBefore
  <2>2. CASE q \in Range(pending)
    BY <2>2 DEF ArrivalOrder
  <2> QED
    BY <1>3, <2>1, <2>2
<1> QED
  BY <1>4, <1>5 DEF batch

\* A step that touches neither the pending batch nor the counters of the capture.
LEMMA ArrivalKept ==
  ASSUME ArrivalOrder, UNCHANGED <<pending, captured, enqueued>>
  PROVE  ArrivalOrder'
  BY DEF ArrivalOrder, Ascending

\* The capture thread delivers packets in order.
LEMMA CaptureKeepsArrival ==
  ASSUME TypeOK, PacketsConserved, ArrivalOrder,
         (\E p \in Packets : EnqueuePacket(p)) \/ EndCapture
  PROVE  ArrivalOrder'
<1>0. Range(<<>>) = {} /\ Ascending(<<>>)
  BY DEF Range, Ascending
<1>1. ASSUME NEW p \in Packets, EnqueuePacket(p)
      PROVE  ArrivalOrder'
  <2> DEFINE batch == Append(pending, p)
  <2>1. /\ captured[p] = 0 /\ captured' = Bump(captured, {p})
        /\ \A q \in 1 .. (p - 1) : captured[q] > 0
        /\ captured \in [Packets -> Nat]
    BY <1>1 DEF EnqueuePacket, TypeOK
  <2>2. \A q \in Packets : captured'[q] = captured[q] + (IF q \in {p} THEN 1 ELSE 0)
    BY <2>1, BumpType
  <2>3. ASSUME NEW x \in Packets, NEW y \in Packets, x < y, captured'[y] > 0
        PROVE  captured'[x] > 0
    <3>1. captured[x] > 0
      <4>1. CASE y = p
        <5>1. x \in 1 .. (p - 1)
          BY <2>3, <4>1, BoundAssumption DEF Packets
        <5> QED
          BY <2>1, <5>1
      <4>2. CASE y # p
        <5>1. captured'[y] = captured[y] + 0 /\ captured[y] \in Nat
          BY <2>1, <2>2, <4>2
        <5>2. captured[y] > 0
          BY <2>3, <5>1
        <5> QED
          BY <2>3, <5>2 DEF ArrivalOrder
      <4> QED
        BY <4>1, <4>2
    <3>2. captured[x] \in Nat
      BY <2>1
    <3> QED
      BY <2>2, <3>1, <3>2
  <2>4. /\ Ascending(batch)
        /\ \A x \in Packets, q \in Range(batch) : enqueued[x] > 0 => x < q
    BY <2>1, AppendInOrder
  <2> HIDE DEF batch
  <2>5. CASE FlushPacketBatch(batch)
    <3>1. pending' = <<>>
      BY <2>5 DEF FlushPacketBatch
    <3>2. Ascending(pending') /\ Range(pending') = {}
      BY <1>0, <3>1
    <3> QED
      BY <2>3, <3>2 DEF ArrivalOrder, Ascending
  <2>6. CASE pending' = batch /\ UNCHANGED <<packetQueue, enqueued, dropped>>
    BY <2>3, <2>4, <2>6 DEF ArrivalOrder, Ascending
  <2> QED
    BY <1>1, <2>5, <2>6 DEF EnqueuePacket, batch
<1>2. CASE EndCapture
  <2>1. pending' = <<>> /\ captured' = captured
    BY <1>2 DEF EndCapture, FlushPacketBatch
  <2>2. Ascending(pending') /\ Range(pending') = {}
    BY <1>0, <2>1
  <2> QED
    BY <2>1, <2>2 DEF ArrivalOrder, Ascending
<1> QED
  BY <1>1, <1>2

\* ArrivalOrder holds in every reachable state.
LEMMA PacketsArriveInOrder == Spec => []ArrivalOrder
<1>1. Init => ArrivalOrder
  <2> SUFFICES ASSUME Init
               PROVE  ArrivalOrder
    OBVIOUS
  <2>1. pending = <<>> /\ \A p \in Packets : captured[p] = 0 /\ enqueued[p] = 0
    BY DEF Init
  <2>2. Ascending(pending)
    BY <2>1 DEF Ascending
  <2> QED
    BY <2>1, <2>2 DEF ArrivalOrder
<1>2. TypeOK /\ PacketsConserved /\ ArrivalOrder /\ [Next]_vars => ArrivalOrder'
  <2> SUFFICES ASSUME TypeOK, PacketsConserved, ArrivalOrder, [Next]_vars
               PROVE  ArrivalOrder'
    OBVIOUS
  <2>1. CASE UNCHANGED vars
    BY <2>1, ArrivalKept DEF vars, capture
  <2> QED
    BY <2>1, CaptureKeepsArrival, OthersLeaveCapture, ArrivalKept DEF Next, Returned
<1> QED
  BY <1>1, <1>2, TypeCorrect, EveryPacketCounted, PTL DEF Spec

\* A batch the queue takes comes after all that is enqueued.
LEMMA FlushKeepsParseOrder ==
  ASSUME TypeOK, PacketPlaces, ParseOrder, options.parserWorkerCount = 1,
         NEW batch \in Seq(Packets), FlushPacketBatch(batch), Ascending(batch),
         \A x \in Packets, q \in Range(batch) : enqueued[x] > 0 => x < q,
         UNCHANGED <<options, worker, parsed>>
  PROVE  ParseOrder'
<1> DEFINE items == packetQueue.items
<1>1. /\ Left(1)' = Left(1) /\ 1 \in Workers
      /\ items \in Seq(Seq(Packets))
      /\ Range(Left(1)) \subseteq Packets
      /\ \A i \in DOMAIN items : Range(items[i]) \subseteq Packets
  BY PlacesType DEF Left, Workers
<1>2. CASE UNCHANGED packetQueue
  BY <1>1, <1>2 DEF ParseOrder, Before, Ascending
<1>3. CASE packetQueue' = Pushed(packetQueue, batch)
  <2> DEFINE n == Len(items) + 1
  <2>1. /\ n \in Nat /\ DOMAIN items = 1 .. Len(items) /\ Len(items) \in Nat
        /\ DOMAIN items' = 1 .. n
        /\ items'[n] = batch
        /\ \A i \in DOMAIN items : i \in 1 .. n /\ i < n /\ ~(n < i) /\ items'[i] = items[i]
        /\ \A i \in 1 .. n : i = n \/ i \in DOMAIN items
        /\ ~(n < n)
    BY <1>1, <1>3 DEF Pushed
  <2> HIDE DEF n, items
  <2>2. \A i \in DOMAIN items : Before(items[i], batch)
    <3>1. \A i \in DOMAIN items : \A p \in Range(items[i]) : p \in Packets /\ enqueued[p] > 0
      BY <1>1 DEF PacketPlaces, items
    <3> QED
      BY <3>1 DEF Before
  <2>3. Before(Left(1), batch)
    <3>1. \A p \in Range(Left(1)) : p \in Packets /\ enqueued[p] > 0
      BY <1>1 DEF PacketPlaces
    <3> QED
      BY <3>1 DEF Before
  <2>4. \A p \in Packets : parsed[p] > 0 => \A q \in Range(batch) : p < q
    <3>1. \A p \in Packets : parsed[p] > 0 => enqueued[p] > 0
      <4> SUFFICES ASSUME NEW p \in Packets, parsed[p] > 0
                   PROVE  enqueued[p] > 0
        OBVIOUS
      <4>1. parsed[p] <= enqueued[p] /\ parsed[p] \in Nat /\ enqueued[p] \in Nat
        BY DEF PacketPlaces, ParsedAtMostOnce, TypeOK
      <4> QED
        BY <4>1
    <3> QED
      BY <3>1
  <2>5. /\ \A i \in DOMAIN items : Ascending(items[i]) /\ Before(Left(1), items[i])
        /\ \A i, j \in DOMAIN items : i < j => Before(items[i], items[j])
        /\ Ascending(Left(1))
        /\ \A p \in Packets : parsed[p] > 0 =>
             /\ \A q \in Range(Left(1)) : p < q
             /\ \A i \in DOMAIN items : \A q \in Range(items[i]) : p < q
    BY DEF ParseOrder, items
  <2>6. \A i \in DOMAIN items' : Ascending(items'[i]) /\ Before(Left(1)', items'[i])
    BY <1>1, <2>1, <2>3, <2>5
  <2>7. \A i, j \in DOMAIN items' : i < j => Before(items'[i], items'[j])
    BY <2>1, <2>2, <2>5
  <2>8. \A p \in Packets : parsed'[p] > 0 =>
          /\ \A q \in Range(Left(1)') : p < q
          /\ \A i \in DOMAIN items' : \A q \in Range(items'[i]) : p < q
    BY <1>1, <2>1, <2>4, <2>5
  <2> QED
    BY <1>1, <2>5, <2>6, <2>7, <2>8 DEF ParseOrder, items, Before, Ascending
<1> QED
  BY <1>2, <1>3 DEF FlushPacketBatch

\* The one worker takes the front batch.
LEMMA PopKeepsParseOrder ==
  ASSUME TypeOK, ParseOrder, options.parserWorkerCount = 1, PopPackets(1)
  PROVE  ParseOrder'
<1> DEFINE items == packetQueue.items
           rest == Tail(items)
<1>1. /\ items' = rest /\ items # <<>> /\ items \in Seq(Seq(Packets))
      /\ UNCHANGED parsed
      /\ Left(1)' = Head(items)
  BY PlacesType DEF PopPackets, Popped, IsEmpty, Workers, TypeOK, Left
<1>2. /\ DOMAIN items = 1 .. Len(items) /\ Len(items) \in Nat \ {0}
      /\ DOMAIN rest = 1 .. (Len(items) - 1)
      /\ \A i \in 1 .. (Len(items) - 1) : rest[i] = items[i + 1]
      /\ Head(items) = items[1]
  BY <1>1
<1> HIDE DEF rest, items
<1>3. 1 \in DOMAIN items
  BY <1>2
<1>4. \A i \in DOMAIN rest : i + 1 \in DOMAIN items /\ 1 < i + 1 /\ rest[i] = items[i + 1]
  BY <1>2
<1>5. \A i, j \in DOMAIN rest : i < j => i + 1 < j + 1
  BY <1>2
<1>6. /\ \A i \in DOMAIN items : Ascending(items[i])
      /\ \A i, j \in DOMAIN items : i < j => Before(items[i], items[j])
      /\ \A p \in Packets : parsed[p] > 0 =>
           \A i \in DOMAIN items : \A q \in Range(items[i]) : p < q
  BY DEF ParseOrder, items
<1>7. Left(1)' = items[1]
  BY <1>1, <1>2
<1>8. \A i \in DOMAIN rest : Ascending(rest[i]) /\ Before(Left(1)', rest[i])
  BY <1>3, <1>4, <1>6, <1>7
<1>9. \A i, j \in DOMAIN rest : i < j => Before(rest[i], rest[j])
  BY <1>4, <1>5, <1>6
<1>10. Ascending(Left(1)')
  BY <1>3, <1>6, <1>7
<1>11. \A p \in Packets : parsed[p] > 0 =>
         /\ \A q \in Range(Left(1)') : p < q
         /\ \A i \in DOMAIN rest : \A q \in Range(rest[i]) : p < q
  BY <1>3, <1>4, <1>6, <1>7
<1> QED
  <2>1. packetQueue'.items = rest
    BY <1>1 DEF items
  <2> QED
    BY <1>1, <1>8, <1>9, <1>10, <1>11, <2>1 DEF ParseOrder, Before, Ascending

\* The first packet of an ascending batch precedes the others.
LEMMA TailAscending ==
  ASSUME NEW S, NEW s \in Seq(S), s # <<>>, Ascending(s)
  PROVE  /\ Ascending(Tail(s))
         /\ \A q \in Range(Tail(s)) : Head(s) < q /\ q \in Range(s)
<1> DEFINE t == Tail(s)
<1>1. /\ DOMAIN t = 1 .. (Len(s) - 1) /\ Len(s) \in Nat \ {0}
      /\ \A i \in 1 .. (Len(s) - 1) : t[i] = s[i + 1]
      /\ DOMAIN s = 1 .. Len(s) /\ Head(s) = s[1]
  OBVIOUS
<1> HIDE DEF t
<1>2. \A i \in DOMAIN t : i + 1 \in DOMAIN s /\ 1 \in DOMAIN s /\ 1 < i + 1
  BY <1>1
<1>3. \A i, j \in DOMAIN t : i < j => i + 1 < j + 1
  BY <1>1
<1>4. Ascending(t)
  BY <1>1, <1>2, <1>3 DEF Ascending
<1>5. \A i \in DOMAIN t : Head(s) < t[i] /\ t[i] \in Range(s)
  BY <1>1, <1>2 DEF Ascending, Range
<1> QED
  BY <1>4, <1>5 DEF t, Range

\* Parsing takes the first packet; a throw takes them all.
LEMMA ParseKeepsParseOrder ==
  ASSUME TypeOK, ParseOrder, options.parserWorkerCount = 1,
         worker[1].at = "parsing", worker[1].packets # <<>>,
         NEW p \in Packets, p = Head(worker[1].packets), parsed' = Bump(parsed, {p}),
         Left(1)' = Tail(worker[1].packets) \/ Left(1)' = <<>>,
         UNCHANGED <<options, packetQueue>>
  PROVE  ParseOrder'
<1> DEFINE items == packetQueue.items
<1>1. /\ Left(1) = worker[1].packets /\ Left(1) \in Seq(Packets)
      /\ items' = items
  BY PlacesType DEF Left, Workers
<1> HIDE DEF items
<1>2. /\ \A i \in DOMAIN items : Ascending(items[i]) /\ Before(Left(1), items[i])
      /\ \A i, j \in DOMAIN items : i < j => Before(items[i], items[j])
      /\ Ascending(Left(1))
      /\ \A q \in Packets : parsed[q] > 0 =>
           /\ \A r \in Range(Left(1)) : q < r
           /\ \A i \in DOMAIN items : \A r \in Range(items[i]) : q < r
  BY DEF ParseOrder, items
<1>3. /\ Ascending(Left(1)') /\ Range(Left(1)') \subseteq Range(Left(1))
      /\ \A q \in Range(Left(1)') : p < q
      /\ p \in Range(Left(1))
  <2>1. CASE Left(1)' = Tail(Left(1))
    <3>1. /\ Ascending(Left(1)')
          /\ \A q \in Range(Left(1)') : p < q /\ q \in Range(Left(1))
      BY <1>1, <1>2, <2>1, TailAscending
    <3>2. p \in Range(Left(1))
      <4>1. 1 \in DOMAIN Left(1) /\ Left(1)[1] = p
        BY <1>1
      <4> QED
        BY <4>1 DEF Range
    <3> QED
      BY <3>1, <3>2
  <2>2. CASE Left(1)' = <<>>
    <3>1. Ascending(Left(1)') /\ Range(Left(1)') = {}
      BY <2>2 DEF Ascending, Range
    <3>2. 1 \in DOMAIN Left(1) /\ Left(1)[1] = p
      BY <1>1
    <3> QED
      BY <3>1, <3>2 DEF Range
  <2> QED
    BY <1>1, <2>1, <2>2
<1>4. \A q \in Packets : parsed'[q] > 0 => q = p \/ parsed[q] > 0
  <2>1. \A q \in Packets : q # p => parsed'[q] = parsed[q]
    BY OnePacketParsed
  <2> QED
    BY <2>1
<1>5. \A i \in DOMAIN items : \A r \in Range(items[i]) : p < r
  BY <1>2, <1>3 DEF Before
<1>6. \A q \in Packets : parsed'[q] > 0 =>
        /\ \A r \in Range(Left(1)') : q < r
        /\ \A i \in DOMAIN items : \A r \in Range(items[i]) : q < r
  BY <1>2, <1>3, <1>4, <1>5
<1>7. \A i \in DOMAIN items : Before(Left(1)', items[i])
  BY <1>2, <1>3 DEF Before
<1> QED
  <2> DEFINE next == packetQueue'.items
  <2>1. next = items
    BY <1>1 DEF items
  <2> HIDE DEF next
  <2>2. /\ \A i \in DOMAIN next : Ascending(next[i]) /\ Before(Left(1)', next[i])
        /\ \A i, j \in DOMAIN next : i < j => Before(next[i], next[j])
        /\ Ascending(Left(1)')
    BY <1>2, <1>3, <1>7, <2>1
  <2>3. \A q \in Packets : parsed'[q] > 0 =>
          /\ \A r \in Range(Left(1)') : q < r
          /\ \A i \in DOMAIN next : \A r \in Range(next[i]) : q < r
    BY <1>6, <2>1
  <2> QED
    BY <2>2, <2>3 DEF ParseOrder, Before, Ascending, next

\* A step that parses nothing and leaves every packet where it was.
LEMMA ParseOrderKept ==
  ASSUME ParseOrder, packetQueue'.items = packetQueue.items, Left(1)' = Left(1),
         UNCHANGED parsed
  PROVE  ParseOrder'
<1> DEFINE items == packetQueue.items
<1>1. items' = items
  OBVIOUS
<1> QED
  BY <1>1 DEF ParseOrder, Before, Ascending

\* The options are fixed at the start of a run.
LEMMA OptionsFixed ==
  ASSUME [Next]_vars
  PROVE  options' = options
  BY DEF Next, EnqueuePacket, EndCapture, Runner, ClosePacketQueue, JoinWorkers,
         CloseObservationQueue, JoinAggregator, RunnerStep, ParserWorker, PopPackets,
         PacketsExhausted, ParsePacket, ParserThrows, NothingToPush, PushObservations,
         PushRefused, WorkerClosesPackets, WorkerClosesObservations, Aggregator,
         PopObservations, ObservationsExhausted, ApplyObservation, ApplyThrows, CountBatch,
         AggregatorClosesPackets, AggregatorClosesObservations, Returned, vars

\* What the capture thread enqueues comes last.
LEMMA CaptureKeepsParseOrder ==
  ASSUME TypeOK, PacketsConserved, PacketPlaces, ArrivalOrder, ParseOrder,
         options.parserWorkerCount = 1,
         (\E p \in Packets : EnqueuePacket(p)) \/ EndCapture
  PROVE  ParseOrder'
<1>1. ASSUME NEW p \in Packets, EnqueuePacket(p)
      PROVE  ParseOrder'
  <2>1. UNCHANGED <<options, worker, parsed>> /\ captured[p] = 0
    BY <1>1 DEF EnqueuePacket, parsing
  <2>2. CASE FlushPacketBatch(Append(pending, p))
    <3>1. Append(pending, p) \in Seq(Packets)
      BY DEF TypeOK
    <3> QED
      BY <2>1, <2>2, <3>1, AppendInOrder, FlushKeepsParseOrder
  <2>3. CASE packetQueue' = packetQueue
    <3>1. Left(1)' = Left(1)
      BY <2>1 DEF Left
    <3> QED
      BY <2>1, <2>3, <3>1, ParseOrderKept
  <2> QED
    BY <1>1, <2>2, <2>3 DEF EnqueuePacket
<1>2. CASE EndCapture
  <2>1. /\ FlushPacketBatch(pending)
        /\ UNCHANGED <<options, worker, parsed>>
    BY <1>2 DEF EndCapture, parsing
  <2>2. /\ pending \in Seq(Packets)
        /\ Ascending(pending)
        /\ \A x \in Packets, q \in Range(pending) : enqueued[x] > 0 => x < q
    BY DEF TypeOK, ArrivalOrder
  <2> QED
    BY <2>1, <2>2, FlushKeepsParseOrder
<1> QED
  BY <1>1, <1>2

\* The only worker parses in order.
LEMMA WorkerKeepsParseOrder ==
  ASSUME TypeOK, ParseOrder, options.parserWorkerCount = 1,
         NEW w \in Workers, ParserWorker(w)
  PROVE  ParseOrder'
<1>1. w = 1 /\ worker \in [Workers -> [at : WorkerControl, packets : Seq(Packets),
                                      observations : Seq(Observations)]]
  BY DEF Workers, TypeOK
<1>2. CASE PopPackets(w)
  BY <1>1, <1>2, PopKeepsParseOrder
<1>3. CASE ParsePacket(w) \/ ParserThrows(w)
  <2>1. /\ worker[1].at = "parsing" /\ worker[1].packets # <<>>
        /\ parsed' = Bump(parsed, {Head(worker[1].packets)})
        /\ UNCHANGED <<options, packetQueue>>
    BY <1>1, <1>3 DEF ParsePacket, ParserThrows
  <2>2. Head(worker[1].packets) \in Packets
    BY <1>1, <2>1
  <2>3. Left(1)' = Tail(worker[1].packets) \/ Left(1)' = <<>>
    <3>1. CASE ParsePacket(w)
      <4>1. worker'[1].at = "parsing" /\ worker'[1].packets = Tail(worker[1].packets)
        BY <1>1, <3>1 DEF ParsePacket
      <4> QED
        BY <4>1 DEF Left
    <3>2. CASE ParserThrows(w)
      <4>1. worker'[1].at = "closePackets"
        BY <1>1, <3>2 DEF ParserThrows, WorkerGoes
      <4> QED
        BY <4>1 DEF Left
    <3> QED
      BY <1>3, <3>1, <3>2
  <2> QED
    BY <2>1, <2>2, <2>3, ParseKeepsParseOrder
<1>4. CASE \/ PacketsExhausted(w) \/ NothingToPush(w) \/ PushObservations(w) \/ PushRefused(w)
           \/ WorkerClosesPackets(w) \/ WorkerClosesObservations(w)
  <2>1. /\ packetQueue'.items = packetQueue.items /\ UNCHANGED parsed
        /\ worker[1].at = "parsing" => worker[1].packets = <<>>
        /\ \E to \in WorkerControl \ {"parsing"} : WorkerGoes(1, to)
    <3>1. CASE PacketsExhausted(w) \/ NothingToPush(w)
      BY <1>1, <3>1 DEF PacketsExhausted, NothingToPush, BatchParsed, WorkerControl
    <3>2. CASE PushObservations(w) \/ PushRefused(w)
      BY <1>1, <3>2 DEF PushObservations, PushRefused, BatchParsed, WorkerControl
    <3>3. CASE WorkerClosesPackets(w)
      BY <1>1, <3>3 DEF WorkerClosesPackets, Closed, WorkerControl
    <3>4. CASE WorkerClosesObservations(w)
      BY <1>1, <3>4 DEF WorkerClosesObservations, WorkerControl
    <3> QED
      BY <1>4, <3>1, <3>2, <3>3, <3>4
  <2>2. Left(1) = <<>> /\ Left(1)' = <<>>
    <3>1. PICK to \in WorkerControl \ {"parsing"} : WorkerGoes(1, to)
      BY <2>1
    <3>2. worker'[1].at = to
      BY <1>1, <3>1 DEF WorkerGoes
    <3> QED
      BY <2>1, <3>2 DEF Left
  <2> QED
    BY <2>1, <2>2, ParseOrderKept
<1> QED
  BY <1>2, <1>3, <1>4 DEF ParserWorker

\* With one worker, ParseOrder holds in every reachable state.
LEMMA OneWorkerParsesInOrder == Spec => [](options.parserWorkerCount = 1 => ParseOrder)
<1>1. Init => ParseOrder
  <2> SUFFICES ASSUME Init
               PROVE  ParseOrder
    OBVIOUS
  <2>1. /\ packetQueue.items = <<>> /\ Left(1) = <<>>
        /\ \A p \in Packets : parsed[p] = 0
    <3>1. 1 \in Workers => worker[1].at = "popping"
      BY DEF Init
    <3>2. 1 \in Workers
      <4>1. TypeOK
        BY InitType
      <4> QED
        BY <4>1, NormalOptionsType DEF TypeOK, Workers
    <3> QED
      BY <3>1, <3>2 DEF Init, NewQueue, Left
  <2> QED
    BY <2>1 DEF ParseOrder, Ascending, Range
<1>2. TypeOK /\ PacketsConserved /\ PacketPlaces /\ ArrivalOrder
        /\ (options.parserWorkerCount = 1 => ParseOrder) /\ [Next]_vars
        => (options.parserWorkerCount = 1 => ParseOrder)'
  <2> SUFFICES ASSUME TypeOK, PacketsConserved, PacketPlaces, ArrivalOrder, ParseOrder,
                      options.parserWorkerCount = 1, [Next]_vars
               PROVE  ParseOrder'
    BY OptionsFixed
  <2>1. CASE Runner \/ Aggregator \/ UNCHANGED vars
    <3>1. packetQueue'.items = packetQueue.items /\ UNCHANGED <<worker, parsed>>
      <4>1. CASE Runner
        BY <4>1 DEF Runner, ClosePacketQueue, JoinWorkers, CloseObservationQueue,
                    JoinAggregator, RunnerStep, Closed, parsing
      <4>2. CASE AggregatorClosesPackets
        BY <4>2 DEF AggregatorClosesPackets, Closed, parsing
      <4>3. CASE UNCHANGED vars
        BY <4>3 DEF vars, parsing
      <4>4. CASE PopObservations \/ ObservationsExhausted \/ ApplyObservation \/ ApplyThrows
        BY <4>4 DEF PopObservations, ObservationsExhausted, ApplyObservation, ApplyThrows,
                    parsing
      <4>5. CASE CountBatch \/ AggregatorClosesObservations
        BY <4>5 DEF CountBatch, AggregatorClosesObservations, parsing
      <4> QED
        BY <2>1, <4>1, <4>2, <4>3, <4>4, <4>5 DEF Aggregator
    <3>2. Left(1)' = Left(1)
      BY <3>1 DEF Left
    <3> QED
      BY <3>1, <3>2, ParseOrderKept
  <2> QED
    BY <2>1, CaptureKeepsParseOrder, WorkerKeepsParseOrder DEF Next, Returned
<1> QED
  BY <1>1, <1>2, TypeCorrect, EveryPacketCounted, PacketsInTheirPlaces, PacketsArriveInOrder,
     PTL DEF Spec

\* The packets of observations are numbers.
LEMMA ObservationTypes ==
  ASSUME TypeOK, 1 \in Workers
  PROVE  /\ \A i \in DOMAIN Line : \A k \in DOMAIN Line[i] :
              Line[i][k].packet \in Packets /\ Line[i][k].mac \in Macs
         /\ \A k \in DOMAIN Held(1) : Held(1)[k].packet \in Packets
<1>1. \A batch \in Seq(Observations) : \A k \in DOMAIN batch :
        batch[k].packet \in Packets /\ batch[k].mac \in Macs
  <2>1. ASSUME NEW batch \in Seq(Observations), NEW k \in DOMAIN batch
        PROVE  batch[k].packet \in Packets /\ batch[k].mac \in Macs
    <3>1. batch[k] \in Observations
      OBVIOUS
    <3> QED
      BY <3>1 DEF Observations
  <2> QED
    BY <2>1
<1> QED
  BY <1>1, ObservationPlacesType

\* The current observation is the one of the first batch that comes next.
LEMMA CurrentInLine ==
  ASSUME TypeOK, aggregator.at = "applying", aggregator.next <= Len(aggregator.batch)
  PROVE  /\ 1 \in DOMAIN Line /\ Line[1] = aggregator.batch
         /\ aggregator.next \in DOMAIN Line[1]
         /\ Current = Line[1][aggregator.next]
<1>1. /\ aggregator.batch \in Seq(Observations) /\ aggregator.next \in Nat \ {0}
      /\ observationQueue.items \in Seq(Seq(Observations))
  BY DEF TypeOK, QueueType
<1>2. Line = <<aggregator.batch>> \o observationQueue.items
  BY DEF Line
<1>3. 1 \in DOMAIN Line /\ Line[1] = aggregator.batch
  BY <1>1, <1>2
<1>4. aggregator.next \in DOMAIN aggregator.batch
  BY <1>1
<1> QED
  BY <1>3, <1>4 DEF Current

\* Applying the current observation never takes an asset back, and puts no asset
\* ahead of what is still to be applied.
LEMMA ApplyingInOrder ==
  ASSUME TypeOK, ApplyOrder, 1 \in Workers,
         aggregator.at = "applying", aggregator.next <= Len(aggregator.batch),
         StoreApplies(Current)
  PROVE  /\ NoneLater(store')
         /\ \A m \in Macs : store'[m] >= store[m]
<1> DEFINE o == Current
           next == aggregator.next
<1>1. /\ 1 \in DOMAIN Line /\ next \in DOMAIN Line[1] /\ o = Line[1][next]
      /\ next \in Nat
  BY CurrentInLine DEF TypeOK
<1>2. o.packet \in Packets /\ o.mac \in Macs
  BY <1>1, ObservationTypes
<1>3. /\ store'[o.mac] = o.packet
      /\ \A m \in Macs : m # o.mac => store'[m] = store[m]
      /\ \A m \in Macs : store[m] \in 0 .. MaxPackets
  BY <1>2 DEF StoreApplies, TypeOK
<1>4. ToApply(1, next)
  BY <1>1 DEF ToApply
<1>5. store[o.mac] <= o.packet
  BY <1>1, <1>2, <1>4 DEF ApplyOrder, NoneLater
<1>6. parsed[o.packet] > 0
  BY <1>1 DEF ApplyOrder, AllParsed
<1>7. \A k \in DOMAIN Held(1) : o.packet <= Held(1)[k].packet
  BY <1>1 DEF ApplyOrder, NotAfter
<1>8. ASSUME NEW i \in DOMAIN Line, NEW k \in DOMAIN Line[i], ToApply(i, k)
      PROVE  o.packet <= Line[i][k].packet
  <2>1. i \in Nat /\ k \in Nat
    <3>1. Line \in Seq(Seq(Observations)) /\ Line[i] \in Seq(Observations)
      BY ObservationPlacesType
    <3>2. DOMAIN Line = 1 .. Len(Line) /\ DOMAIN Line[i] = 1 .. Len(Line[i])
      BY <3>1
    <3>3. DOMAIN Line \subseteq Nat /\ DOMAIN Line[i] \subseteq Nat
      BY <3>2
    <3> QED
      BY <3>3
  <2>2. CASE i = 1
    <3>1. next <= k
      BY <1>1, <1>8, <2>1, <2>2 DEF ToApply
    <3> QED
      BY <1>1, <2>2, <3>1 DEF ApplyOrder, InOrder
  <2>3. CASE i # 1
    <3>1. 1 < i
      <4>1. Line \in Seq(Seq(Observations))
        BY ObservationPlacesType
      <4>2. DOMAIN Line = 1 .. Len(Line)
        BY <4>1
      <4> QED
        BY <2>1, <2>3, <4>2
    <3> QED
      BY <1>1, <3>1 DEF ApplyOrder, NotAfter
  <2> QED
    BY <2>2, <2>3
<1> HIDE DEF o
<1>9. \A m \in Macs : store'[m] >= store[m]
  <2> SUFFICES ASSUME NEW m \in Macs
               PROVE  store'[m] >= store[m]
    OBVIOUS
  <2>1. CASE m = o.mac
    BY <1>2, <1>3, <1>5, <2>1 DEF Packets
  <2>2. CASE m # o.mac
    BY <1>3, <2>2
  <2> QED
    BY <2>1, <2>2
<1>10. NoneLater(store')
  <2> SUFFICES ASSUME NEW m \in Macs
               PROVE  /\ store'[m] # 0 => parsed[store'[m]] > 0
                      /\ \A i \in DOMAIN Line : \A k \in DOMAIN Line[i] :
                           ToApply(i, k) => store'[m] <= Line[i][k].packet
                      /\ \A k \in DOMAIN Held(1) : store'[m] <= Held(1)[k].packet
    BY DEF NoneLater
  <2>1. CASE m = o.mac
    BY <1>3, <1>6, <1>7, <1>8, <2>1
  <2>2. CASE m # o.mac
    BY <1>3, <2>2 DEF ApplyOrder, NoneLater
  <2> QED
    BY <2>1, <2>2
<1> QED
  BY <1>9, <1>10

\* A step that leaves the line as it is, and drops what the worker held or keeps it.
LEMMA LineKept ==
  ASSUME TypeOK, ApplyOrder, 1 \in Workers, NoneLater(store'), store' \in [Macs -> 0 .. MaxPackets],
         Line' = Line, Held(1)' = Held(1) \/ Held(1)' = <<>>,
         \A i \in DOMAIN Line : \A k \in DOMAIN Line[i] : ToApply(i, k)' => ToApply(i, k),
         \A p \in Packets : parsed[p] > 0 => parsed'[p] > 0
  PROVE  ApplyOrder'
<1> DEFINE held == Held(1)'
<1>1. \A k \in DOMAIN held : k \in DOMAIN Held(1) /\ held[k] = Held(1)[k]
  OBVIOUS
<1> HIDE DEF held
<1>2. \A m \in Macs : store'[m] # 0 => store'[m] \in Packets
  BY DEF Packets
<1>3. /\ \A i \in DOMAIN Line' : InOrder(Line'[i]) /\ NotAfter(Line'[i], held)
      /\ \A i, j \in DOMAIN Line' : i < j => NotAfter(Line'[i], Line'[j])
      /\ InOrder(held)
  BY <1>1 DEF ApplyOrder, InOrder, NotAfter
<1>4. /\ \A i \in DOMAIN Line' : \A k \in DOMAIN Line'[i] : parsed'[Line'[i][k].packet] > 0
      /\ \A k \in DOMAIN held : parsed'[held[k].packet] > 0
  BY <1>1, ObservationTypes DEF ApplyOrder, AllParsed
<1>5. \A m \in Macs :
        /\ store'[m] # 0 => parsed'[store'[m]] > 0
        /\ \A i \in DOMAIN Line' : \A k \in DOMAIN Line'[i] :
             ToApply(i, k)' => store'[m] <= Line'[i][k].packet
        /\ \A k \in DOMAIN held : store'[m] <= held[k].packet
  BY <1>1, <1>2 DEF NoneLater
<1> QED
  BY <1>3, <1>4, <1>5 DEF ApplyOrder, InOrder, NotAfter, AllParsed, NoneLater, held

\* The aggregator is done with the first batch, or abandons it.
LEMMA LineAdvances ==
  ASSUME TypeOK, ApplyOrder, 1 \in Workers, NoneLater(store'),
         aggregator.at = "applying", aggregator'.at # "applying",
         UNCHANGED <<observationQueue, parsed>>, Held(1)' = Held(1)
  PROVE  ApplyOrder'
<1> DEFINE items == observationQueue.items
           rest == Line'
<1>1. /\ aggregator.batch \in Seq(Observations)
      /\ items \in Seq(Seq(Observations))
      /\ Line = <<aggregator.batch>> \o items
      /\ rest = items
  BY DEF TypeOK, QueueType, Line
<1> HIDE DEF items
<1>2. \A i \in DOMAIN items : i + 1 \in DOMAIN Line /\ Line[i + 1] = items[i] /\ i + 1 # 1
                                 /\ i \in Nat
  BY <1>1
<1>3. \A i, j \in DOMAIN items : i < j => i + 1 < j + 1
  BY <1>2
<1>4. \A i \in DOMAIN items : \A k : ToApply(i + 1, k)
  BY <1>2 DEF ToApply
<1> HIDE DEF rest
<1>5. /\ \A i \in DOMAIN rest : InOrder(rest[i]) /\ NotAfter(rest[i], Held(1))
                                 /\ AllParsed(rest[i])
      /\ \A i, j \in DOMAIN rest : i < j => NotAfter(rest[i], rest[j])
      /\ InOrder(Held(1)) /\ AllParsed(Held(1))
  BY <1>1, <1>2, <1>3 DEF ApplyOrder
<1>6. \A m \in Macs :
        /\ store'[m] # 0 => parsed[store'[m]] > 0
        /\ \A i \in DOMAIN rest : \A k \in DOMAIN rest[i] : store'[m] <= rest[i][k].packet
        /\ \A k \in DOMAIN Held(1) : store'[m] <= Held(1)[k].packet
  <2> SUFFICES ASSUME NEW m \in Macs
               PROVE  /\ store'[m] # 0 => parsed[store'[m]] > 0
                      /\ \A i \in DOMAIN rest : \A k \in DOMAIN rest[i] :
                           store'[m] <= rest[i][k].packet
                      /\ \A k \in DOMAIN Held(1) : store'[m] <= Held(1)[k].packet
    OBVIOUS
  <2>1. ASSUME NEW i \in DOMAIN rest, NEW k \in DOMAIN rest[i]
        PROVE  store'[m] <= rest[i][k].packet
    <3>1. i + 1 \in DOMAIN Line /\ Line[i + 1] = rest[i] /\ ToApply(i + 1, k)
      BY <1>1, <1>2, <1>4
    <3> QED
      BY <3>1 DEF NoneLater
  <2> QED
    BY <2>1 DEF NoneLater
<1> QED
  BY <1>5, <1>6 DEF ApplyOrder, InOrder, NotAfter, AllParsed, NoneLater, rest

\* The elements of a concatenation.
LEMMA ConcatenationOf ==
  ASSUME NEW S, NEW s \in Seq(S), NEW t \in Seq(S)
  PROVE  /\ DOMAIN (s \o t) = 1 .. (Len(s) + Len(t))
         /\ \A i \in 1 .. Len(s) : (s \o t)[i] = s[i]
         /\ \A i \in 1 .. (Len(s) + Len(t)) : i > Len(s) => (s \o t)[i] = t[i - Len(s)]
<1>1. Len(s) \in Nat /\ Len(t) \in Nat
  OBVIOUS
<1>2. DOMAIN (s \o t) = 1 .. (Len(s) + Len(t))
  BY <1>1
<1>3. \A i \in 1 .. Len(s) : (s \o t)[i] = s[i]
  BY <1>1
<1>4. \A i \in 1 .. (Len(s) + Len(t)) : i > Len(s) => (s \o t)[i] = t[i - Len(s)]
  BY <1>1
<1> QED
  BY <1>2, <1>3, <1>4

\* What parsing the next packet yields comes after all observations so far.
LEMMA ParseKeepsApplyOrder ==
  ASSUME TypeOK, ParseOrder, ApplyOrder, 1 \in Workers, ParsePacket(1)
  PROVE  ApplyOrder'
<1> DEFINE held == Held(1)
           longer == Held(1)'
           n == Len(held)
<1>1. /\ Line' = Line /\ UNCHANGED <<store, aggregator>>
      /\ held = worker[1].observations /\ held \in Seq(Observations)
      /\ Left(1) = worker[1].packets /\ Left(1) \in Seq(Packets) /\ Left(1) # <<>>
      /\ worker \in [Workers -> [at : WorkerControl, packets : Seq(Packets),
                                 observations : Seq(Observations)]]
      /\ store \in [Macs -> 0 .. MaxPackets]
  BY PlacesType, ObservationPlacesType DEF ParsePacket, TypeOK, Line, Held, Left, monitor
<1>2. PICK p \in Packets : p = Head(worker[1].packets)
  BY <1>1
<1>3. PICK macs \in ParseResults :
        worker' = [worker EXCEPT ![1].packets = Tail(@),
                                 ![1].observations = @ \o ObservationsOf(p, macs)]
  BY <1>2 DEF ParsePacket
<1>4. longer = held \o ObservationsOf(p, macs)
  <2>1. worker'[1].at = "parsing"
    BY <1>1, <1>3 DEF ParsePacket
  <2>2. worker'[1].observations = worker[1].observations \o ObservationsOf(p, macs)
    BY <1>1, <1>3
  <2> QED
    BY <1>1, <2>1, <2>2 DEF Held
<1>5. \A q \in Packets : parsed[q] > 0 => q < p
  <2>1. 1 \in DOMAIN Left(1) /\ Left(1)[1] = p
    BY <1>1, <1>2
  <2>2. p \in Range(Left(1))
    BY <2>1 DEF Range
  <2> QED
    BY <2>2 DEF ParseOrder
<1>6. /\ parsed'[p] > 0
      /\ \A q \in Packets : parsed[q] > 0 => parsed'[q] > 0
  <2>1. parsed \in [Packets -> Nat] /\ parsed' = Bump(parsed, {p})
    BY <1>2 DEF ParsePacket, TypeOK
  <2>2. parsed'[p] = parsed[p] + 1 /\ \A q \in Packets : q # p => parsed'[q] = parsed[q]
    BY <2>1, OnePacketParsed
  <2>3. parsed[p] \in Nat
    BY <2>1
  <2> QED
    BY <2>2, <2>3
<1> DEFINE m == Len(macs)
<1>7. /\ n \in Nat /\ m \in Nat /\ DOMAIN held = 1 .. n
      /\ ObservationsOf(p, macs) \in Seq(Observations)
      /\ Len(ObservationsOf(p, macs)) = m
      /\ \A i \in 1 .. m : ObservationsOf(p, macs)[i].packet = p
  <2>1. macs \in Seq(Macs)
    BY ParseAssumption
  <2> QED
    BY <1>1, <2>1, ObservationsOfType DEF ObservationsOf
<1> HIDE DEF held
<1>8. /\ DOMAIN longer = 1 .. (n + m)
      /\ \A i \in 1 .. n : longer[i] = held[i]
      /\ \A i \in 1 .. (n + m) : i > n => longer[i] = ObservationsOf(p, macs)[i - n]
  <2> DEFINE more == ObservationsOf(p, macs)
  <2>1. held \in Seq(Observations) /\ more \in Seq(Observations) /\ longer = held \o more
        /\ Len(more) = m /\ n = Len(held) /\ m \in Nat
    BY <1>1, <1>4, <1>7
  <2> HIDE DEF longer, more, m, n
  <2> QED
    BY <2>1, ConcatenationOf DEF more
<1> HIDE DEF longer
<1>9. \A k \in DOMAIN longer :
        \/ k \in DOMAIN held /\ longer[k] = held[k]
        \/ k \notin DOMAIN held /\ longer[k].packet = p
  <2> SUFFICES ASSUME NEW k \in DOMAIN longer, k \notin DOMAIN held
               PROVE  longer[k].packet = p
    BY <1>7, <1>8
  <2>1. k > n /\ k - n \in 1 .. m
    BY <1>7, <1>8
  <2> QED
    BY <1>7, <1>8, <2>1
<1>10. \A j, k \in DOMAIN longer : j <= k /\ k \in DOMAIN held => j \in DOMAIN held
  BY <1>7, <1>8
<1> HIDE DEF n, m
<1>11. /\ \A i \in DOMAIN Line : \A k \in DOMAIN Line[i] :
            Line[i][k].packet \in Packets /\ parsed[Line[i][k].packet] > 0
       /\ \A k \in DOMAIN held : held[k].packet \in Packets /\ parsed[held[k].packet] > 0
  BY ObservationTypes DEF ApplyOrder, AllParsed, held
<1>12. InOrder(longer)
  <2> SUFFICES ASSUME NEW j \in DOMAIN longer, NEW k \in DOMAIN longer, j <= k
               PROVE  longer[j].packet <= longer[k].packet
    BY DEF InOrder
  <2>1. CASE k \in DOMAIN held
    <3>1. j \in DOMAIN held /\ longer[j] = held[j] /\ longer[k] = held[k]
      BY <1>9, <1>10, <2>1
    <3> QED
      BY <2>1, <3>1 DEF ApplyOrder, InOrder, held
  <2>2. CASE k \notin DOMAIN held /\ j \in DOMAIN held
    <3>1. longer[j].packet < p /\ longer[k].packet = p /\ longer[j].packet \in Packets
      BY <1>5, <1>9, <1>11, <2>2
    <3> QED
      BY <3>1 DEF Packets
  <2>3. CASE k \notin DOMAIN held /\ j \notin DOMAIN held
    BY <1>9, <2>3 DEF Packets
  <2> QED
    BY <2>1, <2>2, <2>3
<1>13. \A k \in DOMAIN longer : parsed'[longer[k].packet] > 0
  BY <1>6, <1>9, <1>11
<1>14. ASSUME NEW i \in DOMAIN Line
       PROVE  /\ InOrder(Line[i])
              /\ NotAfter(Line[i], longer)
              /\ \A k \in DOMAIN Line[i] : parsed'[Line[i][k].packet] > 0
  <2>1. \A j \in DOMAIN Line[i], k \in DOMAIN longer : Line[i][j].packet <= longer[k].packet
    <3> SUFFICES ASSUME NEW j \in DOMAIN Line[i], NEW k \in DOMAIN longer
                 PROVE  Line[i][j].packet <= longer[k].packet
      OBVIOUS
    <3>1. CASE k \in DOMAIN held
      BY <1>9, <3>1 DEF ApplyOrder, NotAfter, held
    <3>2. CASE k \notin DOMAIN held
      <4>1. Line[i][j].packet < p /\ longer[k].packet = p /\ Line[i][j].packet \in Packets
        BY <1>5, <1>9, <1>11, <3>2
      <4> QED
        BY <4>1 DEF Packets
    <3> QED
      BY <3>1, <3>2
  <2> QED
    BY <1>6, <1>11, <2>1 DEF ApplyOrder, NotAfter
<1>15. ASSUME NEW a \in Macs
       PROVE  /\ store[a] # 0 => parsed'[store[a]] > 0
              /\ \A k \in DOMAIN longer : store[a] <= longer[k].packet
  <2>1. store[a] \in 0 .. MaxPackets /\ (store[a] # 0 => store[a] \in Packets)
    BY <1>1 DEF Packets
  <2>2. store[a] # 0 => parsed[store[a]] > 0
    BY DEF ApplyOrder, NoneLater
  <2>3. store[a] <= p
    <3>1. CASE store[a] = 0
      BY <3>1 DEF Packets
    <3>2. CASE store[a] # 0
      BY <1>5, <2>1, <2>2, <3>2 DEF Packets
    <3> QED
      BY <3>1, <3>2
  <2>4. \A k \in DOMAIN held : store[a] <= held[k].packet
    BY DEF ApplyOrder, NoneLater, held
  <2> QED
    BY <1>6, <1>9, <2>1, <2>2, <2>3, <2>4
<1>16. \A i \in DOMAIN Line : \A k : ToApply(i, k)' => ToApply(i, k)
  BY <1>1 DEF ToApply
<1> QED
  <2> DEFINE line == Line'
  <2>1. line = Line
    BY <1>1
  <2> HIDE DEF line
  <2>2. /\ \A i \in DOMAIN line :
             /\ InOrder(line[i])
             /\ NotAfter(line[i], longer)
             /\ \A k \in DOMAIN line[i] : parsed'[line[i][k].packet] > 0
        /\ \A i, j \in DOMAIN line : i < j => NotAfter(line[i], line[j])
    BY <1>14, <2>1 DEF ApplyOrder
  <2>3. \A a \in Macs :
          /\ store'[a] # 0 => parsed'[store'[a]] > 0
          /\ \A i \in DOMAIN line : \A k \in DOMAIN line[i] :
               ToApply(i, k)' => store'[a] <= line[i][k].packet
          /\ \A k \in DOMAIN longer : store'[a] <= longer[k].packet
    BY <1>1, <1>15, <1>16, <2>1 DEF ApplyOrder, NoneLater
  <2> QED
    BY <1>12, <1>13, <2>2, <2>3
       DEF ApplyOrder, InOrder, NotAfter, AllParsed, NoneLater, line, longer

\* A push takes what the worker held to the end of the line.
LEMMA PushKeepsApplyOrder ==
  ASSUME TypeOK, ApplyOrder, 1 \in Workers, PushObservations(1)
  PROVE  ApplyOrder'
<1> DEFINE n == Len(Line) + 1
           held == Held(1)
           old == Line
<1>1. /\ UNCHANGED <<parsed, store, aggregator>>
      /\ observationQueue'.items = Append(observationQueue.items, Held(1))
      /\ observationQueue.items \in Seq(Seq(Observations))
      /\ aggregator.batch \in Seq(Observations)
      /\ held \in Seq(Observations) /\ Line \in Seq(Seq(Observations))
  BY ObservationPlacesType DEF PushObservations, BatchParsed, Pushed, Held, monitor,
     TypeOK, QueueType
<1>2. Held(1)' = <<>>
  BY DEF PushObservations, WorkerGoes, TypeOK, Held
<1>3. Line' = Append(Line, held)
  BY <1>1, LineGrows
<1> DEFINE line == Line'
<1> HIDE DEF line, old, held
<1>4. /\ DOMAIN old = 1 .. Len(old) /\ Len(old) \in Nat
      /\ DOMAIN line = 1 .. (Len(old) + 1)
      /\ line[Len(old) + 1] = held
      /\ \A i \in 1 .. Len(old) : line[i] = old[i]
  BY <1>1, <1>3 DEF line, old
<1>5. /\ \A i \in DOMAIN line : \/ i \in DOMAIN old /\ line[i] = old[i]
                                \/ i \notin DOMAIN old /\ line[i] = held
      /\ \A i, j \in DOMAIN line : i < j => i \in DOMAIN old
  BY <1>4
<1>6. /\ \A i \in DOMAIN old : InOrder(old[i]) /\ NotAfter(old[i], held) /\ AllParsed(old[i])
      /\ \A i, j \in DOMAIN old : i < j => NotAfter(old[i], old[j])
      /\ InOrder(held) /\ AllParsed(held)
  BY DEF ApplyOrder, old, held
<1>7. \A m \in Macs :
        /\ store[m] # 0 => parsed[store[m]] > 0
        /\ \A i \in DOMAIN old : \A k \in DOMAIN old[i] :
             ToApply(i, k) => store[m] <= old[i][k].packet
        /\ \A k \in DOMAIN held : store[m] <= held[k].packet
  BY DEF ApplyOrder, NoneLater, old, held
<1>8. /\ \A i \in DOMAIN line : InOrder(line[i]) /\ AllParsed(line[i])
      /\ \A i, j \in DOMAIN line : i < j => NotAfter(line[i], line[j])
  BY <1>5, <1>6
<1>9. \A m \in Macs : \A i \in DOMAIN line : \A k \in DOMAIN line[i] :
        ToApply(i, k) => store[m] <= line[i][k].packet
  <2> SUFFICES ASSUME NEW m \in Macs, NEW i \in DOMAIN line, NEW k \in DOMAIN line[i],
                      ToApply(i, k)
               PROVE  store[m] <= line[i][k].packet
    OBVIOUS
  <2>1. CASE i \in DOMAIN old /\ line[i] = old[i]
    BY <1>7, <2>1
  <2>2. CASE line[i] = held
    BY <1>7, <2>2
  <2> QED
    BY <1>5, <2>1, <2>2
<1>10. \A i \in DOMAIN line : \A k : ToApply(i, k)' => ToApply(i, k)
  BY <1>1 DEF ToApply
<1> QED
  <2> DEFINE next == Held(1)'
  <2>1. next = <<>>
    BY <1>2
  <2> HIDE DEF next
  <2>2. /\ \A i \in DOMAIN line : NotAfter(line[i], next)
        /\ InOrder(next)
        /\ \A k \in DOMAIN next : FALSE
    BY <2>1 DEF NotAfter, InOrder
  <2>3. \A m \in Macs :
          /\ store'[m] # 0 => parsed'[store'[m]] > 0
          /\ \A i \in DOMAIN line : \A k \in DOMAIN line[i] :
               ToApply(i, k)' => store'[m] <= line[i][k].packet
    BY <1>1, <1>7, <1>9, <1>10
  <2>4. \A i \in DOMAIN line : \A k \in DOMAIN line[i] : parsed'[line[i][k].packet] > 0
    BY <1>1, <1>8 DEF AllParsed
  <2> QED
    BY <1>8, <2>2, <2>3, <2>4
       DEF ApplyOrder, InOrder, NotAfter, AllParsed, NoneLater, line, next

\* A step that leaves the aggregator and the store alone, and drops what the
\* worker held or keeps it.
LEMMA ApplyOrderKept ==
  ASSUME TypeOK, ApplyOrder, 1 \in Workers,
         observationQueue'.items = observationQueue.items, UNCHANGED <<aggregator, store>>,
         Held(1)' = Held(1) \/ Held(1)' = <<>>,
         \A p \in Packets : parsed[p] > 0 => parsed'[p] > 0
  PROVE  ApplyOrder'
<1>1. Line' = Line
  BY DEF Line
<1>2. \A i \in DOMAIN Line : \A k \in DOMAIN Line[i] : ToApply(i, k)' => ToApply(i, k)
  BY DEF ToApply
<1>3. NoneLater(store') /\ store' \in [Macs -> 0 .. MaxPackets]
  BY DEF ApplyOrder, TypeOK
<1> QED
  BY <1>1, <1>2, <1>3, LineKept

\* The only worker pushes in the order it parses.
LEMMA WorkerKeepsApplyOrder ==
  ASSUME TypeOK, ParseOrder, ApplyOrder, options.parserWorkerCount = 1,
         NEW w \in Workers, ParserWorker(w)
  PROVE  ApplyOrder'
<1>1. /\ w = 1 /\ 1 \in Workers
      /\ worker \in [Workers -> [at : WorkerControl, packets : Seq(Packets),
                                 observations : Seq(Observations)]]
  BY DEF Workers, TypeOK
<1>2. CASE ParsePacket(w)
  BY <1>1, <1>2, ParseKeepsApplyOrder
<1>3. CASE PushObservations(w)
  BY <1>1, <1>3, PushKeepsApplyOrder
<1>4. CASE ParserThrows(w)
  <2>1. /\ observationQueue'.items = observationQueue.items /\ UNCHANGED <<aggregator, store>>
        /\ parsed' = Bump(parsed, {Head(worker[1].packets)})
        /\ worker'[1].at = "closePackets"
    BY <1>1, <1>4 DEF ParserThrows, WorkerGoes, monitor
  <2>2. Held(1)' = <<>>
    BY <2>1 DEF Held
  <2>3. \A p \in Packets : parsed[p] > 0 => parsed'[p] > 0
    <3>1. PICK q : q = Head(worker[1].packets)
      OBVIOUS
    <3>2. parsed \in [Packets -> Nat] /\ parsed' = Bump(parsed, {q})
      BY <2>1, <3>1 DEF TypeOK
    <3>3. \A p \in Packets : parsed[p] \in Nat /\ parsed'[p] = parsed[p] + (IF p \in {q} THEN 1 ELSE 0)
      BY <3>2, BumpType
    <3> QED
      BY <3>3
  <2> QED
    BY <1>1, <2>1, <2>2, <2>3, ApplyOrderKept
<1>5. CASE PopPackets(w)
  <2>1. /\ observationQueue'.items = observationQueue.items
        /\ UNCHANGED <<aggregator, store, parsed>>
        /\ worker'[1].observations = <<>>
    BY <1>1, <1>5 DEF PopPackets, monitor
  <2>2. Held(1)' = <<>>
    BY <2>1 DEF Held
  <2> QED
    BY <1>1, <2>1, <2>2, ApplyOrderKept
<1>6. CASE \/ PacketsExhausted(w) \/ NothingToPush(w) \/ PushRefused(w)
           \/ WorkerClosesPackets(w) \/ WorkerClosesObservations(w)
  <2>1. /\ observationQueue'.items = observationQueue.items
        /\ UNCHANGED <<aggregator, store, parsed>>
        /\ \E to \in WorkerControl \ {"parsing"} : WorkerGoes(1, to)
    <3>1. CASE PacketsExhausted(w) \/ NothingToPush(w)
      BY <1>1, <3>1 DEF PacketsExhausted, NothingToPush, WorkerControl, monitor
    <3>2. CASE PushRefused(w)
      BY <1>1, <3>2 DEF PushRefused, WorkerControl, monitor
    <3>3. CASE WorkerClosesPackets(w)
      BY <1>1, <3>3 DEF WorkerClosesPackets, WorkerControl, monitor
    <3>4. CASE WorkerClosesObservations(w)
      BY <1>1, <3>4 DEF WorkerClosesObservations, Closed, WorkerControl, monitor
    <3> QED
      BY <1>6, <3>1, <3>2, <3>3, <3>4
  <2>2. Held(1)' = <<>>
    <3>1. PICK to \in WorkerControl \ {"parsing"} : WorkerGoes(1, to)
      BY <2>1
    <3>2. worker'[1].at = to
      BY <1>1, <3>1 DEF WorkerGoes
    <3> QED
      BY <3>2 DEF Held
  <2> QED
    BY <1>1, <2>1, <2>2, ApplyOrderKept
<1> QED
  BY <1>2, <1>3, <1>4, <1>5, <1>6 DEF ParserWorker

\* The aggregator applies in the order of the line.
LEMMA AggregatorKeepsApplyOrder ==
  ASSUME TypeOK, TypeOK', ApplyOrder, 1 \in Workers, Aggregator
  PROVE  ApplyOrder' /\ \A m \in Macs : store'[m] >= store[m]
<1>1. /\ Held(1)' = Held(1) /\ UNCHANGED parsed
  BY DEF Aggregator, PopObservations, ObservationsExhausted, ApplyObservation, ApplyThrows,
         CountBatch, AggregatorClosesPackets, AggregatorClosesObservations, parsing, Held
<1>2. ASSUME UNCHANGED store
      PROVE  NoneLater(store') /\ \A m \in Macs : store'[m] >= store[m]
  <2>1. \A m \in Macs : store[m] \in 0 .. MaxPackets
    BY DEF TypeOK
  <2> QED
    BY <1>2, <2>1, BoundAssumption DEF ApplyOrder
<1>3. store' \in [Macs -> 0 .. MaxPackets]
  BY DEF TypeOK
<1>4. CASE PopObservations
  <2>1. Line' = Line /\ UNCHANGED store
    BY <1>4, PopKeepsLine DEF PopObservations
  <2>2. \A i, k : ToApply(i, k)
    BY <1>4 DEF PopObservations, ToApply
  <2> QED
    BY <1>1, <1>2, <1>3, <2>1, <2>2, LineKept
<1>5. CASE ApplyObservation
  <2>1. /\ aggregator.at = "applying" /\ aggregator.next <= Len(aggregator.batch)
        /\ StoreApplies(Current)
        /\ aggregator' = [aggregator EXCEPT !.next = @ + 1]
        /\ observationQueue' = observationQueue
        /\ aggregator \in [at : AggregatorControl, batch : Seq(Observations), next : Nat \ {0}]
    BY <1>5 DEF ApplyObservation, TypeOK
  <2>2. NoneLater(store') /\ \A m \in Macs : store'[m] >= store[m]
    BY <2>1, ApplyingInOrder
  <2>3. /\ aggregator'.at = aggregator.at /\ aggregator'.batch = aggregator.batch
        /\ aggregator'.next = aggregator.next + 1
    BY <2>1
  <2>4. Line' = Line
    BY <2>1, <2>3 DEF Line
  <2>5. \A i \in DOMAIN Line : \A k \in DOMAIN Line[i] : ToApply(i, k)' => ToApply(i, k)
    <3>1. ASSUME NEW i \in DOMAIN Line, NEW k \in DOMAIN Line[i]
          PROVE  k \in Nat
      <4>1. Line[i] \in Seq(Observations)
        BY ObservationPlacesType
      <4>2. DOMAIN Line[i] = 1 .. Len(Line[i])
        BY <4>1
      <4> QED
        BY <4>2
    <3> QED
      BY <2>1, <2>3, <3>1 DEF ToApply
  <2> QED
    BY <1>1, <1>3, <2>2, <2>4, <2>5, LineKept
<1>6. CASE ApplyThrows \/ CountBatch
  <2>1. /\ aggregator.at = "applying" /\ aggregator'.at # "applying"
        /\ UNCHANGED observationQueue
    <3>1. aggregator \in [at : AggregatorControl, batch : Seq(Observations), next : Nat \ {0}]
      BY DEF TypeOK
    <3>2. CASE ApplyThrows
      BY <3>1, <3>2 DEF ApplyThrows, AggregatorGoes
    <3>3. CASE CountBatch
      BY <3>3 DEF CountBatch
    <3> QED
      BY <1>6, <3>2, <3>3
  <2>2. NoneLater(store') /\ \A m \in Macs : store'[m] >= store[m]
    <3>1. CASE UNCHANGED store
      BY <1>2, <3>1
    <3>2. CASE StoreApplies(Current) /\ aggregator.next <= Len(aggregator.batch)
      BY <2>1, <3>2, ApplyingInOrder
    <3> QED
      BY <1>6, <3>1, <3>2 DEF ApplyThrows, CountBatch
  <2> QED
    BY <1>1, <2>1, <2>2, LineAdvances
<1>7. CASE ObservationsExhausted \/ AggregatorClosesPackets \/ AggregatorClosesObservations
  <2>1. /\ observationQueue'.items = observationQueue.items /\ UNCHANGED store
        /\ aggregator.at # "applying" /\ aggregator'.at # "applying"
    BY <1>7 DEF ObservationsExhausted, AggregatorClosesPackets, AggregatorClosesObservations,
                AggregatorGoes, Closed, TypeOK
  <2>2. Line' = Line
    BY <2>1 DEF Line
  <2>3. \A i, k : ToApply(i, k)
    BY <2>1 DEF ToApply
  <2> QED
    BY <1>1, <1>2, <1>3, <2>1, <2>2, <2>3, LineKept
<1> QED
  BY <1>4, <1>5, <1>6, <1>7 DEF Aggregator

\* Capture and shutdown leave the observations alone.
LEMMA OthersKeepApplyOrder ==
  ASSUME TypeOK, ApplyOrder, 1 \in Workers,
         (\E p \in Packets : EnqueuePacket(p)) \/ EndCapture \/ Runner \/ UNCHANGED vars
  PROVE  ApplyOrder'
<1>1. /\ observationQueue'.items = observationQueue.items
      /\ UNCHANGED <<parsing, monitor>>
  <2>1. CASE (\E p \in Packets : EnqueuePacket(p)) \/ EndCapture
    BY <2>1 DEF EnqueuePacket, EndCapture
  <2>2. CASE Runner
    BY <2>2 DEF Runner, ClosePacketQueue, JoinWorkers, CloseObservationQueue, JoinAggregator,
                RunnerStep, Closed
  <2>3. CASE UNCHANGED vars
    BY <2>3 DEF vars
  <2> QED
    BY <2>1, <2>2, <2>3
<1>2. UNCHANGED <<aggregator, store, parsed, worker>>
  BY <1>1 DEF parsing, monitor
<1>3. Held(1)' = Held(1)
  BY <1>2 DEF Held
<1> QED
  BY <1>1, <1>2, <1>3, ApplyOrderKept

\* With one worker, ApplyOrder holds in every reachable state.
LEMMA OneWorkerAppliesInOrder ==
  Spec => [](options.parserWorkerCount = 1 => ApplyOrder)
<1>1. Init => ApplyOrder
  <2> SUFFICES ASSUME Init
               PROVE  ApplyOrder
    OBVIOUS
  <2>1. TypeOK
    BY InitType
  <2>2. 1 \in Workers
    BY <2>1, NormalOptionsType DEF TypeOK, Workers
  <2>3. Line = <<>> /\ Held(1) = <<>> /\ \A m \in Macs : store[m] = 0
    BY <2>2 DEF Init, NewQueue, Line, Held
  <2> QED
    BY <2>3 DEF ApplyOrder, NoneLater, InOrder, AllParsed
<1>2. TypeOK /\ TypeOK' /\ (options.parserWorkerCount = 1 => ParseOrder)
        /\ (options.parserWorkerCount = 1 => ApplyOrder) /\ [Next]_vars
        => (options.parserWorkerCount = 1 => ApplyOrder)'
  <2> SUFFICES ASSUME TypeOK, TypeOK', ParseOrder, ApplyOrder,
                      options.parserWorkerCount = 1, [Next]_vars
               PROVE  ApplyOrder'
    BY OptionsFixed
  <2>1. 1 \in Workers
    BY DEF Workers
  <2> QED
    BY <2>1, WorkerKeepsApplyOrder, AggregatorKeepsApplyOrder, OthersKeepApplyOrder
       DEF Next, Returned
<1> QED
  BY <1>1, <1>2, TypeCorrect, OneWorkerParsesInOrder, PTL DEF Spec

\* With one parser worker no step takes an asset back to the data of an earlier
\* packet, in whatever order the threads run and whichever of them fail.
THEOREM AssetsFollowArrival == Spec => OneWorkerKeepsArrivalOrder
<1>1. TypeOK /\ TypeOK' /\ (options.parserWorkerCount = 1 => ApplyOrder) /\ [Next]_vars
        => [options.parserWorkerCount = 1 => \A m \in Macs : store'[m] >= store[m]]_vars
  <2> SUFFICES ASSUME TypeOK, TypeOK', ApplyOrder, options.parserWorkerCount = 1, Next
               PROVE  \A m \in Macs : store'[m] >= store[m]
    OBVIOUS
  <2>1. CASE Aggregator
    BY <2>1, AggregatorKeepsApplyOrder DEF Workers
  <2>2. CASE store' = store
    <3>1. \A m \in Macs : store[m] \in 0 .. MaxPackets
      BY DEF TypeOK
    <3> QED
      BY <2>2, <3>1, BoundAssumption
  <2>3. CASE (\E p \in Packets : EnqueuePacket(p)) \/ EndCapture \/ Runner \/ Returned
    BY <2>2, <2>3 DEF EnqueuePacket, EndCapture, Runner, ClosePacketQueue, JoinWorkers,
                CloseObservationQueue, JoinAggregator, RunnerStep, Returned, vars, monitor
  <2>4. ASSUME NEW w \in Workers, ParserWorker(w)
        PROVE  store' = store
    <3>1. UNCHANGED monitor
      BY <2>4 DEF ParserWorker, PopPackets, PacketsExhausted, ParsePacket, ParserThrows,
                  NothingToPush, PushObservations, PushRefused, WorkerClosesPackets,
                  WorkerClosesObservations
    <3> QED
      BY <3>1 DEF monitor
  <2> QED
    BY <2>1, <2>2, <2>3, <2>4 DEF Next
<1> QED
  BY <1>1, TypeCorrect, OneWorkerAppliesInOrder, PTL DEF Spec, OneWorkerKeepsArrivalOrder

-----------------------------------------------------------------------------
(* The queues themselves: BoundedQueue<T> is correct for any finite set of    *)
(* threads, any values and any capacity: its invariants hold, and it         *)
(* implements ClosableQueue.                                                *)

-----------------------------------------------------------------------------
(* Counting threads.                                                       *)

\* Any set of threads is finite and has a cardinality; one more or one fewer
\* thread changes it by one.
LEMMA ThreadCount ==
  ASSUME NEW A \in SUBSET Threads
  PROVE  /\ IsFiniteSet(A)
         /\ Cardinality(A) \in Nat
         /\ \A t \in Threads \ A : Cardinality(A \union {t}) = Cardinality(A) + 1
         /\ \A t \in Threads : Cardinality(A \ {t}) >= Cardinality(A) - 1
<1>1. IsFiniteSet(A) /\ Cardinality(A) \in Nat
  BY ThreadsAssumption, FS_Subset, FS_CardinalityType
<1>2. \A t \in Threads \ A : Cardinality(A \union {t}) = Cardinality(A) + 1
  BY <1>1, FS_AddElement
<1>3. ASSUME NEW t \in Threads
      PROVE  Cardinality(A \ {t}) >= Cardinality(A) - 1
  <2>1. CASE t \in A
    <3>1. Cardinality(A \ {t}) = Cardinality(A) - 1
      BY <1>1, <2>1, FS_RemoveElement
    <3> QED
      BY <1>1, <3>1
  <2>2. CASE t \notin A
    <3>1. A \ {t} = A
      BY <2>2
    <3> QED
      BY <1>1, <3>1
  <2> QED
    BY <2>1, <2>2
<1> QED
  BY <1>1, <1>2, <1>3

\* notify_one moves one sleeper to the awake threads, if some sleep remains.
LEMMA NotifyOneWakes ==
  ASSUME NEW awake \in SUBSET Threads, NEW asleep \in SUBSET Threads,
         awake \intersect asleep = {},
         NEW stillAsleep, NotifyOne(asleep, stillAsleep), stillAsleep # {},
         NEW awakeNow, awakeNow = awake \union (asleep \ stillAsleep)
  PROVE  Cardinality(awakeNow) = Cardinality(awake) + 1
<1>1. PICK t \in asleep : stillAsleep = asleep \ {t}
  BY DEF NotifyOne
<1>2. t \in Threads \ awake /\ awakeNow = awake \union {t}
  BY <1>1
<1> QED
  BY <1>2, ThreadCount

\* The sleepers after notify_one are some of those before.
LEMMA NotifyOneSubset ==
  ASSUME NEW asleep, NEW stillAsleep, NotifyOne(asleep, stillAsleep)
  PROVE  stillAsleep \subseteq asleep
  BY DEF NotifyOne

-----------------------------------------------------------------------------
(* Type correctness.                                                       *)

\* Every reachable state of the queue is well typed: never over capacity, the
\* high watermark a true maximum, sleepers on the condition variable of their
\* call.
THEOREM QueueTypeCorrect == QueueSpec => []QueueTypeOK
<1>1. QueueInit => QueueTypeOK
  BY CapacityAssumption, NewQueueType DEF QueueInit, QueueTypeOK
<1>2. QueueTypeOK /\ [QueueNext]_queueVars => QueueTypeOK'
  <2> SUFFICES ASSUME QueueTypeOK, [QueueNext]_queueVars
               PROVE  QueueTypeOK'
    OBVIOUS
  <2>q. /\ queue \in QueueType(Values, Capacity)
        /\ Capacity \in Nat
    BY CapacityAssumption DEF QueueTypeOK
  <2>e. ASSUME NEW v \in Values, Enqueue(v)
        PROVE  /\ queue' \in QueueType(Values, Capacity)
               /\ notFull' = notFull
               /\ notEmpty' \subseteq notEmpty
    BY <2>q, <2>e, PushedType, NotifyOneSubset DEF Enqueue
  <2>f. ASSUME NEW t \in Threads, NEW v \in Values, call[t] \in {"none", "waitPush"},
               Awake(t), RunPush(t, v)
        PROVE  QueueTypeOK'
    <3>1. CASE Enqueue(v) /\ Return(t) /\ UNCHANGED argument
      BY <2>e, <2>f, <3>1 DEF QueueTypeOK, Return, Awake
    <3>2. CASE queue.closed /\ Return(t) /\ UNCHANGED <<queue, argument, notFull, notEmpty>>
      BY <2>f, <3>2 DEF QueueTypeOK, Return, Awake
    <3>3. CASE /\ notFull' = notFull \union {t}
               /\ call' = [call EXCEPT ![t] = "waitPush"]
               /\ argument' = [argument EXCEPT ![t] = v]
               /\ UNCHANGED <<queue, notEmpty>>
      BY <2>f, <3>3 DEF QueueTypeOK, Awake
    <3> QED
      BY <2>f, <3>1, <3>2, <3>3 DEF RunPush
  <2>g. ASSUME NEW t \in Threads, call[t] \in {"none", "waitPop"}, Awake(t), RunPop(t)
        PROVE  QueueTypeOK'
    <3>1. CASE /\ ~IsEmpty(queue)
               /\ queue' = Popped(queue)
               /\ NotifyOne(notFull, notFull')
               /\ Return(t)
               /\ UNCHANGED <<argument, notEmpty>>
      <4>1. queue' \in QueueType(Values, Capacity)
        BY <2>q, <3>1, PoppedType
      <4> QED
        BY <2>g, <3>1, <4>1, NotifyOneSubset DEF QueueTypeOK, Return, Awake
    <3>2. CASE queue.closed /\ Return(t) /\ UNCHANGED <<queue, argument, notFull, notEmpty>>
      BY <2>g, <3>2 DEF QueueTypeOK, Return, Awake
    <3>3. CASE /\ notEmpty' = notEmpty \union {t}
               /\ call' = [call EXCEPT ![t] = "waitPop"]
               /\ UNCHANGED <<queue, argument, notFull>>
      BY <2>g, <3>3 DEF QueueTypeOK, Awake
    <3> QED
      BY <2>g, <3>1, <3>2, <3>3 DEF RunPop
  <2>1. ASSUME NEW t \in Threads, TryPush(t)
        PROVE  QueueTypeOK'
    BY <2>1, <2>e DEF TryPush, QueueTypeOK
  <2>2. ASSUME NEW t \in Threads, WaitPush(t)
        PROVE  QueueTypeOK'
    <3>1. Awake(t)
      BY <2>2 DEF QueueTypeOK, Awake, WaitPush
    <3> QED
      BY <2>2, <2>f, <3>1 DEF WaitPush
  <2>3. ASSUME NEW t \in Threads, WaitPop(t)
        PROVE  QueueTypeOK'
    <3>1. Awake(t)
      BY <2>3 DEF QueueTypeOK, Awake, WaitPop
    <3> QED
      BY <2>3, <2>g, <3>1 DEF WaitPop
  <2>4. ASSUME NEW t \in Threads, Close(t)
        PROVE  QueueTypeOK'
    BY <2>4, <2>q, ClosedType DEF Close, QueueTypeOK
  <2>5. ASSUME NEW t \in Threads, ResumePush(t)
        PROVE  QueueTypeOK'
    BY <2>5, <2>f DEF ResumePush, QueueTypeOK
  <2>6. ASSUME NEW t \in Threads, ResumePop(t)
        PROVE  QueueTypeOK'
    BY <2>6, <2>g DEF ResumePop
  <2>7. ASSUME NEW t \in Threads, SpuriousWakeup(t)
        PROVE  QueueTypeOK'
    BY <2>7 DEF SpuriousWakeup, QueueTypeOK
  <2>8. CASE UNCHANGED queueVars
    BY <2>8 DEF queueVars, QueueTypeOK
  <2> QED
    BY <2>1, <2>2, <2>3, <2>4, <2>5, <2>6, <2>7, <2>8 DEF QueueNext
<1> QED
  BY <1>1, <1>2, PTL DEF QueueSpec
-----------------------------------------------------------------------------
(* No lost wakeup.  The three invariants are inductive together: a pop that *)
(* wakes a pusher changes both counts, and a closed queue makes them moot.  *)

QueueInv == QueueTypeOK /\ NoLostItem /\ NoLostRoom /\ NobodySleepsOnceClosed

\* The awake threads inside one kind of call, as sets.
LEMMA AwaitingThreads ==
  ASSUME QueueTypeOK
  PROVE  /\ Awaiting("waitPop", notEmpty) \in SUBSET Threads
         /\ Awaiting("waitPush", notFull) \in SUBSET Threads
         /\ Cardinality(Awaiting("waitPop", notEmpty)) \in Nat
         /\ Cardinality(Awaiting("waitPush", notFull)) \in Nat
         /\ Awaiting("waitPop", notEmpty) \intersect notEmpty = {}
         /\ Awaiting("waitPush", notFull) \intersect notFull = {}
         /\ notEmpty \in SUBSET Threads
         /\ notFull \in SUBSET Threads
         /\ Len(queue.items) \in Nat
         /\ Capacity \in Nat
         /\ Len(queue.items) <= Capacity
<1>1. /\ Awaiting("waitPop", notEmpty) \in SUBSET Threads
      /\ Awaiting("waitPush", notFull) \in SUBSET Threads
      /\ Awaiting("waitPop", notEmpty) \intersect notEmpty = {}
      /\ Awaiting("waitPush", notFull) \intersect notFull = {}
  BY DEF Awaiting
<1>2. /\ Len(queue.items) \in Nat
      /\ Capacity \in Nat
      /\ Len(queue.items) <= Capacity
  BY CapacityAssumption DEF QueueTypeOK, QueueType
<1> QED
  BY <1>1, <1>2, ThreadCount DEF QueueTypeOK

\* A push keeps the invariants whoever makes it: a thread t outside a call, or
\* one awake inside waitPush, which then leaves the call.
LEMMA EnqueueKeepsWakeups ==
  ASSUME QueueInv, QueueTypeOK', NEW t \in Threads, NEW v \in Values, Enqueue(v),
         Awake(t), call[t] \in {"none", "waitPush"},
         call' = call \/ Return(t)
  PROVE  QueueInv'
<1> DEFINE Poppers == Awaiting("waitPop", notEmpty)
           Pushers == Awaiting("waitPush", notFull)
<1>1. /\ Len(queue'.items) = Len(queue.items) + 1
      /\ ~queue'.closed
      /\ notFull' = notFull
  <2>1. queue \in QueueType(Values, Capacity) /\ Capacity \in Nat
    BY CapacityAssumption DEF QueueInv, QueueTypeOK
  <2> QED
    BY <2>1, PushedType DEF Enqueue
<1>2. NoLostItem'
  <2> SUFFICES ASSUME notEmpty' # {}
               PROVE  Cardinality(Poppers') >= Len(queue'.items)
    BY DEF NoLostItem
  <2>1. notEmpty # {}
    BY DEF Enqueue, NotifyOne
  <2>2. Cardinality(Poppers) >= Len(queue.items)
    BY <2>1 DEF QueueInv, NoLostItem
  <2>3. Poppers' = Poppers \union (notEmpty \ notEmpty')
    BY NotifyOneSubset DEF QueueInv, QueueTypeOK, Awaiting, Return, Enqueue, Awake
  <2>4. Cardinality(Poppers') = Cardinality(Poppers) + 1
    BY <2>3, AwaitingThreads, NotifyOneWakes DEF QueueInv, Enqueue
  <2> QED
    BY <1>1, <2>2, <2>4, AwaitingThreads DEF QueueInv
<1>3. NoLostRoom'
  <2> SUFFICES ASSUME notFull # {}
               PROVE  Cardinality(Pushers') + Len(queue'.items) >= Capacity
    BY <1>1 DEF NoLostRoom
  <2>1. Cardinality(Pushers) + Len(queue.items) >= Capacity
    BY DEF QueueInv, NoLostRoom
  <2>2. Pushers' = Pushers \/ Pushers' = Pushers \ {t}
    BY <1>1 DEF QueueInv, QueueTypeOK, Awaiting, Return
  <2>3. Cardinality(Pushers') >= Cardinality(Pushers) - 1
    BY <2>2, AwaitingThreads, ThreadCount DEF QueueInv
  <2>4. Cardinality(Pushers') \in Nat
    BY AwaitingThreads, <2>2, ThreadCount DEF QueueInv
  <2> QED
    BY <1>1, <2>1, <2>3, <2>4, AwaitingThreads DEF QueueInv
<1>4. NobodySleepsOnceClosed'
  BY <1>1 DEF NobodySleepsOnceClosed
<1> QED
  BY <1>2, <1>3, <1>4 DEF QueueInv

\* A pop keeps the invariants: it takes an item and, with a pusher asleep,
\* wakes one for the free place.
LEMMA PopKeepsWakeups ==
  ASSUME QueueInv, QueueTypeOK', NEW t \in Threads, Awake(t), call[t] \in {"none", "waitPop"},
         ~IsEmpty(queue), queue' = Popped(queue), NotifyOne(notFull, notFull'),
         Return(t), UNCHANGED notEmpty
  PROVE  QueueInv'
<1> DEFINE Poppers == Awaiting("waitPop", notEmpty)
           Pushers == Awaiting("waitPush", notFull)
<1>1. /\ Len(queue'.items) = Len(queue.items) - 1
      /\ queue'.closed = queue.closed
  <2>1. queue \in QueueType(Values, Capacity) /\ Capacity \in Nat
    BY CapacityAssumption DEF QueueInv, QueueTypeOK
  <2> QED
    BY <2>1, PoppedType
<1>2. NoLostItem'
  <2> SUFFICES ASSUME notEmpty # {}
               PROVE  Cardinality(Poppers') >= Len(queue'.items)
    BY DEF NoLostItem
  <2>1. Cardinality(Poppers) >= Len(queue.items)
    BY DEF QueueInv, NoLostItem
  <2>2. Poppers' = Poppers \ {t}
    BY DEF QueueInv, QueueTypeOK, Awaiting, Return
  <2>3. Cardinality(Poppers') >= Cardinality(Poppers) - 1 /\ Cardinality(Poppers') \in Nat
    BY <2>2, AwaitingThreads, ThreadCount DEF QueueInv
  <2> QED
    BY <1>1, <2>1, <2>3, AwaitingThreads DEF QueueInv
<1>3. NoLostRoom'
  <2> SUFFICES ASSUME notFull' # {}
               PROVE  Cardinality(Pushers') + Len(queue'.items) >= Capacity
    BY DEF NoLostRoom
  <2>1. notFull # {}
    BY DEF NotifyOne
  <2>2. Cardinality(Pushers) + Len(queue.items) >= Capacity
    BY <2>1 DEF QueueInv, NoLostRoom
  <2>3. Pushers' = Pushers \union (notFull \ notFull')
    BY NotifyOneSubset DEF QueueInv, QueueTypeOK, Awaiting, Return, Awake
  <2>4. Cardinality(Pushers') = Cardinality(Pushers) + 1
    BY <2>3, AwaitingThreads, NotifyOneWakes DEF QueueInv
  <2> QED
    BY <1>1, <2>2, <2>4, AwaitingThreads DEF QueueInv
<1>4. NobodySleepsOnceClosed'
  BY <1>1, NotifyOneSubset DEF QueueInv, NobodySleepsOnceClosed
<1> QED
  BY <1>2, <1>3, <1>4 DEF QueueInv

\* A step after which nobody sleeps keeps the three invariants.
LEMMA NobodyAsleep ==
  ASSUME QueueTypeOK', notFull' = {}, notEmpty' = {}
  PROVE  QueueInv'
  BY DEF QueueInv, NoLostItem, NoLostRoom, NobodySleepsOnceClosed
\* A pusher that finds the queue open and full may go to sleep.
LEMMA PusherSleeps ==
  ASSUME QueueInv, QueueTypeOK', NEW t \in Threads, call[t] \in {"none", "waitPush"}, Awake(t),
         ~queue.closed, ~HasRoom(queue, Capacity),
         call' = [call EXCEPT ![t] = "waitPush"],
         UNCHANGED <<queue, notEmpty>>
  PROVE  QueueInv'
<1>1. Awaiting("waitPop", notEmpty)' = Awaiting("waitPop", notEmpty)
  BY DEF QueueInv, QueueTypeOK, Awaiting
<1>2. NoLostItem'
  BY <1>1 DEF QueueInv, NoLostItem
<1>3. Len(queue.items) = Capacity
  BY AwaitingThreads DEF QueueInv, HasRoom
<1>4. Cardinality(Awaiting("waitPush", notFull)') \in Nat
  <2>1. Awaiting("waitPush", notFull)' \in SUBSET Threads
    BY DEF Awaiting
  <2> QED
    BY <2>1, ThreadCount
<1>5. NoLostRoom'
  BY <1>3, <1>4, AwaitingThreads DEF QueueInv, NoLostRoom
<1>6. NobodySleepsOnceClosed'
  BY DEF NobodySleepsOnceClosed
<1> QED
  BY <1>2, <1>5, <1>6 DEF QueueInv

\* A popper that finds the queue open and empty may go to sleep.
LEMMA PopperSleeps ==
  ASSUME QueueInv, QueueTypeOK', NEW t \in Threads, call[t] \in {"none", "waitPop"}, Awake(t),
         ~queue.closed, IsEmpty(queue),
         call' = [call EXCEPT ![t] = "waitPop"],
         UNCHANGED <<queue, notFull>>
  PROVE  QueueInv'
<1>1. Awaiting("waitPush", notFull)' = Awaiting("waitPush", notFull)
  BY DEF QueueInv, QueueTypeOK, Awaiting
<1>2. NoLostRoom'
  BY <1>1 DEF QueueInv, NoLostRoom
<1>3. Len(queue.items) = 0
  BY DEF IsEmpty
<1>4. Cardinality(Awaiting("waitPop", notEmpty)') \in Nat
  <2>1. Awaiting("waitPop", notEmpty)' \in SUBSET Threads
    BY DEF Awaiting
  <2> QED
    BY <2>1, ThreadCount
<1>5. NoLostItem'
  BY <1>3, <1>4 DEF NoLostItem
<1>6. NobodySleepsOnceClosed'
  BY DEF NobodySleepsOnceClosed
<1> QED
  BY <1>2, <1>5, <1>6 DEF QueueInv

\* A wakeup nobody caused adds an awake thread and takes nothing away.
LEMMA SpuriousWakeupKeeps ==
  ASSUME QueueInv, QueueTypeOK', NEW t \in Threads, SpuriousWakeup(t)
  PROVE  QueueInv'
<1>1. \A A \in SUBSET Threads : /\ Cardinality(A) \in Nat
                                /\ Cardinality(A \union {t}) >= Cardinality(A)
  <2> SUFFICES ASSUME NEW A \in SUBSET Threads
               PROVE  /\ Cardinality(A) \in Nat
                      /\ Cardinality(A \union {t}) >= Cardinality(A)
    OBVIOUS
  <2>1. CASE t \in A
    <3>1. A \union {t} = A
      BY <2>1
    <3> QED
      BY <3>1, ThreadCount
  <2>2. CASE t \notin A
    <3>1. Cardinality(A \union {t}) = Cardinality(A) + 1 /\ Cardinality(A) \in Nat
      BY <2>2, ThreadCount
    <3> QED
      BY <3>1
  <2> QED
    BY <2>1, <2>2
<1>2. /\ \/ Awaiting("waitPop", notEmpty)' = Awaiting("waitPop", notEmpty)
         \/ Awaiting("waitPop", notEmpty)' = Awaiting("waitPop", notEmpty) \union {t}
      /\ \/ Awaiting("waitPush", notFull)' = Awaiting("waitPush", notFull)
         \/ Awaiting("waitPush", notFull)' = Awaiting("waitPush", notFull) \union {t}
  BY DEF SpuriousWakeup, Awaiting, Awake
<1>3. /\ Cardinality(Awaiting("waitPop", notEmpty)') >= Cardinality(Awaiting("waitPop", notEmpty))
      /\ Cardinality(Awaiting("waitPush", notFull)') >= Cardinality(Awaiting("waitPush", notFull))
      /\ Cardinality(Awaiting("waitPop", notEmpty)') \in Nat
      /\ Cardinality(Awaiting("waitPush", notFull)') \in Nat
  <2>1. /\ Awaiting("waitPop", notEmpty) \in SUBSET Threads
        /\ Awaiting("waitPush", notFull) \in SUBSET Threads
        /\ Awaiting("waitPop", notEmpty)' \in SUBSET Threads
        /\ Awaiting("waitPush", notFull)' \in SUBSET Threads
    BY DEF Awaiting
  <2>2. /\ Cardinality(Awaiting("waitPop", notEmpty)) \in Nat
        /\ Cardinality(Awaiting("waitPush", notFull)) \in Nat
        /\ Cardinality(Awaiting("waitPop", notEmpty)') \in Nat
        /\ Cardinality(Awaiting("waitPush", notFull)') \in Nat
    BY <1>1, <2>1
  <2>3. Cardinality(Awaiting("waitPop", notEmpty)') >= Cardinality(Awaiting("waitPop", notEmpty))
    BY <1>1, <1>2, <2>1, <2>2
  <2>4. Cardinality(Awaiting("waitPush", notFull)') >= Cardinality(Awaiting("waitPush", notFull))
    BY <1>1, <1>2, <2>1, <2>2
  <2> QED
    BY <2>2, <2>3, <2>4
<1>4. /\ notEmpty' # {} => notEmpty # {}
      /\ notFull' # {} => notFull # {}
      /\ queue' = queue
  BY DEF SpuriousWakeup
<1>5. NoLostItem'
  BY <1>3, <1>4, AwaitingThreads DEF QueueInv, NoLostItem
<1>6. NoLostRoom'
  BY <1>3, <1>4, AwaitingThreads DEF QueueInv, NoLostRoom
<1>7. NobodySleepsOnceClosed'
  BY <1>4 DEF QueueInv, NobodySleepsOnceClosed
<1> QED
  BY <1>5, <1>6, <1>7 DEF QueueInv

\* notify_one suffices and close() leaves nobody asleep: the wakeup invariants
\* of the queue hold in every reachable state.
THEOREM NoLostWakeup == QueueSpec => [](NoLostItem /\ NoLostRoom /\ NobodySleepsOnceClosed)
<1>1. QueueInit => QueueInv
  <2>1. QueueInit => QueueTypeOK
    BY CapacityAssumption, NewQueueType DEF QueueInit, QueueTypeOK
  <2> QED
    BY <2>1 DEF QueueInit, QueueInv, NoLostItem, NoLostRoom, NobodySleepsOnceClosed
<1>2. QueueTypeOK' /\ QueueInv /\ [QueueNext]_queueVars => QueueInv'
  <2> SUFFICES ASSUME QueueTypeOK', QueueInv, [QueueNext]_queueVars
               PROVE  QueueInv'
    OBVIOUS
  <2>t. QueueTypeOK
    BY DEF QueueInv
  <2>s. ASSUME queue.closed, UNCHANGED <<notFull, notEmpty>>
        PROVE  QueueInv'
    <3>1. notFull' = {} /\ notEmpty' = {}
      BY <2>s DEF QueueInv, NobodySleepsOnceClosed
    <3> QED
      BY <3>1, NobodyAsleep
  <2>f. ASSUME NEW t \in Threads, NEW v \in Values, call[t] \in {"none", "waitPush"},
               Awake(t), RunPush(t, v)
        PROVE  QueueInv'
    <3>1. CASE Enqueue(v) /\ Return(t)
      BY <2>f, <3>1, EnqueueKeepsWakeups
    <3>2. CASE queue.closed /\ UNCHANGED <<notFull, notEmpty>>
      BY <2>s, <3>2
    <3>3. CASE /\ ~queue.closed
               /\ ~HasRoom(queue, Capacity)
               /\ call' = [call EXCEPT ![t] = "waitPush"]
               /\ UNCHANGED <<queue, notEmpty>>
      BY <2>f, <3>3, PusherSleeps
    <3> QED
      BY <2>f, <3>1, <3>2, <3>3 DEF RunPush
  <2>g. ASSUME NEW t \in Threads, call[t] \in {"none", "waitPop"}, Awake(t), RunPop(t)
        PROVE  QueueInv'
    <3>1. CASE /\ ~IsEmpty(queue)
               /\ queue' = Popped(queue)
               /\ NotifyOne(notFull, notFull')
               /\ Return(t)
               /\ UNCHANGED notEmpty
      BY <2>g, <3>1, PopKeepsWakeups
    <3>2. CASE queue.closed /\ UNCHANGED <<notFull, notEmpty>>
      BY <2>s, <3>2
    <3>3. CASE /\ IsEmpty(queue)
               /\ ~queue.closed
               /\ call' = [call EXCEPT ![t] = "waitPop"]
               /\ UNCHANGED <<queue, notFull>>
      BY <2>g, <3>3, PopperSleeps
    <3> QED
      BY <2>g, <3>1, <3>2, <3>3 DEF RunPop
  <2>1. ASSUME NEW t \in Threads, TryPush(t)
        PROVE  QueueInv'
    <3>1. Awake(t)
      BY <2>1, <2>t DEF QueueTypeOK, Awake, TryPush
    <3> QED
      BY <2>1, <3>1, EnqueueKeepsWakeups DEF TryPush
  <2>2. ASSUME NEW t \in Threads, WaitPush(t)
        PROVE  QueueInv'
    <3>1. Awake(t)
      BY <2>2, <2>t DEF QueueTypeOK, Awake, WaitPush
    <3> QED
      BY <2>2, <2>f, <3>1 DEF WaitPush
  <2>3. ASSUME NEW t \in Threads, WaitPop(t)
        PROVE  QueueInv'
    <3>1. Awake(t)
      BY <2>3, <2>t DEF QueueTypeOK, Awake, WaitPop
    <3> QED
      BY <2>3, <2>g, <3>1 DEF WaitPop
  <2>4. ASSUME NEW t \in Threads, Close(t)
        PROVE  QueueInv'
    BY <2>4, NobodyAsleep DEF Close
  <2>5. ASSUME NEW t \in Threads, ResumePush(t)
        PROVE  QueueInv'
    BY <2>5, <2>f, <2>t DEF ResumePush, QueueTypeOK
  <2>6. ASSUME NEW t \in Threads, ResumePop(t)
        PROVE  QueueInv'
    BY <2>6, <2>g DEF ResumePop
  <2>7. ASSUME NEW t \in Threads, SpuriousWakeup(t)
        PROVE  QueueInv'
    BY <2>7, SpuriousWakeupKeeps
  <2>8. CASE UNCHANGED queueVars
    BY <2>8 DEF queueVars, QueueInv, QueueTypeOK, NoLostItem, NoLostRoom, NobodySleepsOnceClosed, Awaiting
  <2> QED
    BY <2>1, <2>2, <2>3, <2>4, <2>5, <2>6, <2>7, <2>8 DEF QueueNext
<1>3. QueueInv => NoLostItem /\ NoLostRoom /\ NobodySleepsOnceClosed
  BY DEF QueueInv
<1> QED
  BY <1>1, <1>2, <1>3, QueueTypeCorrect, PTL DEF QueueSpec

\* The same for callers of waitPush alone: free places are never more than the
\* awake pushers while another pusher sleeps.
THEOREM NoForgottenPusher == QueueSpec => []NoLostRoom
<1> QED BY NoLostWakeup, PTL

\* Nobody sleeps through close(): its notify_all has woken both kinds of callers,
\* and none has gone to sleep since.
THEOREM CloseWakesEverybody == QueueSpec => []NobodySleepsOnceClosed
<1> QED BY NoLostWakeup, PTL

-----------------------------------------------------------------------------
(* Refinement.                                                             *)

\* The monitor implements the closable queue: every step of a thread is a push,
\* a pop, a close or, for what happens to sleepers, a stutter.
THEOREM QueueImplementsPromise == QueueSpec => ImplementsClosableQueue
<1>1. QueueInit => Promise!Init
  BY DEF QueueInit, Promise!Init, NewQueue
<1>2. QueueTypeOK /\ [QueueNext]_queueVars => [Promise!Next]_(Promise!vars)
  <2> SUFFICES ASSUME QueueTypeOK, [QueueNext]_queueVars
               PROVE  [Promise!Next]_(Promise!vars)
    OBVIOUS
  <2>q. queue \in QueueType(Values, Capacity) /\ Capacity \in Nat
    BY CapacityAssumption DEF QueueTypeOK
  <2>e. ASSUME NEW v \in Values, Enqueue(v)
        PROVE  Promise!Push
    BY <2>q, <2>e, PushedType DEF Enqueue, HasRoom, Promise!Push
  <2>u. ASSUME UNCHANGED queue
        PROVE  UNCHANGED Promise!vars
    BY <2>u DEF Promise!vars
  <2>f. ASSUME NEW t \in Threads, NEW v \in Values, RunPush(t, v)
        PROVE  [Promise!Next]_(Promise!vars)
    BY <2>e, <2>f, <2>u DEF RunPush, Promise!Next
  <2>g. ASSUME NEW t \in Threads, RunPop(t)
        PROVE  [Promise!Next]_(Promise!vars)
    <3>1. CASE ~IsEmpty(queue) /\ queue' = Popped(queue)
      <4>1. Promise!Pop
        BY <2>q, <3>1, PoppedType DEF Promise!Pop, IsEmpty
      <4> QED
        BY <4>1 DEF Promise!Next
    <3>2. CASE UNCHANGED queue
      BY <3>2, <2>u
    <3> QED
      BY <2>g, <3>1, <3>2 DEF RunPop
  <2>1. ASSUME NEW t \in Threads, TryPush(t)
        PROVE  [Promise!Next]_(Promise!vars)
    BY <2>1, <2>e DEF TryPush, Promise!Next
  <2>2. ASSUME NEW t \in Threads, WaitPush(t) \/ ResumePush(t)
        PROVE  [Promise!Next]_(Promise!vars)
    BY <2>2, <2>f DEF WaitPush, ResumePush, QueueTypeOK
  <2>3. ASSUME NEW t \in Threads, WaitPop(t) \/ ResumePop(t)
        PROVE  [Promise!Next]_(Promise!vars)
    BY <2>3, <2>g DEF WaitPop, ResumePop
  <2>4. ASSUME NEW t \in Threads, Close(t)
        PROVE  [Promise!Next]_(Promise!vars)
    <3>1. Promise!Close
      BY <2>4, <2>q, ClosedType DEF Close, Promise!Close
    <3> QED
      BY <3>1 DEF Promise!Next
  <2>5. ASSUME NEW t \in Threads, SpuriousWakeup(t)
        PROVE  [Promise!Next]_(Promise!vars)
    BY <2>5, <2>u DEF SpuriousWakeup
  <2>6. CASE UNCHANGED queueVars
    BY <2>6, <2>u DEF queueVars
  <2> QED
    BY <2>1, <2>2, <2>3, <2>4, <2>5, <2>6 DEF QueueNext
<1> QED
  BY <1>1, <1>2, QueueTypeCorrect, PTL DEF QueueSpec, ImplementsClosableQueue, Promise!Spec
=============================================================================
