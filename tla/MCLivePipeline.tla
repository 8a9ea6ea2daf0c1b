--------------------------- MODULE MCLivePipeline ---------------------------
(* LivePipeline for TLC.  Each initial state picks one set of options: one   *)
(* or two workers, batches of one or two packets, queues of zero to two     *)
(* batches (0 observation batches means the default, 0 packet batches does  *)
(* not), with and without callbacks.                                        *)
EXTENDS LivePipeline

CONSTANTS m1, m2

MCParseResults == {<<>>, <<m1, m2>>}

Option(batch, packets, observations, workers, callbacks) ==
  [packetBatchSize |-> batch, packetQueueCapacity |-> packets,
   observationQueueCapacity |-> observations, parserWorkerCount |-> workers,
   callbacks |-> callbacks]

MCRequestedOptions ==
  {Option(1, 1, 1, 2, TRUE), Option(1, 2, 0, 1, TRUE), Option(2, 2, 1, 2, FALSE),
   Option(0, 0, 1, 0, TRUE)}
=============================================================================
