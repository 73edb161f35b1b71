------------------------ MODULE MCStreamingPipeline ------------------------
(* Instances of StreamingPipeline for TLC: how run may be configured. *)
EXTENDS StreamingPipeline

\* The smallest queues, with and without batches, with and without a timeout.
SmallQueues == [queue_size : {1}, batch_size : {0, 2}, timed : BOOLEAN]
               \cup {[queue_size |-> 2, batch_size |-> 3, timed |-> TRUE],
                     [queue_size |-> 0, batch_size |-> 2, timed |-> FALSE]}
=============================================================================
