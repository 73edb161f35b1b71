-------------------------- MODULE StreamingPipeline --------------------------
(***************************************************************************)
(* StreamingPipeline.run (pysrc/pipeline/execution/streaming.py): a        *)
(* producer task draws items from an asynchronous source into in_q, a      *)
(* consumer task groups them into batches, applies the steps and puts the  *)
(* results on out_q, and the async generator run hands them to its caller. *)
(* All three share one event loop and switch only where they await: a      *)
(* source, a full or empty queue, a step, the caller, a timer.             *)
(*                                                                         *)
(* Items are numbered in the order of the source, and a result is the      *)
(* sequence of items it was made from.  Steps and source raise Exceptions, *)
(* and end at once when their task is cancelled.                           *)
(***************************************************************************)
EXTENDS Naturals, Sequences, SequencesExt

CONSTANTS N,              \* the source yields items 1 .. N and ends
          Configs,        \* the constructor arguments to consider
          SourceMayFail,  \* BOOLEAN: the source may raise an Exception
          StepMayFail,    \* BOOLEAN: a step may raise an Exception
          CallerMayClose  \* BOOLEAN: the caller may abandon the generator

ASSUME NAssumption == N \in Nat
ASSUME ConfigsAssumption ==
         \A c \in Configs : /\ c.queue_size \in Nat /\ c.batch_size \in Nat
                            /\ c.timed \in BOOLEAN
ASSUME SwitchAssumption ==
         {SourceMayFail, StepMayFail, CallerMayClose} \subseteq BOOLEAN

VARIABLES config,     \* _Config; timed is batch_timeout_s > 0
          drawn,      \* items the source has yielded
          broken,     \* the source has raised
          hand,       \* the item the producer is putting on in_q, if any
          producer,   \* where the producer task is, or how it ended
          in_q,
          items,      \* the consumer's current batch
          work,       \* frames of the batch being flushed, yet to be applied
          ending,     \* the consumer has read the sentinel
          result,     \* what the consumer is putting on out_q
          consumer,   \* where the consumer task is, or how it ended
          stepBroke,  \* a step has raised
          out_q,
          reader,     \* where the generator run is
          delivered,  \* the items of all results yielded to the caller
          outcome     \* how run ended

producerVars == <<drawn, broken, hand, producer>>
consumerVars == <<items, work, ending, result, consumer, stepBroke>>
readerVars == <<reader, delivered, outcome>>
vars == <<config, producerVars, in_q, consumerVars, out_q, readerVars>>

_SENTINEL == 0                       \* on in_q
Payload(frame) == [kind |-> "payload", items |-> frame]
Raised == [kind |-> "exception", items |-> <<>>]
Done == [kind |-> "sentinel", items |-> <<>>]

TaskEnds == {"finished", "failed", "cancelled"}
Outcomes == {"running", "end", "step_error", "source_error", "cancelled", "closed"}
Result == [kind : {"payload", "exception", "sentinel"}, items : Seq(1 .. N)]

TypeOK ==
  /\ config \in Configs
  /\ drawn \in 0 .. N /\ broken \in BOOLEAN
  /\ hand \in Seq(1 .. N)
  /\ producer \in {"drawing", "putting", "closing"} \cup TaskEnds
  /\ in_q \in Seq(_SENTINEL .. N)
  /\ items \in Seq(1 .. N) /\ work \in Seq(Seq(1 .. N)) /\ ending \in BOOLEAN
  /\ result \in Result
  /\ consumer \in {"getting", "applying", "putting"} \cup TaskEnds
  /\ stepBroke \in BOOLEAN
  /\ out_q \in Seq(Result)
  /\ reader \in {"checking", "getting", "yielding", "ended"}
  /\ delivered \in Seq(1 .. N)
  /\ outcome \in Outcomes

Init ==
  /\ config \in Configs
  /\ drawn = 0 /\ broken = FALSE /\ hand = <<>> /\ producer = "drawing"
  /\ in_q = <<>>
  /\ items = <<>> /\ work = <<>> /\ ending = FALSE /\ result = Done
  /\ consumer = "getting" /\ stepBroke = FALSE
  /\ out_q = <<>>
  /\ reader = "checking" /\ delivered = <<>> /\ outcome = "running"

\* Faulty variant: queues without a limit.
NeverFull(q) == FALSE

\* asyncio.Queue: maxsize 0 is no limit.
Full(q) == config.queue_size > 0 /\ Len(q) >= config.queue_size

-----------------------------------------------------------------------------
(* _producer                                                               *)
Draw ==
  /\ producer = "drawing" /\ drawn < N
  /\ drawn' = drawn + 1
  /\ hand' = <<drawn + 1>>
  /\ producer' = "putting"
  /\ UNCHANGED <<config, broken, in_q, consumerVars, out_q, readerVars>>

PutItem ==
  /\ producer = "putting" /\ ~Full(in_q)
  /\ in_q' = in_q \o hand
  /\ hand' = <<>>
  /\ producer' = "drawing"
  /\ UNCHANGED <<config, drawn, broken, consumerVars, out_q, readerVars>>

SourceEnds ==
  /\ producer = "drawing" /\ drawn = N
  /\ producer' = "closing"
  /\ UNCHANGED <<config, drawn, broken, hand, in_q, consumerVars, out_q, readerVars>>

\* Faulty variant: an exception ends the producer without a sentinel.
SourceRaisesSilently ==
  /\ SourceMayFail
  /\ producer = "drawing"
  /\ broken' = TRUE
  /\ producer' = "failed"
  /\ UNCHANGED <<config, drawn, hand, in_q, consumerVars, out_q, readerVars>>

SourceRaises ==
  /\ SourceMayFail
  /\ producer = "drawing"
  /\ broken' = TRUE
  /\ producer' = "closing"
  /\ UNCHANGED <<config, drawn, hand, in_q, consumerVars, out_q, readerVars>>

\* The sentinel follows the last item whether the source ended or raised.
PutSentinel ==
  /\ producer = "closing" /\ ~Full(in_q)
  /\ in_q' = Append(in_q, _SENTINEL)
  /\ producer' = IF broken THEN "failed" ELSE "finished"
  /\ UNCHANGED <<config, drawn, broken, hand, consumerVars, out_q, readerVars>>

-----------------------------------------------------------------------------
(* _consume_batched                                                        *)

\* flush_if_any: one frame of the whole batch or, if the frames' schemas
\* differ, each item by itself.
Frames(batch) == {<<batch>>, [i \in 1 .. Len(batch) |-> <<batch[i]>>]}

\* Faulty variant: the flushed batch is not cleared.
FlushKeeping(batch) ==
  /\ work' \in Frames(batch)
  /\ items' = batch
  /\ consumer' = "applying"
  /\ UNCHANGED <<config, producerVars, result, stepBroke, out_q, readerVars>>

Flush(batch) ==
  /\ work' \in Frames(batch)
  /\ items' = <<>>
  /\ consumer' = "applying"
  /\ UNCHANGED <<config, producerVars, result, stepBroke, out_q, readerVars>>

\* Faulty variant: the sentinel is taken for an item.
GetItemUnchecked ==
  LET batch == Append(items, Head(in_q)) IN
  /\ consumer = "getting" /\ in_q # <<>>
  /\ in_q' = Tail(in_q)
  /\ UNCHANGED ending
  /\ IF Len(batch) >= config.batch_size
       THEN Flush(batch)
       ELSE /\ items' = batch
            /\ UNCHANGED <<config, producerVars, work, result, consumer,
                           stepBroke, out_q, readerVars>>

\* An item joins the batch, and a full batch (any item without batching) is flushed.
GetItem ==
  LET batch == Append(items, Head(in_q)) IN
  /\ consumer = "getting" /\ in_q # <<>> /\ Head(in_q) # _SENTINEL
  /\ in_q' = Tail(in_q)
  /\ UNCHANGED ending
  /\ IF Len(batch) >= config.batch_size
       THEN Flush(batch)
       ELSE /\ items' = batch
            /\ UNCHANGED <<config, producerVars, work, result, consumer,
                           stepBroke, out_q, readerVars>>

\* Faulty variant: the batch begun is dropped when the source ends.
GetSentinelDropping ==
  /\ consumer = "getting" /\ in_q # <<>> /\ Head(in_q) = _SENTINEL
  /\ in_q' = Tail(in_q)
  /\ ending' = TRUE
  /\ result' = Done
  /\ consumer' = "putting"
  /\ UNCHANGED <<config, producerVars, items, work, stepBroke, out_q, readerVars>>

\* The source is exhausted: the rest is flushed before the sentinel goes on.
GetSentinel ==
  /\ consumer = "getting" /\ in_q # <<>> /\ Head(in_q) = _SENTINEL
  /\ in_q' = Tail(in_q)
  /\ ending' = TRUE
  /\ IF items # <<>>
       THEN Flush(items)
       ELSE /\ result' = Done
            /\ consumer' = "putting"
            /\ UNCHANGED <<config, producerVars, items, work, stepBroke, out_q, readerVars>>

\* Faulty variant: a timeout only goes back to waiting.
TimeoutIgnored ==
  /\ consumer = "getting" /\ config.timed /\ config.batch_size > 0 /\ items # <<>>
  /\ UNCHANGED vars

\* wait_for gives up on in_q.get: a partial batch goes out.
Timeout ==
  /\ consumer = "getting" /\ config.timed /\ config.batch_size > 0 /\ items # <<>>
  /\ Flush(items)
  /\ UNCHANGED <<in_q, ending>>

ApplySteps ==
  /\ consumer = "applying"
  /\ \/ result' = Payload(Head(work)) /\ work' = Tail(work) /\ UNCHANGED stepBroke
     \/ StepMayFail /\ result' = Raised /\ work' = <<>> /\ stepBroke' = TRUE
  /\ consumer' = "putting"
  /\ UNCHANGED <<config, producerVars, in_q, items, ending, out_q, readerVars>>

\* A result, or the exception or sentinel after which the consumer returns.
PutResult ==
  /\ consumer = "putting" /\ ~Full(out_q)
  /\ out_q' = Append(out_q, result)
  /\ IF result.kind = "payload" /\ work = <<>> /\ ending
       THEN result' = Done /\ UNCHANGED consumer
       ELSE /\ UNCHANGED result
            /\ consumer' = IF result.kind # "payload" THEN "finished"
                           ELSE IF work # <<>> THEN "applying" ELSE "getting"
  /\ UNCHANGED <<config, producerVars, in_q, items, work, ending, stepBroke, readerVars>>

-----------------------------------------------------------------------------
(* run                                                                     *)

\* Where a task that is still running ends up when it is cancelled: a producer
\* that was putting the sentinel suppresses the cancellation.
CancelledProducer ==
  CASE producer \in TaskEnds -> producer
    [] producer = "closing" -> IF broken THEN "failed" ELSE "finished"
    [] OTHER -> "cancelled"
CancelledConsumer == IF consumer \in TaskEnds THEN consumer ELSE "cancelled"

(* finally: the tasks are cancelled and awaited; then, for each in the     *)
(* order of a set, task.exception() is raised if there is one, and itself  *)
(* raises CancelledError if the task was cancelled.                        *)
Overriding ==
  (IF producer' = "failed" THEN {"source_error"} ELSE {})
    \cup (IF "cancelled" \in {producer', consumer'} THEN {"cancelled"} ELSE {})

Finish(reason) ==
  /\ producer' = CancelledProducer
  /\ consumer' = CancelledConsumer
  /\ outcome' \in (IF Overriding = {} THEN {reason} ELSE Overriding)
  /\ reader' = "ended"
  /\ UNCHANGED <<config, drawn, broken, hand, in_q, items, work, ending, result,
                 stepBroke, delivered>>

\* At the top of the loop only a failed producer has an exception to raise:
\* the consumer catches whatever its steps raise.
Check ==
  /\ reader = "checking"
  /\ IF producer = "failed"
       THEN Finish("source_error") /\ UNCHANGED out_q
       ELSE /\ reader' = "getting"
            /\ UNCHANGED <<config, producerVars, in_q, consumerVars, out_q,
                           delivered, outcome>>

Yield ==
  /\ reader = "getting" /\ out_q # <<>> /\ Head(out_q).kind = "payload"
  /\ out_q' = Tail(out_q)
  /\ delivered' = delivered \o Head(out_q).items
  /\ reader' = "yielding"
  /\ UNCHANGED <<config, producerVars, in_q, consumerVars, outcome>>

Stop ==
  /\ reader = "getting" /\ out_q # <<>> /\ Head(out_q).kind # "payload"
  /\ out_q' = Tail(out_q)
  /\ Finish(IF Head(out_q).kind = "sentinel" THEN "end" ELSE "step_error")

\* The caller asks for the next result.
Resume ==
  /\ reader = "yielding"
  /\ reader' = "checking"
  /\ UNCHANGED <<config, producerVars, in_q, consumerVars, out_q, delivered, outcome>>

\* The caller closes the generator, or is cancelled while it waits for it.
Close ==
  /\ CallerMayClose
  /\ reader \in {"getting", "yielding"}
  /\ Finish("closed")
  /\ UNCHANGED out_q

-----------------------------------------------------------------------------
Producer == PutItem \/ PutSentinel
Consumer == GetItem \/ GetSentinel \/ ApplySteps \/ PutResult
Reader == Check \/ Yield \/ Stop \/ Resume

Next == \/ Draw \/ SourceEnds \/ SourceRaises
        \/ Producer \/ Consumer \/ Timeout \/ Reader \/ Close

\* The event loop runs every task that can go on, steps return, an armed timer
\* fires and the caller keeps asking.  The source need not yield, end or raise.
Fairness == WF_vars(Producer) /\ WF_vars(Consumer) /\ WF_vars(Timeout) /\ WF_vars(Reader)

Spec == Init /\ [][Next]_vars /\ Fairness

-----------------------------------------------------------------------------
(* Until something breaks, every item drawn is in exactly one place and in *)
(* its order: with the caller, on out_q, in the result or the frames under *)
(* way, in the batch, on in_q or in the producer's hand (lines 109-242).   *)
Conservation ==
  (outcome = "running" /\ ~stepBroke) =>
    delivered
      \o FlattenSeq([i \in 1 .. Len(out_q) |-> out_q[i].items])
      \o (IF consumer = "putting" THEN result.items ELSE <<>>)
      \o FlattenSeq(work)
      \o items
      \o FlattenSeq([i \in 1 .. Len(in_q) |-> IF in_q[i] = _SENTINEL THEN <<>> ELSE <<in_q[i]>>])
      \o hand
    = [i \in 1 .. drawn |-> i]

(* Backpressure: however slow the caller, the items drawn ahead of it fit  *)
(* in both queues, one batch and the producer's hand (queue_size, lines    *)
(* 246-247).                                                               *)
Ahead(c) == LET batch == IF c.batch_size > 0 THEN c.batch_size ELSE 1
            IN  1 + c.queue_size + batch + c.queue_size * batch
Backpressure ==
  config.queue_size > 0 => drawn - Len(delivered) <= Ahead(config)

(* The caller sees each item once and in order, and a normal end only      *)
(* after the last one: no failure of the source or of a step is ever       *)
(* turned into a shorter stream (lines 244-287).                           *)
Stream == INSTANCE OrderedStream
ImplementsOrderedStream == Stream!Spec

(* A silent source does not withhold what it has yielded: without batching *)
(* or with a batch timeout every item drawn reaches the caller, or run     *)
(* ends (lines 195-206).                                                   *)
DrawnIsDelivered ==
  \A k \in 1 .. N :
    (drawn >= k /\ (config.batch_size = 0 \/ config.timed))
      ~> (Len(delivered) >= k \/ outcome # "running")

(* Once the source has ended or raised, run ends: its caller never waits   *)
(* for a result that cannot come (lines 116-124, 208-216, 255-270).        *)
RunEnds == (producer \in {"closing"} \cup TaskEnds) ~> (outcome # "running")

(* streaming.py:232: "Put the exception on the output queue to be          *)
(* propagated": if a step raised, and the source did not, that is what     *)
(* run raises.                                                             *)
StepErrorPropagates ==
  (outcome # "running" /\ stepBroke /\ ~broken) => outcome = "step_error"
=============================================================================
