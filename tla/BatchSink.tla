------------------------------- MODULE BatchSink -------------------------------
(***************************************************************************)
(* doSink, the loop that the database sink (src/sinks/db_sink.go) and the  *)
(* Parquet sink (src/sinks/parquet_sink.go) share: it selects between the  *)
(* context, a ticker and the input channel, gathers events in a batch and  *)
(* flushes it.  How a batch is flushed is up to the two sinks.             *)
(*                                                                         *)
(* When the context is done, the processors close their outputs and the    *)
(* flows close the inputs of the sinks (close(inlet.In()) in transmit), so *)
(* that doSink may see either first.                                       *)
(***************************************************************************)
EXTENDS Naturals, Sequences, Functions

CONSTANTS Kind,          \* the types of the events the sink is sent
          MaxBatchSize,  \* s.maxBatchSize
          MaxEvents      \* bound on the number of events

ASSUME BatchAssumption == MaxBatchSize \in Nat \ {0} /\ MaxEvents \in Nat

VARIABLES sinkType,  \* which of the two sinks it is
          loop,      \* where doSink is: in its select, in a flush, in the
                     \* flush before it returns, or gone
          batch,     \* the events gathered
          cancelled, \* ctx is done
          inClosed,  \* s.in is closed
          accepted,  \* history: the events received, the n-th numbered n
          refused    \* history: the events that a flush failed to write

batchVars == <<sinkType, loop, batch, cancelled, inClosed, accepted>>

Event == [n : 1..MaxEvents, kind : Kind]

BatchTypeOK ==
  /\ sinkType \in {"database", "parquet"}
  /\ loop \in {"selecting", "flushing", "draining", "returned"}
  /\ batch \in Seq(Event)
  /\ cancelled \in BOOLEAN
  /\ inClosed \in BOOLEAN
  /\ accepted \in Seq(Event) /\ Len(accepted) <= MaxEvents
  /\ refused \subseteq Event

BatchInit == /\ sinkType \in {"database", "parquet"}
             /\ loop = "selecting"
             /\ batch = <<>>
             /\ cancelled = FALSE
             /\ inClosed = FALSE
             /\ accepted = <<>>
             /\ refused = {}

-----------------------------------------------------------------------------
(* Mutant of Accept: the batch is flushed one event too late. *)
AcceptLate(kind) ==
  LET e == [n |-> Len(accepted) + 1, kind |-> kind]
  IN /\ loop = "selecting" /\ ~inClosed
     /\ Len(accepted) < MaxEvents
     /\ accepted' = Append(accepted, e)
     /\ batch' = Append(batch, e)
     /\ loop' = IF Len(batch') > MaxBatchSize THEN "flushing" ELSE "selecting"
     /\ UNCHANGED <<sinkType, cancelled, inClosed>>

(* select: an event arrives.  An element of another type is skipped and     *)
(* changes nothing.                                                         *)
Accept(kind) ==
  LET e == [n |-> Len(accepted) + 1, kind |-> kind]
  IN /\ loop = "selecting" /\ ~inClosed
     /\ Len(accepted) < MaxEvents
     /\ accepted' = Append(accepted, e)
     /\ batch' = Append(batch, e)
     /\ loop' = IF Len(batch') >= MaxBatchSize THEN "flushing" ELSE "selecting"
     /\ UNCHANGED <<sinkType, cancelled, inClosed>>

(* Mutant of TickerFires: only a full batch is flushed. *)
TickerFiresFull ==
  /\ loop = "selecting" /\ Len(batch) >= MaxBatchSize
  /\ loop' = "flushing"
  /\ UNCHANGED <<sinkType, batch, cancelled, inClosed, accepted>>

(* select: the ticker fires and there is something to flush. *)
TickerFires ==
  /\ loop = "selecting" /\ batch # <<>>
  /\ loop' = "flushing"
  /\ UNCHANGED <<sinkType, batch, cancelled, inClosed, accepted>>

(* select: ctx is done. *)
SeesCancel ==
  /\ loop = "selecting" /\ cancelled
  /\ loop' = IF batch = <<>> THEN "returned" ELSE "draining"
  /\ UNCHANGED <<sinkType, batch, cancelled, inClosed, accepted>>

(* select: the input is closed.  What is in the batch goes with doSink. *)
SeesClosed ==
  /\ loop = "selecting" /\ inClosed
  /\ loop' = "returned"
  /\ UNCHANGED <<sinkType, batch, cancelled, inClosed, accepted>>

(* Mutants of FlushReturns: the batch is not emptied; doSink goes on after  *)
(* its last flush.                                                          *)
FlushReturnsKeepsBatch ==
  /\ loop' = IF loop = "draining" THEN "returned" ELSE "selecting"
  /\ UNCHANGED <<sinkType, batch, cancelled, inClosed, accepted>>

FlushReturnsGoesOn ==
  /\ loop' = "selecting"
  /\ batch' = IF loop = "draining" THEN batch ELSE <<>>
  /\ UNCHANGED <<sinkType, cancelled, inClosed, accepted>>

(* flush returns, its errors logged: a batch that failed is emptied too. *)
FlushReturns ==
  /\ loop' = IF loop = "draining" THEN "returned" ELSE "selecting"
  /\ batch' = IF loop = "draining" THEN batch ELSE <<>>
  /\ UNCHANGED <<sinkType, cancelled, inClosed, accepted>>

(* main() cancels the context. *)
Cancel ==
  /\ ~cancelled
  /\ cancelled' = TRUE
  /\ UNCHANGED <<sinkType, loop, batch, inClosed, accepted>>

(* Then the flow that feeds the sink ends and closes its input. *)
CloseInput ==
  /\ cancelled /\ ~inClosed
  /\ inClosed' = TRUE
  /\ UNCHANGED <<sinkType, loop, batch, cancelled, accepted>>

BatchStep == /\ \/ \E kind \in Kind : Accept(kind)
                \/ TickerFires \/ SeesCancel \/ SeesClosed
                \/ Cancel \/ CloseInput
             /\ UNCHANGED refused

(* doSink of a sink of this type has called flush. *)
InFlush(type) == sinkType = type /\ loop \in {"flushing", "draining"}

-----------------------------------------------------------------------------
(* The batch never outgrows its limit, and is flushed as soon as it is      *)
(* full: memory stays bounded however slow the flushes are.                 *)
BatchBounded == /\ Len(batch) <= MaxBatchSize
                /\ loop = "selecting" => Len(batch) < MaxBatchSize

(* Numbers of events in a sequence, in strictly ascending order. *)
Ascending(s) == \A i, j \in 1..Len(s) : i < j => s[i].n < s[j].n

(* An event does not stay in the batch: the ticker sees to it. *)
BufferedIsFlushed ==
  \A n \in 1..MaxEvents :
    (\E e \in Range(batch) : e.n = n)
      ~> (loop = "returned" \/ \A e \in Range(batch) : e.n # n)

(* When the context is done, doSink returns. *)
SinkStops == cancelled ~> (loop = "returned")
=============================================================================
