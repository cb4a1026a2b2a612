------------------------------ MODULE DatabaseSink ------------------------------
(***************************************************************************)
(* The database sink, src/sinks/db_sink.go: flush writes the batch with    *)
(* one INSERT per table, in a fixed order, each of which may fail without  *)
(* the others.  An INSERT is atomic.                                       *)
(***************************************************************************)
EXTENDS BatchSink

CONSTANT DbFaults        \* whether an INSERT may fail, or its answer be lost

ASSUME DbAssumption == DbFaults \in BOOLEAN

VARIABLES tables,        \* the rows of each table
          next,          \* which INSERT of the flush is next
          aborted        \* history: the events whose INSERT ran under a
                         \* context that was done

databaseVars == <<tables, next, aborted>>

(* The tables in the order of flush, named for the events they hold.        *)
(* Events of other types are skipped.                                       *)
Inserts == <<"StopEvent", "DwellTimeEvent", "TravelTimeEvent", "HeadwayTimeEvent">>

Table == Range(Inserts)

DatabaseTypeOK ==
  /\ tables \in [Table -> Seq(Event)]
  /\ \A t \in Table : \A i \in 1..Len(tables[t]) : tables[t][i].kind = t
  /\ next \in 1..5
  /\ next # 1 => InFlush("database")
  /\ aborted \subseteq refused

DatabaseInit ==
  /\ tables = [t \in Table |-> <<>>]
  /\ next = 1
  /\ aborted = {}

-----------------------------------------------------------------------------
(* The batch is split by type, in a loop over its events. *)
Rows(t) ==
  LET rows[n \in 0..Len(batch)] ==
        IF n = 0 THEN <<>>
        ELSE IF batch[n].kind = t THEN Append(rows[n - 1], batch[n]) ELSE rows[n - 1]
  IN rows[Len(batch)]

(* Mutant of Aborted: the last flush runs under the cancelled context. *)
AbortedUnderCtx == cancelled

(* The flush runs under a context that is done.  The last one has a context *)
(* of its own.                                                              *)
Aborted == cancelled /\ loop = "flushing"

(* Whether an INSERT is applied and whether it returns an error: one that   *)
(* was applied may return an error too, when its answer is lost.            *)
Outcomes ==
  LET done == [applied |-> TRUE, failed |-> FALSE]
      unheard == [applied |-> TRUE, failed |-> TRUE]
      lost == [applied |-> FALSE, failed |-> TRUE]
  IN IF Aborted THEN {lost} ELSE {done} \cup (IF DbFaults THEN {unheard, lost} ELSE {})

(* Mutant of Insert: a flush stops at the first error. *)
InsertOrStop ==
  LET t == Inserts[next]
      rows == Rows(t)
  IN /\ InFlush("database") /\ next <= 4
     /\ \E o \in Outcomes :
          /\ tables' = IF o.applied THEN [tables EXCEPT ![t] = @ \o rows] ELSE tables
          /\ refused' = IF o.failed THEN refused \cup Range(rows) ELSE refused
          /\ next' = IF o.failed /\ rows # <<>> THEN 5 ELSE next + 1
     /\ UNCHANGED <<batchVars, aborted>>

(* One of the four INSERTs, if there are rows for it. *)
Insert ==
  LET t == Inserts[next]
      rows == Rows(t)
  IN /\ InFlush("database") /\ next <= 4
     /\ next' = next + 1
     /\ \/ rows = <<>> /\ UNCHANGED <<tables, refused, aborted>>
        \/ /\ rows # <<>>
           /\ \E o \in Outcomes :
                /\ tables' = IF o.applied THEN [tables EXCEPT ![t] = @ \o rows] ELSE tables
                /\ refused' = IF o.failed THEN refused \cup Range(rows) ELSE refused
           /\ aborted' = IF Aborted THEN aborted \cup Range(rows) ELSE aborted
     /\ UNCHANGED batchVars

(* flush returns. *)
FlushEnd ==
  /\ InFlush("database") /\ next = 5
  /\ next' = 1
  /\ FlushReturns
  /\ UNCHANGED <<tables, refused, aborted>>

-----------------------------------------------------------------------------
DatabaseRows == UNION {Range(tables[t]) : t \in Table}

(* The rows of a table are the events of its type, each at most once and in *)
(* the order in which they came, although the slice behind the batch is     *)
(* reused, some of a flush's INSERTs fail and some are applied although     *)
(* they return an error.                                                    *)
RowsOnceInOrder == \A t \in Table : Ascending(tables[t])

(* As long as doSink runs, every event it received for a table is stored,   *)
(* or still in the batch, or one whose own INSERT failed, whatever became   *)
(* of the other INSERTs of its flush.                                       *)
RowsAccountedFor ==
  sinkType = "database" /\ loop # "returned" =>
    \A e \in Range(accepted) :
      e.kind \in Table => e \in DatabaseRows \cup refused \cup Range(batch)

(* "Use a fresh context so the final INSERT isn't immediately cancelled":   *)
(* no event of the last flush is refused because the context is done,       *)
(* although a flush of the loop that the cancellation overtakes is.         *)
LastFlushIsNotCancelled ==
  loop = "draining" => aborted \cap Range(batch) = {}

(* src/sinks/db_sink_test.go: "cancel() // triggers flush of buffered       *)
(* event".  With a database that works, nothing received is missing when    *)
(* doSink has returned.                                                     *)
DrainedOnCancel ==
  sinkType = "database" /\ ~DbFaults /\ loop = "returned" =>
    \A e \in Range(accepted) : e.kind \in Table => e \in DatabaseRows
=============================================================================
