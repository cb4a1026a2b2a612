------------------------------ MODULE ParquetSink ------------------------------
(***************************************************************************)
(* The Parquet sink, src/sinks/parquet_sink.go: flush writes the batch to  *)
(* one S3 object, named after the second in which it is written.           *)
(***************************************************************************)
EXTENDS BatchSink

CONSTANTS S3Faults,      \* whether PutObject may fail, or its answer be lost
          MaxSecond      \* bound on the clock

ASSUME S3Assumption == S3Faults \in BOOLEAN /\ MaxSecond \in Nat

VARIABLES second,        \* time.Now().UTC(), in whole seconds
          objects,       \* the objects under the sink's prefix and event type,
                         \* by objectKey: the rows of each, none if absent
          replaced       \* history: the rows of objects written over

parquetVars == <<second, objects, replaced>>

ParquetTypeOK ==
  /\ second \in 0..MaxSecond
  /\ objects \in [0..MaxSecond -> Seq(Event)]
  /\ \A key \in 0..MaxSecond : Len(objects[key]) <= MaxBatchSize
  /\ replaced \subseteq Event

ParquetInit ==
  /\ second = 0
  /\ objects = [key \in 0..MaxSecond |-> <<>>]
  /\ replaced = {}

-----------------------------------------------------------------------------
(* objectKey: prefix and event type are fixed, the name is the second. *)
objectKey(t) == t

(* PutObject replaces an object of the same key.  Its answer may be lost. *)
PutObject(key) ==
  /\ ~cancelled
  /\ objects' = [objects EXCEPT ![key] = batch]
  /\ replaced' = replaced \cup Range(objects[key])
  /\ UNCHANGED refused \/ (S3Faults /\ refused' = refused \cup Range(batch))

(* PutObject fails, always when ctx is done. *)
PutObjectRefused ==
  /\ S3Faults \/ cancelled
  /\ refused' = refused \cup Range(batch)
  /\ UNCHANGED <<objects, replaced>>

(* flush: both the flushes of the loop and the last one run under ctx. *)
Flush ==
  /\ InFlush("parquet")
  /\ PutObject(objectKey(second)) \/ PutObjectRefused
  /\ FlushReturns
  /\ UNCHANGED second

(* time.Now().UTC(), taken to advance only: a wall clock may be set back. *)
SecondPasses ==
  /\ sinkType = "parquet" /\ second < MaxSecond
  /\ second' = second + 1
  /\ UNCHANGED <<batchVars, refused, objects, replaced>>

-----------------------------------------------------------------------------
(* All that is in the bucket. *)
ObjectRows == UNION {Range(objects[key]) : key \in 0..MaxSecond}

(* An object holds whole batches in the order of arrival and no event is in *)
(* two objects; later objects hold later events.                            *)
ObjectsInOrder ==
  \A a, b \in 0..MaxSecond :
    /\ Ascending(objects[a])
    /\ a < b => \A i \in 1..Len(objects[a]), j \in 1..Len(objects[b]) :
                  objects[a][i].n < objects[b][j].n

(* As long as doSink runs, every event it received is in an object or in    *)
(* the batch, or its upload failed, or its object was written over.         *)
ObjectsAccountedFor ==
  sinkType = "parquet" /\ loop # "returned" =>
    Range(accepted) \subseteq ObjectRows \cup Range(batch) \cup refused \cup replaced
=============================================================================
