------------------------------- MODULE BatchSinks -------------------------------
(***************************************************************************)
(* The two sinks that batch, with the fairness that their goroutine has.   *)
(* They run the same doSink and share nothing else, so that a behaviour    *)
(* follows one of them.                                                    *)
(***************************************************************************)
EXTENDS DatabaseSink, ParquetSink

vars == <<batchVars, refused, databaseVars, parquetVars>>

(* Besides the types: memory stays bounded however slow the flushes are. *)
TypeOK == BatchTypeOK /\ BatchBounded /\ DatabaseTypeOK /\ ParquetTypeOK

Init == BatchInit /\ DatabaseInit /\ ParquetInit

Database == (Insert \/ FlushEnd) /\ UNCHANGED parquetVars

Parquet == (Flush \/ SecondPasses) /\ UNCHANGED databaseVars

Next ==
  \/ BatchStep /\ UNCHANGED <<databaseVars, parquetVars>>
  \/ Database
  \/ Parquet

Spec == Init /\ [][Next]_vars

(* The goroutine runs, the ticker fires and the services answer; select     *)
(* does not pass over a context that is done for ever.                      *)
Fairness ==
  /\ WF_vars(TickerFires /\ UNCHANGED <<refused, databaseVars, parquetVars>>)
  /\ SF_vars(SeesCancel /\ UNCHANGED <<refused, databaseVars, parquetVars>>)
  /\ WF_vars(Database)
  /\ WF_vars(Flush /\ UNCHANGED databaseVars)

FairSpec == Spec /\ Fairness

-----------------------------------------------------------------------------
(* What is written is written once and in the order in which it came, to    *)
(* tables (RowsOnceInOrder) as to objects (ObjectsInOrder), although the    *)
(* slice behind the batch is reused, writes fail in part and answers are    *)
(* lost.                                                                    *)
WrittenOnceInOrder == RowsOnceInOrder /\ ObjectsInOrder

(* As long as doSink runs, no event it received is unaccounted for: it is   *)
(* written or in the batch, or its own write failed, or, for the Parquet    *)
(* sink, its object was written over in the same second.                    *)
NothingVanishes == RowsAccountedFor /\ ObjectsAccountedFor
=============================================================================
