---------------------------- MODULE StopEventStream ----------------------------
(***************************************************************************)
(* What the dwell, headway and travel time processors have in common: they *)
(* consume stop events and keep one of them per key in a state store.      *)
(*                                                                         *)
(* The keys are strings that join ids with dashes, and ids may themselves  *)
(* hold dashes ("Green-B").  An id is modelled by the sequence of its      *)
(* dash-separated parts, so that joining is concatenation.                 *)
(***************************************************************************)
EXTENDS StateStore, TransitEvents, Sequences

CONSTANT StopEvents   \* the inputs: stop events a processor may receive

ASSUME StreamAssumption == /\ StopEvents \subseteq StopEvent
                           /\ Foreign \notin StopEvent
                           /\ Nil \notin StopEvent

(* No operation of the store fails: the in-memory store. *)
Reliable == StoreFaults = {}

(* No Set fails: the processors ignore the errors Set returns. *)
ReliableSet == "set" \notin StoreFaults
=============================================================================
