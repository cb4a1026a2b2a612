------------------------------ MODULE LineMetrics ------------------------------
(***************************************************************************)
(* The headway and the travel time processor side by side.  They share no  *)
(* state, so that a behaviour follows one of them.                         *)
(***************************************************************************)
EXTENDS HeadwayEventProcessor, TravelTimeEventProcessor

VARIABLE followed  \* the processor the behaviour follows

LineInit == followed \in {"headway", "travel"} /\ HeadwayInit /\ TravelInit

LineNext ==
  /\ \/ followed = "headway" /\ HeadwayNext /\ UNCHANGED <<tripStates, travelOut, call, leg>>
     \/ followed = "travel" /\ TravelNext /\ UNCHANGED <<headwayStates, headwayOut, chain>>
  /\ UNCHANGED followed

LineSpec == LineInit /\ [][LineNext]_<<followed, headwayVars, travelVars>>

(* Both processors keep their types: the one stores departures only, the    *)
(* other arrivals.                                                          *)
LineTypeOK == HeadwayTypeOK /\ TravelTypeOK
=============================================================================
