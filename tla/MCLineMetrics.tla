----------------------------- MODULE MCLineMetrics -----------------------------
(***************************************************************************)
(* LineMetrics for TLC: both processors see the departures of three        *)
(* vehicles at a stop and the arrivals of one at three stops, with         *)
(* timestamps whose differences go beyond the range of int32.              *)
(***************************************************************************)
EXTENDS LineMetrics

CONSTANTS MaxDeparture, MaxArrival  \* bounds on the timestamps

MCAgency == {<<"mbta">>}
MCVehicle == {<<"G", "1">>, <<"G", "2">>, <<"G", "3">>}
MCLine == {[route |-> <<"Green", "B">>, direction |-> <<"0">>]}
MCTrip == {<<"t1">>}
MCStop == {<<"70110">>, <<"70112">>, <<"70114">>}

MCStopEvents ==
  [type : {"DEPARTURE"}, agency : MCAgency, vehicle : MCVehicle, line : MCLine,
   trip : MCTrip, stop : {<<"70110">>}, timestamp : 0..MaxDeparture]
    \cup
  [type : {"ARRIVAL"}, agency : MCAgency, vehicle : {<<"G", "1">>}, line : MCLine,
   trip : MCTrip, stop : MCStop, timestamp : 0..MaxArrival]
=============================================================================
