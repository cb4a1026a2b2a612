----------------------------- MODULE TransitEvents -----------------------------
(***************************************************************************)
(* The events the processors exchange (src/api/v1/events/transit.proto),   *)
(* reduced to the attributes that decide what a processor does.  A line is *)
(* a route with a direction: every key that holds one holds the other.     *)
(* Timestamps are whole seconds, as in GTFS-realtime.                      *)
(***************************************************************************)
EXTENDS Integers

CONSTANTS Agency, Vehicle, Line, Trip, Stop,
          NoVehicle, NoStop,   \* the empty strings
          Nil,                 \* a nil pointer
          Int32Max             \* the largest int32, small in the models

ASSUME EventAssumption == /\ Int32Max \in Nat
                          /\ NoVehicle \notin Vehicle
                          /\ NoStop \notin Stop

Status == {"UNKNOWN", "INCOMING_AT", "STOPPED_AT", "IN_TRANSIT_TO"}

(* VehiclePositionEvent *)
Position == [agency : Agency, vehicle : Vehicle \cup {NoVehicle}, line : Line,
             trip : Trip, stop : Stop \cup {NoStop}, status : Status,
             timestamp : Nat]

(* StopEvent.  A line has a route and a direction. *)
StopEvent == [type : {"ARRIVAL", "DEPARTURE"}, agency : Agency,
              vehicle : Vehicle, line : Line, trip : Trip, stop : Stop,
              timestamp : Nat]

Int32Min == -Int32Max - 1

(* int32(d.Seconds()): the values the conversion of a float64 may give.     *)
(* Out of range, Go leaves the result to the processor: amd64 gives the     *)
(* least int32, arm64 the nearest one.                                      *)
Seconds(d) == IF d > Int32Max THEN {Int32Max, Int32Min}
              ELSE IF d < Int32Min THEN {Int32Min}
              ELSE {d}
=============================================================================
