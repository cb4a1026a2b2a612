-------------------------------- MODULE MCIngest --------------------------------
(* Ingest for TLC: two agencies, one of which sends no vehicle ids. *)
EXTENDS Ingest

CONSTANTS a1, a2, v1, t2, l1, s1, s2

MCVehicle == {v1, t2}
MCLine == {l1}
MCTrip == {t2, NoVehicle}

(* NamedPositions, as far as the entities go. *)
MCPositions == [agency : Agency, vehicle : MCVehicle, line : MCLine,
                trip : MCTrip, stop : Stop, status : Status, timestamp : {0}]

VehicleReport(id, trip, stop, status) ==
  [id |-> id, line |-> l1, trip |-> trip, stop |-> stop, status |-> status,
   timestamp |-> 0]

Reports(id, trip, stops) ==
  {VehicleReport(id, trip, s, status) :
     s \in stops, status \in {"INCOMING_AT", "STOPPED_AT", "IN_TRANSIT_TO"}}

(* The vehicles of a1 run on the trip whose id stands for one of a2. *)
MCEntities ==
  [a \in {a1, a2} |->
     IF a = a1
       THEN Reports(v1, t2, {s1, s2})
              \cup {Nil, VehicleReport(NoVehicle, NoVehicle, s1, "STOPPED_AT")}
       ELSE Reports(NoVehicle, t2, {s2})
              \cup {VehicleReport(NoVehicle, t2, NoStop, "STOPPED_AT"),
                    VehicleReport(NoVehicle, t2, s2, "missing"),
                    VehicleReport(NoVehicle, t2, s2, "later")}]
=============================================================================
