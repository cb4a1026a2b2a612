--------------------------------- MODULE Ingest ---------------------------------
(***************************************************************************)
(* From the feeds to the stop events: a feed message processor for each    *)
(* agency, the vehicle position processor that all of them feed and the    *)
(* stop event processor behind it, src/processors/transit.                 *)
(*                                                                         *)
(* The channels are unbuffered: a feed message processor is blocked in its *)
(* send until the vehicle position processor has read the message before,  *)
(* and that one until process() of the stop event processor takes the      *)
(* position.  It looks at each entity of a message once and in order, so   *)
(* that an entity is chosen when it is looked at.  The go-streams flows    *)
(* in between, which keep the order, are collapsed to a rendezvous.        *)
(***************************************************************************)
EXTENDS StopEventProcessor

CONSTANT Entities   \* the entities that the messages of an agency may have

(* A VehiclePosition of a feed: the status may be missing, or one that only *)
(* a later version of GTFS-realtime knows.                                  *)
VehicleEntity ==
  [id : Vehicle \cup {NoVehicle}, line : Line, trip : Trip,
   stop : Stop \cup {NoStop}, timestamp : Nat,
   status : {"INCOMING_AT", "STOPPED_AT", "IN_TRANSIT_TO", "missing", "later"}]

(* A trip id may stand for a vehicle id, and both may be empty. *)
ASSUME IngestAssumption ==
  /\ \A a \in Agency : Entities[a] \subseteq VehicleEntity \cup {Nil}
  /\ Nil \notin Agency
  /\ Trip \subseteq Vehicle \cup {NoVehicle}

VARIABLES reading,    \* the agency of the FeedMessageEvent whose entities
                      \* are read, or Nil
          reported    \* history: what the agencies reported of vehicles

ingestVars == <<vars, reading, reported>>

(* What is reported: a feed names a vehicle by its id or else by its trip. *)
Named(e) == IF e.id # NoVehicle THEN e.id ELSE e.trip

Report(a, e) == <<a, Named(e), e.stop>>

IngestInit ==
  /\ Init
  /\ reading = Nil /\ reported = {}

-----------------------------------------------------------------------------
(* FeedMessageProcessor: a body that unmarshals becomes an event with the   *)
(* agency of the pipeline, which the vehicle position processor receives.   *)
(* Other bodies are dropped and change nothing.                             *)
FeedMessage(a) ==
  /\ reading = Nil
  /\ reading' = a
  /\ UNCHANGED <<vars, reported>>

(* VehiclePositionEventProcessor. *)

(* There are no more entities. *)
CloseMessage ==
  /\ reading # Nil
  /\ reading' = Nil
  /\ UNCHANGED <<vars, reported>>

(* A status that is missing reads as IN_TRANSIT_TO, the default of the      *)
(* feed's protocol.                                                         *)
StopStatus(e) ==
  CASE e.status = "missing" -> "IN_TRANSIT_TO"
    [] e.status = "later" -> "UNKNOWN"
    [] OTHER -> e.status

(* Mutant of VehicleId: the trip id, if there is one, goes first. *)
VehicleIdTripFirst(e) == IF e.trip = NoVehicle THEN e.id ELSE e.trip

VehicleId(e) == IF e.id = NoVehicle THEN e.trip ELSE e.id

VehiclePositionEvent(a, e) ==
  [agency |-> a, vehicle |-> VehicleId(e), line |-> e.line, trip |-> e.trip,
   stop |-> e.stop, status |-> StopStatus(e), timestamp |-> e.timestamp]

(* Mutant of Skipped: entities without a stop are passed on. *)
SkippedVehicleless(e) == e = Nil

(* An entity that is no vehicle, or a vehicle without a stop. *)
Skipped(e) == e = Nil \/ e.stop = NoStop

(* The next entity is skipped, or sent as a position: process() takes it    *)
(* up, or drops it as it has no vehicle id.                                 *)
ReadEntity(e) ==
  /\ reading # Nil /\ e \in Entities[reading]
  /\ IF Skipped(e)
       THEN UNCHANGED <<vars, reported>>
       ELSE LET p == VehiclePositionEvent(reading, e)
            IN /\ IF p.vehicle = NoVehicle THEN out = <<>> /\ UNCHANGED vars ELSE Receive(p)
               /\ reported' = reported \cup {Report(reading, e)}
  /\ UNCHANGED reading

(* The process crashes and starts again. *)
IngestRestart ==
  /\ Restart
  /\ reading' = Nil
  /\ UNCHANGED reported

IngestNext ==
  \/ \E a \in Agency : FeedMessage(a)
  \/ \E e \in UNION {Entities[a] : a \in Agency} : ReadEntity(e)
  \/ CloseMessage
  \/ IngestRestart
  \/ /\ Send \/ Tick \/ \E v \in Vehicle : ForeignSet(v)
     /\ UNCHANGED <<reading, reported>>

IngestSpec == IngestInit /\ [][IngestNext]_ingestVars

-----------------------------------------------------------------------------
(* Positions of a vehicle with an id at a named stop. *)
NamedPositions ==
  {p \in Position : p.vehicle # NoVehicle /\ p.stop # NoStop}

(* process() takes up positions at named stops only, whatever the entities  *)
(* of the feeds are, so that the composition implements a stop event        *)
(* processor whose Positions are NamedPositions: what holds of one with     *)
(* such inputs holds behind the feeds.                                      *)
DeliversPositions == Spec

(* "Skip vehicles without a stop_id to avoid meaningless stop events        *)
(* downstream" (vehicle_position_event_processor.go): makeStopEvent never   *)
(* returns nil, so that no nil pointer is sent to the metric processors,    *)
(* also for the stop of the position stored before.                         *)
NoNilEvents == \A i \in 1..Len(out) : out[i] # Nil

(* The agencies use different vehicle ids: the key of the state is the      *)
(* vehicle id alone, so that the vehicles of two agencies that share an id  *)
(* would be taken for one.                                                  *)
IdsApart ==
  \A a, b \in Agency : \A e \in Entities[a] \ {Nil}, f \in Entities[b] \ {Nil} :
    a # b /\ Named(e) = Named(f) => Named(e) = NoVehicle

(* Every stop event is about a vehicle, and a stop, that the feed of the    *)
(* very agency it names has reported, however the messages of the agencies  *)
(* and the positions of their vehicles interleave, although a trip id may   *)
(* stand for a vehicle id.                                                  *)
EventsAreGrounded ==
  IdsApart =>
    \A i \in 1..Len(out) :
      out[i] # Nil => <<out[i].agency, out[i].vehicle, out[i].stop>> \in reported
=============================================================================
