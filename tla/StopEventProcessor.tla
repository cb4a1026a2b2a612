-------------------------- MODULE StopEventProcessor --------------------------
(***************************************************************************)
(* The stop event processor, src/processors/transit/stop_events: compares  *)
(* each vehicle position with the vehicle's previous one and sends the     *)
(* arrivals and departures it infers.                                      *)
(*                                                                         *)
(* process() runs in one goroutine over a store that is normally its own,  *)
(* so that it is one step up to its first send; each send on the           *)
(* unbuffered channel out is a step.                                       *)
(***************************************************************************)
EXTENDS StateStore, TransitEvents, Sequences

CONSTANT Positions   \* the inputs: positions a feed may deliver

ASSUME PositionAssumption == /\ Positions \subseteq Position
                             /\ Foreign \notin Position
                             /\ Nil \notin StopEvent

VARIABLES vehiclesState,  \* s.vehiclesState, from vehicle ids to positions
          out,            \* the events process() has still to send
          last,           \* history: the vehicle's last event sent since the
                          \* processor last met it as a new vehicle, or Nil
          lost            \* history: the vehicle's last event that should
                          \* have been sent since then and was not, or Nil

vars == <<now, vehiclesState, out, last, lost>>

StoredMessage == Position \cup {Foreign}

TypeOK ==
  /\ now \in Nat
  /\ IsStore(vehiclesState, Vehicle, StoredMessage)
  /\ \A v \in DOMAIN vehiclesState :
       vehiclesState[v].msg # Foreign => vehiclesState[v].msg.vehicle = v
  /\ out \in Seq(StopEvent \cup {Nil}) /\ Len(out) <= 2
  /\ last \in [Vehicle -> StopEvent \cup {Nil}]
  /\ lost \in [Vehicle -> StopEvent \cup {Nil}]

Init == /\ now = 0
        /\ vehiclesState = EmptyStore
        /\ out = <<>>
        /\ last = [v \in Vehicle |-> Nil]
        /\ lost = [v \in Vehicle |-> Nil]

-----------------------------------------------------------------------------
(* Mutant of makeStopEvent: the stop is not looked at. *)
makeStopEventUnchecked(vp, stop, type) ==
  [type |-> type, agency |-> vp.agency, vehicle |-> vp.vehicle,
   line |-> vp.line, trip |-> vp.trip, stop |-> stop,
   timestamp |-> vp.timestamp]

(* Mutant of makeStopEvent: a timestamp of zero is taken for a missing one. *)
makeStopEventTimed(vp, stop, type) ==
  IF vp.vehicle = NoVehicle \/ stop = NoStop \/ vp.timestamp = 0
    THEN Nil
    ELSE [type |-> type, agency |-> vp.agency, vehicle |-> vp.vehicle,
          line |-> vp.line, trip |-> vp.trip, stop |-> stop,
          timestamp |-> vp.timestamp]

(* makeStopEvent: the event carries the attributes of vp and the stop given. *)
makeStopEvent(vp, stop, type) ==
  IF vp.vehicle = NoVehicle \/ stop = NoStop
    THEN Nil
    ELSE [type |-> type, agency |-> vp.agency, vehicle |-> vp.vehicle,
          line |-> vp.line, trip |-> vp.trip, stop |-> stop,
          timestamp |-> vp.timestamp]

Moving == {"IN_TRANSIT_TO", "INCOMING_AT"}

(* Mutant of StopEvents: the jump from stop to stop is taken for an arrival. *)
StopEventsNoSynthesis(prev, cur) ==
  LET arrival(s) == makeStopEvent(cur, s, "ARRIVAL")
      departure(s) == makeStopEvent(cur, s, "DEPARTURE")
  IN CASE cur.status = "STOPPED_AT" /\ prev.status \in Moving
            -> <<arrival(cur.stop)>>
       [] /\ cur.status = "STOPPED_AT" /\ prev.status = "STOPPED_AT"
          /\ prev.stop # cur.stop
            -> <<arrival(cur.stop)>>
       [] cur.status = "IN_TRANSIT_TO" /\ prev.status = "STOPPED_AT"
            -> <<departure(prev.stop)>>
       [] /\ cur.status = "IN_TRANSIT_TO" /\ prev.status \in Moving
          /\ prev.stop # cur.stop
            -> <<arrival(prev.stop), departure(prev.stop)>>
       [] OTHER -> <<>>

(* Mutant of StopEvents: an approach that ends at the stop goes unnoticed. *)
StopEventsMissesApproach(prev, cur) ==
  LET arrival(s) == makeStopEvent(cur, s, "ARRIVAL")
      departure(s) == makeStopEvent(cur, s, "DEPARTURE")
  IN CASE cur.status = "STOPPED_AT" /\ prev.status = "IN_TRANSIT_TO"
            -> <<arrival(cur.stop)>>
       [] /\ cur.status = "STOPPED_AT" /\ prev.status = "STOPPED_AT"
          /\ prev.stop # cur.stop
            -> <<departure(prev.stop), arrival(cur.stop)>>
       [] cur.status = "IN_TRANSIT_TO" /\ prev.status = "STOPPED_AT"
            -> <<departure(prev.stop)>>
       [] /\ cur.status = "IN_TRANSIT_TO" /\ prev.status \in Moving
          /\ prev.stop # cur.stop
            -> <<arrival(prev.stop), departure(prev.stop)>>
       [] OTHER -> <<>>

(* The state machine of process(): the events inferred from the previous    *)
(* and the current position of a vehicle.                                   *)
StopEvents(prev, cur) ==
  LET arrival(s) == makeStopEvent(cur, s, "ARRIVAL")
      departure(s) == makeStopEvent(cur, s, "DEPARTURE")
  IN CASE prev.status = cur.status /\ prev.stop = cur.stop -> <<>>
       [] cur.status = "STOPPED_AT" /\ prev.status \in Moving
            -> <<arrival(cur.stop)>>
       [] /\ cur.status = "STOPPED_AT" /\ prev.status = "STOPPED_AT"
          /\ prev.stop # cur.stop
            -> <<departure(prev.stop), arrival(cur.stop)>>
       [] cur.status = "IN_TRANSIT_TO" /\ prev.status = "STOPPED_AT"
            -> <<departure(prev.stop)>>
       [] /\ cur.status = "IN_TRANSIT_TO" /\ prev.status \in Moving
          /\ prev.stop # cur.stop
            -> <<arrival(prev.stop), departure(prev.stop)>>
       [] OTHER -> <<>>

(* A report the state machine can place: a known status at a named stop. *)
Placed(p) == p.status # "UNKNOWN" /\ p.stop # NoStop

(* What the two positions tell.  process() has no case for INCOMING_AT and  *)
(* sends nothing for it, although a vehicle that approaches a stop has left *)
(* the one where it stood, and passed the one it was headed for before,     *)
(* just as one in transit.                                                  *)
Told(prev, cur) ==
  StopEvents(prev, IF cur.status = "INCOMING_AT"
                     THEN [cur EXCEPT !.status = "IN_TRANSIT_TO"] ELSE cur)

(* The events told by the positions that are not sent: those of a report    *)
(* INCOMING_AT, and all of them when the Get failed (the vehicle is taken   *)
(* for a new one) or the Set was applied and reported an error.             *)
Missed(prev, cur, heard) ==
  IF heard /\ cur.status # "INCOMING_AT" THEN <<>> ELSE Told(prev, cur)

(* The store tells where the vehicle was.  If not, since there is no entry, *)
(* or one of another processor, or one without a status or a stop, the      *)
(* processor meets the vehicle afresh: there is nothing it could tell.      *)
Met(v) ==
  /\ v \in DOMAIN vehiclesState
  /\ vehiclesState[v].msg # Foreign /\ Placed(vehiclesState[v].msg)

(* History: p was taken up (or not) as the vehicle's new position. *)
Remember(p, known, set) ==
  LET v == p.vehicle
      missed == Missed(vehiclesState[v].msg, p, known /\ set.ok)
  IN \/ /\ ~set.applied
        /\ UNCHANGED <<last, lost>>
     \/ /\ set.applied /\ ~Met(v)
        /\ last' = [last EXCEPT ![v] = Nil]
        /\ lost' = [lost EXCEPT ![v] = Nil]
     \/ /\ set.applied /\ Met(v)
        /\ last' = last
        /\ lost' = IF missed = <<>> THEN lost
                   ELSE [lost EXCEPT ![v] = missed[Len(missed)]]

(* process(): a position without a vehicle id, and an element that is no    *)
(* position, are dropped by doStream and process and change nothing.        *)
Receive(p) ==
  LET v == p.vehicle
  IN /\ out = <<>>
     /\ v # NoVehicle
     /\ \E found \in Get(vehiclesState, v), set \in Set(vehiclesState, v, p) :
          LET known == found /\ vehiclesState[v].msg # Foreign
              prev == vehiclesState[v].msg
          IN /\ vehiclesState' = set.store
             /\ out' = IF set.ok /\ known THEN StopEvents(prev, p) ELSE <<>>
             /\ Remember(p, known, set)
     /\ UNCHANGED now

(* A send on the unbuffered channel out completes. *)
Send ==
  /\ out # <<>>
  /\ out' = Tail(out)
  /\ IF Head(out) = Nil
       THEN UNCHANGED <<last, lost>>
       ELSE /\ last' = [last EXCEPT ![Head(out).vehicle] = Head(out)]
            /\ lost' = [lost EXCEPT ![Head(out).vehicle] = Nil]
  /\ UNCHANGED <<now, vehiclesState>>

(* Another processor writes under a key of this one in a shared store. *)
ForeignSet(v) ==
  /\ SharedStore
  /\ vehiclesState' = Put(vehiclesState, v, Foreign)
  /\ UNCHANGED <<now, out, last, lost>>

Tick ==
  /\ now < MaxTime
  /\ now' = now + 1
  /\ vehiclesState' = Lapse(vehiclesState)
  /\ UNCHANGED <<out, last, lost>>

(* The last of the events still to be sent that is of v, or Nil. *)
Pending(v) ==
  LET isOf(e) == e # Nil /\ e.vehicle = v
  IN IF Len(out) = 2 /\ isOf(out[2]) THEN out[2]
     ELSE IF out # <<>> /\ isOf(out[1]) THEN out[1]
     ELSE Nil

(* The process crashes and starts again: the events it had still to send    *)
(* are lost, although the position that gave them is stored.                *)
Restart ==
  /\ vehiclesState' \in Reopened(vehiclesState)
  /\ out' = <<>>
  /\ lost' = [v \in Vehicle |-> IF Pending(v) # Nil THEN Pending(v) ELSE lost[v]]
  /\ UNCHANGED <<now, last>>

Next == \/ \E p \in Positions : Receive(p)
        \/ Send
        \/ \E v \in Vehicle : ForeignSet(v)
        \/ Tick
        \/ Restart

Spec == Init /\ [][Next]_vars

-----------------------------------------------------------------------------
(* An event of a vehicle may follow its event e: a vehicle that arrived     *)
(* departs next, and from the stop where it arrived; one that departed      *)
(* arrives next.                                                            *)
MayFollow(e, f) ==
  \/ e = Nil
  \/ e.type = "ARRIVAL" /\ f.type = "DEPARTURE" /\ f.stop = e.stop
  \/ e.type = "DEPARTURE" /\ f.type = "ARRIVAL"

(* The last event of a vehicle before those still to be sent, sent or lost. *)
Trail(v) == IF lost[v] # Nil THEN lost[v] ELSE last[v]

(* The events of a vehicle, the ones sent and the ones lost, alternate, and *)
(* each departure is from the stop of the arrival before it: with reports   *)
(* missing, repeated or jumping from stop to stop, a store that fails or is *)
(* shared, and crashes.  So two arrivals in a row, or a departure from      *)
(* elsewhere than the arrival, are sent only across an event that was lost  *)
(* (to an INCOMING_AT report, a Get or Set that failed, or a crash), and    *)
(* what is sent next is right again.  It starts anew when the processor     *)
(* meets the vehicle afresh (~Met).                                         *)
Alternation ==
  out # <<>> /\ Head(out) # Nil
    => MayFollow(Trail(Head(out).vehicle), Head(out))

(* The last event of a vehicle, those still to be sent included. *)
LastEvent(v) == IF Pending(v) # Nil THEN Pending(v) ELSE Trail(v)

(* An event, or none, that agrees with a position: a vehicle that stands at *)
(* a stop has arrived there, one under way has departed.                    *)
Agrees(p, e) ==
  \/ e = Nil
  \/ p.status = "STOPPED_AT" /\ e.type = "ARRIVAL" /\ e.stop = p.stop
  \/ p.status \in Moving /\ e.type = "DEPARTURE"

(* What the events say about a vehicle is what the stored position says: a  *)
(* vehicle stored as standing at a stop has arrived there and not departed, *)
(* one stored as under way has departed.  Where the last event was lost, it *)
(* is the one that consumers lack: the store is ahead of them by what was   *)
(* lost, and by nothing else, in any order of reports, faults, crashes and  *)
(* events still to be sent.                                                 *)
EventsMatchState ==
  \A v \in DOMAIN vehiclesState :
    LET p == vehiclesState[v].msg
    IN p # Foreign /\ Placed(p) => Agrees(p, LastEvent(v))

(* docs/processors/stop-event-processor.md, of the arrival and departure    *)
(* inferred when a vehicle under way heads for another stop: "The arrival   *)
(* uses the previous event's attributes", its timestamp for one.            *)
ArrivalUsesPreviousAttributes ==
  [][out = <<>> /\ Len(out') = 2 /\ out'[1].type = "ARRIVAL" =>
       out'[1].timestamp = vehiclesState[out'[1].vehicle].msg.timestamp]_vars

(* The events still to be sent are of one vehicle and alternate too. *)
PendingInv ==
  \A v \in Vehicle :
    (\E i \in 1..Len(out) : out[i] # Nil /\ out[i].vehicle = v) =>
      /\ \A i \in 1..Len(out) : out[i] = Nil \/ out[i].vehicle = v
      /\ out[1] # Nil => MayFollow(Trail(v), out[1])
      /\ Len(out) = 2 /\ out[2] # Nil =>
           MayFollow(IF out[1] # Nil THEN out[1] ELSE Trail(v), out[2])
=============================================================================
