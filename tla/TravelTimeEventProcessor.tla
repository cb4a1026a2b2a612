----------------------- MODULE TravelTimeEventProcessor -----------------------
(***************************************************************************)
(* The travel time processor, src/processors/transit/travel_time_events:   *)
(* keeps a vehicle's last arrival on a trip and, when the vehicle arrives  *)
(* at another stop, sends the time between the two arrivals.               *)
(*                                                                         *)
(* Unlike its siblings it sends first and stores afterwards, so that any   *)
(* amount of time may pass between its Get and its Set.                    *)
(***************************************************************************)
EXTENDS StopEventStream

VARIABLES tripStates,  \* f.tripStates, from key strings to arrivals
          travelOut,   \* the event process() is about to send, or Nil
          call,        \* history: the stop where a vehicle last arrived on a
                       \* trip, with the timestamps of the arrivals there
                       \* since it arrived from elsewhere, or Nil; an
                       \* arrival not stored before a crash is undone
          leg          \* history: the call before the arrival that travelOut
                       \* is about, or Nil

travelVars == <<now, tripStates, travelOut, call, leg>>

Arrivals == {e \in StopEvents : e.type = "ARRIVAL"}

(* tripKey and its String(). *)
TripKey(e) == e.line.route \o e.line.direction \o e.vehicle \o e.trip

(* A vehicle on a trip of a line: what the key stands for. *)
Run(e) == <<e.line, e.vehicle, e.trip>>

Runs == {Run(e) : e \in StopEvents}

TripKeys == {TripKey(e) : e \in Arrivals}

(* Joining the ids with dashes is unambiguous for the ids in use. *)
ASSUME TripKeyAssumption ==
  \A e, f \in StopEvents : TripKey(e) = TripKey(f) => Run(e) = Run(f)

(* What the processor stores. *)
TravelStored == Arrivals \cup {Foreign}

TravelTimeEvent == [event : StopEvents, origin : Stop, start : Nat, seconds : Int]

Call == [stop : Stop, times : SUBSET Nat]

(* A nil pointer is none of these. *)
ASSUME TravelNilAssumption == Nil \notin TravelTimeEvent \cup Call

TravelTypeOK ==
  /\ now \in Nat
  /\ IsStore(tripStates, TripKeys, TravelStored)
  /\ travelOut \in TravelTimeEvent \cup {Nil}
  /\ call \in [Runs -> Call \cup {Nil}]
  /\ leg \in Call \cup {Nil}

TravelInit == /\ now = 0
              /\ tripStates = EmptyStore
              /\ travelOut = Nil
              /\ call = [r \in Runs |-> Nil]
              /\ leg = Nil

-----------------------------------------------------------------------------
(* History: the vehicle arrived, at the stop where it is or at another one. *)
Arrived(e) ==
  LET c == call[Run(e)]
      here == [stop |-> e.stop,
               times |-> IF c # Nil /\ c.stop = e.stop
                           THEN c.times \cup {e.timestamp} ELSE {e.timestamp}]
  IN call' = [call EXCEPT ![Run(e)] = here] /\ leg' = c

(* An arrival reaches process(), which is not blocked in a send. *)
Arrives(e) == travelOut = Nil /\ e.type = "ARRIVAL"

(* The arrival found is one to measure from. *)
Usable(k) == TRUE \in Get(tripStates, k) /\ tripStates[k].msg # Foreign

(* process() finds no arrival on this trip, or not a stop event: e is       *)
(* stored.  An error of Set is ignored, here and below.                     *)
TravelFirst(e) ==
  LET k == TripKey(e)
  IN /\ Arrives(e)
     /\ \E found \in Get(tripStates, k) : found => tripStates[k].msg = Foreign
     /\ \E set \in Set(tripStates, k, e) : tripStates' = set.store
     /\ Arrived(e)
     /\ UNCHANGED <<now, travelOut>>

(* An arrival at the stop that is stored changes nothing. *)
ReceiveRepeated(e) ==
  LET k == TripKey(e)
  IN /\ Arrives(e) /\ Usable(k)
     /\ tripStates[k].msg.stop = e.stop
     /\ Arrived(e)
     /\ UNCHANGED <<now, tripStates, travelOut>>

(* Mutant of ReceiveLate: the stored arrival stays. *)
ReceiveLateDropped(e) ==
  LET k == TripKey(e)
      prev == tripStates[k].msg
  IN /\ Arrives(e) /\ Usable(k)
     /\ prev.stop # e.stop
     /\ \E seconds \in Seconds(e.timestamp - prev.timestamp) : seconds <= 0
     /\ Arrived(e)
     /\ UNCHANGED <<now, travelOut, tripStates>>

(* An arrival at another stop that is not later is stored, and not sent. *)
ReceiveLate(e) ==
  LET k == TripKey(e)
      prev == tripStates[k].msg
  IN /\ Arrives(e) /\ Usable(k)
     /\ prev.stop # e.stop
     /\ \E seconds \in Seconds(e.timestamp - prev.timestamp) : seconds <= 0
     /\ \E set \in Set(tripStates, k, e) : tripStates' = set.store
     /\ Arrived(e)
     /\ UNCHANGED <<now, travelOut>>

(* Mutant of ReceiveTravel: the sign of the time is not looked at. *)
ReceiveTravelSigned(e) ==
  LET k == TripKey(e)
      prev == tripStates[k].msg
  IN /\ Arrives(e) /\ Usable(k)
     /\ prev.stop # e.stop
     /\ \E seconds \in Seconds(e.timestamp - prev.timestamp) :
          travelOut' = [event |-> e, origin |-> prev.stop,
                        start |-> prev.timestamp, seconds |-> seconds]
     /\ Arrived(e)
     /\ UNCHANGED <<now, tripStates>>

(* An arrival at another stop gives a travel time: process() sends it ... *)
ReceiveTravel(e) ==
  LET k == TripKey(e)
      prev == tripStates[k].msg
  IN /\ Arrives(e) /\ Usable(k)
     /\ prev.stop # e.stop
     /\ \E seconds \in Seconds(e.timestamp - prev.timestamp) :
          /\ seconds > 0
          /\ travelOut' = [event |-> e, origin |-> prev.stop,
                           start |-> prev.timestamp, seconds |-> seconds]
     /\ Arrived(e)
     /\ UNCHANGED <<now, tripStates>>

(* Mutant of TravelSend: the arrival is not stored. *)
TravelSendForgets ==
  /\ travelOut # Nil
  /\ travelOut' = Nil
  /\ UNCHANGED <<now, tripStates, call, leg>>

(* ... and, once the send on the unbuffered channel completes, stores e. *)
TravelSend ==
  /\ travelOut # Nil
  /\ travelOut' = Nil
  /\ LET e == travelOut.event
     IN \E set \in Set(tripStates, TripKey(e), e) : tripStates' = set.store
  /\ UNCHANGED <<now, call, leg>>

TravelForeignSet(k) ==
  /\ SharedStore
  /\ tripStates' = Put(tripStates, k, Foreign)
  /\ UNCHANGED <<now, travelOut, call, leg>>

TravelTick ==
  /\ now < MaxTime
  /\ now' = now + 1
  /\ tripStates' = Lapse(tripStates)
  /\ UNCHANGED <<travelOut, call, leg>>

(* The process crashes and starts again, before its send or between its     *)
(* send and its Set: the store is as if the arrival had not come.           *)
TravelRestart ==
  /\ tripStates' \in Reopened(tripStates)
  /\ travelOut' = Nil /\ leg' = Nil
  /\ call' = IF travelOut = Nil THEN call
             ELSE [call EXCEPT ![Run(travelOut.event)] = leg]
  /\ UNCHANGED now

TravelNext ==
  \/ \E e \in StopEvents : \/ TravelFirst(e) \/ ReceiveRepeated(e)
                           \/ ReceiveLate(e) \/ ReceiveTravel(e)
  \/ TravelSend
  \/ \E k \in TripKeys : TravelForeignSet(k)
  \/ TravelTick
  \/ TravelRestart

TravelSpec == TravelInit /\ [][TravelNext]_travelVars

-----------------------------------------------------------------------------
(* A travel time joins two consecutive calls of a vehicle on its trip: it   *)
(* starts at the stop where the vehicle last arrived, at the time of an     *)
(* arrival there, and skips no stop in between: although the entry may      *)
(* lapse while the vehicle stands or while process() is blocked in its      *)
(* send, and although arrivals are repeated or late.  A crash before its    *)
(* Set undoes an arrival altogether: the next leg starts where this one     *)
(* did, so that the one may repeat or span the other.                       *)
TravelJoinsConsecutiveCalls ==
  ReliableSet /\ travelOut # Nil =>
    /\ leg # Nil
    /\ travelOut.origin = leg.stop
    /\ travelOut.start \in leg.times
    /\ travelOut.origin # travelOut.event.stop

(* A travel time is positive and never longer than the time between the two *)
(* arrivals.                                                                *)
TravelNotOverstated ==
  travelOut # Nil =>
    0 < travelOut.seconds
      /\ travelOut.seconds <= travelOut.event.timestamp - travelOut.start

(* The inductive invariant behind it: unless process() is between its send  *)
(* and its Set, what is stored on a trip is an arrival of the last call.    *)
StoredArrivalIsLastCall ==
  ReliableSet =>
    \A e \in StopEvents :
      LET k == TripKey(e)
          d == tripStates[k].msg
          c == call[Run(e)]
          storing == travelOut # Nil /\ Run(travelOut.event) = Run(e)
      IN k \in DOMAIN tripStates /\ d # Foreign /\ ~storing =>
           c # Nil /\ d.stop = c.stop /\ d.timestamp \in c.times
=============================================================================
