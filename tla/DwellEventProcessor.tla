-------------------------- MODULE DwellEventProcessor --------------------------
(***************************************************************************)
(* The dwell time processor, src/processors/transit/dwell_events: keeps a  *)
(* vehicle's arrival at a stop and, when the vehicle departs, sends the    *)
(* time it stood there.                                                    *)
(***************************************************************************)
EXTENDS StopEventStream

VARIABLES dwellStates,  \* d.stateStore, from key strings to arrivals
          dwellOut,     \* the event process() has still to send, or Nil
          visit,        \* history: the last arrival of a visit that has not
                        \* ended, with the time it was processed, or Nil
          closed        \* history: the visit that the last departure ended,
                        \* and how long ago its arrival was processed, or Nil

dwellVars == <<now, dwellStates, dwellOut, visit, closed>>

(* DwellStopKey and its String(). *)
DwellStopKey(e) ==
  e.agency \o e.line.route \o e.stop \o e.line.direction \o e.vehicle

(* A vehicle of an agency at a stop of a line: what the key stands for. *)
Visitor(e) == <<e.agency, e.line, e.stop, e.vehicle>>

Visitors == {Visitor(e) : e \in StopEvents}

DwellKeys == {DwellStopKey(e) : e \in StopEvents}

(* Joining the ids with dashes is unambiguous for the ids in use. *)
ASSUME DwellKeyAssumption ==
  \A e, f \in StopEvents :
    DwellStopKey(e) = DwellStopKey(f) => Visitor(e) = Visitor(f)

(* What the processor stores. *)
Stored == {e \in StopEvents : e.type = "ARRIVAL"} \cup {Foreign}

DwellTimeEvent == [event : StopEvents, arrival : Nat, seconds : Int]

Arrival == [event : StopEvents, at : Nat]

ClosedVisit == [event : StopEvents, age : Nat]

(* A nil pointer is none of these. *)
ASSUME DwellNilAssumption == Nil \notin DwellTimeEvent \cup Arrival \cup ClosedVisit

DwellTypeOK ==
  /\ now \in Nat
  /\ IsStore(dwellStates, DwellKeys, Stored)
  /\ dwellOut \in DwellTimeEvent \cup {Nil}
  /\ visit \in [Visitors -> Arrival \cup {Nil}]
  /\ closed \in ClosedVisit \cup {Nil}

DwellInit == /\ now = 0
             /\ dwellStates = EmptyStore
             /\ dwellOut = Nil
             /\ visit = [w \in Visitors |-> Nil]
             /\ closed = Nil

-----------------------------------------------------------------------------
(* Mutant of ReceiveArrival: the first arrival is kept. *)
ReceiveArrivalKeepsFirst(e) ==
  /\ dwellOut = Nil
  /\ e.type = "ARRIVAL"
  /\ \E found \in Get(dwellStates, DwellStopKey(e)),
        set \in Set(dwellStates, DwellStopKey(e), e) :
       dwellStates' = IF found THEN dwellStates ELSE set.store
  /\ visit' = [visit EXCEPT ![Visitor(e)] = [event |-> e, at |-> now]]
  /\ UNCHANGED <<now, dwellOut, closed>>

(* Mutant of ReceiveArrival: the type of the event is not looked at. *)
ReceiveArrivalAnyType(e) ==
  /\ dwellOut = Nil
  /\ \E set \in Set(dwellStates, DwellStopKey(e), e) : dwellStates' = set.store
  /\ visit' = [visit EXCEPT ![Visitor(e)] = [event |-> e, at |-> now]]
  /\ UNCHANGED <<now, dwellOut, closed>>

(* process(), an arrival: it replaces any earlier one; an error of Set is   *)
(* ignored.                                                                 *)
ReceiveArrival(e) ==
  /\ dwellOut = Nil
  /\ e.type = "ARRIVAL"
  /\ \E set \in Set(dwellStates, DwellStopKey(e), e) : dwellStates' = set.store
  /\ visit' = [visit EXCEPT ![Visitor(e)] = [event |-> e, at |-> now]]
  /\ UNCHANGED <<now, dwellOut, closed>>

(* History: a departure ends the visit. *)
EndVisit(e) ==
  LET open == visit[Visitor(e)]
  IN /\ closed' = IF open = Nil THEN Nil
                  ELSE [event |-> open.event, age |-> now - open.at]
     /\ visit' = [visit EXCEPT ![Visitor(e)] = Nil]

(* Mutant of DwellTimes: negative times are sent. *)
DwellTimesSigned(arrival, e) ==
  {[event |-> e, arrival |-> arrival.timestamp, seconds |-> seconds] :
     seconds \in Seconds(e.timestamp - arrival.timestamp)}

(* The dwell events for an arrival and a departure: none when the time is   *)
(* negative.                                                                *)
DwellTimes(arrival, e) ==
  {IF seconds < 0
     THEN Nil
     ELSE [event |-> e, arrival |-> arrival.timestamp, seconds |-> seconds] :
   seconds \in Seconds(e.timestamp - arrival.timestamp)}

(* process(), a departure: the arrival found is deleted, whether or not it  *)
(* gives a dwell time; a departure with no arrival changes nothing.         *)
ReceiveDeparture(e) ==
  LET k == DwellStopKey(e)
  IN /\ dwellOut = Nil
     /\ e.type = "DEPARTURE"
     /\ \E found \in Get(dwellStates, k) :
          \/ /\ found
             /\ dwellStates' \in Delete(dwellStates, k)
             /\ IF dwellStates[k].msg = Foreign
                  THEN dwellOut' = Nil
                  ELSE dwellOut' \in DwellTimes(dwellStates[k].msg, e)
          \/ /\ ~found
             /\ UNCHANGED <<dwellStates, dwellOut>>
     /\ EndVisit(e)
     /\ UNCHANGED now

(* The send on the unbuffered channel out completes. *)
DwellSend ==
  /\ dwellOut # Nil
  /\ dwellOut' = Nil
  /\ UNCHANGED <<now, dwellStates, visit, closed>>

DwellForeignSet(k) ==
  /\ SharedStore
  /\ dwellStates' = Put(dwellStates, k, Foreign)
  /\ UNCHANGED <<now, dwellOut, visit, closed>>

DwellTick ==
  /\ now < MaxTime
  /\ now' = now + 1
  /\ dwellStates' = Lapse(dwellStates)
  /\ UNCHANGED <<dwellOut, visit, closed>>

(* The process crashes and starts again. *)
DwellRestart ==
  /\ dwellStates' \in Reopened(dwellStates)
  /\ dwellOut' = Nil /\ closed' = Nil
  /\ UNCHANGED <<now, visit>>

DwellNext == \/ \E e \in StopEvents : ReceiveArrival(e) \/ ReceiveDeparture(e)
             \/ DwellSend
             \/ \E k \in DwellKeys : DwellForeignSet(k)
             \/ DwellTick
             \/ DwellRestart

DwellSpec == DwellInit /\ [][DwellNext]_dwellVars

-----------------------------------------------------------------------------
(* A dwell time pairs a departure with the latest arrival of the very visit *)
(* that it ends, of the same vehicle at the same stop of the same line, and *)
(* no visit is counted twice: after lapsed entries, repeated arrivals,      *)
(* departures out of order, a foreign message under the key and a crash     *)
(* before or after the arrival is deleted.                                  *)
DwellPairsOpenVisit ==
  Reliable /\ dwellOut # Nil =>
    /\ closed # Nil
    /\ closed.event.timestamp = dwellOut.arrival
    /\ Visitor(closed.event) = Visitor(dwellOut.event)

(* No dwell time is computed from an arrival older than the time to live:   *)
(* orphaned arrivals do not turn up as hour-long dwells.                    *)
DwellIsFresh == Reliable /\ dwellOut # Nil => closed # Nil /\ closed.age <= TTL

(* A dwell time is never negative and never longer than the time between    *)
(* the timestamps of the two events, whatever they are.                     *)
DwellNotOverstated ==
  dwellOut # Nil =>
    0 <= dwellOut.seconds
      /\ dwellOut.seconds <= dwellOut.event.timestamp - dwellOut.arrival

(* The inductive invariant behind both: what is stored under a key is the   *)
(* arrival of the visit that is open there.                                 *)
StoredArrivalIsOpen ==
  Reliable =>
    \A e \in StopEvents :
      LET k == DwellStopKey(e)
          w == Visitor(e)
      IN k \in DOMAIN dwellStates /\ dwellStates[k].msg # Foreign =>
           /\ visit[w] # Nil
           /\ visit[w].event = dwellStates[k].msg
           /\ visit[w].at + TTL = dwellStates[k].expiration
           /\ now <= dwellStates[k].expiration
=============================================================================
