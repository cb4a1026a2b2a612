------------------------- MODULE HeadwayEventProcessor -------------------------
(***************************************************************************)
(* The headway processor, src/processors/transit/headway_events: keeps the *)
(* departure it measures from at each stop of a line and sends the time    *)
(* from there to the departure of the next vehicle.                        *)
(***************************************************************************)
EXTENDS StopEventStream

VARIABLES headwayStates,  \* f.headwayStates, from key strings to departures
          headwayOut,     \* the event process() has still to send, or Nil
          chain           \* history: the departure that the chain of headways
                          \* at a stop began with, the seconds of the headways
                          \* since, and whether one of them was clipped
                          \* by int32 or lost in a crash

headwayVars == <<now, headwayStates, headwayOut, chain>>

Departures == {e \in StopEvents : e.type = "DEPARTURE"}

(* headwayStopKey and its String(). *)
HeadwayStopKey(e) == e.line.route \o e.line.direction \o e.stop

(* A stop of a line: what the key stands for. *)
LineStop(e) == <<e.line, e.stop>>

LineStops == {LineStop(e) : e \in StopEvents}

HeadwayKeys == {HeadwayStopKey(e) : e \in Departures}

(* Joining the ids with dashes is unambiguous for the ids in use. *)
ASSUME HeadwayKeyAssumption ==
  \A e, f \in StopEvents :
    HeadwayStopKey(e) = HeadwayStopKey(f) => LineStop(e) = LineStop(f)

(* What the processor stores. *)
HeadwayStored == Departures \cup {Foreign}

(* The HeadwayTimeEvent, with the timestamp of the departure it is measured *)
(* from.                                                                    *)
HeadwayTimeEvent == [event : StopEvents, leading : Vehicle, since : Nat,
                     seconds : Int]

Chain == [first : Nat, total : Int, lossy : BOOLEAN]

HeadwayTypeOK ==
  /\ now \in Nat
  /\ IsStore(headwayStates, HeadwayKeys, HeadwayStored)
  /\ headwayOut \in HeadwayTimeEvent \cup {Nil}
  /\ chain \in [LineStops -> Chain]

HeadwayInit ==
  /\ now = 0
  /\ headwayStates = EmptyStore
  /\ headwayOut = Nil
  /\ chain = [p \in LineStops |-> [first |-> 0, total |-> 0, lossy |-> FALSE]]

-----------------------------------------------------------------------------
(* Mutant of HeadwayFirst: the type of the event is not looked at. *)
HeadwayFirstAnyType(e) ==
  LET k == HeadwayStopKey(e)
  IN /\ headwayOut = Nil
     /\ \E found \in Get(headwayStates, k) :
          found => headwayStates[k].msg = Foreign
     /\ \E set \in Set(headwayStates, k, e) : headwayStates' = set.store
     /\ chain' = [chain EXCEPT ![LineStop(e)] =
                    [first |-> e.timestamp, total |-> 0, lossy |-> FALSE]]
     /\ UNCHANGED <<now, headwayOut>>

(* process() finds nothing to measure from, or not a stop event: e is       *)
(* stored.  An error of Set is ignored, here and below.                     *)
HeadwayFirst(e) ==
  LET k == HeadwayStopKey(e)
  IN /\ headwayOut = Nil
     /\ e.type = "DEPARTURE"
     /\ \E found \in Get(headwayStates, k) :
          found => headwayStates[k].msg = Foreign
     /\ \E set \in Set(headwayStates, k, e) : headwayStates' = set.store
     /\ chain' = [chain EXCEPT ![LineStop(e)] =
                    [first |-> e.timestamp, total |-> 0, lossy |-> FALSE]]
     /\ UNCHANGED <<now, headwayOut>>

(* process() has a departure to measure from. *)
Measurable(e) ==
  LET k == HeadwayStopKey(e)
  IN /\ headwayOut = Nil
     /\ e.type = "DEPARTURE"
     /\ TRUE \in Get(headwayStates, k)
     /\ headwayStates[k].msg # Foreign

(* A departure of the vehicle that is stored is dropped, and so is one that *)
(* is not later: the stored departure stays.                                *)
ReceiveDropped(e) ==
  LET prev == headwayStates[HeadwayStopKey(e)].msg
  IN /\ Measurable(e)
     /\ \/ prev.vehicle = e.vehicle
        \/ \E seconds \in Seconds(e.timestamp - prev.timestamp) : seconds <= 0
     /\ UNCHANGED <<now, headwayStates, headwayOut, chain>>

(* Mutant of ReceiveHeadway: the stored departure is not replaced. *)
ReceiveHeadwayKeepsLeader(e) ==
  LET k == HeadwayStopKey(e)
      prev == headwayStates[k].msg
  IN /\ Measurable(e)
     /\ prev.vehicle # e.vehicle
     /\ \E seconds \in Seconds(e.timestamp - prev.timestamp) :
          /\ seconds > 0
          /\ headwayOut' = [event |-> e, leading |-> prev.vehicle,
                            since |-> prev.timestamp, seconds |-> seconds]
          /\ chain' = [chain EXCEPT ![LineStop(e)] =
                         [first |-> @.first, total |-> @.total + seconds,
                          lossy |-> @.lossy \/ e.timestamp - prev.timestamp > Int32Max]]
     /\ UNCHANGED <<now, headwayStates>>

(* Mutant of ReceiveHeadway: a late departure gives a headway too. *)
ReceiveHeadwaySigned(e) ==
  LET k == HeadwayStopKey(e)
      prev == headwayStates[k].msg
  IN /\ Measurable(e)
     /\ prev.vehicle # e.vehicle
     /\ \E seconds \in Seconds(e.timestamp - prev.timestamp) :
          /\ headwayOut' = [event |-> e, leading |-> prev.vehicle,
                            since |-> prev.timestamp, seconds |-> seconds]
          /\ chain' = [chain EXCEPT ![LineStop(e)] =
                         [first |-> @.first, total |-> @.total + seconds,
                          lossy |-> @.lossy \/ e.timestamp - prev.timestamp > Int32Max]]
     /\ \E set \in Set(headwayStates, k, e) : headwayStates' = set.store
     /\ UNCHANGED now

(* Otherwise e is stored in its place and the headway is sent. *)
ReceiveHeadway(e) ==
  LET k == HeadwayStopKey(e)
      prev == headwayStates[k].msg
  IN /\ Measurable(e)
     /\ prev.vehicle # e.vehicle
     /\ \E seconds \in Seconds(e.timestamp - prev.timestamp) :
          /\ seconds > 0
          /\ headwayOut' = [event |-> e, leading |-> prev.vehicle,
                            since |-> prev.timestamp, seconds |-> seconds]
          /\ chain' = [chain EXCEPT ![LineStop(e)] =
                         [first |-> @.first, total |-> @.total + seconds,
                          lossy |-> @.lossy \/ e.timestamp - prev.timestamp > Int32Max]]
     /\ \E set \in Set(headwayStates, k, e) : headwayStates' = set.store
     /\ UNCHANGED now

(* The send on the unbuffered channel out completes. *)
HeadwaySend ==
  /\ headwayOut # Nil
  /\ headwayOut' = Nil
  /\ UNCHANGED <<now, headwayStates, chain>>

HeadwayForeignSet(k) ==
  /\ SharedStore
  /\ headwayStates' = Put(headwayStates, k, Foreign)
  /\ UNCHANGED <<now, headwayOut, chain>>

HeadwayTick ==
  /\ now < MaxTime
  /\ now' = now + 1
  /\ headwayStates' = Lapse(headwayStates)
  /\ UNCHANGED <<headwayOut, chain>>

(* The process crashes and starts again: a headway that was not yet sent is *)
(* lost, although the departure it was measured to is stored.               *)
HeadwayRestart ==
  /\ headwayStates' \in Reopened(headwayStates)
  /\ headwayOut' = Nil
  /\ chain' = IF headwayOut = Nil THEN chain
              ELSE [chain EXCEPT ![LineStop(headwayOut.event)] =
                      [first |-> @.first, total |-> @.total - headwayOut.seconds,
                       lossy |-> TRUE]]
  /\ UNCHANGED now

HeadwayNext ==
  \/ \E e \in StopEvents : HeadwayFirst(e) \/ ReceiveDropped(e) \/ ReceiveHeadway(e)
  \/ HeadwaySend
  \/ \E k \in HeadwayKeys : HeadwayForeignSet(k)
  \/ HeadwayTick
  \/ HeadwayRestart

HeadwaySpec == HeadwayInit /\ [][HeadwayNext]_headwayVars

-----------------------------------------------------------------------------
(* Headways at a stop neither overlap nor leave gaps: however departures    *)
(* are repeated, late or dropped, the headways since the chain began add up *)
(* to the time from its first departure to the one now stored, or to less   *)
(* if int32 clipped one or a crash lost one.  So no interval is counted     *)
(* twice.                                                                   *)
HeadwaysTelescope ==
  ReliableSet =>
    \A e \in StopEvents :
      LET k == HeadwayStopKey(e)
          c == chain[LineStop(e)]
          d == headwayStates[k].msg
      IN k \in DOMAIN headwayStates /\ d # Foreign =>
           /\ c.total <= d.timestamp - c.first
           /\ ~c.lossy => c.total = d.timestamp - c.first

(* A headway is positive, between two vehicles, and never longer than the   *)
(* time between the two departures.                                         *)
HeadwayNotOverstated ==
  headwayOut # Nil =>
    /\ 0 < headwayOut.seconds
    /\ headwayOut.seconds <= headwayOut.event.timestamp - headwayOut.since
    /\ headwayOut.leading # headwayOut.event.vehicle
=============================================================================
