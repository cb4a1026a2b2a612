----------------------- MODULE StopEventProcessorProofs -----------------------
(***************************************************************************)
(* Proofs about StopEventProcessor, for any vehicles, stops and inputs,    *)
(* any time to live and any faults of the store: type correctness, the     *)
(* alternation of a vehicle's arrivals and departures, and the agreement   *)
(* of the events with the stored positions.  And about Ingest, for any     *)
(* agencies and feeds: no nil event, no event that the agency's feed does  *)
(* not bear out, and the refinement of StopEventProcessor.                 *)
(***************************************************************************)
EXTENDS Ingest, ProcessorLemmas, SequenceTheorems, TLAPS

-----------------------------------------------------------------------------
(* A message stored under the id of a vehicle leaves a well-typed store in  *)
(* which the other entries are as they were.                                *)
LEMMA StoreVehicle ==
  ASSUME TypeOK, NEW v \in Vehicle, NEW m \in StoredMessage
  PROVE  LET new == Put(vehiclesState, v, m)
         IN /\ IsStore(new, Vehicle, StoredMessage)
            /\ DOMAIN new = DOMAIN vehiclesState \cup {v}
            /\ new[v].msg = m
            /\ \A u \in DOMAIN vehiclesState : u # v => new[u] = vehiclesState[u]
  BY StoreAssumption DEF TypeOK, IsStore, Entry, Put

-----------------------------------------------------------------------------
(* The state machine. *)

LEMMA MakeStopEventType ==
  ASSUME NEW p \in Position, p.vehicle # NoVehicle,
         NEW s \in Stop \cup {NoStop}, NEW t \in {"ARRIVAL", "DEPARTURE"}
  PROVE  /\ makeStopEvent(p, s, t) \in StopEvent \cup {Nil}
         /\ s = NoStop => makeStopEvent(p, s, t) = Nil
         /\ s # NoStop => /\ makeStopEvent(p, s, t) # Nil
                          /\ makeStopEvent(p, s, t) \in StopEvent
                          /\ makeStopEvent(p, s, t).vehicle = p.vehicle
                          /\ makeStopEvent(p, s, t).type = t
                          /\ makeStopEvent(p, s, t).stop = s
<1>1. CASE s = NoStop
  BY <1>1 DEF makeStopEvent
<1>2. CASE s # NoStop
  <2> DEFINE e == [type |-> t, agency |-> p.agency, vehicle |-> p.vehicle,
                   line |-> p.line, trip |-> p.trip, stop |-> s,
                   timestamp |-> p.timestamp]
  <2>1. makeStopEvent(p, s, t) = e
    BY <1>2 DEF makeStopEvent
  <2>2. e \in StopEvent
    BY <1>2 DEF Position, StopEvent
  <2> QED BY <1>2, <2>1, <2>2, PositionAssumption
<1> QED BY <1>1, <1>2

(* The five outcomes of the state machine. *)
LEMMA StopEventsCases ==
  ASSUME NEW prev \in Position, NEW cur \in Position
  PROVE  LET evs == StopEvents(prev, cur)
             arr(s) == makeStopEvent(cur, s, "ARRIVAL")
             dep(s) == makeStopEvent(cur, s, "DEPARTURE")
         IN \/ /\ evs = <<>>
               /\ \/ prev.status = cur.status /\ prev.stop = cur.stop
                  \/ cur.status \in {"UNKNOWN", "INCOMING_AT"}
                  \/ prev.status = "UNKNOWN"
                  \/ cur.status = "IN_TRANSIT_TO" /\ prev.status \in Moving
            \/ /\ evs = <<arr(cur.stop)>>
               /\ cur.status = "STOPPED_AT" /\ prev.status \in Moving
            \/ /\ evs = <<dep(prev.stop), arr(cur.stop)>>
               /\ cur.status = "STOPPED_AT" /\ prev.status = "STOPPED_AT"
            \/ /\ evs = <<dep(prev.stop)>>
               /\ cur.status = "IN_TRANSIT_TO" /\ prev.status = "STOPPED_AT"
            \/ /\ evs = <<arr(prev.stop), dep(prev.stop)>>
               /\ cur.status = "IN_TRANSIT_TO" /\ prev.status \in Moving
<1>1. prev.status \in Status /\ cur.status \in Status
  BY DEF Position
<1> QED BY <1>1 DEF StopEvents, Moving, Status

(* It sends at most two events, all of the vehicle of the position. *)
LEMMA StopEventsType ==
  ASSUME NEW prev \in Position, NEW cur \in Position, cur.vehicle # NoVehicle
  PROVE  /\ StopEvents(prev, cur) \in Seq(StopEvent \cup {Nil})
         /\ Len(StopEvents(prev, cur)) <= 2
<1>1. prev.stop \in Stop \cup {NoStop} /\ cur.stop \in Stop \cup {NoStop}
  BY DEF Position
<1>2. \A s \in Stop \cup {NoStop} :
        /\ makeStopEvent(cur, s, "ARRIVAL") \in StopEvent \cup {Nil}
        /\ makeStopEvent(cur, s, "DEPARTURE") \in StopEvent \cup {Nil}
  BY MakeStopEventType
<1> DEFINE T == StopEvent \cup {Nil}
<1>3. /\ <<>> \in Seq(T) /\ Len(<<>>) <= 2
      /\ \A a \in T : <<a>> \in Seq(T) /\ Len(<<a>>) <= 2
      /\ \A a \in T, b \in T : <<a, b>> \in Seq(T) /\ Len(<<a, b>>) <= 2
  <2> HIDE DEF T
  <2> QED OBVIOUS
<1> HIDE DEF T
<1>4. \/ StopEvents(prev, cur) = <<>>
      \/ \E a \in T : StopEvents(prev, cur) = <<a>>
      \/ \E a \in T, b \in T : StopEvents(prev, cur) = <<a, b>>
  BY <1>1, <1>2, StopEventsCases DEF T
<1>5. StopEvents(prev, cur) \in Seq(T) /\ Len(StopEvents(prev, cur)) <= 2
  BY <1>3, <1>4
<1> QED BY <1>5 DEF T

(* Whatever the positions, an event is Nil or of the vehicle of cur. *)
LEMMA StopEventsVehicle ==
  ASSUME NEW prev \in Position, NEW cur \in Position, cur.vehicle # NoVehicle,
         NEW i \in 1..Len(StopEvents(prev, cur))
  PROVE  \/ StopEvents(prev, cur)[i] = Nil
         \/ StopEvents(prev, cur)[i].vehicle = cur.vehicle
<1>1. prev.stop \in Stop \cup {NoStop} /\ cur.stop \in Stop \cup {NoStop}
  BY DEF Position
<1> DEFINE OfCur(e) == e = Nil \/ e.vehicle = cur.vehicle
<1>2. \A s \in Stop \cup {NoStop} : /\ OfCur(makeStopEvent(cur, s, "ARRIVAL"))
                                  /\ OfCur(makeStopEvent(cur, s, "DEPARTURE"))
  BY MakeStopEventType
<1> HIDE DEF OfCur
<1>3. \/ StopEvents(prev, cur) = <<>>
      \/ \E a : OfCur(a) /\ StopEvents(prev, cur) = <<a>>
      \/ \E a, b : OfCur(a) /\ OfCur(b) /\ StopEvents(prev, cur) = <<a, b>>
  BY <1>1, <1>2, StopEventsCases
<1>4. OfCur(StopEvents(prev, cur)[i])
  BY <1>3
<1> QED BY <1>4 DEF OfCur

(* The last event of evs, or e if there is none. *)
EndOf(e, evs) == IF Len(evs) = 2 /\ evs[2] # Nil THEN evs[2]
                 ELSE IF evs # <<>> /\ evs[1] # Nil THEN evs[1]
                 ELSE e

(* The events of evs may follow e one after the other. *)
Continues(e, evs) ==
  /\ evs # <<>> /\ evs[1] # Nil => MayFollow(e, evs[1])
  /\ Len(evs) = 2 /\ evs[2] # Nil =>
       MayFollow(IF evs[1] # Nil THEN evs[1] ELSE e, evs[2])

(* The heart of the proof: from an event that agrees with the previous      *)
(* position, the state machine continues the alternation and ends with an   *)
(* event that agrees with the current one, unless that is INCOMING_AT.      *)
LEMMA StopEventsFollow ==
  ASSUME NEW prev \in Position, NEW cur \in Position, cur.vehicle # NoVehicle,
         NEW e \in StopEvent \cup {Nil},
         Placed(prev) => Agrees(prev, e), ~Placed(prev) => e = Nil
  PROVE  LET evs == StopEvents(prev, cur)
         IN /\ Continues(e, evs)
            /\ Placed(prev) /\ Placed(cur) => \A i \in 1..Len(evs) : evs[i] # Nil
            /\ cur.status = "INCOMING_AT" => evs = <<>>
            /\ Placed(cur) /\ cur.status # "INCOMING_AT" => Agrees(cur, EndOf(e, evs))
<1> DEFINE evs == StopEvents(prev, cur)
           arr(s) == makeStopEvent(cur, s, "ARRIVAL")
           dep(s) == makeStopEvent(cur, s, "DEPARTURE")
           Good == /\ Continues(e, evs)
                   /\ Placed(prev) /\ Placed(cur) => \A i \in 1..Len(evs) : evs[i] # Nil
                   /\ cur.status = "INCOMING_AT" => evs = <<>>
                   /\ Placed(cur) /\ cur.status # "INCOMING_AT" => Agrees(cur, EndOf(e, evs))
<1>1. /\ prev.stop \in Stop \cup {NoStop} /\ prev.status \in Status
      /\ cur.stop \in Stop \cup {NoStop} /\ cur.status \in Status
      /\ NoStop \notin Stop
  BY EventAssumption DEF Position
<1>2. /\ \A s \in Stop :
           /\ arr(s) # Nil /\ arr(s).type = "ARRIVAL" /\ arr(s).stop = s
           /\ dep(s) # Nil /\ dep(s).type = "DEPARTURE" /\ dep(s).stop = s
      /\ arr(NoStop) = Nil /\ dep(NoStop) = Nil
  BY MakeStopEventType, EventAssumption
<1> HIDE DEF arr, dep
<1>3. CASE /\ evs = <<>>
           /\ \/ prev.status = cur.status /\ prev.stop = cur.stop
              \/ cur.status \in {"UNKNOWN", "INCOMING_AT"}
              \/ prev.status = "UNKNOWN"
              \/ cur.status = "IN_TRANSIT_TO" /\ prev.status \in Moving
  <2>1. evs = <<>> /\ Len(evs) = 0 /\ 1..Len(evs) = {}
    BY <1>3
  <2>2. EndOf(e, evs) = e /\ Continues(e, evs)
    BY <2>1 DEF EndOf, Continues
  <2>3. Placed(cur) /\ cur.status # "INCOMING_AT" => Agrees(cur, e)
    BY <1>1, <1>3 DEF Agrees, Moving, Status, Placed
  <2> QED BY <2>1, <2>2, <2>3
<1>4. CASE /\ evs = <<arr(cur.stop)>>
           /\ cur.status = "STOPPED_AT" /\ prev.status \in Moving
  <2>1. evs # <<>> /\ Len(evs) = 1 /\ evs[1] = arr(cur.stop) /\ 1..Len(evs) = {1}
    BY <1>4
  <2>2. CASE cur.stop = NoStop
    <3>1. evs[1] = Nil /\ ~Placed(cur)
      BY <1>2, <2>1, <2>2 DEF Placed
    <3> HIDE DEF evs
    <3>2. Good
      BY <1>4, <2>1, <3>1 DEF Continues
    <3> QED BY <3>2 DEF evs
  <2>3. CASE cur.stop # NoStop
    <3>1. /\ MayFollow(e, arr(cur.stop)) /\ Agrees(cur, arr(cur.stop))
          /\ arr(cur.stop) # Nil
      BY <1>1, <1>2, <1>4, <2>3 DEF Agrees, MayFollow, Moving, Placed
    <3> HIDE DEF evs
    <3>2. Good
      BY <1>4, <2>1, <3>1 DEF Continues, EndOf
    <3> QED BY <3>2 DEF evs
  <2> QED BY <2>2, <2>3
<1>5. CASE /\ evs = <<dep(prev.stop), arr(cur.stop)>>
           /\ cur.status = "STOPPED_AT" /\ prev.status = "STOPPED_AT"
  <2>1. /\ evs # <<>> /\ Len(evs) = 2 /\ 1..Len(evs) = {1, 2}
        /\ evs[1] = dep(prev.stop) /\ evs[2] = arr(cur.stop)
    BY <1>5
  <2>2. /\ prev.stop = NoStop => dep(prev.stop) = Nil /\ e = Nil
        /\ prev.stop # NoStop => dep(prev.stop) # Nil /\ MayFollow(e, dep(prev.stop))
        /\ cur.stop = NoStop => arr(cur.stop) = Nil
        /\ cur.stop # NoStop => arr(cur.stop) # Nil /\ Agrees(cur, arr(cur.stop))
        /\ prev.stop # NoStop /\ cur.stop # NoStop =>
             MayFollow(dep(prev.stop), arr(cur.stop))
    BY <1>1, <1>2, <1>5 DEF Agrees, MayFollow, Moving, Placed
  <2>3. MayFollow(Nil, arr(cur.stop))
    BY DEF MayFollow
  <2> HIDE DEF evs
  <2>4. Good
    BY <1>5, <2>1, <2>2, <2>3 DEF Continues, EndOf, Placed
  <2> QED BY <2>4 DEF evs
<1>6. CASE /\ evs = <<dep(prev.stop)>>
           /\ cur.status = "IN_TRANSIT_TO" /\ prev.status = "STOPPED_AT"
  <2>1. evs # <<>> /\ Len(evs) = 1 /\ evs[1] = dep(prev.stop) /\ 1..Len(evs) = {1}
    BY <1>6
  <2>2. /\ prev.stop = NoStop => dep(prev.stop) = Nil /\ e = Nil
        /\ prev.stop # NoStop => /\ dep(prev.stop) # Nil /\ MayFollow(e, dep(prev.stop))
                                 /\ Agrees(cur, dep(prev.stop))
        /\ Agrees(cur, Nil)
    BY <1>1, <1>2, <1>6 DEF Agrees, MayFollow, Moving, Placed
  <2> HIDE DEF evs
  <2>3. Good
    BY <1>6, <2>1, <2>2 DEF Continues, EndOf, Placed
  <2> QED BY <2>3 DEF evs
<1>7. CASE /\ evs = <<arr(prev.stop), dep(prev.stop)>>
           /\ cur.status = "IN_TRANSIT_TO" /\ prev.status \in Moving
  <2>1. /\ evs # <<>> /\ Len(evs) = 2 /\ 1..Len(evs) = {1, 2}
        /\ evs[1] = arr(prev.stop) /\ evs[2] = dep(prev.stop)
    BY <1>7
  <2>2. /\ prev.stop = NoStop => /\ arr(prev.stop) = Nil /\ dep(prev.stop) = Nil
                                 /\ e = Nil
        /\ prev.stop # NoStop => /\ arr(prev.stop) # Nil /\ MayFollow(e, arr(prev.stop))
                                 /\ dep(prev.stop) # Nil /\ Agrees(cur, dep(prev.stop))
                                 /\ MayFollow(arr(prev.stop), dep(prev.stop))
        /\ Agrees(cur, Nil)
    BY <1>1, <1>2, <1>7 DEF Agrees, MayFollow, Moving, Placed
  <2> HIDE DEF evs
  <2>3. Good
    BY <1>7, <2>1, <2>2 DEF Continues, EndOf, Placed
  <2> QED BY <2>3 DEF evs
<1> QED BY <1>3, <1>4, <1>5, <1>6, <1>7, StopEventsCases DEF arr, dep

(* What two positions tell is of the type of events, and the last that they *)
(* tell agrees with the current position, also if that is INCOMING_AT.      *)
LEMMA ToldFollows ==
  ASSUME NEW prev \in Position, NEW cur \in Position, cur.vehicle # NoVehicle,
         NEW e \in StopEvent \cup {Nil}, Placed(prev), Agrees(prev, e)
  PROVE  LET told == Told(prev, cur)
         IN /\ told # <<>> => told[Len(told)] \in StopEvent \cup {Nil}
            /\ Placed(cur) => /\ told = <<>> => Agrees(cur, e)
                              /\ told # <<>> => /\ told[Len(told)] # Nil
                                                /\ Agrees(cur, told[Len(told)])
<1>1. PICK q : q = IF cur.status = "INCOMING_AT"
                     THEN [cur EXCEPT !.status = "IN_TRANSIT_TO"] ELSE cur
  OBVIOUS
<1>2. /\ q \in Position /\ q.vehicle = cur.vehicle /\ q.stop = cur.stop
      /\ q.status # "INCOMING_AT"
      /\ cur.status # "INCOMING_AT" => q.status = cur.status
      /\ cur.status = "INCOMING_AT" => q.status = "IN_TRANSIT_TO"
  BY <1>1 DEF Position, Status
<1>3. Placed(cur) => Placed(q)
  BY <1>2 DEF Placed
<1>4. \A x : Agrees(q, x) => Agrees(cur, x)
  BY <1>2 DEF Agrees, Moving
<1> DEFINE told == StopEvents(prev, q)
           T == StopEvent \cup {Nil}
<1>5. Told(prev, cur) = told
  BY <1>1 DEF Told
<1>6. /\ Placed(q) => \A i \in 1..Len(told) : told[i] # Nil
      /\ Placed(q) => Agrees(q, EndOf(e, told))
  BY <1>2, StopEventsFollow
<1>7. told \in Seq(T) /\ Len(told) <= 2
  BY <1>2, StopEventsType
<1> HIDE DEF told, T
<1>8. told # <<>> => Len(told) \in 1..2 /\ Len(told) \in 1..Len(told)
  <2>1. told # <<>> => Len(told) \in Nat /\ Len(told) # 0
    BY <1>7, EmptySeq
  <2>2. \A n \in Nat : n # 0 /\ n <= 2 => n \in 1..2 /\ n \in 1..n
    OBVIOUS
  <2> QED BY <1>7, <2>1, <2>2, Zenon
<1>9. told # <<>> => told[Len(told)] \in T
  BY <1>7, <1>8
<1>10. ASSUME Placed(cur), told # <<>>
       PROVE  told[Len(told)] # Nil /\ EndOf(e, told) = told[Len(told)]
  <2>1. told[Len(told)] # Nil
    BY <1>3, <1>6, <1>8, <1>10
  <2>2. Len(told) = 1 \/ Len(told) = 2
    BY <1>8, <1>10
  <2> QED BY <1>10, <2>1, <2>2 DEF EndOf
<1>11. told = <<>> => EndOf(e, told) = e
  BY DEF EndOf
<1> QED BY <1>3, <1>4, <1>5, <1>6, <1>9, <1>10, <1>11 DEF T

-----------------------------------------------------------------------------
(* A step of Receive, by what the store answered: the vehicle is known, the *)
(* Set succeeded, the Set took effect.                                      *)
Loses(v, missed) ==
  lost' = IF missed = <<>> THEN lost ELSE [lost EXCEPT ![v] = missed[Len(missed)]]

TakesUp(p, known, ok, applied) ==
  LET v == p.vehicle
      prev == vehiclesState[v].msg
  IN /\ known => v \in DOMAIN vehiclesState /\ prev \in Position
     /\ ok => applied
     /\ applied => vehiclesState' = Put(vehiclesState, v, p)
     /\ ~applied => vehiclesState' = vehiclesState
     /\ ok /\ known => out' = StopEvents(prev, p)
     /\ ~(ok /\ known) => out' = <<>>
     /\ ~applied => last' = last /\ lost' = lost
     /\ applied /\ ~Met(v) => /\ last' = [last EXCEPT ![v] = Nil]
                              /\ lost' = [lost EXCEPT ![v] = Nil]
     /\ applied /\ Met(v) => last' = last /\ Loses(v, Missed(prev, p, known /\ ok))

LEMMA ReceiveFacts ==
  ASSUME TypeOK, NEW p \in Position, Receive(p)
  PROVE  /\ p \in Position /\ p.vehicle \in Vehicle /\ p.vehicle # NoVehicle
         /\ out = <<>> /\ now' = now
         /\ \E known, ok, applied \in BOOLEAN :
              TakesUp(p, known, ok, applied)
<1> DEFINE v == p.vehicle
           prev == vehiclesState[v].msg
<1>1. p \in Position /\ v # NoVehicle /\ v \in Vehicle
  BY DEF Receive, Position
<1>2. PICK found \in Get(vehiclesState, v), set \in Set(vehiclesState, v, p) :
        /\ vehiclesState' = set.store
        /\ out' = IF set.ok /\ (found /\ prev # Foreign)
                    THEN StopEvents(prev, p) ELSE <<>>
        /\ Remember(p, found /\ prev # Foreign, set)
  BY DEF Receive
<1>3. /\ found \in BOOLEAN /\ (found => v \in DOMAIN vehiclesState)
  BY GetFacts
<1>4. found /\ prev # Foreign => prev \in Position
  BY <1>3 DEF TypeOK, IsStore, Entry, StoredMessage
<1>5. /\ set.ok \in BOOLEAN /\ set.applied \in BOOLEAN
      /\ set.applied => set.store = Put(vehiclesState, v, p)
      /\ ~set.applied => set.store = vehiclesState
      /\ set.ok => set.applied
  BY SetFacts
<1> DEFINE known == found /\ prev # Foreign
<1>6. known \in BOOLEAN
  BY <1>3
<1>7. /\ ~set.applied => last' = last /\ lost' = lost
      /\ set.applied /\ ~Met(v) => /\ last' = [last EXCEPT ![v] = Nil]
                                   /\ lost' = [lost EXCEPT ![v] = Nil]
      /\ set.applied /\ Met(v) =>
           last' = last /\ Loses(v, Missed(prev, p, known /\ set.ok))
  BY <1>2, Zenon DEF Remember, Loses
<1>8. /\ set.ok /\ known => out' = StopEvents(prev, p)
      /\ ~(set.ok /\ known) => out' = <<>>
  BY <1>2
<1>9. /\ known => v \in DOMAIN vehiclesState /\ prev \in Position
      /\ set.applied => vehiclesState' = Put(vehiclesState, v, p)
      /\ ~set.applied => vehiclesState' = vehiclesState
  BY <1>2, <1>3, <1>4, <1>5
<1>10. out = <<>> /\ now' = now
  BY DEF Receive
<1>11. TakesUp(p, known, set.ok, set.applied)
  BY <1>5, <1>7, <1>8, <1>9 DEF TakesUp
<1> HIDE DEF known
<1>12. \E kn, ok, applied \in BOOLEAN : TakesUp(p, kn, ok, applied)
  BY <1>5, <1>6, <1>11, Zenon
<1> QED BY <1>1, <1>10, <1>12

(* The steps, for any position: what is proved of them holds of whatever    *)
(* delivers the positions.                                                  *)
AnyNext == \/ \E p \in Position : Receive(p)
           \/ Send
           \/ \E v \in Vehicle : ForeignSet(v)
           \/ Tick
           \/ Restart

(* Positions that a feed may deliver are positions. *)
LEMMA NextIsAnyNext == [Next]_vars => [AnyNext]_vars
  BY PositionAssumption DEF Next, AnyNext

(* The initial state is well typed. *)
LEMMA InitType == Init => TypeOK
<1> SUFFICES ASSUME Init PROVE TypeOK
  OBVIOUS
<1>1. DOMAIN vehiclesState = {}
  BY DEF Init, EmptyStore
<1>2. out \in Seq(StopEvent \cup {Nil}) /\ Len(out) <= 2
  BY DEF Init
<1> QED BY <1>1, <1>2 DEF Init, TypeOK, IsStore

(* An event still to be sent is an event. *)
LEMMA PendingType ==
  ASSUME TypeOK, NEW v \in Vehicle
  PROVE  Pending(v) \in StopEvent \cup {Nil}
<1> DEFINE T == StopEvent \cup {Nil}
<1>1. out \in Seq(T) /\ Nil \in T
  BY DEF TypeOK
<1> HIDE DEF T
<1>2. /\ Len(out) = 2 => out[2] \in T
      /\ out # <<>> => out[1] \in T
  BY <1>1
<1>3. Pending(v) \in T
  BY <1>1, <1>2 DEF Pending
<1> QED BY <1>3 DEF T

(* Every step keeps the types. *)
LEMMA NextType == TypeOK /\ [AnyNext]_vars => TypeOK'
<1> SUFFICES ASSUME TypeOK, [AnyNext]_vars PROVE TypeOK'
  OBVIOUS
<1>1. ASSUME NEW p \in Position, Receive(p) PROVE TypeOK'
  <2> DEFINE v == p.vehicle
             prev == vehiclesState[v].msg
  <2>1. /\ p \in Position /\ v \in Vehicle /\ v # NoVehicle
        /\ out = <<>> /\ now' = now
    BY <1>1, ReceiveFacts
  <2>2. PICK known, ok, applied \in BOOLEAN :
          TakesUp(p, known, ok, applied)
    BY <1>1, ReceiveFacts
  <2>3. /\ IsStore(vehiclesState, Vehicle, StoredMessage)'
        /\ \A u \in DOMAIN vehiclesState' :
             vehiclesState'[u].msg # Foreign => vehiclesState'[u].msg.vehicle = u
    <3>1. CASE applied
      <4>1. IsStore(vehiclesState, Vehicle, StoredMessage) /\ now \in Nat
        BY DEF TypeOK
      <4>2. p \in StoredMessage
        BY <2>1 DEF StoredMessage
      <4> DEFINE st == Put(vehiclesState, v, p)
      <4>3. /\ IsStore(st, Vehicle, StoredMessage)
            /\ DOMAIN st = DOMAIN vehiclesState \cup {v}
            /\ st[v].msg = p
            /\ \A j \in DOMAIN vehiclesState : j # v => st[j] = vehiclesState[j]
        BY <2>1, <4>1, <4>2, StoreVehicle
      <4>4. vehiclesState' = st
        BY <2>2, <3>1 DEF TakesUp
      <4> HIDE DEF st
      <4> QED BY <4>3, <4>4 DEF TypeOK, IsStore
    <3>2. CASE ~applied
      BY <2>2, <3>2 DEF TypeOK, IsStore, TakesUp
    <3> QED BY <3>1, <3>2
  <2>4. out' \in Seq(StopEvent \cup {Nil}) /\ Len(out') <= 2
    <3>1. CASE ok /\ known
      BY <2>1, <2>2, <3>1, StopEventsType DEF TakesUp
    <3>2. CASE ~(ok /\ known)
      <4>1. out' = <<>>
        BY <2>2, <3>2 DEF TakesUp
      <4> QED BY <4>1
    <3> QED BY <3>1, <3>2
  <2>5. /\ last' \in [Vehicle -> StopEvent \cup {Nil}]
        /\ lost' \in [Vehicle -> StopEvent \cup {Nil}]
    <3>1. CASE applied /\ Met(v)
      <4> DEFINE missed == Missed(prev, p, known /\ ok)
      <4>1. last' = last /\ Loses(v, missed)
        BY <2>2, <3>1 DEF TakesUp
      <4>2. prev \in Position /\ Placed(prev)
        BY <3>1 DEF Met, TypeOK, IsStore, Entry, StoredMessage
      <4>3. missed # <<>> => missed[Len(missed)] \in StopEvent \cup {Nil}
        BY <2>1, <4>2, ToldFollows DEF Missed, Agrees
      <4> HIDE DEF missed
      <4> QED BY <4>1, <4>3 DEF TypeOK, Loses
    <3>2. CASE ~(applied /\ Met(v))
      BY <2>2, <3>2 DEF TypeOK, TakesUp
    <3> QED BY <3>1, <3>2
  <2> QED BY <2>1, <2>3, <2>4, <2>5 DEF TypeOK
<1>2. ASSUME Send PROVE TypeOK'
  <2>1. /\ Head(out) \in StopEvent \cup {Nil}
        /\ out' \in Seq(StopEvent \cup {Nil}) /\ Len(out') <= 2
    <3> DEFINE T == StopEvent \cup {Nil}
    <3>1. out \in Seq(T) /\ out # <<>> /\ out' = Tail(out) /\ Len(out) <= 2
      BY <1>2 DEF Send, TypeOK
    <3> HIDE DEF T
    <3>2. Head(out) \in T /\ out' \in Seq(T) /\ Len(out') <= 2
      BY <3>1
    <3> QED BY <3>2 DEF T
  <2>2. /\ last' \in [Vehicle -> StopEvent \cup {Nil}]
        /\ lost' \in [Vehicle -> StopEvent \cup {Nil}]
    BY <1>2, <2>1 DEF Send, TypeOK
  <2> QED BY <1>2, <2>1, <2>2 DEF Send, TypeOK, IsStore
<1>3. ASSUME NEW v \in Vehicle, ForeignSet(v) PROVE TypeOK'
  <2> DEFINE st == Put(vehiclesState, v, Foreign)
  <2>0. Foreign \in StoredMessage
    BY DEF StoredMessage
  <2>1. IsStore(vehiclesState, Vehicle, StoredMessage) /\ now \in Nat
    BY DEF TypeOK
  <2>2. /\ IsStore(st, Vehicle, StoredMessage)
        /\ DOMAIN st = DOMAIN vehiclesState \cup {v}
        /\ st[v].msg = Foreign
        /\ \A j \in DOMAIN vehiclesState : j # v => st[j] = vehiclesState[j]
    BY <2>0, <2>1, StoreVehicle
  <2>3. vehiclesState' = st /\ UNCHANGED <<now, out, last, lost>>
    BY <1>3 DEF ForeignSet
  <2> HIDE DEF st
  <2> QED BY <2>2, <2>3 DEF TypeOK, IsStore
<1>4. ASSUME Tick PROVE TypeOK'
  <2> DEFINE left == Lapse(vehiclesState)
  <2>1. /\ DOMAIN left \subseteq DOMAIN vehiclesState
        /\ \A u \in DOMAIN left : left[u] = vehiclesState[u]
    BY LapseFacts
  <2>2. vehiclesState' = left /\ now' = now + 1 /\ UNCHANGED <<out, last, lost>>
    BY <1>4 DEF Tick
  <2> HIDE DEF left
  <2> QED BY <2>1, <2>2 DEF TypeOK, IsStore
<1>5. ASSUME Restart PROVE TypeOK'
  <2>1. /\ DOMAIN vehiclesState' \subseteq DOMAIN vehiclesState
        /\ \A u \in DOMAIN vehiclesState' : vehiclesState'[u] = vehiclesState[u]
    BY <1>5, ReopenedFacts DEF Restart
  <2>2. out' = <<>> /\ UNCHANGED <<now, last>>
    BY <1>5 DEF Restart
  <2>3. out' \in Seq(StopEvent \cup {Nil}) /\ Len(out') <= 2
    BY <2>2
  <2>4. lost' \in [Vehicle -> StopEvent \cup {Nil}]
    <3>1. \A u \in Vehicle : Pending(u) \in StopEvent \cup {Nil}
      BY PendingType
    <3> QED BY <1>5, <3>1 DEF Restart, TypeOK
  <2> QED BY <2>1, <2>2, <2>3, <2>4 DEF TypeOK, IsStore
<1>6. ASSUME UNCHANGED vars PROVE TypeOK'
  BY <1>6 DEF vars, TypeOK, IsStore
<1> QED BY <1>1, <1>2, <1>3, <1>4, <1>5, <1>6 DEF AnyNext

(* Every step keeps every variable in its type; the store holds positions   *)
(* under the id of their own vehicle, and at most two events are pending.   *)
THEOREM TypeCorrect == Spec => []TypeOK
  BY InitType, NextType, NextIsAnyNext, PTL DEF Spec

-----------------------------------------------------------------------------
(* The inductive invariant: between a vehicle's last event and its stored   *)
(* position stand the events that are still to be sent.                     *)
IInv == TypeOK /\ PendingInv /\ EventsMatchState

(* Taking up a position keeps the events and the stored positions in step.  *)
LEMMA ReceivePreserves ==
  ASSUME IInv, TypeOK', NEW p \in Position, Receive(p)
  PROVE  PendingInv' /\ EventsMatchState'
<1> DEFINE v == p.vehicle
           prev == vehiclesState[v].msg
<1>1. /\ p \in Position /\ v \in Vehicle /\ v # NoVehicle
      /\ out = <<>> /\ now' = now
  BY ReceiveFacts DEF IInv
<1>2. PICK known, ok, applied \in BOOLEAN : TakesUp(p, known, ok, applied)
  BY ReceiveFacts DEF IInv
<1>3. \A u \in Vehicle : LastEvent(u) = Trail(u)
  <2>1. Len(out) # 2
    BY <1>1
  <2> QED BY <1>1, <2>1 DEF LastEvent, Pending
<1>4. /\ \A u \in DOMAIN vehiclesState' \ {v} :
           u \in DOMAIN vehiclesState /\ vehiclesState'[u] = vehiclesState[u]
      /\ applied => vehiclesState'[v].msg = p
      /\ ~applied => vehiclesState' = vehiclesState
  <2>1. p \in StoredMessage
    BY <1>1 DEF StoredMessage
  <2>2. CASE applied
    <3> DEFINE new == Put(vehiclesState, v, p)
    <3>1. /\ DOMAIN new = DOMAIN vehiclesState \cup {v}
          /\ new[v].msg = p
          /\ \A u \in DOMAIN vehiclesState : u # v => new[u] = vehiclesState[u]
      BY <1>1, <2>1, StoreVehicle DEF IInv
    <3>2. vehiclesState' = new
      BY <1>2, <2>2 DEF TakesUp
    <3> HIDE DEF new
    <3> QED BY <2>2, <3>1, <3>2
  <2>3. CASE ~applied
    BY <1>2, <2>3 DEF TakesUp
  <2> QED BY <2>2, <2>3
<1>5. \A u \in Vehicle \ {v} : Trail(u)' = Trail(u)
  <2>1. CASE applied /\ Met(v)
    BY <1>1, <1>2, <2>1 DEF TakesUp, Loses, IInv, TypeOK, Trail
  <2>2. CASE ~(applied /\ Met(v))
    BY <1>1, <1>2, <2>2 DEF TakesUp, IInv, TypeOK, Trail
  <2> QED BY <2>1, <2>2
<1>6. \A i \in 1..Len(out') : out'[i] = Nil \/ out'[i].vehicle = v
  <2>1. CASE ok /\ known
    BY <1>1, <1>2, <2>1, StopEventsVehicle DEF TakesUp
  <2>2. CASE ~(ok /\ known)
    <3>1. out' = <<>>
      BY <1>2, <2>2 DEF TakesUp
    <3> QED BY <3>1
  <2> QED BY <2>1, <2>2
<1>7. /\ out' # <<>> => 1 \in 1..Len(out')
      /\ Len(out') = 2 => 2 \in 1..Len(out')
  <2> DEFINE T == StopEvent \cup {Nil}
  <2>1. out' \in Seq(T)
    BY DEF TypeOK
  <2> HIDE DEF T
  <2>2. out' # <<>> => Len(out') \in Nat /\ Len(out') # 0
    BY <2>1, EmptySeq
  <2>3. \A n \in Nat : n # 0 => 1 \in 1..n
    OBVIOUS
  <2>4. out' # <<>> => 1 \in 1..Len(out')
    BY <2>2, <2>3, Zenon
  <2>5. Len(out') = 2 => 2 \in 1..Len(out')
    OBVIOUS
  <2> QED BY <2>4, <2>5
<1>8. \A u \in Vehicle \ {v} : LastEvent(u)' = Trail(u)
  <2>1. \A u \in Vehicle \ {v} : Pending(u)' = Nil
    BY <1>6, <1>7 DEF Pending
  <2> QED BY <1>5, <2>1 DEF LastEvent
<1>9. LastEvent(v)' = EndOf(Trail(v)', out')
  <2>1. /\ out' # <<>> => out'[1] = Nil \/ out'[1].vehicle = v
        /\ Len(out') = 2 => out'[2] = Nil \/ out'[2].vehicle = v
    BY <1>6, <1>7
  <2> QED BY <2>1 DEF LastEvent, EndOf, Pending
<1>10. out' = <<>> => EndOf(Trail(v)', out') = Trail(v)' /\ Continues(Trail(v)', out')
  <2>1. out' = <<>> => Len(out') # 2
    OBVIOUS
  <2> QED BY <2>1 DEF EndOf, Continues
<1>11. Met(v) => /\ prev \in Position /\ Placed(prev) /\ Agrees(prev, Trail(v))
                 /\ Trail(v) \in StopEvent \cup {Nil}
  <2>1. Met(v) => prev \in Position /\ Placed(prev) /\ prev # Foreign
    BY DEF Met, IInv, TypeOK, IsStore, Entry, StoredMessage
  <2>2. Trail(v) \in StopEvent \cup {Nil}
    BY <1>1 DEF Trail, IInv, TypeOK
  <2> QED BY <1>1, <1>3, <2>1, <2>2 DEF Met, IInv, EventsMatchState
(* The vehicle's own entry and events, by what the store answered. *)
<1>12. /\ Continues(Trail(v)', out')
       /\ applied /\ Placed(p) => Agrees(p, LastEvent(v)')
       /\ ~applied => LastEvent(v)' = Trail(v)
  <2>1. CASE ~applied
    <3>1. out' = <<>> /\ Trail(v)' = Trail(v)
      BY <1>2, <2>1 DEF TakesUp, Trail
    <3> QED BY <1>9, <1>10, <2>1, <3>1
  <2>2. CASE applied /\ ~Met(v)
    <3>1. Trail(v)' = Nil
      BY <1>1, <1>2, <2>2 DEF TakesUp, Trail, IInv, TypeOK
    <3>2. CASE ~(ok /\ known)
      <4>1. out' = <<>>
        BY <1>2, <3>2 DEF TakesUp
      <4> QED BY <1>9, <1>10, <2>2, <3>1, <4>1 DEF Agrees
    <3>3. CASE ok /\ known
      <4>1. out' = StopEvents(prev, p) /\ v \in DOMAIN vehiclesState /\ prev \in Position
        BY <1>2, <3>3 DEF TakesUp
      <4>2. ~Placed(prev)
        BY <2>2, <4>1, PositionAssumption DEF Met
      <4>3. /\ Continues(Nil, out')
            /\ p.status = "INCOMING_AT" => out' = <<>>
            /\ Placed(p) /\ p.status # "INCOMING_AT" => Agrees(p, EndOf(Nil, out'))
        BY <1>1, <4>1, <4>2, StopEventsFollow
      <4>4. Placed(p) /\ p.status = "INCOMING_AT" => Agrees(p, EndOf(Nil, out'))
        BY <1>10, <3>1, <4>3 DEF Agrees
      <4> QED BY <1>9, <2>2, <3>1, <4>3, <4>4
    <3> QED BY <3>2, <3>3
  <2>3. CASE applied /\ Met(v) /\ ok /\ known /\ p.status # "INCOMING_AT"
    <3>1. out' = StopEvents(prev, p) /\ last' = last
      BY <1>2, <2>3 DEF TakesUp
    <3>2. lost' = lost
      BY <1>2, <2>3 DEF TakesUp, Missed, Loses
    <3>3. Trail(v)' = Trail(v)
      BY <3>1, <3>2 DEF Trail
    <3>4. /\ Continues(Trail(v), out')
          /\ Placed(p) => Agrees(p, EndOf(Trail(v), out'))
      BY <1>1, <1>11, <2>3, <3>1, StopEventsFollow
    <3> QED BY <1>9, <2>3, <3>3, <3>4
  <2>4. CASE applied /\ Met(v) /\ ~(ok /\ known /\ p.status # "INCOMING_AT")
    <3>1. out' = <<>>
      <4>1. CASE ~(ok /\ known)
        BY <1>2, <4>1 DEF TakesUp
      <4>2. CASE ok /\ known /\ p.status = "INCOMING_AT"
        <5>1. out' = StopEvents(prev, p)
          BY <1>2, <4>2 DEF TakesUp
        <5> QED BY <1>1, <1>11, <2>4, <4>2, <5>1, StopEventsFollow
      <4> QED BY <2>4, <4>1, <4>2
    <3> DEFINE told == Told(prev, p)
    <3>2. last' = last /\ Loses(v, told)
      BY <1>2, <2>4 DEF TakesUp, Missed
    <3>3. Placed(p) => /\ told = <<>> => Agrees(p, Trail(v))
                       /\ told # <<>> => /\ told[Len(told)] # Nil
                                         /\ Agrees(p, told[Len(told)])
      BY <1>1, <1>11, <2>4, ToldFollows
    <3> HIDE DEF told
    <3>4. /\ told = <<>> => Trail(v)' = Trail(v)
          /\ told # <<>> /\ told[Len(told)] # Nil => Trail(v)' = told[Len(told)]
      BY <1>1, <3>2 DEF Loses, Trail, IInv, TypeOK
    <3> QED BY <1>9, <1>10, <2>4, <3>1, <3>3, <3>4
  <2> QED BY <2>1, <2>2, <2>3, <2>4
<1>13. PendingInv'
  <2> SUFFICES ASSUME NEW u \in Vehicle,
                      NEW j \in 1..Len(out'), out'[j] # Nil, out'[j].vehicle = u
               PROVE  /\ \A i \in 1..Len(out') : out'[i] = Nil \/ out'[i].vehicle = u
                      /\ out'[1] # Nil => MayFollow(Trail(u)', out'[1])
                      /\ Len(out') = 2 /\ out'[2] # Nil =>
                           MayFollow(IF out'[1] # Nil THEN out'[1] ELSE Trail(u)', out'[2])
    BY DEF PendingInv
  <2>1. u = v /\ out' # <<>>
    BY <1>6
  <2> QED BY <1>6, <1>12, <2>1 DEF Continues
<1>14. EventsMatchState'
  <2> SUFFICES ASSUME NEW u \in DOMAIN vehiclesState',
                      vehiclesState'[u].msg # Foreign, Placed(vehiclesState'[u].msg)
               PROVE  Agrees(vehiclesState'[u].msg, LastEvent(u)')
    BY DEF EventsMatchState
  <2>1. u \in Vehicle
    BY DEF TypeOK, IsStore
  <2>2. CASE u # v
    BY <1>3, <1>4, <1>8, <2>1, <2>2 DEF IInv, EventsMatchState
  <2>3. CASE u = v /\ applied
    BY <1>4, <1>12, <2>3
  <2>4. CASE u = v /\ ~applied
    BY <1>3, <1>4, <1>12, <2>1, <2>4 DEF IInv, EventsMatchState
  <2> QED BY <2>2, <2>3, <2>4
<1> QED BY <1>13, <1>14

(* A send moves the first pending event into the vehicle's history. *)
LEMMA SendPreserves ==
  ASSUME IInv, TypeOK', Send
  PROVE  PendingInv' /\ EventsMatchState'
<1> DEFINE e == Head(out)
           T == StopEvent \cup {Nil}
<1>1. /\ out \in Seq(T) /\ out # <<>> /\ Len(out) <= 2 /\ out' = Tail(out)
      /\ last \in [Vehicle -> T] /\ lost \in [Vehicle -> T]
  BY DEF Send, IInv, TypeOK
<1>2. /\ e = Nil => last' = last /\ lost' = lost
      /\ e # Nil => /\ last' = [last EXCEPT ![e.vehicle] = e]
                    /\ lost' = [lost EXCEPT ![e.vehicle] = Nil]
      /\ vehiclesState' = vehiclesState
  BY DEF Send
<1> HIDE DEF T
<1>3. /\ Len(out) \in {1, 2} /\ e = out[1]
      /\ Len(out) = 1 => out' = <<>> /\ Len(out') = 0
      /\ Len(out) = 2 => out' # <<>> /\ Len(out') = 1 /\ out'[1] = out[2]
  <2>1. Len(out) \in {1, 2} /\ e = out[1]
    <3>1. Len(out) \in Nat /\ Len(out) # 0
      BY <1>1, EmptySeq
    <3>2. e = out[1]
      BY <1>1, HeadTailProperties
    <3>3. Len(out) \in {1, 2}
      <4>1. Len(out) <= 2
        BY <1>1
      <4>2. \A n \in Nat : n # 0 /\ n <= 2 => n \in {1, 2}
        OBVIOUS
      <4> HIDE DEF e
      <4> QED BY <3>1, <4>1, <4>2, Zenon
    <3> QED BY <3>2, <3>3
  <2>2. /\ out' \in Seq(T) /\ Len(out') = Len(out) - 1
        /\ \A i \in 1..Len(out') : out'[i] = out[i + 1]
    BY <1>1, HeadTailProperties
  <2>3. Len(out) = 1 => out' = <<>> /\ Len(out') = 0
    BY <2>2
  <2>4. Len(out) = 2 => out' # <<>> /\ Len(out') = 1 /\ out'[1] = out[2]
    <3> SUFFICES ASSUME Len(out) = 2
                 PROVE  out' # <<>> /\ Len(out') = 1 /\ out'[1] = out[2]
      OBVIOUS
    <3>1. Len(out') = 1
      BY <2>2
    <3>2. out'[1] = out[1 + 1]
      BY <2>2, <3>1
    <3> QED BY <3>1, <3>2
  <2> QED BY <2>1, <2>3, <2>4
<1>4. e # Nil => e.vehicle \in Vehicle
  <2>1. e \in T
    BY <1>1, <1>3
  <2> QED BY <2>1 DEF T, StopEvent
<1> HIDE DEF e
<1>5. \A u \in Vehicle : /\ e # Nil /\ e.vehicle = u => Trail(u)' = e
                         /\ ~(e # Nil /\ e.vehicle = u) => Trail(u)' = Trail(u)
  BY <1>1, <1>2, <1>4 DEF Trail
<1>6. \A u \in Vehicle : LastEvent(u)' = LastEvent(u)
  <2> SUFFICES ASSUME NEW u \in Vehicle PROVE LastEvent(u)' = LastEvent(u)
    OBVIOUS
  <2> DEFINE isOf(x) == x # Nil /\ x.vehicle = u
  <2>1. /\ Len(out) = 2 /\ isOf(out[2]) => Pending(u) = out[2] /\ Pending(u)' = out[2]
        /\ ~(Len(out) = 2 /\ isOf(out[2])) => Pending(u)' = Nil
        /\ ~(Len(out) = 2 /\ isOf(out[2])) /\ isOf(e) => Pending(u) = e
        /\ ~(Len(out) = 2 /\ isOf(out[2])) /\ ~isOf(e) => Pending(u) = Nil
    <3>1. Len(out') # 2 /\ out # <<>> /\ e = out[1]
      <4>1. Len(out) = 1 => Len(out') # 2
        BY <1>3
      <4>2. Len(out) = 2 => Len(out') # 2
        BY <1>3
      <4> QED BY <1>1, <1>3, <4>1, <4>2, Zenon
    <3>2. CASE Len(out) = 1
      BY <1>3, <3>1, <3>2 DEF Pending
    <3>3. CASE Len(out) = 2
      BY <1>3, <3>1, <3>3 DEF Pending
    <3> QED BY <1>3, <3>2, <3>3
  <2> QED BY <1>5, <2>1 DEF LastEvent
<1>8. PendingInv'
  <2> SUFFICES ASSUME NEW u \in Vehicle,
                      NEW j \in 1..Len(out'), out'[j] # Nil, out'[j].vehicle = u
               PROVE  /\ \A i \in 1..Len(out') : out'[i] = Nil \/ out'[i].vehicle = u
                      /\ out'[1] # Nil => MayFollow(Trail(u)', out'[1])
                      /\ Len(out') = 2 /\ out'[2] # Nil =>
                           MayFollow(IF out'[1] # Nil THEN out'[1] ELSE Trail(u)', out'[2])
    BY DEF PendingInv
  <2>1. Len(out) = 2 /\ Len(out') = 1 /\ j = 1 /\ out'[1] = out[2]
    BY <1>3
  <2>2. /\ e = Nil \/ e.vehicle = u
        /\ MayFollow(IF e # Nil THEN e ELSE Trail(u), out[2])
    BY <1>3, <2>1 DEF IInv, PendingInv
  <2>3. MayFollow(Trail(u)', out'[1])
    BY <1>5, <2>1, <2>2
  <2>4. \A i \in 1..Len(out') : i = 1
    BY <2>1
  <2> QED BY <2>1, <2>3, <2>4
<1>7. EventsMatchState'
  <2>1. DOMAIN vehiclesState \subseteq Vehicle
    BY DEF IInv, TypeOK, IsStore
  <2> QED BY <1>2, <1>6, <2>1 DEF IInv, EventsMatchState
<1> QED BY <1>7, <1>8

(* A crash loses the pending events: the store is ahead by them. *)
LEMMA RestartPreserves ==
  ASSUME IInv, Restart
  PROVE  PendingInv' /\ EventsMatchState'
<1>1. /\ DOMAIN vehiclesState' \subseteq DOMAIN vehiclesState
      /\ \A u \in DOMAIN vehiclesState' : vehiclesState'[u] = vehiclesState[u]
  BY ReopenedFacts DEF Restart
<1>2. out' = <<>> /\ last' = last
  BY DEF Restart
<1>3. PendingInv'
  <2>1. 1..Len(out') = {}
    BY <1>2
  <2> QED BY <2>1 DEF PendingInv
<1>4. ASSUME NEW v \in DOMAIN vehiclesState' PROVE LastEvent(v)' = LastEvent(v)
  <2>1. v \in Vehicle
    BY <1>1 DEF IInv, TypeOK, IsStore
  <2>2. lost'[v] = IF Pending(v) # Nil THEN Pending(v) ELSE lost[v]
    BY <2>1 DEF Restart
  <2>3. Pending(v)' = Nil
    <3>1. Len(out') # 2
      BY <1>2
    <3> QED BY <1>2, <3>1 DEF Pending
  <2> QED BY <1>2, <2>2, <2>3 DEF LastEvent, Trail
<1>5. EventsMatchState'
  BY <1>1, <1>4 DEF IInv, EventsMatchState
<1> QED BY <1>3, <1>5

(* The inductive invariant holds at the start. *)
LEMMA InitIInv == Init => IInv
<1> SUFFICES ASSUME Init PROVE PendingInv /\ EventsMatchState
  BY InitType DEF IInv
<1> QED BY DEF Init, PendingInv, EventsMatchState, EmptyStore

(* Every step keeps the inductive invariant. *)
LEMMA NextIInv == IInv /\ [AnyNext]_vars => IInv'
<1> SUFFICES ASSUME IInv, [AnyNext]_vars PROVE PendingInv' /\ EventsMatchState'
  BY NextType DEF IInv
<1>0. TypeOK'
  BY NextType DEF IInv
<1>1. ASSUME NEW p \in Position, Receive(p) PROVE PendingInv' /\ EventsMatchState'
  BY <1>0, <1>1, ReceivePreserves
<1>2. ASSUME Send PROVE PendingInv' /\ EventsMatchState'
  BY <1>0, <1>2, SendPreserves
<1>3. ASSUME NEW v \in Vehicle, ForeignSet(v)
      PROVE  PendingInv' /\ EventsMatchState'
  <2> DEFINE new == Put(vehiclesState, v, Foreign)
  <2>1. /\ DOMAIN new = DOMAIN vehiclesState \cup {v}
        /\ new[v].msg = Foreign
        /\ \A u \in DOMAIN vehiclesState : u # v => new[u] = vehiclesState[u]
    BY StoreVehicle DEF IInv, StoredMessage
  <2>2. vehiclesState' = new /\ UNCHANGED <<out, last, lost>>
    BY <1>3 DEF ForeignSet
  <2> HIDE DEF new
  <2> QED BY <2>1, <2>2 DEF IInv, PendingInv, EventsMatchState, LastEvent, Pending, Trail
<1>4. ASSUME Tick PROVE PendingInv' /\ EventsMatchState'
  <2> DEFINE left == Lapse(vehiclesState)
  <2>1. /\ DOMAIN left \subseteq DOMAIN vehiclesState
        /\ \A u \in DOMAIN left : left[u] = vehiclesState[u]
    BY LapseFacts DEF IInv, TypeOK
  <2>2. vehiclesState' = left /\ UNCHANGED <<out, last, lost>>
    BY <1>4 DEF Tick
  <2> HIDE DEF left
  <2> QED BY <2>1, <2>2 DEF IInv, PendingInv, EventsMatchState, LastEvent, Pending, Trail
<1>5. ASSUME Restart PROVE PendingInv' /\ EventsMatchState'
  BY <1>5, RestartPreserves
<1>6. ASSUME UNCHANGED vars PROVE PendingInv' /\ EventsMatchState'
  BY <1>6 DEF vars, IInv, PendingInv, EventsMatchState, LastEvent, Pending, Trail
<1> QED BY <1>1, <1>2, <1>3, <1>4, <1>5, <1>6 DEF AnyNext

(* It is stronger than the alternation of the events. *)
LEMMA IInvGives == IInv => Alternation /\ EventsMatchState
<1> SUFFICES ASSUME IInv, out # <<>>, Head(out) # Nil
             PROVE  MayFollow(Trail(Head(out).vehicle), Head(out))
  BY DEF IInv, Alternation
<1> DEFINE T == StopEvent \cup {Nil}
<1>1. out \in Seq(T)
  BY DEF IInv, TypeOK
<1> HIDE DEF T
<1>2. 1 \in 1..Len(out) /\ out[1] = Head(out) /\ Head(out) \in T
  BY <1>1
<1>3. Head(out).vehicle \in Vehicle
  BY <1>2 DEF T, StopEvent
<1> QED BY <1>2, <1>3 DEF IInv, PendingInv

(* The arrivals and departures of a vehicle, sent and lost, alternate, each *)
(* departure from the stop of the arrival before it, for any inputs, any    *)
(* faults of the store, any lapse of its entries and any crashes.           *)
THEOREM EventsAlternate == Spec => []Alternation
<1>1. IInv => Alternation
  BY IInvGives
<1> QED BY <1>1, InitIInv, NextIInv, NextIsAnyNext, PTL DEF Spec

(* The last event of a vehicle, sent, lost or still to be sent, is the one  *)
(* that its stored position tells: after any faults and crashes the store   *)
(* is ahead of the consumers by what was lost and nothing else.             *)
THEOREM EventsMatchStoredPositions == Spec => []EventsMatchState
<1>1. IInv => EventsMatchState
  BY IInvGives
<1> QED BY <1>1, InitIInv, NextIInv, NextIsAnyNext, PTL DEF Spec

-----------------------------------------------------------------------------
(* Behind the feeds.  What the vehicle position processor hands over for an *)
(* entity of an agency's feed, unless it skips it or process() drops it.    *)
Delivers(e) == ~Skipped(e) /\ VehicleId(e) # NoVehicle

(* A position delivered is of a vehicle with an id at a stop with an id,    *)
(* and says what the feed reported.                                         *)
LEMMA DeliveredPosition ==
  ASSUME NEW a \in Agency, NEW e \in Entities[a], Delivers(e)
  PROVE  LET p == VehiclePositionEvent(a, e)
         IN /\ p \in Position /\ p \in NamedPositions
            /\ p.vehicle \in Vehicle /\ p.stop \in Stop
            /\ Report(a, e) = <<p.agency, p.vehicle, p.stop>>
            /\ p.agency = a /\ p.vehicle = Named(e) /\ e # Nil
<1> DEFINE p == VehiclePositionEvent(a, e)
<1>1. e \in VehicleEntity /\ e # Nil /\ e.stop # NoStop /\ VehicleId(e) # NoVehicle
  BY IngestAssumption DEF Delivers, Skipped
<1>2. StopStatus(e) \in Status
  BY <1>1 DEF VehicleEntity, StopStatus, Status
<1>3. /\ e.id \in Vehicle \cup {NoVehicle} /\ e.line \in Line /\ e.trip \in Trip
      /\ e.stop \in Stop /\ e.timestamp \in Nat
  BY <1>1 DEF VehicleEntity
<1>4. VehicleId(e) \in Vehicle /\ VehicleId(e) = Named(e)
  BY <1>1, <1>3, IngestAssumption DEF VehicleId, Named
<1>5. p = [agency |-> a, vehicle |-> VehicleId(e), line |-> e.line, trip |-> e.trip,
           stop |-> e.stop, status |-> StopStatus(e), timestamp |-> e.timestamp]
  BY DEF VehiclePositionEvent
<1> HIDE DEF p
<1>7. p \in Position
  BY <1>2, <1>3, <1>4, <1>5 DEF Position
<1>8. p \in NamedPositions
  BY <1>1, <1>5, <1>7 DEF NamedPositions
<1>9. Report(a, e) = <<p.agency, p.vehicle, p.stop>>
  BY <1>4, <1>5 DEF Report
<1> QED BY <1>1, <1>3, <1>4, <1>5, <1>7, <1>8, <1>9 DEF p

(* What an event says is said by the position, or of the stop before it. *)
LEMMA StopEventsGround ==
  ASSUME NEW prev \in Position, NEW cur \in Position, cur.vehicle # NoVehicle,
         prev.stop # NoStop, cur.stop # NoStop,
         NEW i \in 1..Len(StopEvents(prev, cur))
  PROVE  LET f == StopEvents(prev, cur)[i]
         IN /\ f # Nil
            /\ f.agency = cur.agency /\ f.vehicle = cur.vehicle
            /\ f.stop \in {prev.stop, cur.stop}
<1> DEFINE Of(f) == /\ f # Nil /\ f.agency = cur.agency /\ f.vehicle = cur.vehicle
                    /\ f.stop \in {prev.stop, cur.stop}
<1>1. ASSUME NEW s \in {prev.stop, cur.stop}, NEW t \in {"ARRIVAL", "DEPARTURE"}
      PROVE  Of(makeStopEvent(cur, s, t))
  <2>1. s \in Stop \cup {NoStop} /\ s # NoStop
    BY <1>1 DEF Position
  <2>2. makeStopEvent(cur, s, t) # Nil
    BY <2>1, MakeStopEventType
  <2>3. makeStopEvent(cur, s, t) =
          [type |-> t, agency |-> cur.agency, vehicle |-> cur.vehicle,
           line |-> cur.line, trip |-> cur.trip, stop |-> s,
           timestamp |-> cur.timestamp]
    BY <2>1 DEF makeStopEvent
  <2> QED BY <2>2, <2>3
<1> HIDE DEF Of
<1>2. \/ StopEvents(prev, cur) = <<>>
      \/ \E f : Of(f) /\ StopEvents(prev, cur) = <<f>>
      \/ \E f, g : Of(f) /\ Of(g) /\ StopEvents(prev, cur) = <<f, g>>
  BY <1>1, StopEventsCases
<1>3. Of(StopEvents(prev, cur)[i])
  BY <1>2
<1> QED BY <1>3 DEF Of

(* The inductive invariant: also what is stored is at a named stop and was  *)
(* reported, and what was reported is of an entity of its agency.           *)
IngestInv ==
  /\ IInv
  /\ reading \in Agency \cup {Nil}
  /\ \A v \in DOMAIN vehiclesState :
       LET p == vehiclesState[v].msg
       IN p # Foreign => p.stop # NoStop /\ <<p.agency, p.vehicle, p.stop>> \in reported
  /\ \A r \in reported : \E a \in Agency : \E e \in Entities[a] \ {Nil} : r = Report(a, e)
  /\ NoNilEvents
  /\ EventsAreGrounded

(* A step behind the feeds is a step of the stop event processor. *)
LEMMA IngestSteps ==
  ASSUME reading \in Agency \cup {Nil}, [IngestNext]_ingestVars
  PROVE  /\ reading' \in Agency \cup {Nil}
         /\ \/ \E a \in Agency : \E e \in Entities[a] :
                 /\ Delivers(e) /\ Receive(VehiclePositionEvent(a, e))
                 /\ reported' = reported \cup {Report(a, e)}
            \/ /\ UNCHANGED vars
               /\ \/ reported' = reported
                  \/ \E a \in Agency : \E e \in Entities[a] \ {Nil} :
                       reported' = reported \cup {Report(a, e)}
            \/ reported' = reported /\ Send
            \/ reported' = reported /\ Tick
            \/ reported' = reported /\ Restart
            \/ reported' = reported /\ \E v \in Vehicle : ForeignSet(v)
<1>1. CASE UNCHANGED ingestVars
  BY <1>1 DEF ingestVars
<1>2. ASSUME NEW a \in Agency, FeedMessage(a)
      PROVE  reading' \in Agency /\ UNCHANGED <<vars, reported>>
  BY <1>2 DEF FeedMessage
<1>3. CASE CloseMessage
  BY <1>3 DEF CloseMessage
<1>4. CASE IngestRestart
  BY <1>4 DEF IngestRestart
<1>5. CASE /\ Send \/ Tick \/ \E v \in Vehicle : ForeignSet(v)
           /\ UNCHANGED <<reading, reported>>
  BY <1>5
<1>6. ASSUME NEW e, ReadEntity(e)
      PROVE  /\ reading' \in Agency \cup {Nil}
             /\ \/ \E a \in Agency : \E x \in Entities[a] :
                     /\ Delivers(x) /\ Receive(VehiclePositionEvent(a, x))
                     /\ reported' = reported \cup {Report(a, x)}
                \/ /\ UNCHANGED vars
                   /\ \/ reported' = reported
                      \/ \E a \in Agency : \E x \in Entities[a] \ {Nil} :
                           reported' = reported \cup {Report(a, x)}
  <2>1. reading' = reading /\ reading \in Agency /\ e \in Entities[reading]
    BY <1>6 DEF ReadEntity
  <2>2. CASE Skipped(e)
    BY <1>6, <2>1, <2>2 DEF ReadEntity
  <2>3. CASE ~Skipped(e) /\ VehicleId(e) = NoVehicle
    <3>1. VehiclePositionEvent(reading, e).vehicle = NoVehicle /\ e # Nil
      BY <2>3 DEF VehiclePositionEvent, Skipped
    <3>2. UNCHANGED vars /\ reported' = reported \cup {Report(reading, e)}
      BY <1>6, <2>3, <3>1 DEF ReadEntity
    <3> QED BY <2>1, <3>1, <3>2
  <2>4. CASE ~Skipped(e) /\ VehicleId(e) # NoVehicle
    <3>1. VehiclePositionEvent(reading, e).vehicle # NoVehicle
      BY <2>4 DEF VehiclePositionEvent
    <3>2. /\ Receive(VehiclePositionEvent(reading, e))
          /\ reported' = reported \cup {Report(reading, e)}
      BY <1>6, <2>4, <3>1 DEF ReadEntity
    <3> QED BY <2>1, <2>4, <3>2 DEF Delivers
  <2> QED BY <2>2, <2>3, <2>4
<1> QED BY <1>1, <1>2, <1>3, <1>4, <1>5, <1>6 DEF IngestNext

(* Taking up what an entity says keeps the events grounded. *)
LEMMA DeliveryGrounded ==
  ASSUME IngestInv, TypeOK', NEW a \in Agency, NEW e \in Entities[a], Delivers(e),
         Receive(VehiclePositionEvent(a, e)), reported' = reported \cup {Report(a, e)}
  PROVE  /\ \A v \in DOMAIN vehiclesState' :
              LET p == vehiclesState'[v].msg
              IN p # Foreign => p.stop # NoStop /\ <<p.agency, p.vehicle, p.stop>> \in reported'
         /\ NoNilEvents' /\ EventsAreGrounded'
<1> DEFINE p == VehiclePositionEvent(a, e)
           v == p.vehicle
           prev == vehiclesState[v].msg
<1>1. /\ p \in Position /\ p.vehicle \in Vehicle /\ p.stop # NoStop /\ v # NoVehicle
      /\ Report(a, e) = <<p.agency, p.vehicle, p.stop>>
      /\ p.agency = a /\ p.vehicle = Named(e) /\ e # Nil
  BY DeliveredPosition, EventAssumption
<1> HIDE DEF p
<1>2. PICK known, ok, applied \in BOOLEAN : TakesUp(p, known, ok, applied)
  BY <1>1, ReceiveFacts DEF IngestInv, IInv, p
<1>3. \A u \in DOMAIN vehiclesState' :
        vehiclesState'[u].msg = p \/ (u \in DOMAIN vehiclesState /\ vehiclesState'[u] = vehiclesState[u])
  <2>1. CASE applied
    <3> DEFINE new == Put(vehiclesState, v, p)
    <3>1. /\ DOMAIN new = DOMAIN vehiclesState \cup {v}
          /\ new[v].msg = p
          /\ \A u \in DOMAIN vehiclesState : u # v => new[u] = vehiclesState[u]
      BY <1>1, StoreVehicle DEF IngestInv, IInv, StoredMessage
    <3>2. vehiclesState' = new
      BY <1>2, <2>1 DEF TakesUp
    <3> HIDE DEF new
    <3> QED BY <3>1, <3>2
  <2>2. CASE ~applied
    BY <1>2, <2>2 DEF TakesUp
  <2> QED BY <2>1, <2>2
<1>4. ASSUME NEW u \in DOMAIN vehiclesState', vehiclesState'[u].msg # Foreign
      PROVE  LET q == vehiclesState'[u].msg
             IN q.stop # NoStop /\ <<q.agency, q.vehicle, q.stop>> \in reported'
  <2>1. CASE vehiclesState'[u].msg = p
    BY <1>1, <2>1
  <2>2. CASE u \in DOMAIN vehiclesState /\ vehiclesState'[u] = vehiclesState[u]
    BY <1>4, <2>2 DEF IngestInv
  <2> QED BY <1>3, <2>1, <2>2
<1>5. CASE ~(ok /\ known)
  <2>1. out' = <<>>
    BY <1>2, <1>5 DEF TakesUp
  <2>2. 1..Len(out') = {}
    BY <2>1
  <2> QED BY <1>4, <2>2 DEF NoNilEvents, EventsAreGrounded
<1>6. CASE ok /\ known
  <2>1. out' = StopEvents(prev, p) /\ v \in DOMAIN vehiclesState /\ prev \in Position
    BY <1>2, <1>6 DEF TakesUp
  <2>2. /\ prev # Foreign /\ prev.stop # NoStop /\ prev.vehicle = v
        /\ <<prev.agency, v, prev.stop>> \in reported
    BY <2>1, PositionAssumption DEF IngestInv, IInv, TypeOK
  <2>3. \A i \in 1..Len(out') :
          /\ out'[i] # Nil
          /\ out'[i].agency = a /\ out'[i].vehicle = v
          /\ out'[i].stop \in {prev.stop, p.stop}
    BY <1>1, <2>1, <2>2, StopEventsGround
  <2>4. IdsApart => prev.agency = a
    <3>1. PICK b \in Agency : \E x \in Entities[b] \ {Nil} : <<prev.agency, v, prev.stop>> = Report(b, x)
      BY <2>2 DEF IngestInv
    <3>2. PICK x \in Entities[b] \ {Nil} : prev.agency = b /\ Named(x) = v
      BY <3>1 DEF Report
    <3>3. e \in Entities[a] \ {Nil} /\ Named(e) = Named(x) /\ Named(e) # NoVehicle
      BY <1>1, <3>2
    <3> QED BY <3>2, <3>3 DEF IdsApart
  <2>5. NoNilEvents'
    BY <2>3 DEF NoNilEvents
  <2>6. EventsAreGrounded'
    BY <1>1, <2>2, <2>3, <2>4 DEF EventsAreGrounded
  <2> QED BY <1>4, <2>5, <2>6
<1> QED BY <1>5, <1>6

(* Every step behind the feeds keeps the invariant. *)
LEMMA IngestStep == IngestInv /\ [IngestNext]_ingestVars => IngestInv'
<1> SUFFICES ASSUME IngestInv, [IngestNext]_ingestVars PROVE IngestInv'
  OBVIOUS
<1>1. /\ reading \in Agency \cup {Nil} /\ reading' \in Agency \cup {Nil}
      /\ \/ \E a \in Agency : \E e \in Entities[a] :
              /\ Delivers(e) /\ Receive(VehiclePositionEvent(a, e))
              /\ reported' = reported \cup {Report(a, e)}
         \/ /\ UNCHANGED vars
            /\ \/ reported' = reported
               \/ \E a \in Agency : \E e \in Entities[a] \ {Nil} :
                    reported' = reported \cup {Report(a, e)}
         \/ reported' = reported /\ Send
         \/ reported' = reported /\ Tick
         \/ reported' = reported /\ Restart
         \/ reported' = reported /\ \E v \in Vehicle : ForeignSet(v)
  BY IngestSteps DEF IngestInv
<1>2. \/ reported' = reported
      \/ \E a \in Agency : \E e \in Entities[a] \ {Nil} : reported' = reported \cup {Report(a, e)}
  <2>1. \A a \in Agency : \A e \in Entities[a] : Delivers(e) => e \in Entities[a] \ {Nil}
    BY DEF Delivers, Skipped
  <2> QED BY <1>1, <2>1
<1>3. /\ reported \subseteq reported'
      /\ \A r \in reported' : \E a \in Agency : \E e \in Entities[a] \ {Nil} : r = Report(a, e)
  BY <1>2 DEF IngestInv
<1>4. [AnyNext]_vars
  BY <1>1, DeliveredPosition DEF AnyNext
<1>5. IInv' /\ TypeOK'
  BY <1>4, NextIInv DEF IngestInv, IInv
<1> DEFINE Stored == \A v \in DOMAIN vehiclesState :
             LET p == vehiclesState[v].msg
             IN p # Foreign => p.stop # NoStop /\ <<p.agency, p.vehicle, p.stop>> \in reported
<1>6. Stored
  BY DEF IngestInv
<1>7. CASE \E a \in Agency : \E e \in Entities[a] :
              /\ Delivers(e) /\ Receive(VehiclePositionEvent(a, e))
              /\ reported' = reported \cup {Report(a, e)}
  BY <1>1, <1>3, <1>5, <1>7, DeliveryGrounded DEF IngestInv
(* In the other steps nothing is stored but what another processor stores,  *)
(* and no event is added.                                                   *)
<1>8. ASSUME \A v \in DOMAIN vehiclesState' :
               \/ vehiclesState'[v].msg = Foreign
               \/ v \in DOMAIN vehiclesState /\ vehiclesState'[v] = vehiclesState[v],
             \A i \in 1..Len(out') : \E j \in 1..Len(out) : out'[i] = out[j]
      PROVE  IngestInv'
  <2>1. Stored'
    BY <1>3, <1>6, <1>8
  <2>2. NoNilEvents'
    BY <1>8 DEF IngestInv, NoNilEvents
  <2>3. EventsAreGrounded'
    BY <1>3, <1>8 DEF IngestInv, EventsAreGrounded
  <2> QED BY <1>1, <1>3, <1>5, <2>1, <2>2, <2>3 DEF IngestInv
<1>9. CASE UNCHANGED vars
  BY <1>8, <1>9 DEF vars
<1>10. CASE Send
  <2> DEFINE T == StopEvent \cup {Nil}
  <2>1. out \in Seq(T) /\ out # <<>> /\ out' = Tail(out) /\ vehiclesState' = vehiclesState
    BY <1>10 DEF Send, IngestInv, IInv, TypeOK
  <2> HIDE DEF T
  <2>2. \A i \in 1..Len(out') : i + 1 \in 1..Len(out) /\ out'[i] = out[i + 1]
    BY <2>1
  <2> QED BY <1>8, <2>1, <2>2
<1>11. CASE Tick
  <2> DEFINE left == Lapse(vehiclesState)
  <2>1. /\ DOMAIN left \subseteq DOMAIN vehiclesState
        /\ \A u \in DOMAIN left : left[u] = vehiclesState[u]
    BY LapseFacts
  <2>2. vehiclesState' = left /\ out' = out
    BY <1>11 DEF Tick
  <2> HIDE DEF left
  <2> QED BY <1>8, <2>1, <2>2
<1>12. CASE Restart
  <2>1. /\ DOMAIN vehiclesState' \subseteq DOMAIN vehiclesState
        /\ \A u \in DOMAIN vehiclesState' : vehiclesState'[u] = vehiclesState[u]
    BY <1>12, ReopenedFacts DEF Restart
  <2>2. out' = <<>> /\ 1..Len(out') = {}
    BY <1>12 DEF Restart
  <2> QED BY <1>8, <2>1, <2>2
<1>13. ASSUME NEW v \in Vehicle, ForeignSet(v) PROVE IngestInv'
  <2> DEFINE new == Put(vehiclesState, v, Foreign)
  <2>1. /\ DOMAIN new = DOMAIN vehiclesState \cup {v}
        /\ new[v].msg = Foreign
        /\ \A u \in DOMAIN vehiclesState : u # v => new[u] = vehiclesState[u]
    BY StoreVehicle DEF IngestInv, IInv, StoredMessage
  <2>2. vehiclesState' = new /\ out' = out
    BY <1>13 DEF ForeignSet
  <2> HIDE DEF new
  <2> QED BY <1>8, <2>1, <2>2
<1> QED BY <1>1, <1>7, <1>9, <1>10, <1>11, <1>12, <1>13

(* The invariant behind the feeds. *)
THEOREM IngestInvariant == IngestSpec => []IngestInv
<1>1. IngestInit => IngestInv
  <2> SUFFICES ASSUME IngestInit PROVE IngestInv
    OBVIOUS
  <2>1. IInv
    BY InitIInv DEF IngestInit
  <2>2. DOMAIN vehiclesState = {} /\ 1..Len(out) = {}
    BY DEF IngestInit, Init, EmptyStore
  <2> QED BY <2>1, <2>2 DEF IngestInit, IngestInv, NoNilEvents, EventsAreGrounded
<1> QED BY <1>1, IngestStep, PTL DEF IngestSpec

(* makeStopEvent never returns nil for what the feeds deliver, so that no   *)
(* nil pointer goes to the metric processors.                               *)
THEOREM NoNilBehindFeeds == IngestSpec => []NoNilEvents
<1>1. IngestInv => NoNilEvents
  BY DEF IngestInv
<1> QED BY <1>1, IngestInvariant, PTL

(* Every stop event is about a vehicle and a stop that the feed of the very *)
(* agency it names has reported, for any agencies whose vehicle ids differ. *)
THEOREM GroundedBehindFeeds == IngestSpec => []EventsAreGrounded
<1>1. IngestInv => EventsAreGrounded
  BY DEF IngestInv
<1> QED BY <1>1, IngestInvariant, PTL

(* The alternation of arrivals and departures, counting the ones told and   *)
(* lost with the ones sent, for all that feeds may send.                    *)
THEOREM AlternationBehindFeeds == IngestSpec => []Alternation
<1>1. IngestInv => Alternation
  BY IInvGives DEF IngestInv
<1> QED BY <1>1, IngestInvariant, PTL

(* Whatever the entities of the feeds, what process() takes up is a named   *)
(* position: the feed message processors, the vehicle position processor    *)
(* and the stop event processor together implement a stop event processor   *)
(* that may get no other inputs.  The two conditions under which ReadEntity *)
(* hands nothing over carry the proof.                                      *)
THEOREM FeedsDeliverPositions ==
  ASSUME Positions = NamedPositions
  PROVE  IngestSpec => DeliversPositions
<1>1. IngestInit => Init
  BY DEF IngestInit
<1>2. IngestInv /\ [IngestNext]_ingestVars => [Next]_vars
  <2> SUFFICES ASSUME IngestInv, [IngestNext]_ingestVars PROVE [Next]_vars
    OBVIOUS
  <2>1. \/ \E a \in Agency : \E e \in Entities[a] :
              Delivers(e) /\ Receive(VehiclePositionEvent(a, e))
        \/ UNCHANGED vars
        \/ Send \/ Tick \/ Restart \/ \E v \in Vehicle : ForeignSet(v)
    BY IngestSteps DEF IngestInv
  <2> QED BY <2>1, DeliveredPosition DEF Next
<1> QED BY <1>1, <1>2, IngestInvariant, PTL DEF IngestSpec, Spec, DeliversPositions
=============================================================================
