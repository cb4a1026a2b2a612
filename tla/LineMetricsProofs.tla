--------------------------- MODULE LineMetricsProofs ---------------------------
(***************************************************************************)
(* Proofs about the headway and the travel time processor, for any stop    *)
(* events whose keys are unambiguous, any time to live, any crashes and    *)
(* any faults of Get and Delete: headways add up, travel times join        *)
(* consecutive calls, and neither is overstated.                           *)
(***************************************************************************)
EXTENDS LineMetrics, ProcessorLemmas, TLAPS

(* Stop events are well typed. *)
LEMMA StopEventFacts ==
  ASSUME NEW e \in StopEvents
  PROVE  /\ e.timestamp \in Nat /\ e.vehicle \in Vehicle /\ e.stop \in Stop
         /\ e \in StopEvent /\ e # Foreign
  BY StreamAssumption DEF StopEvent

-----------------------------------------------------------------------------
(* Headways.                                                                *)

(* The inductive invariant.  That a headway is not yet sent matters in a    *)
(* crash, which takes its seconds out of the chain again.                   *)
HeadwayInv == HeadwayTypeOK /\ HeadwaysTelescope /\ HeadwayNotOverstated

(* Events of the same stop of a line have the same key, and only those. *)
LEMMA HeadwayKeyFacts ==
  ASSUME NEW e \in StopEvents, NEW f \in StopEvents
  PROVE  HeadwayStopKey(e) = HeadwayStopKey(f) <=> LineStop(e) = LineStop(f)
<1>1. LineStop(e) = LineStop(f) => HeadwayStopKey(e) = HeadwayStopKey(f)
  BY DEF LineStop, HeadwayStopKey
<1> QED BY <1>1, HeadwayKeyAssumption

(* Telescoping survives a new departure e that is stored, if the chain is   *)
(* right for e and the others are left alone.                               *)
LEMMA DepartureStored ==
  ASSUME HeadwayInv, NEW e \in Departures, NEW c \in Chain,
         NEW set \in Set(headwayStates, HeadwayStopKey(e), e),
         headwayStates' = set.store,
         chain' = [chain EXCEPT ![LineStop(e)] = c],
         ReliableSet => /\ c.total <= e.timestamp - c.first
                        /\ ~c.lossy => c.total = e.timestamp - c.first
  PROVE  /\ IsStore(headwayStates', HeadwayKeys, HeadwayStored)
         /\ chain' \in [LineStops -> Chain]
         /\ HeadwaysTelescope'
<1> DEFINE k == HeadwayStopKey(e)
           new == Put(headwayStates, k, e)
<1>1. e \in StopEvents /\ k \in HeadwayKeys /\ LineStop(e) \in LineStops
      /\ e \in HeadwayStored
  BY DEF Departures, HeadwayKeys, LineStops, HeadwayStored
<1>2. IsStore(headwayStates, HeadwayKeys, HeadwayStored) /\ now \in Nat
      /\ chain \in [LineStops -> Chain]
  BY DEF HeadwayInv, HeadwayTypeOK
<1>3. /\ headwayStates' = new \/ headwayStates' = headwayStates
      /\ ReliableSet => headwayStates' = new
  BY SetFacts DEF ReliableSet
<1>4. IsStore(new, HeadwayKeys, HeadwayStored)
  BY <1>1, <1>2, PutType
<1>5. /\ DOMAIN new = DOMAIN headwayStates \cup {k}
      /\ new[k] = [msg |-> e, expiration |-> now + TTL]
      /\ \A j \in DOMAIN headwayStates : j # k => new[j] = headwayStates[j]
  BY DEF Put
<1> HIDE DEF new
<1>6. chain' \in [LineStops -> Chain]
  BY <1>1, <1>2
<1>7. HeadwaysTelescope'
  <2> SUFFICES ASSUME ReliableSet, NEW f \in StopEvents,
                      HeadwayStopKey(f) \in DOMAIN headwayStates',
                      headwayStates'[HeadwayStopKey(f)].msg # Foreign
               PROVE  LET x == chain'[LineStop(f)]
                          d == headwayStates'[HeadwayStopKey(f)].msg
                      IN /\ x.total <= d.timestamp - x.first
                         /\ ~x.lossy => x.total = d.timestamp - x.first
    BY DEF HeadwaysTelescope
  <2>1. CASE HeadwayStopKey(f) = k
    <3>1. LineStop(f) = LineStop(e)
      BY <1>1, <2>1, HeadwayKeyFacts
    <3>2. chain'[LineStop(f)] = c
      BY <1>1, <1>2, <3>1
    <3>3. headwayStates'[HeadwayStopKey(f)].msg = e
      BY <1>3, <1>5, <2>1
    <3> QED BY <3>2, <3>3
  <2>2. CASE HeadwayStopKey(f) # k
    <3>1. LineStop(f) # LineStop(e)
      BY <1>1, <2>2, HeadwayKeyFacts
    <3>2. chain'[LineStop(f)] = chain[LineStop(f)]
      BY <1>2, <3>1 DEF LineStops
    <3>3. /\ HeadwayStopKey(f) \in DOMAIN headwayStates
          /\ headwayStates'[HeadwayStopKey(f)] = headwayStates[HeadwayStopKey(f)]
      BY <1>3, <1>5, <2>2
    <3> QED BY <3>2, <3>3 DEF HeadwayInv, HeadwaysTelescope
  <2> QED BY <2>1, <2>2
<1> QED BY <1>2, <1>3, <1>4, <1>6, <1>7

(* With nothing to measure from, the chain begins anew. *)
LEMMA HeadwayFirstPreserves ==
  ASSUME HeadwayInv, NEW e \in StopEvents, HeadwayFirst(e)
  PROVE  HeadwayInv'
<1> DEFINE c == [first |-> e.timestamp, total |-> 0, lossy |-> FALSE]
<1>1. PICK set \in Set(headwayStates, HeadwayStopKey(e), e) : headwayStates' = set.store
  BY DEF HeadwayFirst
<1>2. /\ e \in Departures /\ headwayOut = Nil
      /\ chain' = [chain EXCEPT ![LineStop(e)] = c]
      /\ UNCHANGED <<now, headwayOut>>
  BY DEF HeadwayFirst, Departures
<1>3. e.timestamp \in Nat
  BY StopEventFacts
<1>4. c \in Chain /\ c.total <= e.timestamp - c.first /\ c.total = e.timestamp - c.first
  BY <1>3 DEF Chain
<1> HIDE DEF c
<1>5. /\ IsStore(headwayStates', HeadwayKeys, HeadwayStored)
      /\ chain' \in [LineStops -> Chain]
      /\ HeadwaysTelescope'
  BY <1>1, <1>2, <1>4, DepartureStored
<1>6. HeadwayTypeOK'
  BY <1>2, <1>5 DEF HeadwayInv, HeadwayTypeOK
<1> QED BY <1>2, <1>5, <1>6 DEF HeadwayInv, HeadwayNotOverstated

(* What is found to measure from is a departure of the same stop and line. *)
LEMMA MeasurableFacts ==
  ASSUME HeadwayInv, NEW e \in StopEvents, Measurable(e)
  PROVE  /\ e \in Departures
         /\ HeadwayStopKey(e) \in DOMAIN headwayStates
         /\ headwayStates[HeadwayStopKey(e)].msg \in Departures
         /\ headwayStates[HeadwayStopKey(e)].msg # Foreign
<1>1. HeadwayStopKey(e) \in DOMAIN headwayStates
  BY GetFacts DEF Measurable
<1> QED BY <1>1 DEF Measurable, HeadwayInv, HeadwayTypeOK, IsStore, Entry,
                    HeadwayStored, Departures

(* A headway is added to the chain, which then reaches to e. *)
LEMMA ReceiveHeadwayPreserves ==
  ASSUME HeadwayInv, NEW e \in StopEvents, ReceiveHeadway(e)
  PROVE  HeadwayInv'
<1> DEFINE k == HeadwayStopKey(e)
           p == LineStop(e)
           prev == headwayStates[k].msg
           diff == e.timestamp - prev.timestamp
<1>1. /\ Measurable(e) /\ prev.vehicle # e.vehicle /\ now' = now
  BY DEF ReceiveHeadway
<1>2. PICK seconds \in Seconds(diff) :
        /\ seconds > 0
        /\ headwayOut' = [event |-> e, leading |-> prev.vehicle,
                          since |-> prev.timestamp, seconds |-> seconds]
        /\ chain' = [chain EXCEPT ![p] =
                       [first |-> @.first, total |-> @.total + seconds,
                        lossy |-> @.lossy \/ diff > Int32Max]]
  BY DEF ReceiveHeadway
<1>3. PICK set \in Set(headwayStates, k, e) : headwayStates' = set.store
  BY DEF ReceiveHeadway
<1>4. /\ e \in Departures /\ k \in DOMAIN headwayStates
      /\ prev \in Departures /\ prev # Foreign
  BY <1>1, MeasurableFacts
<1>5. /\ e.timestamp \in Nat /\ prev.timestamp \in Nat /\ prev.vehicle \in Vehicle
      /\ diff \in Int /\ prev \in StopEvents
  BY <1>4, StopEventFacts DEF Departures
<1>6. p \in LineStops /\ chain \in [LineStops -> Chain] /\ chain[p] \in Chain
  BY DEF LineStops, HeadwayInv, HeadwayTypeOK
<1> DEFINE c == [first |-> chain[p].first, total |-> chain[p].total + seconds,
                 lossy |-> chain[p].lossy \/ diff > Int32Max]
<1>7. seconds \in Int /\ seconds > 0 /\ seconds <= diff
  BY <1>2, <1>5, SecondsType, SecondsFacts
<1>8. chain' = [chain EXCEPT ![p] = c]
  BY <1>2, <1>6
<1>9. c \in Chain
  BY <1>5, <1>6, <1>7 DEF Chain
<1>10. ReliableSet => /\ c.total <= e.timestamp - c.first
                      /\ ~c.lossy => c.total = e.timestamp - c.first
  <2> SUFFICES ASSUME ReliableSet
               PROVE  /\ c.total <= e.timestamp - c.first
                      /\ ~c.lossy => c.total = e.timestamp - c.first
    OBVIOUS
  <2>1. /\ chain[p].total <= prev.timestamp - chain[p].first
        /\ ~chain[p].lossy => chain[p].total = prev.timestamp - chain[p].first
    BY <1>4 DEF HeadwayInv, HeadwaysTelescope
  <2>2. ~c.lossy => diff <= Int32Max
    <3>1. c.lossy <=> chain[p].lossy \/ diff > Int32Max
      BY <1>6 DEF Chain
    <3> QED BY <1>5, <3>1, EventAssumption
  <2>3. ~c.lossy => seconds = diff
    <3> HIDE DEF diff, c
    <3> QED BY <1>5, <1>7, <2>2, SecondsExact
  <2>4. /\ chain[p].first \in Nat /\ chain[p].total \in Int
        /\ ~c.lossy => ~chain[p].lossy
    BY <1>6 DEF Chain
  <2>5. c.total <= e.timestamp - c.first
    BY <1>5, <1>7, <2>1, <2>4
  <2>6. ~c.lossy => c.total = e.timestamp - c.first
    BY <1>5, <1>7, <2>1, <2>3, <2>4
  <2> QED BY <2>5, <2>6
<1>11. /\ IsStore(headwayStates', HeadwayKeys, HeadwayStored)
       /\ chain' \in [LineStops -> Chain]
       /\ HeadwaysTelescope'
  <2> HIDE DEF c
  <2> QED BY <1>3, <1>4, <1>8, <1>9, <1>10, DepartureStored
<1>12. headwayOut' \in HeadwayTimeEvent
  BY <1>2, <1>5, <1>7 DEF HeadwayTimeEvent
<1>13. HeadwayTypeOK'
  BY <1>1, <1>11, <1>12 DEF HeadwayInv, HeadwayTypeOK
<1>14. HeadwayNotOverstated'
  BY <1>1, <1>2, <1>7 DEF HeadwayNotOverstated
<1> QED BY <1>11, <1>13, <1>14 DEF HeadwayInv

(* A foreign message hides a departure and ends the chain. *)
LEMMA HeadwayForeignPreserves ==
  ASSUME HeadwayInv, NEW k \in HeadwayKeys, HeadwayForeignSet(k)
  PROVE  HeadwayInv'
<1> DEFINE new == Put(headwayStates, k, Foreign)
<1>1. headwayStates' = new /\ UNCHANGED <<now, headwayOut, chain>>
  BY DEF HeadwayForeignSet
<1>2. IsStore(new, HeadwayKeys, HeadwayStored)
  BY PutType DEF HeadwayInv, HeadwayTypeOK, HeadwayStored
<1>3. /\ DOMAIN new = DOMAIN headwayStates \cup {k}
      /\ new[k] = [msg |-> Foreign, expiration |-> now + TTL]
      /\ \A j \in DOMAIN headwayStates : j # k => new[j] = headwayStates[j]
  BY DEF Put
<1> HIDE DEF new
<1>4. HeadwayTypeOK'
  BY <1>1, <1>2 DEF HeadwayInv, HeadwayTypeOK
<1>5. HeadwaysTelescope'
  BY <1>1, <1>3 DEF HeadwayInv, HeadwaysTelescope
<1> QED BY <1>1, <1>4, <1>5 DEF HeadwayInv, HeadwayNotOverstated

(* When entries are lost, and a headway with them, what is left of a chain  *)
(* adds up to less.                                                         *)
LEMMA HeadwayFewerPreserves ==
  ASSUME HeadwayInv, now' \in Nat,
         DOMAIN headwayStates' \subseteq DOMAIN headwayStates,
         \A j \in DOMAIN headwayStates' : headwayStates'[j] = headwayStates[j],
         \/ UNCHANGED <<headwayOut, chain>>
         \/ headwayOut' = Nil /\ UNCHANGED chain
  PROVE  HeadwayInv'
<1>1. IsStore(headwayStates', HeadwayKeys, HeadwayStored)
  BY FewerType DEF HeadwayInv, HeadwayTypeOK
<1>2. HeadwayTypeOK'
  BY <1>1 DEF HeadwayInv, HeadwayTypeOK
<1>3. HeadwaysTelescope'
  BY DEF HeadwayInv, HeadwaysTelescope
<1>4. HeadwayNotOverstated'
  BY DEF HeadwayInv, HeadwayNotOverstated
<1> QED BY <1>2, <1>3, <1>4 DEF HeadwayInv

(* A crash that loses a headway takes its seconds from the chain. *)
LEMMA HeadwayRestartPreserves ==
  ASSUME HeadwayInv, HeadwayRestart
  PROVE  HeadwayInv'
<1>1. /\ DOMAIN headwayStates' \subseteq DOMAIN headwayStates
      /\ \A j \in DOMAIN headwayStates' : headwayStates'[j] = headwayStates[j]
  BY ReopenedFacts DEF HeadwayRestart
<1>2. headwayOut' = Nil /\ now' = now /\ now \in Nat
  BY DEF HeadwayRestart, HeadwayInv, HeadwayTypeOK
<1>3. CASE headwayOut = Nil
  <2>1. chain' = chain
    BY <1>3 DEF HeadwayRestart
  <2> QED BY <1>1, <1>2, <2>1, HeadwayFewerPreserves
<1>4. CASE headwayOut # Nil
  <2> DEFINE p == LineStop(headwayOut.event)
             s == headwayOut.seconds
             c == [first |-> chain[p].first, total |-> chain[p].total - s, lossy |-> TRUE]
  <2>1. chain' = [chain EXCEPT ![p] =
                    [first |-> @.first, total |-> @.total - s, lossy |-> TRUE]]
    BY <1>4 DEF HeadwayRestart
  <2>2. /\ headwayOut.event \in StopEvents /\ s \in Int /\ s > 0
        /\ p \in LineStops /\ chain \in [LineStops -> Chain] /\ chain[p] \in Chain
    <3>1. headwayOut \in HeadwayTimeEvent
      BY <1>4 DEF HeadwayInv, HeadwayTypeOK
    <3>2. headwayOut.event \in StopEvents /\ s \in Int
      BY <3>1 DEF HeadwayTimeEvent
    <3>3. s > 0
      BY <1>4, <3>2 DEF HeadwayInv, HeadwayNotOverstated
    <3> QED BY <3>2, <3>3 DEF LineStops, HeadwayInv, HeadwayTypeOK
  <2>3. c \in Chain
    BY <2>2 DEF Chain
  <2>4. chain' = [chain EXCEPT ![p] = c]
    BY <2>1, <2>2
  <2>5. c.total <= chain[p].total /\ c.first = chain[p].first /\ c.lossy
        /\ c.total \in Int /\ chain[p].total \in Int /\ c.first \in Nat
    BY <2>2 DEF Chain
  <2> HIDE DEF c, p
  <2>6. chain' \in [LineStops -> Chain]
    BY <2>2, <2>3, <2>4
  <2>7. IsStore(headwayStates', HeadwayKeys, HeadwayStored)
    BY <1>1, FewerType DEF HeadwayInv, HeadwayTypeOK
  <2>8. HeadwayTypeOK'
    BY <1>2, <2>6, <2>7 DEF HeadwayTypeOK
  <2>9. HeadwaysTelescope'
    <3> SUFFICES ASSUME ReliableSet, NEW f \in StopEvents,
                        HeadwayStopKey(f) \in DOMAIN headwayStates',
                        headwayStates'[HeadwayStopKey(f)].msg # Foreign
                 PROVE  LET x == chain'[LineStop(f)]
                            d == headwayStates'[HeadwayStopKey(f)].msg
                        IN /\ x.total <= d.timestamp - x.first
                           /\ ~x.lossy => x.total = d.timestamp - x.first
      BY DEF HeadwaysTelescope
    <3> DEFINE d == headwayStates[HeadwayStopKey(f)].msg
               x == chain[LineStop(f)]
    <3>1. /\ headwayStates'[HeadwayStopKey(f)].msg = d
          /\ x.total <= d.timestamp - x.first
          /\ ~x.lossy => x.total = d.timestamp - x.first
      BY <1>1 DEF HeadwayInv, HeadwaysTelescope
    <3>2. d.timestamp \in Nat
      <4>1. HeadwayStopKey(f) \in DOMAIN headwayStates /\ d # Foreign
        BY <1>1
      <4>2. d \in StopEvents
        BY <4>1 DEF HeadwayInv, HeadwayTypeOK, IsStore, Entry, HeadwayStored, Departures
      <4> QED BY <4>2, StopEventFacts
    <3>3. LineStop(f) \in LineStops
      BY DEF LineStops
    <3>4. CASE LineStop(f) = p
      <4>1. chain'[LineStop(f)] = c
        BY <2>2, <2>4, <3>4
      <4> HIDE DEF d
      <4> QED BY <2>5, <3>1, <3>2, <3>4, <4>1
    <3>5. CASE LineStop(f) # p
      <4>1. chain'[LineStop(f)] = x
        BY <2>2, <2>4, <3>3, <3>5
      <4> QED BY <3>1, <4>1
    <3> QED BY <3>4, <3>5
  <2> QED BY <1>2, <2>8, <2>9 DEF HeadwayInv, HeadwayNotOverstated
<1> QED BY <1>3, <1>4

(* The invariant holds at the start, and every step keeps it. *)
LEMMA HeadwayInitInv == HeadwayInit => HeadwayInv
<1> SUFFICES ASSUME HeadwayInit PROVE HeadwayInv
  OBVIOUS
<1>1. DOMAIN headwayStates = {}
  BY DEF HeadwayInit, EmptyStore
<1>2. HeadwayTypeOK
  BY <1>1 DEF HeadwayInit, HeadwayTypeOK, IsStore, Chain
<1> QED BY <1>1, <1>2 DEF HeadwayInit, HeadwayInv, HeadwaysTelescope, HeadwayNotOverstated

LEMMA HeadwayNextInv == HeadwayInv /\ [HeadwayNext]_headwayVars => HeadwayInv'
<1> SUFFICES ASSUME HeadwayInv, [HeadwayNext]_headwayVars PROVE HeadwayInv'
  OBVIOUS
<1>0. now \in Nat
  BY DEF HeadwayInv, HeadwayTypeOK
<1>1. ASSUME NEW e \in StopEvents, HeadwayFirst(e) PROVE HeadwayInv'
  BY <1>1, HeadwayFirstPreserves
<1>2. ASSUME NEW e \in StopEvents, ReceiveDropped(e) PROVE HeadwayInv'
  BY <1>0, <1>2, HeadwayFewerPreserves DEF ReceiveDropped
<1>3. ASSUME NEW e \in StopEvents, ReceiveHeadway(e) PROVE HeadwayInv'
  BY <1>3, ReceiveHeadwayPreserves
<1>4. ASSUME HeadwaySend PROVE HeadwayInv'
  BY <1>0, <1>4, HeadwayFewerPreserves DEF HeadwaySend
<1>5. ASSUME NEW k \in HeadwayKeys, HeadwayForeignSet(k) PROVE HeadwayInv'
  BY <1>5, HeadwayForeignPreserves
<1>6. ASSUME HeadwayTick PROVE HeadwayInv'
  BY <1>0, <1>6, LapseFacts, HeadwayFewerPreserves DEF HeadwayTick
<1>7. ASSUME HeadwayRestart PROVE HeadwayInv'
  BY <1>7, HeadwayRestartPreserves
<1>8. ASSUME UNCHANGED headwayVars PROVE HeadwayInv'
  BY <1>0, <1>8, HeadwayFewerPreserves DEF headwayVars
<1> QED BY <1>1, <1>2, <1>3, <1>4, <1>5, <1>6, <1>7, <1>8 DEF HeadwayNext

(* Every behaviour of the headway processor keeps the invariant. *)
THEOREM HeadwayInvariant == HeadwaySpec => []HeadwayInv
  BY HeadwayInitInv, HeadwayNextInv, PTL DEF HeadwaySpec

(* Headways at a stop neither overlap nor leave gaps, whatever the order of *)
(* the departures, for any number of vehicles and any timestamps.           *)
THEOREM HeadwaysAddUp == HeadwaySpec => []HeadwaysTelescope
<1>1. HeadwayInv => HeadwaysTelescope
  BY DEF HeadwayInv
<1> QED BY <1>1, HeadwayInvariant, PTL

(* A headway is positive, between two vehicles and never overstated, for    *)
(* any faults of the store.                                                 *)
THEOREM HeadwayBounded == HeadwaySpec => []HeadwayNotOverstated
<1>1. HeadwayInv => HeadwayNotOverstated
  BY DEF HeadwayInv
<1> QED BY <1>1, HeadwayInvariant, PTL

-----------------------------------------------------------------------------
(* Travel times.                                                            *)

(* d is an arrival of the call c. *)
OfCall(d, c) == c # Nil /\ d.stop = c.stop /\ d.timestamp \in c.times

(* Between its send and its Set, process() is about an arrival that belongs *)
(* to the last call, and what is still stored belongs to the one before.    *)
StoringInv ==
  travelOut # Nil =>
    /\ OfCall(travelOut.event, call[Run(travelOut.event)])
    /\ ReliableSet =>
         LET k == TripKey(travelOut.event)
         IN k \in DOMAIN tripStates /\ tripStates[k].msg # Foreign =>
              OfCall(tripStates[k].msg, leg)
    /\ travelOut.event \in Arrivals

(* The inductive invariant. *)
TravelInv ==
  /\ TravelTypeOK
  /\ StoredArrivalIsLastCall
  /\ StoringInv
  /\ TravelJoinsConsecutiveCalls
  /\ TravelNotOverstated

(* Events of the same vehicle on the same trip have the same key, and only  *)
(* those.                                                                   *)
LEMMA TripKeyFacts ==
  ASSUME NEW e \in StopEvents, NEW f \in StopEvents
  PROVE  TripKey(e) = TripKey(f) <=> Run(e) = Run(f)
<1>1. Run(e) = Run(f) => TripKey(e) = TripKey(f)
  BY DEF Run, TripKey
<1> QED BY <1>1, TripKeyAssumption

(* After an arrival, its call is the last one of its vehicle on its trip. *)
LEMMA ArrivedFacts ==
  ASSUME TravelTypeOK, NEW e \in StopEvents, Arrived(e)
  PROVE  /\ call' \in [Runs -> Call \cup {Nil}]
         /\ leg' = call[Run(e)] /\ leg' \in Call \cup {Nil}
         /\ OfCall(e, call'[Run(e)])
         /\ \A r \in Runs : r # Run(e) => call'[r] = call[r]
         /\ \A d \in StopEvents :
              OfCall(d, call[Run(e)]) /\ d.stop = e.stop => OfCall(d, call'[Run(e)])
<1> DEFINE r == Run(e)
           c == call[r]
           here == [stop |-> e.stop,
                    times |-> IF c # Nil /\ c.stop = e.stop
                                THEN c.times \cup {e.timestamp} ELSE {e.timestamp}]
<1>1. call' = [call EXCEPT ![r] = here] /\ leg' = c
  BY DEF Arrived
<1>2. r \in Runs /\ call \in [Runs -> Call \cup {Nil}] /\ c \in Call \cup {Nil}
  BY DEF Runs, TravelTypeOK
<1>3. e.timestamp \in Nat /\ e.stop \in Stop
  BY StopEventFacts
<1>4. here \in Call
  BY <1>2, <1>3 DEF Call
<1>5. here # Nil
  BY <1>4, TravelNilAssumption
<1>6. /\ here.stop = e.stop /\ e.timestamp \in here.times
      /\ c # Nil /\ c.stop = e.stop => c.times \subseteq here.times
  OBVIOUS
<1> HIDE DEF here
<1>7. call'[r] = here
  BY <1>1, <1>2
<1>8. \A q \in Runs : q # r => call'[q] = call[q]
  BY <1>1, <1>2
<1>9. OfCall(e, here)
  BY <1>5, <1>6 DEF OfCall
<1>10. \A d \in StopEvents : OfCall(d, c) /\ d.stop = e.stop => OfCall(d, here)
  BY <1>5, <1>6 DEF OfCall
<1>11. call' \in [Runs -> Call \cup {Nil}]
  BY <1>1, <1>2, <1>4
<1> QED BY <1>1, <1>2, <1>7, <1>8, <1>9, <1>10, <1>11

(* What is stored under the key of e and is no foreign message is an        *)
(* arrival.                                                                 *)
LEMMA StoredTripFacts ==
  ASSUME TravelTypeOK, NEW k \in DOMAIN tripStates, tripStates[k].msg # Foreign
  PROVE  tripStates[k].msg \in Arrivals /\ tripStates[k].msg \in StopEvents
  BY DEF TravelTypeOK, IsStore, Entry, TravelStored, Arrivals

(* The last call stays right when e is stored, if e belongs to it and the   *)
(* other calls are as they were.                                            *)
LEMMA ArrivalStored ==
  ASSUME TravelInv, NEW e \in Arrivals,
         NEW set \in Set(tripStates, TripKey(e), e), tripStates' = set.store,
         travelOut' = Nil,
         travelOut # Nil => Run(travelOut.event) = Run(e),
         OfCall(e, call'[Run(e)]),
         \A r \in Runs : r # Run(e) => call'[r] = call[r]
  PROVE  /\ IsStore(tripStates', TripKeys, TravelStored)
         /\ StoredArrivalIsLastCall'
<1> DEFINE k == TripKey(e)
           new == Put(tripStates, k, e)
<1>1. e \in StopEvents /\ k \in TripKeys /\ e \in TravelStored
  BY DEF Arrivals, TripKeys, TravelStored
<1>2. IsStore(tripStates, TripKeys, TravelStored) /\ now \in Nat
  BY DEF TravelInv, TravelTypeOK
<1>3. /\ tripStates' = new \/ tripStates' = tripStates
      /\ ReliableSet => tripStates' = new
  BY SetFacts DEF ReliableSet
<1>4. IsStore(new, TripKeys, TravelStored)
  BY <1>1, <1>2, PutType
<1>5. /\ DOMAIN new = DOMAIN tripStates \cup {k}
      /\ new[k] = [msg |-> e, expiration |-> now + TTL]
      /\ \A j \in DOMAIN tripStates : j # k => new[j] = tripStates[j]
  BY DEF Put
<1> HIDE DEF new
<1>6. StoredArrivalIsLastCall'
  <2> SUFFICES ASSUME ReliableSet, NEW f \in StopEvents,
                      TripKey(f) \in DOMAIN tripStates',
                      tripStates'[TripKey(f)].msg # Foreign
               PROVE  OfCall(tripStates'[TripKey(f)].msg, call'[Run(f)])
    BY DEF StoredArrivalIsLastCall, OfCall
  <2>1. CASE TripKey(f) = k
    <3>1. Run(f) = Run(e)
      BY <1>1, <2>1, TripKeyFacts
    <3>2. tripStates'[TripKey(f)].msg = e
      BY <1>3, <1>5, <2>1
    <3> QED BY <3>1, <3>2
  <2>2. CASE TripKey(f) # k
    <3>1. Run(f) # Run(e) /\ Run(f) \in Runs
      BY <1>1, <2>2, TripKeyFacts DEF Runs
    <3>2. call'[Run(f)] = call[Run(f)]
      BY <3>1
    <3>3. /\ TripKey(f) \in DOMAIN tripStates
          /\ tripStates'[TripKey(f)] = tripStates[TripKey(f)]
      BY <1>3, <1>5, <2>2
    <3>4. OfCall(tripStates[TripKey(f)].msg, call[Run(f)])
      BY <3>1, <3>3 DEF TravelInv, StoredArrivalIsLastCall, OfCall
    <3> QED BY <3>2, <3>3, <3>4
  <2> QED BY <2>1, <2>2
<1> QED BY <1>2, <1>3, <1>4, <1>6

(* An arrival that is stored at once: the first one, or a late one. *)
LEMMA StoresAtOncePreserves ==
  ASSUME TravelInv, NEW e \in StopEvents, Arrives(e), Arrived(e),
         NEW set \in Set(tripStates, TripKey(e), e), tripStates' = set.store,
         UNCHANGED <<now, travelOut>>
  PROVE  TravelInv'
<1>1. e \in Arrivals /\ travelOut = Nil /\ travelOut' = Nil
  BY DEF Arrives, Arrivals
<1>2. /\ call' \in [Runs -> Call \cup {Nil}] /\ leg' \in Call \cup {Nil}
      /\ OfCall(e, call'[Run(e)])
      /\ \A r \in Runs : r # Run(e) => call'[r] = call[r]
  BY ArrivedFacts DEF TravelInv
<1>3. IsStore(tripStates', TripKeys, TravelStored) /\ StoredArrivalIsLastCall'
  BY <1>1, <1>2, ArrivalStored
<1>4. TravelTypeOK'
  BY <1>1, <1>2, <1>3 DEF TravelInv, TravelTypeOK
<1> QED BY <1>1, <1>3, <1>4 DEF TravelInv, StoringInv, TravelJoinsConsecutiveCalls,
                                TravelNotOverstated

(* An arrival found under the key of e belongs to the last call. *)
LEMMA UsableFacts ==
  ASSUME TravelInv, NEW e \in StopEvents, Arrives(e), Usable(TripKey(e))
  PROVE  LET prev == tripStates[TripKey(e)].msg
         IN /\ TripKey(e) \in DOMAIN tripStates
            /\ prev \in StopEvents /\ prev # Foreign
            /\ ReliableSet => OfCall(prev, call[Run(e)])
<1>1. TripKey(e) \in DOMAIN tripStates /\ tripStates[TripKey(e)].msg # Foreign
  BY GetFacts DEF Usable
<1>2. tripStates[TripKey(e)].msg \in StopEvents
  BY <1>1, StoredTripFacts DEF TravelInv
<1>3. ReliableSet => OfCall(tripStates[TripKey(e)].msg, call[Run(e)])
  BY <1>1 DEF TravelInv, StoredArrivalIsLastCall, OfCall, Arrives
<1> QED BY <1>1, <1>2, <1>3

(* Another arrival at the stop that is stored joins its call. *)
LEMMA RepeatedPreserves ==
  ASSUME TravelInv, NEW e \in StopEvents, ReceiveRepeated(e)
  PROVE  TravelInv'
<1> DEFINE k == TripKey(e)
           prev == tripStates[k].msg
<1>1. /\ Arrives(e) /\ Usable(k) /\ prev.stop = e.stop /\ Arrived(e)
      /\ UNCHANGED <<now, tripStates, travelOut>> /\ travelOut = Nil
  BY DEF ReceiveRepeated, Arrives
<1>2. /\ call' \in [Runs -> Call \cup {Nil}] /\ leg' \in Call \cup {Nil}
      /\ \A r \in Runs : r # Run(e) => call'[r] = call[r]
      /\ \A d \in StopEvents :
           OfCall(d, call[Run(e)]) /\ d.stop = e.stop => OfCall(d, call'[Run(e)])
  BY <1>1, ArrivedFacts DEF TravelInv
<1>3. prev \in StopEvents /\ (ReliableSet => OfCall(prev, call[Run(e)]))
  BY <1>1, UsableFacts
<1>4. TravelTypeOK'
  BY <1>1, <1>2 DEF TravelInv, TravelTypeOK
<1>5. StoredArrivalIsLastCall'
  <2> SUFFICES ASSUME ReliableSet, NEW f \in StopEvents,
                      TripKey(f) \in DOMAIN tripStates,
                      tripStates[TripKey(f)].msg # Foreign
               PROVE  OfCall(tripStates[TripKey(f)].msg, call'[Run(f)])
    BY <1>1 DEF StoredArrivalIsLastCall, OfCall
  <2>1. CASE TripKey(f) = k
    <3>1. Run(f) = Run(e)
      BY <2>1, TripKeyFacts
    <3> QED BY <1>1, <1>2, <1>3, <2>1, <3>1
  <2>2. CASE TripKey(f) # k
    <3>1. Run(f) # Run(e) /\ Run(f) \in Runs
      BY <2>2, TripKeyFacts DEF Runs
    <3>2. OfCall(tripStates[TripKey(f)].msg, call[Run(f)])
      BY <1>1 DEF TravelInv, StoredArrivalIsLastCall, OfCall
    <3> QED BY <1>2, <3>1, <3>2
  <2> QED BY <2>1, <2>2
<1> QED BY <1>1, <1>4, <1>5 DEF TravelInv, StoringInv, TravelJoinsConsecutiveCalls,
                                TravelNotOverstated

(* An arrival at another stop ends a leg that began with the call before. *)
LEMMA TravelPreserves ==
  ASSUME TravelInv, NEW e \in StopEvents, ReceiveTravel(e)
  PROVE  TravelInv'
<1> DEFINE k == TripKey(e)
           prev == tripStates[k].msg
           diff == e.timestamp - prev.timestamp
<1>1. /\ Arrives(e) /\ Usable(k) /\ prev.stop # e.stop /\ Arrived(e)
      /\ UNCHANGED <<now, tripStates>> /\ travelOut = Nil /\ e \in Arrivals
  BY DEF ReceiveTravel, Arrives, Arrivals
<1>2. PICK seconds \in Seconds(diff) :
        /\ seconds > 0
        /\ travelOut' = [event |-> e, origin |-> prev.stop,
                         start |-> prev.timestamp, seconds |-> seconds]
  BY DEF ReceiveTravel
<1>3. /\ call' \in [Runs -> Call \cup {Nil}] /\ leg' \in Call \cup {Nil}
      /\ leg' = call[Run(e)] /\ OfCall(e, call'[Run(e)])
      /\ \A r \in Runs : r # Run(e) => call'[r] = call[r]
  BY <1>1, ArrivedFacts DEF TravelInv
<1>4. prev \in StopEvents /\ (ReliableSet => OfCall(prev, leg'))
  BY <1>1, <1>3, UsableFacts
<1>5. /\ e.timestamp \in Nat /\ prev.timestamp \in Nat /\ diff \in Int
      /\ e.stop \in Stop /\ prev.stop \in Stop
  BY <1>4, StopEventFacts
<1>6. seconds \in Int /\ seconds > 0 /\ seconds <= diff
  BY <1>2, <1>5, SecondsType, SecondsFacts
<1>7. travelOut' \in TravelTimeEvent
  BY <1>2, <1>5, <1>6 DEF TravelTimeEvent
<1>8. travelOut'.event = e /\ travelOut' # Nil
  BY <1>2, <1>7, TravelNilAssumption
<1>9. TravelTypeOK'
  BY <1>1, <1>3, <1>7 DEF TravelInv, TravelTypeOK
<1>10. StoredArrivalIsLastCall'
  <2> SUFFICES ASSUME ReliableSet, NEW f \in StopEvents, Run(f) # Run(e),
                      TripKey(f) \in DOMAIN tripStates,
                      tripStates[TripKey(f)].msg # Foreign
               PROVE  OfCall(tripStates[TripKey(f)].msg, call'[Run(f)])
    BY <1>1, <1>8 DEF StoredArrivalIsLastCall, OfCall
  <2>1. Run(f) \in Runs
    BY DEF Runs
  <2>2. OfCall(tripStates[TripKey(f)].msg, call[Run(f)])
    BY <1>1 DEF TravelInv, StoredArrivalIsLastCall, OfCall
  <2> QED BY <1>3, <2>1, <2>2
<1>11. StoringInv'
  BY <1>1, <1>3, <1>4, <1>8 DEF StoringInv
<1>12. TravelJoinsConsecutiveCalls'
  BY <1>1, <1>2, <1>4 DEF TravelJoinsConsecutiveCalls, OfCall
<1>13. TravelNotOverstated'
  BY <1>2, <1>6 DEF TravelNotOverstated
<1> QED BY <1>9, <1>10, <1>11, <1>12, <1>13 DEF TravelInv

(* After the send, the arrival of the last call is stored. *)
LEMMA TravelSendPreserves ==
  ASSUME TravelInv, TravelSend
  PROVE  TravelInv'
<1> DEFINE e == travelOut.event
<1>1. travelOut # Nil /\ travelOut' = Nil /\ UNCHANGED <<now, call, leg>>
  BY DEF TravelSend
<1>2. PICK set \in Set(tripStates, TripKey(e), e) : tripStates' = set.store
  BY DEF TravelSend
<1>3. e \in Arrivals /\ OfCall(e, call'[Run(e)])
  BY <1>1 DEF TravelInv, StoringInv
<1>4. IsStore(tripStates', TripKeys, TravelStored) /\ StoredArrivalIsLastCall'
  BY <1>1, <1>2, <1>3, ArrivalStored
<1>5. TravelTypeOK'
  BY <1>1, <1>4 DEF TravelInv, TravelTypeOK
<1> QED BY <1>1, <1>4, <1>5 DEF TravelInv, StoringInv, TravelJoinsConsecutiveCalls,
                                TravelNotOverstated

(* A foreign message hides an arrival and belongs to no call. *)
LEMMA TravelForeignPreserves ==
  ASSUME TravelInv, NEW k \in TripKeys, TravelForeignSet(k)
  PROVE  TravelInv'
<1> DEFINE new == Put(tripStates, k, Foreign)
<1>1. tripStates' = new /\ UNCHANGED <<now, travelOut, call, leg>>
  BY DEF TravelForeignSet
<1>2. IsStore(new, TripKeys, TravelStored)
  BY PutType DEF TravelInv, TravelTypeOK, TravelStored
<1>3. /\ DOMAIN new = DOMAIN tripStates \cup {k}
      /\ new[k] = [msg |-> Foreign, expiration |-> now + TTL]
      /\ \A j \in DOMAIN tripStates : j # k => new[j] = tripStates[j]
  BY DEF Put
<1> HIDE DEF new
<1>4. TravelTypeOK'
  BY <1>1, <1>2 DEF TravelInv, TravelTypeOK
<1>5. StoredArrivalIsLastCall'
  BY <1>1, <1>3 DEF TravelInv, StoredArrivalIsLastCall
<1>6. StoringInv'
  BY <1>1, <1>3 DEF TravelInv, StoringInv
<1> QED BY <1>1, <1>4, <1>5, <1>6
        DEF TravelInv, TravelJoinsConsecutiveCalls, TravelNotOverstated

(* When entries are lost and nothing else happens, the rest is as before. *)
LEMMA TravelFewerPreserves ==
  ASSUME TravelInv, now' \in Nat,
         DOMAIN tripStates' \subseteq DOMAIN tripStates,
         \A j \in DOMAIN tripStates' : tripStates'[j] = tripStates[j],
         UNCHANGED <<travelOut, call, leg>>
  PROVE  TravelInv'
<1>1. IsStore(tripStates', TripKeys, TravelStored)
  BY FewerType DEF TravelInv, TravelTypeOK
<1>2. TravelTypeOK'
  BY <1>1 DEF TravelInv, TravelTypeOK
<1>3. StoredArrivalIsLastCall'
  BY DEF TravelInv, StoredArrivalIsLastCall
<1>4. StoringInv'
  BY DEF TravelInv, StoringInv
<1> QED BY <1>2, <1>3, <1>4
        DEF TravelInv, TravelJoinsConsecutiveCalls, TravelNotOverstated

(* A crash before the Set puts the call before in place of the last one.    *)
LEMMA TravelRestartPreserves ==
  ASSUME TravelInv, TravelRestart
  PROVE  TravelInv'
<1>1. /\ DOMAIN tripStates' \subseteq DOMAIN tripStates
      /\ \A j \in DOMAIN tripStates' : tripStates'[j] = tripStates[j]
  BY ReopenedFacts DEF TravelRestart
<1>2. travelOut' = Nil /\ leg' = Nil /\ now' = now
  BY DEF TravelRestart
<1>3. IsStore(tripStates', TripKeys, TravelStored)
  BY <1>1, FewerType DEF TravelInv, TravelTypeOK
<1>4. call' \in [Runs -> Call \cup {Nil}] /\ StoredArrivalIsLastCall'
  <2>1. CASE travelOut = Nil
    <3>1. call' = call
      BY <2>1 DEF TravelRestart
    <3> QED BY <1>1, <1>2, <2>1, <3>1 DEF TravelInv, TravelTypeOK, StoredArrivalIsLastCall
  <2>2. CASE travelOut # Nil
    <3> DEFINE e == travelOut.event
    <3>1. call' = [call EXCEPT ![Run(e)] = leg]
      BY <2>2 DEF TravelRestart
    <3>2. e \in StopEvents /\ Run(e) \in Runs
      BY <2>2 DEF TravelInv, StoringInv, Arrivals, Runs
    <3>3. call \in [Runs -> Call \cup {Nil}] /\ leg \in Call \cup {Nil}
      BY DEF TravelInv, TravelTypeOK
    <3>4. call' \in [Runs -> Call \cup {Nil}]
      BY <3>1, <3>2, <3>3
    <3>5. StoredArrivalIsLastCall'
      <4> SUFFICES ASSUME ReliableSet, NEW f \in StopEvents,
                          TripKey(f) \in DOMAIN tripStates',
                          tripStates'[TripKey(f)].msg # Foreign
                   PROVE  OfCall(tripStates'[TripKey(f)].msg, call'[Run(f)])
        BY <1>2 DEF StoredArrivalIsLastCall, OfCall
      <4>1. /\ TripKey(f) \in DOMAIN tripStates
            /\ tripStates'[TripKey(f)] = tripStates[TripKey(f)]
        BY <1>1
      <4>2. CASE Run(f) = Run(e)
        <5>1. TripKey(f) = TripKey(e)
          BY <3>2, <4>2, TripKeyFacts
        <5>2. OfCall(tripStates[TripKey(f)].msg, leg)
          BY <2>2, <4>1, <5>1 DEF TravelInv, StoringInv
        <5>3. call'[Run(f)] = leg
          BY <3>1, <3>2, <3>3, <4>2
        <5> QED BY <4>1, <5>2, <5>3
      <4>3. CASE Run(f) # Run(e)
        <5>1. call'[Run(f)] = call[Run(f)]
          BY <3>1, <3>3, <4>3 DEF Runs
        <5>2. OfCall(tripStates[TripKey(f)].msg, call[Run(f)])
          BY <4>1, <4>3 DEF TravelInv, StoredArrivalIsLastCall, OfCall
        <5> QED BY <4>1, <5>1, <5>2
      <4> QED BY <4>2, <4>3
    <3> QED BY <3>4, <3>5
  <2> QED BY <2>1, <2>2
<1>5. TravelTypeOK'
  BY <1>2, <1>3, <1>4 DEF TravelInv, TravelTypeOK
<1> QED BY <1>2, <1>4, <1>5 DEF TravelInv, StoringInv, TravelJoinsConsecutiveCalls,
                                TravelNotOverstated

(* The invariant holds at the start, and every step keeps it. *)
LEMMA TravelInitInv == TravelInit => TravelInv
<1> SUFFICES ASSUME TravelInit PROVE TravelInv
  OBVIOUS
<1>1. DOMAIN tripStates = {}
  BY DEF TravelInit, EmptyStore
<1>2. TravelTypeOK
  BY <1>1 DEF TravelInit, TravelTypeOK, IsStore
<1> QED BY <1>1, <1>2 DEF TravelInit, TravelInv, StoredArrivalIsLastCall, StoringInv,
                          TravelJoinsConsecutiveCalls, TravelNotOverstated

LEMMA TravelNextInv == TravelInv /\ [TravelNext]_travelVars => TravelInv'
<1> SUFFICES ASSUME TravelInv, [TravelNext]_travelVars PROVE TravelInv'
  OBVIOUS
<1>0. now \in Nat
  BY DEF TravelInv, TravelTypeOK
<1>1. ASSUME NEW e \in StopEvents, TravelFirst(e) PROVE TravelInv'
  BY <1>1, StoresAtOncePreserves DEF TravelFirst
<1>2. ASSUME NEW e \in StopEvents, ReceiveRepeated(e) PROVE TravelInv'
  BY <1>2, RepeatedPreserves
<1>3. ASSUME NEW e \in StopEvents, ReceiveLate(e) PROVE TravelInv'
  BY <1>3, StoresAtOncePreserves DEF ReceiveLate
<1>4. ASSUME NEW e \in StopEvents, ReceiveTravel(e) PROVE TravelInv'
  BY <1>4, TravelPreserves
<1>5. ASSUME TravelSend PROVE TravelInv'
  BY <1>5, TravelSendPreserves
<1>6. ASSUME NEW k \in TripKeys, TravelForeignSet(k) PROVE TravelInv'
  BY <1>6, TravelForeignPreserves
<1>7. ASSUME TravelTick PROVE TravelInv'
  BY <1>0, <1>7, LapseFacts, TravelFewerPreserves DEF TravelTick
<1>8. ASSUME TravelRestart PROVE TravelInv'
  BY <1>8, TravelRestartPreserves
<1>9. ASSUME UNCHANGED travelVars PROVE TravelInv'
  BY <1>0, <1>9, TravelFewerPreserves DEF travelVars
<1> QED BY <1>1, <1>2, <1>3, <1>4, <1>5, <1>6, <1>7, <1>8, <1>9 DEF TravelNext

(* Every behaviour of the travel time processor keeps the invariant. *)
THEOREM TravelInvariant == TravelSpec => []TravelInv
  BY TravelInitInv, TravelNextInv, PTL DEF TravelSpec

(* A travel time joins two consecutive calls of its vehicle on its trip,    *)
(* for any lapses, repetitions and crashes.                                 *)
THEOREM TravelTimesJoinCalls == TravelSpec => []TravelJoinsConsecutiveCalls
<1>1. TravelInv => TravelJoinsConsecutiveCalls
  BY DEF TravelInv
<1> QED BY <1>1, TravelInvariant, PTL

(* What is stored on a trip is an arrival of the last call there. *)
THEOREM StoredCalls == TravelSpec => []StoredArrivalIsLastCall
<1>1. TravelInv => StoredArrivalIsLastCall
  BY DEF TravelInv
<1> QED BY <1>1, TravelInvariant, PTL

(* A travel time is positive and never overstated, for any faults of the    *)
(* store.                                                                   *)
THEOREM TravelBounded == TravelSpec => []TravelNotOverstated
<1>1. TravelInv => TravelNotOverstated
  BY DEF TravelInv
<1> QED BY <1>1, TravelInvariant, PTL

-----------------------------------------------------------------------------
(* Side by side both keep their types: departures here, arrivals there. *)
THEOREM LineTypeCorrect == LineSpec => []LineTypeOK
<1>1. LineInit => HeadwayInv /\ TravelInv
  BY HeadwayInitInv, TravelInitInv DEF LineInit
<1>2. HeadwayInv /\ TravelInv /\ [LineNext]_<<followed, headwayVars, travelVars>>
        => HeadwayInv' /\ TravelInv'
  <2> SUFFICES ASSUME HeadwayInv, TravelInv,
                      [LineNext]_<<followed, headwayVars, travelVars>>
               PROVE  HeadwayInv' /\ TravelInv'
    OBVIOUS
  <2>1. CASE HeadwayNext /\ UNCHANGED <<tripStates, travelOut, call, leg>>
    <3>1. HeadwayInv'
      BY <2>1, HeadwayNextInv
    <3>2. now' \in Nat
      BY <3>1 DEF HeadwayInv, HeadwayTypeOK
    <3> QED BY <2>1, <3>1, <3>2, TravelFewerPreserves
  <2>2. CASE TravelNext /\ UNCHANGED <<headwayStates, headwayOut, chain>>
    <3>1. TravelInv'
      BY <2>2, TravelNextInv
    <3>2. now' \in Nat
      BY <3>1 DEF TravelInv, TravelTypeOK
    <3> QED BY <2>2, <3>1, <3>2, HeadwayFewerPreserves
  <2>3. CASE UNCHANGED <<followed, headwayVars, travelVars>>
    BY <2>3, HeadwayNextInv, TravelNextInv
  <2> QED BY <2>1, <2>2, <2>3 DEF LineNext
<1>3. HeadwayInv /\ TravelInv => LineTypeOK
  BY DEF HeadwayInv, TravelInv, LineTypeOK
<1> QED BY <1>1, <1>2, <1>3, PTL DEF LineSpec
=============================================================================
