----------------------- MODULE DwellEventProcessorProofs -----------------------
(***************************************************************************)
(* Proofs about DwellEventProcessor: type correctness and the pairing of   *)
(* departures with the arrivals of the visits they end, for any stop       *)
(* events whose keys are unambiguous and any time to live.                 *)
(***************************************************************************)
EXTENDS DwellEventProcessor, ProcessorLemmas, TLAPS

(* The dwell events for two stop events are well formed and not overstated. *)
LEMMA DwellTimesFacts ==
  ASSUME NEW a \in StopEvents, NEW e \in StopEvents, NEW d \in DwellTimes(a, e), d # Nil
  PROVE  /\ d \in DwellTimeEvent
         /\ d.event = e /\ d.arrival = a.timestamp
         /\ 0 <= d.seconds /\ d.seconds <= d.event.timestamp - d.arrival
<1>1. a.timestamp \in Nat /\ e.timestamp \in Nat
  BY StreamAssumption DEF StopEvent
<1> DEFINE diff == e.timestamp - a.timestamp
<1>2. diff \in Int
  BY <1>1
<1>3. PICK s \in Seconds(diff) :
        d = IF s < 0 THEN Nil
            ELSE [event |-> e, arrival |-> a.timestamp, seconds |-> s]
  BY DEF DwellTimes
<1> HIDE DEF diff
<1>4. s \in Int
  BY <1>2, SecondsType
<1>5. ~(s < 0) /\ d = [event |-> e, arrival |-> a.timestamp, seconds |-> s]
  BY <1>3
<1>6. s >= 0
  BY <1>4, <1>5
<1>7. s <= diff
  BY <1>2, <1>6, SecondsFacts
<1> QED BY <1>1, <1>4, <1>5, <1>6, <1>7 DEF DwellTimeEvent, diff

-----------------------------------------------------------------------------
(* Arrivals were processed in the past. *)
VisitsArePast == \A w \in Visitors : visit[w] # Nil => visit[w].at <= now

(* An arrival is stored under its own key. *)
StoredUnderOwnKey ==
  \A e \in StopEvents :
    LET k == DwellStopKey(e)
    IN k \in DOMAIN dwellStates /\ dwellStates[k].msg # Foreign =>
         Visitor(dwellStates[k].msg) = Visitor(e)

(* The inductive invariant. *)
DwellInv ==
  /\ DwellTypeOK
  /\ VisitsArePast
  /\ StoredUnderOwnKey
  /\ StoredArrivalIsOpen
  /\ DwellPairsOpenVisit
  /\ DwellIsFresh
  /\ DwellNotOverstated

(* An arrival replaces the stored one and opens the visit anew. *)
LEMMA ArrivalPreserves ==
  ASSUME DwellInv, NEW e \in StopEvents, ReceiveArrival(e)
  PROVE  DwellInv'
<1> DEFINE k == DwellStopKey(e)
           w == Visitor(e)
<1>1. k \in DwellKeys /\ w \in Visitors
  BY DEF DwellKeys, Visitors
<1>2. PICK set \in Set(dwellStates, k, e) : dwellStates' = set.store
  BY DEF ReceiveArrival
<1>3. /\ visit' = [visit EXCEPT ![w] = [event |-> e, at |-> now]]
      /\ now' = now /\ dwellOut' = dwellOut /\ closed' = closed
      /\ dwellOut = Nil
  BY DEF ReceiveArrival
<1>4. \/ dwellStates' = Put(dwellStates, k, e)
      \/ dwellStates' = dwellStates /\ ~Reliable
  BY <1>2, SetFacts DEF Reliable
<1> DEFINE new == Put(dwellStates, k, e)
<1>5. /\ DOMAIN new = DOMAIN dwellStates \cup {k}
      /\ new[k] = [msg |-> e, expiration |-> now + TTL]
      /\ \A j \in DOMAIN dwellStates : j # k => new[j] = dwellStates[j]
  BY DEF Put
<1> HIDE DEF new
<1>6. now \in Nat /\ TTL \in Nat
  BY StoreAssumption DEF DwellInv, DwellTypeOK
<1>7. DwellTypeOK'
  <2>1. IsStore(dwellStates, DwellKeys, Stored)'
    <3>1. IsStore(new, DwellKeys, Stored)
      <4>1. e \in Stored
        BY DEF ReceiveArrival, Stored
      <4> QED BY <1>1, <1>5, <1>6, <4>1 DEF DwellInv, DwellTypeOK, IsStore, Entry
    <3> QED BY <1>4, <3>1 DEF DwellInv, DwellTypeOK, new, IsStore, Stored
  <2>2. visit' \in [Visitors -> Arrival \cup {Nil}]
    BY <1>1, <1>3, <1>6 DEF DwellInv, DwellTypeOK, Arrival
  <2> QED BY <1>3, <2>1, <2>2 DEF DwellInv, DwellTypeOK, Stored
<1>8. StoredArrivalIsOpen'
  <2> SUFFICES ASSUME Reliable, NEW f \in StopEvents,
                      DwellStopKey(f) \in DOMAIN dwellStates',
                      dwellStates'[DwellStopKey(f)].msg # Foreign
               PROVE  /\ visit'[Visitor(f)] # Nil
                      /\ visit'[Visitor(f)].event = dwellStates'[DwellStopKey(f)].msg
                      /\ visit'[Visitor(f)].at + TTL
                           = dwellStates'[DwellStopKey(f)].expiration
                      /\ now' <= dwellStates'[DwellStopKey(f)].expiration
    BY DEF StoredArrivalIsOpen
  <2>1. dwellStates' = new
    BY <1>4 DEF new
  <2>2. CASE DwellStopKey(f) = k
    <3>1. Visitor(f) = w
      BY <2>2, DwellKeyAssumption
    <3>2. visit'[w] = [event |-> e, at |-> now] /\ visit'[w] # Nil
      <4>1. [event |-> e, at |-> now] \in Arrival
        BY <1>6 DEF Arrival
      <4> QED BY <1>1, <1>3, <4>1, DwellNilAssumption DEF DwellInv, DwellTypeOK
    <3> QED BY <1>3, <1>5, <1>6, <2>1, <2>2, <3>1, <3>2
  <2>3. CASE DwellStopKey(f) # k
    <3>1. Visitor(f) # w
      BY <2>3 DEF Visitor, DwellStopKey
    <3>2. visit'[Visitor(f)] = visit[Visitor(f)]
      BY <1>3, <3>1 DEF DwellInv, DwellTypeOK, Visitors
    <3>3. /\ DwellStopKey(f) \in DOMAIN dwellStates
          /\ dwellStates'[DwellStopKey(f)] = dwellStates[DwellStopKey(f)]
      BY <1>5, <2>1, <2>3
    <3> QED BY <1>3, <3>2, <3>3 DEF DwellInv, StoredArrivalIsOpen
  <2> QED BY <2>2, <2>3
<1>9. VisitsArePast'
  <2> SUFFICES ASSUME NEW u \in Visitors, visit'[u] # Nil PROVE visit'[u].at <= now'
    BY DEF VisitsArePast
  <2>1. CASE u = w
    BY <1>1, <1>3, <1>6, <2>1 DEF DwellInv, DwellTypeOK
  <2>2. CASE u # w
    BY <1>1, <1>3, <2>2 DEF DwellInv, DwellTypeOK, VisitsArePast
  <2> QED BY <2>1, <2>2
<1>10. StoredUnderOwnKey'
  <2> SUFFICES ASSUME NEW f \in StopEvents,
                      DwellStopKey(f) \in DOMAIN dwellStates',
                      dwellStates'[DwellStopKey(f)].msg # Foreign
               PROVE  Visitor(dwellStates'[DwellStopKey(f)].msg) = Visitor(f)
    BY DEF StoredUnderOwnKey
  <2>1. CASE dwellStates' = dwellStates
    BY <2>1 DEF DwellInv, StoredUnderOwnKey
  <2>2. CASE dwellStates' = new /\ DwellStopKey(f) # k
    BY <1>5, <2>2 DEF DwellInv, StoredUnderOwnKey
  <2>3. CASE dwellStates' = new /\ DwellStopKey(f) = k
    BY <1>5, <2>3, DwellKeyAssumption
  <2> QED BY <1>4, <2>1, <2>2, <2>3 DEF new
<1> QED
  BY <1>3, <1>7, <1>8, <1>9, <1>10
     DEF DwellInv, DwellPairsOpenVisit, DwellIsFresh, DwellNotOverstated

(* A departure ends the visit; the dwell event it gives is about that visit. *)
LEMMA DeparturePreserves ==
  ASSUME DwellInv, NEW e \in StopEvents, ReceiveDeparture(e)
  PROVE  DwellInv'
<1> DEFINE k == DwellStopKey(e)
           w == Visitor(e)
           a == dwellStates[k].msg
           open == visit[w]
<1>1. k \in DwellKeys /\ w \in Visitors
  BY DEF DwellKeys, Visitors
<1>2. PICK found \in Get(dwellStates, k) :
        \/ /\ found
           /\ dwellStates' \in Delete(dwellStates, k)
           /\ IF a = Foreign THEN dwellOut' = Nil ELSE dwellOut' \in DwellTimes(a, e)
        \/ /\ ~found
           /\ UNCHANGED <<dwellStates, dwellOut>>
  BY DEF ReceiveDeparture
<1>3. /\ dwellOut = Nil /\ now' = now
      /\ closed' = IF open = Nil THEN Nil
                    ELSE [event |-> open.event, age |-> now - open.at]
      /\ visit' = [visit EXCEPT ![w] = Nil]
  BY DEF ReceiveDeparture, EndVisit
<1>4. /\ found \in BOOLEAN /\ (found => k \in DOMAIN dwellStates)
      /\ Reliable => (found <=> k \in DOMAIN dwellStates)
  BY GetFacts DEF Reliable
<1>5. /\ DOMAIN dwellStates' \subseteq DOMAIN dwellStates
      /\ \A j \in DOMAIN dwellStates' : dwellStates'[j] = dwellStates[j]
      /\ Reliable => k \notin DOMAIN dwellStates'
  <2>1. CASE found
    <3>1. dwellStates' \in Delete(dwellStates, k)
      BY <1>2, <2>1
    <3> DEFINE left == Restrict(dwellStates, DOMAIN dwellStates \ {k})
    <3>2. \/ dwellStates' = left
          \/ dwellStates' = dwellStates /\ ~Reliable
      BY <3>1 DEF Delete, Reliable
    <3>3. /\ DOMAIN left = DOMAIN dwellStates \ {k}
          /\ \A j \in DOMAIN left : left[j] = dwellStates[j]
      BY DEF Restrict
    <3> HIDE DEF left
    <3> QED BY <3>2, <3>3
  <2>2. CASE ~found
    BY <1>2, <1>4, <2>2
  <2> QED BY <1>4, <2>1, <2>2
<1>6. now \in Nat /\ TTL \in Nat
  BY StoreAssumption DEF DwellInv, DwellTypeOK
<1>7. dwellOut' # Nil =>
        /\ found /\ a \in StopEvents /\ a # Foreign
        /\ dwellOut' \in DwellTimeEvent
        /\ dwellOut'.event = e /\ dwellOut'.arrival = a.timestamp
        /\ 0 <= dwellOut'.seconds
        /\ dwellOut'.seconds <= dwellOut'.event.timestamp - dwellOut'.arrival
  <2> SUFFICES ASSUME dwellOut' # Nil
               PROVE  /\ found /\ a \in StopEvents /\ a # Foreign
                      /\ dwellOut' \in DwellTimeEvent
                      /\ dwellOut'.event = e /\ dwellOut'.arrival = a.timestamp
                      /\ 0 <= dwellOut'.seconds
                      /\ dwellOut'.seconds <= dwellOut'.event.timestamp - dwellOut'.arrival
    OBVIOUS
  <2>1. found /\ a # Foreign /\ dwellOut' \in DwellTimes(a, e)
    BY <1>2, <1>3
  <2>2. a \in StopEvents
    BY <1>4, <2>1 DEF DwellInv, DwellTypeOK, IsStore, Entry, Stored
  <2> QED BY <2>1, <2>2, DwellTimesFacts
<1>8. Reliable /\ dwellOut' # Nil =>
        /\ open # Nil /\ open.event = a
        /\ open.at + TTL = dwellStates[k].expiration
        /\ now <= dwellStates[k].expiration
  BY <1>4, <1>7 DEF DwellInv, StoredArrivalIsOpen
<1>9. DwellTypeOK'
  <2>1. IsStore(dwellStates, DwellKeys, Stored)'
    BY <1>5 DEF DwellInv, DwellTypeOK, IsStore, Stored
  <2>2. visit' \in [Visitors -> Arrival \cup {Nil}]
    BY <1>3 DEF DwellInv, DwellTypeOK
  <2>3. closed' \in ClosedVisit \cup {Nil}
    <3>1. open \in Arrival \cup {Nil}
      BY <1>1 DEF DwellInv, DwellTypeOK
    <3>2. open # Nil => open.at <= now
      BY <1>1, <3>1 DEF DwellInv, VisitsArePast
    <3> QED BY <1>3, <1>6, <3>1, <3>2 DEF Arrival, ClosedVisit
  <2>4. dwellOut' \in DwellTimeEvent \cup {Nil}
    BY <1>7
  <2> QED BY <1>3, <1>6, <2>1, <2>2, <2>3, <2>4 DEF DwellTypeOK, Stored
<1>10. StoredArrivalIsOpen'
  <2> SUFFICES ASSUME Reliable, NEW f \in StopEvents,
                      DwellStopKey(f) \in DOMAIN dwellStates',
                      dwellStates'[DwellStopKey(f)].msg # Foreign
               PROVE  /\ visit'[Visitor(f)] # Nil
                      /\ visit'[Visitor(f)].event = dwellStates'[DwellStopKey(f)].msg
                      /\ visit'[Visitor(f)].at + TTL
                           = dwellStates'[DwellStopKey(f)].expiration
                      /\ now' <= dwellStates'[DwellStopKey(f)].expiration
    BY DEF StoredArrivalIsOpen
  <2>1. DwellStopKey(f) # k
    BY <1>5
  <2>2. Visitor(f) # w
    BY <2>1 DEF Visitor, DwellStopKey
  <2>3. visit'[Visitor(f)] = visit[Visitor(f)]
    BY <1>3, <2>2 DEF DwellInv, DwellTypeOK, Visitors
  <2> QED BY <1>3, <1>5, <2>3 DEF DwellInv, StoredArrivalIsOpen
<1>11. Reliable /\ dwellOut' # Nil =>
         /\ closed' # Nil /\ closed'.event = a /\ closed'.age <= TTL
  <2> SUFFICES ASSUME Reliable, dwellOut' # Nil
               PROVE  closed' # Nil /\ closed'.event = a /\ closed'.age <= TTL
    OBVIOUS
  <2>1. closed' = [event |-> a, age |-> now - open.at]
    BY <1>3, <1>8
  <2>2. open \in Arrival
    BY <1>1, <1>8 DEF DwellInv, DwellTypeOK
  <2>3. now - open.at <= TTL
    BY <1>6, <1>8, <2>2 DEF Arrival
  <2>4. closed' # Nil
    <3>1. open.at <= now
      BY <1>1, <1>8 DEF DwellInv, VisitsArePast
    <3>2. closed' \in ClosedVisit
      BY <1>6, <1>7, <2>1, <2>2, <3>1 DEF ClosedVisit, Arrival
    <3> QED BY <3>2, DwellNilAssumption
  <2> QED BY <2>1, <2>3, <2>4
<1>12. Reliable /\ dwellOut' # Nil => Visitor(a) = w
  <2> SUFFICES ASSUME Reliable, dwellOut' # Nil PROVE Visitor(a) = w
    OBVIOUS
  <2> QED BY <1>4, <1>7 DEF DwellInv, StoredUnderOwnKey
<1>13. VisitsArePast'
  BY <1>1, <1>3 DEF DwellInv, VisitsArePast, DwellTypeOK
<1>14. StoredUnderOwnKey'
  BY <1>5 DEF DwellInv, StoredUnderOwnKey
<1> QED
  BY <1>7, <1>9, <1>10, <1>11, <1>12, <1>13, <1>14
     DEF DwellInv, DwellPairsOpenVisit, DwellIsFresh, DwellNotOverstated

(* A foreign message hides an arrival and counts for none. *)
LEMMA ForeignPreserves ==
  ASSUME DwellInv, NEW k \in DwellKeys, DwellForeignSet(k)
  PROVE  DwellInv'
<1> DEFINE new == Put(dwellStates, k, Foreign)
<1>1. /\ DOMAIN new = DOMAIN dwellStates \cup {k}
      /\ new[k] = [msg |-> Foreign, expiration |-> now + TTL]
      /\ \A j \in DOMAIN dwellStates : j # k => new[j] = dwellStates[j]
  BY DEF Put
<1>2. dwellStates' = new /\ UNCHANGED <<now, dwellOut, visit, closed>>
  BY DEF DwellForeignSet
<1> HIDE DEF new
<1>3. now + TTL \in Nat
  BY StoreAssumption DEF DwellInv, DwellTypeOK
<1>4. DwellTypeOK'
  BY <1>1, <1>2, <1>3 DEF DwellInv, DwellTypeOK, IsStore, Entry, Stored
<1>5. StoredArrivalIsOpen'
  BY <1>1, <1>2 DEF DwellInv, StoredArrivalIsOpen
<1>6. StoredUnderOwnKey'
  BY <1>1, <1>2 DEF DwellInv, StoredUnderOwnKey
<1>7. VisitsArePast'
  BY <1>2 DEF DwellInv, VisitsArePast
<1> QED
  BY <1>2, <1>4, <1>5, <1>6, <1>7
     DEF DwellInv, DwellPairsOpenVisit, DwellIsFresh, DwellNotOverstated

(* As time passes, entries lapse and the others stay fresh. *)
LEMMA TickPreserves ==
  ASSUME DwellInv, DwellTick
  PROVE  DwellInv'
<1> DEFINE left == Lapse(dwellStates)
<1>1. /\ DOMAIN left \subseteq DOMAIN dwellStates
      /\ \A j \in DOMAIN left : /\ left[j] = dwellStates[j]
                                 /\ left[j].expiration >= now + 1
  BY DEF Lapse, Restrict
<1>2. dwellStates' = left /\ now' = now + 1 /\ UNCHANGED <<dwellOut, visit, closed>>
  BY DEF DwellTick
<1> HIDE DEF left
<1>3. now \in Nat
  BY DEF DwellInv, DwellTypeOK
<1>4. DwellTypeOK'
  <2>1. IsStore(dwellStates, DwellKeys, Stored)'
    BY <1>1, <1>2 DEF DwellInv, DwellTypeOK, IsStore, Stored
  <2>2. now' \in Nat
    BY <1>2, <1>3
  <2> QED BY <1>2, <2>1, <2>2 DEF DwellInv, DwellTypeOK, Stored
<1>5. \A j \in DOMAIN left : now + 1 <= left[j].expiration
  <2>1. \A j \in DOMAIN left : left[j].expiration \in Nat
    BY <1>1 DEF DwellInv, DwellTypeOK, IsStore, Entry
  <2> QED BY <1>1, <1>3, <2>1
<1>6. StoredArrivalIsOpen'
  BY <1>1, <1>2, <1>5 DEF DwellInv, StoredArrivalIsOpen
<1>7. StoredUnderOwnKey'
  BY <1>1, <1>2 DEF DwellInv, StoredUnderOwnKey
<1>8. VisitsArePast'
  BY <1>2, <1>3 DEF DwellInv, VisitsArePast, DwellTypeOK, Arrival
<1> QED
  BY <1>2, <1>4, <1>6, <1>7, <1>8
     DEF DwellInv, DwellPairsOpenVisit, DwellIsFresh, DwellNotOverstated

(* What a restart leaves in the store is still of open visits. *)
LEMMA DwellRestartPreserves ==
  ASSUME DwellInv, DwellRestart
  PROVE  DwellInv'
<1>1. /\ DOMAIN dwellStates' \subseteq DOMAIN dwellStates
      /\ \A j \in DOMAIN dwellStates' : dwellStates'[j] = dwellStates[j]
  BY ReopenedFacts DEF DwellRestart
<1>2. dwellOut' = Nil /\ closed' = Nil /\ UNCHANGED <<now, visit>>
  BY DEF DwellRestart
<1>3. DwellTypeOK'
  BY <1>1, <1>2 DEF DwellInv, DwellTypeOK, IsStore
<1>4. StoredArrivalIsOpen'
  BY <1>1, <1>2 DEF DwellInv, StoredArrivalIsOpen
<1>5. StoredUnderOwnKey'
  BY <1>1 DEF DwellInv, StoredUnderOwnKey
<1>6. VisitsArePast'
  BY <1>2 DEF DwellInv, VisitsArePast
<1> QED
  BY <1>2, <1>3, <1>4, <1>5, <1>6
     DEF DwellInv, DwellPairsOpenVisit, DwellIsFresh, DwellNotOverstated

(* Every behaviour keeps the inductive invariant. *)
THEOREM DwellInvariant == DwellSpec => []DwellInv
<1>1. DwellInit => DwellInv
  <2> SUFFICES ASSUME DwellInit PROVE DwellInv
    OBVIOUS
  <2>1. DOMAIN dwellStates = {}
    BY DEF DwellInit, EmptyStore
  <2>2. DwellTypeOK
    BY <2>1 DEF DwellInit, DwellTypeOK, IsStore
  <2> QED
    BY <2>1, <2>2
       DEF DwellInit, DwellInv, StoredArrivalIsOpen, DwellPairsOpenVisit,
           DwellIsFresh, DwellNotOverstated, VisitsArePast, StoredUnderOwnKey
<1>2. DwellInv /\ [DwellNext]_dwellVars => DwellInv'
  <2> SUFFICES ASSUME DwellInv, [DwellNext]_dwellVars PROVE DwellInv'
    OBVIOUS
  <2>1. ASSUME NEW e \in StopEvents, ReceiveArrival(e) PROVE DwellInv'
    BY <2>1, ArrivalPreserves
  <2>2. ASSUME NEW e \in StopEvents, ReceiveDeparture(e) PROVE DwellInv'
    BY <2>2, DeparturePreserves
  <2>3. ASSUME DwellSend PROVE DwellInv'
    BY <2>3 DEF DwellSend, DwellInv, DwellTypeOK, IsStore, StoredArrivalIsOpen,
                DwellPairsOpenVisit, DwellIsFresh, DwellNotOverstated,
                VisitsArePast, StoredUnderOwnKey
  <2>4. ASSUME NEW k \in DwellKeys, DwellForeignSet(k) PROVE DwellInv'
    BY <2>4, ForeignPreserves
  <2>5. ASSUME DwellTick PROVE DwellInv'
    BY <2>5, TickPreserves
  <2>6. ASSUME DwellRestart PROVE DwellInv'
    BY <2>6, DwellRestartPreserves
  <2>7. ASSUME UNCHANGED dwellVars PROVE DwellInv'
    BY <2>7 DEF dwellVars, DwellInv, DwellTypeOK, IsStore, StoredArrivalIsOpen,
                DwellPairsOpenVisit, DwellIsFresh, DwellNotOverstated,
                VisitsArePast, StoredUnderOwnKey
  <2> QED BY <2>1, <2>2, <2>3, <2>4, <2>5, <2>6, <2>7 DEF DwellNext
<1> QED BY <1>1, <1>2, PTL DEF DwellSpec

(* Every dwell time sent is about the visit that the departure ends, from   *)
(* its latest arrival, no older than the time to live.                      *)
THEOREM DwellPairing == DwellSpec => [](DwellPairsOpenVisit /\ DwellIsFresh)
<1>1. DwellInv => DwellPairsOpenVisit /\ DwellIsFresh
  BY DEF DwellInv
<1> QED BY <1>1, DwellInvariant, PTL

(* No dwell time is computed from an arrival older than the time to live. *)
THEOREM DwellFreshness == DwellSpec => []DwellIsFresh
  BY DwellPairing, PTL

(* What is stored under a key is the arrival of the visit open there. *)
THEOREM StoredArrivals == DwellSpec => []StoredArrivalIsOpen
<1>1. DwellInv => StoredArrivalIsOpen
  BY DEF DwellInv
<1> QED BY <1>1, DwellInvariant, PTL

(* A dwell time is never negative and never overstated, for any timestamps  *)
(* and any faults of the store.                                             *)
THEOREM DwellBounded == DwellSpec => []DwellNotOverstated
<1>1. DwellInv => DwellNotOverstated
  BY DEF DwellInv
<1> QED BY <1>1, DwellInvariant, PTL

(* Every step keeps every variable in its type. *)
THEOREM DwellTypeCorrect == DwellSpec => []DwellTypeOK
<1>1. DwellInv => DwellTypeOK
  BY DEF DwellInv
<1> QED BY <1>1, DwellInvariant, PTL
=============================================================================
