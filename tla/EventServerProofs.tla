--------------------------- MODULE EventServerProofs ---------------------------
(***************************************************************************)
(* Proofs about EventServer: type correctness, the safety of sends and the *)
(* deliveries, for any number of subscribers, any capacity and any         *)
(* subscriptions, also while the SSE sink around it starts and shuts down. *)
(***************************************************************************)
EXTENDS SSESink, SequenceTheorems, TLAPS

(* A handler is in the map from its Subscribe to its Unsubscribe, and its   *)
(* channel is closed from then on.                                          *)
MapMatchesHandlers ==
  /\ \A h \in clients : handler[h] \in {"serving", "writing", "unsubscribing"}
  /\ \A h \in closed : handler[h] = "returned"

(* There is something left to visit only while the read lock is held, which *)
(* keeps the map as it was when the loop began.                             *)
LoopInv == /\ todo \subseteq clients
           /\ todo # {} => phase = "sending"

(* The event is one that was broadcast unless none has been yet. *)
EventInv == /\ event.n \in 0..MaxEvents
            /\ phase # "idle" => event \in Event

(* The inductive invariant. *)
ServerInv == /\ TypeOK
             /\ MapMatchesHandlers
             /\ LoopInv
             /\ EventInv

(* Appending an event that fits keeps a channel a channel. *)
LEMMA ChannelAppend ==
  ASSUME NEW c \in [Handler -> Seq(Event)], NEW h \in Handler, NEW e \in Event
  PROVE  [c EXCEPT ![h] = Append(@, e)] \in [Handler -> Seq(Event)]
  OBVIOUS

(* Every step keeps the types. *)
LEMMA NextType ==
  ASSUME ServerInv, [Next]_vars
  PROVE  TypeOK'
<1> USE ServerAssumption
<1> USE DEF ServerInv, TypeOK, handlerVars, broadcastVars
<1>1. ASSUME NEW h \in Handler,
             Connect(h) \/ Subscribe(h) \/ Disconnect(h) \/ Notice(h) \/ Written(h)
      PROVE  TypeOK'
  BY <1>1 DEF Connect, Subscribe, Disconnect, Notice, Written
<1>2. ASSUME NEW h \in Handler, Take(h) PROVE TypeOK'
  <2>1. channel[h] \in Seq(Event) /\ channel[h] # <<>> /\ written[h] \in Seq(Event)
    BY <1>2 DEF Take
  <2>2. Head(channel[h]) \in Event /\ Tail(channel[h]) \in Seq(Event)
    BY <2>1, HeadTailProperties
  <2>3. Len(Tail(channel[h])) <= Capacity
    BY <2>1, HeadTailProperties, LenProperties
  <2>4. channel' \in [Handler -> Seq(Event)]
    BY <1>2, <2>2 DEF Take
  <2>5. written' \in [Handler -> Seq(Event)]
    BY <1>2, <2>1, <2>2 DEF Take
  <2>6. \A g \in Handler : Len(channel'[g]) <= Capacity
    BY <1>2, <2>3 DEF Take
  <2>7. handler' \in [Handler -> {"new", "subscribing", "serving", "writing",
                                  "unsubscribing", "returned"}]
    BY <1>2 DEF Take
  <2> QED BY <1>2, <2>4, <2>5, <2>6, <2>7 DEF Take
<1>3. ASSUME NEW h \in Handler, Unsubscribe(h) PROVE TypeOK'
  BY <1>3 DEF Unsubscribe
<1>4. ASSUME NEW h \in Handler, Visit(h) PROVE TypeOK'
  <2>1. event \in Event
    BY <1>4 DEF Visit, EventInv
  <2>2. channel' \in [Handler -> Seq(Event)]
    <3>1. [channel EXCEPT ![h] = Append(@, event)] \in [Handler -> Seq(Event)]
      BY <2>1, ChannelAppend
    <3> QED BY <1>4, <3>1 DEF Visit
  <2>3. \A g \in Handler : Len(channel'[g]) <= Capacity
    <3>1. CASE channel' = channel
      BY <3>1
    <3>2. CASE /\ Len(channel[h]) < Capacity
               /\ channel' = [channel EXCEPT ![h] = Append(@, event)]
      <4>1. Len(Append(channel[h], event)) = Len(channel[h]) + 1
        BY <2>1, AppendProperties
      <4>2. Len(channel[h]) \in Nat
        BY LenProperties
      <4> QED BY <3>2, <4>1, <4>2
    <3> QED BY <1>4, <3>1, <3>2 DEF Visit
  <2>4. dropped' \in [Handler -> SUBSET Event]
    BY <1>4, <2>1 DEF Visit
  <2> QED BY <1>4, <2>2, <2>3, <2>4 DEF Visit
<1>5. ASSUME NEW attrs \in Attributes, Broadcast(attrs) PROVE TypeOK'
  <2>1. event' \in Event
    BY <1>5 DEF Broadcast, Event, EventInv
  <2> QED BY <1>5, <2>1 DEF Broadcast
<1>6. ASSUME RLock PROVE TypeOK'
  <2>1. event \in Event
    BY <1>6 DEF RLock, EventInv
  <2> QED BY <1>6, <2>1 DEF RLock
<1>7. ASSUME Return PROVE TypeOK'
  BY <1>7 DEF Return
<1>8. ASSUME UNCHANGED vars PROVE TypeOK'
  BY <1>8 DEF vars
<1> QED BY <1>1, <1>2, <1>3, <1>4, <1>5, <1>6, <1>7, <1>8 DEF Next

(* Every step keeps the map in step with the handlers: it changes only when *)
(* no broadcast is under way.                                               *)
LEMMA NextMap ==
  ASSUME ServerInv, [Next]_vars
  PROVE  MapMatchesHandlers' /\ LoopInv' /\ EventInv'
<1> USE ServerAssumption
<1> USE DEF ServerInv, TypeOK, handlerVars, broadcastVars, MapMatchesHandlers,
            LoopInv, EventInv, NoReader
<1> DEFINE Goal == MapMatchesHandlers' /\ LoopInv' /\ EventInv'
<1>1. ASSUME NEW h \in Handler, Connect(h) \/ Notice(h) \/ Written(h) PROVE Goal
  BY <1>1 DEF Connect, Notice, Written
<1>2. ASSUME NEW h \in Handler, Subscribe(h) PROVE Goal
  BY <1>2 DEF Subscribe
<1>3. ASSUME NEW h \in Handler, Disconnect(h) PROVE Goal
  BY <1>3 DEF Disconnect
<1>4. ASSUME NEW h \in Handler, Take(h) PROVE Goal
  BY <1>4 DEF Take
<1>5. ASSUME NEW h \in Handler, Unsubscribe(h) PROVE Goal
  BY <1>5 DEF Unsubscribe
<1>6. ASSUME NEW h \in Handler, Visit(h) PROVE Goal
  BY <1>6 DEF Visit
<1>7. ASSUME NEW attrs \in Attributes, Broadcast(attrs) PROVE Goal
  BY <1>7 DEF Broadcast, Event
<1>8. ASSUME RLock PROVE Goal
  BY <1>8 DEF RLock
<1>9. ASSUME Return PROVE Goal
  BY <1>9 DEF Return
<1>10. ASSUME UNCHANGED vars PROVE Goal
  BY <1>10 DEF vars
<1> QED
  BY <1>1, <1>2, <1>3, <1>4, <1>5, <1>6, <1>7, <1>8, <1>9, <1>10 DEF Next

(* Every behaviour keeps the inductive invariant. *)
THEOREM ServerInvariant == Spec => []ServerInv
<1>1. Init => ServerInv
  BY ServerAssumption
     DEF Init, ServerInv, TypeOK, MapMatchesHandlers, LoopInv, EventInv, NoEvent
<1>2. ServerInv /\ [Next]_vars => ServerInv'
  BY NextType, NextMap DEF ServerInv
<1> QED BY <1>1, <1>2, PTL DEF Spec

(* Every step keeps every variable in its type; no channel holds more than  *)
(* its capacity.                                                            *)
THEOREM TypeCorrect == Spec => []TypeOK
<1>1. ServerInv => TypeOK
  BY DEF ServerInv
<1> QED BY <1>1, ServerInvariant, PTL

(* A broadcast never sends to a closed channel, however many subscribers    *)
(* come and go.                                                             *)
THEOREM NoSendPanics == Spec => []SendsAreSafe
<1>1. ServerInv => SendsAreSafe
  BY DEF ServerInv, SendsAreSafe, MapMatchesHandlers, LoopInv
<1> QED BY <1>1, ServerInvariant, PTL

-----------------------------------------------------------------------------
(* The events that a handler is owed are numbered up to the current one,    *)
(* which is among them exactly when it was subscribed as the loop began.    *)
OwedInv ==
  \A h \in Handler :
    /\ \A e \in owed[h] : /\ e = event \/ e.n < event.n
                          /\ phase = "waiting" => e.n < event.n
    /\ h \in todo => event \in owed[h]

(* Delivery for one handler, given what it has in hand. *)
Pending(h) == IF h \in todo THEN {event} ELSE {}

Due(h) == {e \in owed[h] : Match(h, e)}

InOrder(s) == \A i, j \in 1..Len(s) : i < j => s[i].n < s[j].n

Delivered(h) ==
  /\ InOrder(Given(h))
  /\ Range(Given(h)) \cap dropped[h] = {}
  /\ Range(Given(h)) \cup dropped[h] = Due(h) \ Pending(h)

(* Moving the head of a channel to what was written changes nothing. *)
LEMMA TakeKeepsGiven ==
  ASSUME NEW w \in Seq(Event), NEW c \in Seq(Event), c # <<>>
  PROVE  Append(w, Head(c)) \o Tail(c) = w \o c
  OBVIOUS

(* Appending to a channel appends to what is given. *)
LEMMA AppendGiven ==
  ASSUME NEW w \in Seq(Event), NEW c \in Seq(Event), NEW e \in Event
  PROVE  w \o Append(c, e) = Append(w \o c, e)
  OBVIOUS

(* An event that comes after all others extends an ordered sequence. *)
LEMMA AppendInOrder ==
  ASSUME NEW s \in Seq(Event), NEW e \in Event, InOrder(s),
         \A x \in Range(s) : x.n < e.n
  PROVE  /\ InOrder(Append(s, e))
         /\ Range(Append(s, e)) = Range(s) \cup {e}
<1> DEFINE t == Append(s, e)
<1>1. /\ Len(t) = Len(s) + 1 /\ Len(s) \in Nat
      /\ \A i \in 1..Len(s) : t[i] = s[i]
      /\ t[Len(t)] = e
      /\ DOMAIN t = 1..Len(t) /\ DOMAIN s = 1..Len(s)
  BY AppendProperties, LenProperties
<1> HIDE DEF t
<1>2. \A i \in 1..Len(s) : s[i].n < e.n
  BY <1>1 DEF Range
<1>3. InOrder(t)
  <2> SUFFICES ASSUME NEW i \in 1..Len(t), NEW j \in 1..Len(t), i < j
               PROVE  t[i].n < t[j].n
    BY DEF InOrder
  <2>1. i \in 1..Len(s)
    BY <1>1
  <2>2. CASE j \in 1..Len(s)
    BY <1>1, <2>1, <2>2 DEF InOrder
  <2>3. CASE j = Len(t)
    BY <1>1, <1>2, <2>1, <2>3
  <2> QED BY <1>1, <2>2, <2>3
<1>4. Range(t) = Range(s) \cup {e}
  <2>1. ASSUME NEW x \in Range(t) PROVE x \in Range(s) \cup {e}
    BY <1>1 DEF Range
  <2>2. ASSUME NEW x \in Range(s) PROVE x \in Range(t)
    BY <1>1 DEF Range
  <2>3. e \in Range(t)
    BY <1>1 DEF Range
  <2> QED BY <2>1, <2>2, <2>3
<1> QED BY <1>3, <1>4 DEF t

(* A step keeps the numbering of what is owed. *)
LEMMA NextOwed ==
  ASSUME ServerInv, OwedInv, [Next]_vars
  PROVE  OwedInv'
<1> USE DEF OwedInv, handlerVars, broadcastVars
<1>1. ASSUME NEW h \in Handler,
             \/ Connect(h) \/ Subscribe(h) \/ Disconnect(h) \/ Notice(h)
             \/ Take(h) \/ Written(h) \/ Unsubscribe(h)
      PROVE  OwedInv'
  BY <1>1 DEF Connect, Subscribe, Disconnect, Notice, Take, Written, Unsubscribe
<1>2. ASSUME NEW h \in Handler, Visit(h) PROVE OwedInv'
  BY <1>2 DEF Visit
<1>3. ASSUME NEW attrs \in Attributes, Broadcast(attrs) PROVE OwedInv'
  <2>1. event.n \in Nat /\ event'.n = event.n + 1
    BY <1>3, ServerAssumption DEF Broadcast, ServerInv, EventInv
  <2>2. todo = {} /\ todo' = {} /\ owed' = owed
    BY <1>3 DEF Broadcast, ServerInv, LoopInv
  <2>3. \A h \in Handler : \A e \in owed[h] : e.n \in Nat
    BY DEF ServerInv, TypeOK, Event
  <2> QED BY <2>1, <2>2, <2>3
<1>4. ASSUME RLock PROVE OwedInv'
  BY <1>4 DEF RLock
<1>5. ASSUME Return PROVE OwedInv'
  BY <1>5 DEF Return
<1>6. ASSUME UNCHANGED vars PROVE OwedInv'
  BY <1>6 DEF vars
<1> QED BY <1>1, <1>2, <1>3, <1>4, <1>5, <1>6 DEF Next

(* A step that changes nothing about a handler's events keeps them right. *)
LEMMA DeliveredStays ==
  ASSUME NEW h \in Handler, Delivered(h),
         Given(h)' = Given(h), dropped'[h] = dropped[h],
         Due(h)' \ Pending(h)' = Due(h) \ Pending(h)
  PROVE  Delivered(h)'
  BY DEF Delivered

(* Every step keeps the deliveries right. *)
LEMMA NextDelivered ==
  ASSUME ServerInv, OwedInv, \A g \in Handler : Delivered(g), [Next]_vars,
         NEW g \in Handler
  PROVE  Delivered(g)'
<1> USE DEF handlerVars, broadcastVars
<1>0. /\ written[g] \in Seq(Event) /\ channel[g] \in Seq(Event)
      /\ Given(g) \in Seq(Event)
      /\ dropped[g] \subseteq Event /\ owed[g] \subseteq Event
  BY ConcatProperties DEF ServerInv, TypeOK, Given
<1>1. ASSUME NEW h \in Handler,
             \/ Connect(h) \/ Subscribe(h) \/ Disconnect(h) \/ Notice(h)
             \/ Written(h) \/ Unsubscribe(h)
      PROVE  Delivered(g)'
  <2>1. UNCHANGED <<written, channel, dropped, owed, todo, event>>
    BY <1>1 DEF Connect, Subscribe, Disconnect, Notice, Written, Unsubscribe
  <2> QED BY <2>1, DeliveredStays DEF Given, Due, Pending, Match
<1>2. ASSUME NEW h \in Handler, Take(h) PROVE Delivered(g)'
  <2>1. UNCHANGED <<dropped, owed, todo, event>>
    BY <1>2 DEF Take
  <2>2. Given(g)' = Given(g)
    <3>1. CASE g = h
      <4>1. /\ channel'[g] = Tail(channel[g]) /\ channel[g] # <<>>
            /\ written'[g] = Append(written[g], Head(channel[g]))
        BY <1>2, <3>1 DEF Take, ServerInv, TypeOK
      <4> QED BY <1>0, <4>1, TakeKeepsGiven DEF Given
    <3>2. CASE g # h
      BY <1>2, <3>2 DEF Take, ServerInv, TypeOK, Given
    <3> QED BY <3>1, <3>2
  <2> QED BY <2>1, <2>2, DeliveredStays DEF Due, Pending, Match
<1>3. ASSUME NEW h \in Handler, Visit(h) PROVE Delivered(g)'
  <2>1. /\ written' = written /\ owed' = owed /\ event' = event
        /\ todo' = todo \ {h} /\ phase = "sending" /\ h \in todo
    BY <1>3 DEF Visit
  <2>2. CASE g # h
    <3>1. channel'[g] = channel[g] /\ dropped'[g] = dropped[g]
      BY <1>3, <2>2 DEF Visit, ServerInv, TypeOK
    <3> QED BY <2>1, <2>2, <3>1, DeliveredStays DEF Given, Due, Pending, Match
  <2>3. CASE g = h
    <3>1. /\ Due(g)' = Due(g) /\ Pending(g) = {event} /\ Pending(g)' = {}
          /\ event \in owed[g]
      BY <2>1, <2>3 DEF Due, Pending, Match, OwedInv
    <3>2. event \in Event
      BY <1>0, <3>1
    <3>3. CASE ~Match(h, event)
      <4>1. Given(g)' = Given(g) /\ dropped' = dropped
        BY <1>3, <2>1, <3>3 DEF Visit, Given
      <4>2. event \notin Due(g)
        BY <2>3, <3>3 DEF Due
      <4> QED BY <3>1, <4>1, <4>2, DeliveredStays
    <3>4. CASE Match(h, event) /\ dropped' = dropped
                 /\ channel' = [channel EXCEPT ![h] = Append(@, event)]
      <4>1. Given(g)' = Append(Given(g), event)
        BY <1>0, <2>1, <2>3, <3>2, <3>4, AppendGiven DEF Given, ServerInv, TypeOK
      <4>2. \A x \in Range(Given(g)) : x.n < event.n
        BY <3>1 DEF Delivered, Due, OwedInv
      <4>3. InOrder(Given(g))' /\ Range(Given(g))' = Range(Given(g)) \cup {event}
        BY <1>0, <3>2, <4>1, <4>2, AppendInOrder DEF Delivered
      <4>4. event \in Due(g)
        BY <2>3, <3>1, <3>4 DEF Due
      <4>5. event \notin dropped[g]
        BY <3>1 DEF Delivered
      <4> QED BY <3>1, <3>4, <4>3, <4>4, <4>5 DEF Delivered
    <3>5. CASE Match(h, event) /\ channel' = channel
                 /\ dropped' = [dropped EXCEPT ![h] = @ \cup {event}]
      <4>1. Given(g)' = Given(g) /\ dropped'[g] = dropped[g] \cup {event}
        BY <2>1, <2>3, <3>5 DEF Given, ServerInv, TypeOK
      <4>2. event \in Due(g)
        BY <2>3, <3>1, <3>5 DEF Due
      <4>3. event \notin Range(Given(g))
        BY <3>1 DEF Delivered
      <4> QED BY <3>1, <4>1, <4>2, <4>3 DEF Delivered
    <3> QED BY <1>3, <3>3, <3>4, <3>5 DEF Visit
  <2> QED BY <2>2, <2>3
<1>4. ASSUME NEW attrs \in Attributes, Broadcast(attrs) PROVE Delivered(g)'
  <2>1. UNCHANGED <<written, channel, dropped, owed, todo>> /\ todo = {}
    BY <1>4 DEF Broadcast, ServerInv, LoopInv
  <2> QED BY <2>1, DeliveredStays DEF Given, Due, Pending, Match
<1>5. ASSUME RLock PROVE Delivered(g)'
  <2>1. UNCHANGED <<written, channel, dropped, event>> /\ todo = {}
    BY <1>5 DEF RLock, ServerInv, LoopInv
  <2>2. event \notin owed[g]
    BY <1>5 DEF RLock, OwedInv, ServerInv, EventInv, Event
  <2>3. Due(g)' \ Pending(g)' = Due(g) \ Pending(g)
    <3>1. CASE g \in clients
      <4>1. owed'[g] = owed[g] \cup {event} /\ g \in todo'
        BY <1>5, <3>1 DEF RLock
      <4> QED BY <2>1, <2>2, <4>1 DEF Due, Pending, Match
    <3>2. CASE g \notin clients
      <4>1. owed'[g] = owed[g] /\ g \notin todo'
        BY <1>5, <3>2 DEF RLock
      <4> QED BY <2>1, <4>1 DEF Due, Pending, Match
    <3> QED BY <3>1, <3>2
  <2> QED BY <2>1, <2>3, DeliveredStays DEF Given
<1>6. ASSUME Return \/ UNCHANGED vars PROVE Delivered(g)'
  <2>1. UNCHANGED <<written, channel, dropped, owed, todo, event>>
    BY <1>6 DEF Return, vars
  <2> QED BY <2>1, DeliveredStays DEF Given, Due, Pending, Match
<1> QED BY <1>1, <1>2, <1>3, <1>4, <1>5, <1>6 DEF Next

(* Every subscriber is given what matches its subscription while it is      *)
(* subscribed, once and in order, except what its full channel drops.       *)
THEOREM DeliveryCorrect == Spec => []Delivery
<1> DEFINE Inv == OwedInv /\ \A h \in Handler : Delivered(h)
<1>1. Init => Inv
  <2> SUFFICES ASSUME Init PROVE Inv
    OBVIOUS
  <2>1. OwedInv
    BY DEF Init, OwedInv
  <2>2. ASSUME NEW h \in Handler PROVE Delivered(h)
    <3>1. Given(h) = <<>> /\ dropped[h] = {} /\ owed[h] = {}
      BY DEF Init, Given
    <3>2. Range(<<>>) = {}
      BY DEF Range
    <3> QED BY <3>1, <3>2 DEF Delivered, InOrder, Due
  <2> QED BY <2>1, <2>2
<1>2. ServerInv /\ Inv /\ [Next]_vars => Inv'
  BY NextOwed, NextDelivered
<1>3. Inv => Delivery
  BY DEF Delivery, Delivered, InOrder, Due, Pending
<1> QED BY <1>1, <1>2, <1>3, ServerInvariant, PTL DEF Spec

(* The subscribers and broadcasts of the SSE sink behave as EventServer     *)
(* says, whenever its HTTP server starts to listen and is shut down.        *)
LEMMA SinkRunsServer == ServerSpec => Spec
<1>1. ServerInit => Init
  BY DEF ServerInit
<1>2. [ServerNext]_sseVars => [Next]_vars
  <2> SUFFICES ASSUME [ServerNext]_sseVars PROVE [Next]_vars
    OBVIOUS
  <2>1. CASE Listen \/ Cancel \/ CallShutdown \/ ShutdownEnds
    BY <2>1 DEF Listen, Cancel, CallShutdown, ShutdownEnds
  <2>2. CASE \E h \in Handler : Serve(h)
    BY <2>2 DEF Serve, Next
  <2>3. CASE ServeOn
    BY <2>3 DEF ServeOn, Next
  <2>4. CASE UNCHANGED sseVars
    BY <2>4 DEF sseVars
  <2> QED BY <2>1, <2>2, <2>3, <2>4 DEF ServerNext
<1> QED BY <1>1, <1>2, PTL DEF ServerSpec, Spec

(* Once Shutdown is called nobody listens, whether the cancellation comes   *)
(* before, while or after the server starts to listen.                      *)
THEOREM ServerTypeCorrect == ServerSpec => []ServerTypeOK
<1>1. ServerInit => ServerTypeOK
  BY DEF ServerInit, ServerTypeOK
<1>2. ServerTypeOK /\ [ServerNext]_sseVars => ServerTypeOK'
  <2> SUFFICES ASSUME ServerTypeOK, [ServerNext]_sseVars PROVE ServerTypeOK'
    OBVIOUS
  <2> USE DEF ServerTypeOK
  <2>1. CASE Listen
    BY <2>1 DEF Listen
  <2>2. CASE Cancel
    BY <2>2 DEF Cancel
  <2>3. CASE CallShutdown
    BY <2>3 DEF CallShutdown
  <2>4. CASE ShutdownEnds
    BY <2>4 DEF ShutdownEnds
  <2>5. CASE UNCHANGED serverVars
    BY <2>5 DEF serverVars
  <2> QED BY <2>1, <2>2, <2>3, <2>4, <2>5 DEF ServerNext, Serve, ServeOn, sseVars
<1> QED BY <1>1, <1>2, PTL DEF ServerSpec

(* In a shutdown, as before it, no broadcast of the sink meets a closed     *)
(* channel and every subscriber is given what it is due.                    *)
THEOREM SinkServesSafely == ServerSpec => [](SendsAreSafe /\ Delivery)
BY SinkRunsServer, NoSendPanics, DeliveryCorrect, PTL
=============================================================================
