------------------------------ MODULE EventServer ------------------------------
(***************************************************************************)
(* The SSE event server, src/event_server/event_server.go: the map of      *)
(* subscribers behind a sync.RWMutex, the goroutine that broadcasts and    *)
(* one handleSSE goroutine per HTTP request.                               *)
(*                                                                         *)
(* Subscribe and Unsubscribe hold the write lock for one step.  Broadcast  *)
(* holds the read lock while it visits the subscribers one by one.  There  *)
(* is one broadcaster, the goroutine of the SSE sink that owns the server. *)
(***************************************************************************)
EXTENDS Naturals, Sequences, FiniteSets, Functions

CONSTANTS Handler,       \* the SSE requests; each makes one subscriber
          Subscription,  \* their query parameters, as functions from names
          Attributes,    \* the event maps that are broadcast, likewise
          Capacity,      \* of a subscriber's channel: 16
          MaxEvents      \* bound on the number of broadcasts

ASSUME ServerAssumption == /\ DOMAIN Subscription = Handler
                           /\ Capacity \in Nat \ {0}
                           /\ MaxEvents \in Nat

VARIABLES clients,    \* es.clients, by the handler that subscribed
          channel,    \* client.Channel
          closed,     \* the handlers whose channel is closed
          handler,    \* where each handleSSE goroutine is
          cut,        \* the requests whose context is done
          phase,      \* where the broadcaster is
          event,      \* the event it is broadcasting
          todo,       \* the clients its range loop has still to visit
          written,    \* history: the events a handler took from its channel
          dropped,    \* history: the events dropped for a slow subscriber
          owed        \* history: the events whose broadcast began while the
                      \* handler was subscribed

handlerVars == <<handler, cut, written>>
broadcastVars == <<phase, event, todo, dropped, owed>>
vars == <<clients, channel, closed, handlerVars, broadcastVars>>

(* The n-th event broadcast, with the map that GetEventMap makes of it: its *)
(* attributes, which all events have, and the values of its type.           *)
Event == [n : 1..MaxEvents, attrs : Attributes]

NoEvent == [n |-> 0, attrs |-> << >>]

TypeOK ==
  /\ clients \subseteq Handler
  /\ channel \in [Handler -> Seq(Event)]
  /\ \A h \in Handler : Len(channel[h]) <= Capacity
  /\ closed \subseteq Handler
  /\ handler \in [Handler -> {"new", "subscribing", "serving", "writing",
                              "unsubscribing", "returned"}]
  /\ cut \subseteq Handler
  /\ phase \in {"idle", "waiting", "sending"}
  /\ event \in Event \cup {NoEvent}
  /\ todo \subseteq Handler
  /\ written \in [Handler -> Seq(Event)]
  /\ dropped \in [Handler -> SUBSET Event]
  /\ owed \in [Handler -> SUBSET Event]

Init == /\ clients = {}
        /\ channel = [h \in Handler |-> <<>>]
        /\ closed = {}
        /\ handler = [h \in Handler |-> "new"]
        /\ cut = {}
        /\ phase = "idle"
        /\ event = NoEvent
        /\ todo = {}
        /\ written = [h \in Handler |-> <<>>]
        /\ dropped = [h \in Handler |-> {}]
        /\ owed = [h \in Handler |-> {}]

-----------------------------------------------------------------------------
(* es.clientsMux.  The broadcaster is its only reader.  A writer that waits *)
(* in Lock keeps new readers out, so that readers cannot starve it.         *)
NoReader == phase # "sending"

NoWriterWaits ==
  \A h \in Handler : handler[h] \notin {"subscribing", "unsubscribing"}

(* handleSSE begins. *)
Connect(h) ==
  /\ handler[h] = "new"
  /\ handler' = [handler EXCEPT ![h] = "subscribing"]
  /\ UNCHANGED <<clients, channel, closed, cut, written, broadcastVars>>

(* A writer that cannot be flushed ends the request at once. *)
Subscribe(h) ==
  /\ handler[h] = "subscribing" /\ NoReader
  /\ clients' = clients \cup {h}
  /\ \E next \in {"serving", "unsubscribing"} :
       handler' = [handler EXCEPT ![h] = next]
  /\ UNCHANGED <<channel, closed, cut, written, broadcastVars>>

(* The request's context is done: the client went away. *)
Disconnect(h) ==
  /\ handler[h] # "new" /\ h \notin cut
  /\ cut' = cut \cup {h}
  /\ UNCHANGED <<clients, channel, closed, handler, written, broadcastVars>>

(* Mutant of Notice: the disconnect is seen only when an event arrives. *)
NoticeWithEvent(h) ==
  /\ handler[h] = "serving" /\ h \in cut /\ channel[h] # <<>>
  /\ handler' = [handler EXCEPT ![h] = "unsubscribing"]
  /\ UNCHANGED <<clients, channel, closed, cut, written, broadcastVars>>

(* select: case <-notify *)
Notice(h) ==
  /\ handler[h] = "serving" /\ h \in cut
  /\ handler' = [handler EXCEPT ![h] = "unsubscribing"]
  /\ UNCHANGED <<clients, channel, closed, cut, written, broadcastVars>>

(* Mutant of Take: the channel is polled, and one that is empty gives the   *)
(* zero value, which is written.                                            *)
TakePolls(h) ==
  /\ handler[h] = "serving"
  /\ channel' = [channel EXCEPT ![h] = IF @ = <<>> THEN @ ELSE Tail(@)]
  /\ written' = [written EXCEPT ![h] =
                   Append(@, IF channel[h] = <<>> THEN NoEvent ELSE Head(channel[h]))]
  /\ handler' = [handler EXCEPT ![h] = "writing"]
  /\ UNCHANGED <<clients, closed, cut, broadcastVars>>

(* select: case event := <-client.Channel, and the write begins. *)
Take(h) ==
  /\ handler[h] = "serving" /\ channel[h] # <<>>
  /\ channel' = [channel EXCEPT ![h] = Tail(@)]
  /\ written' = [written EXCEPT ![h] = Append(@, Head(channel[h]))]
  /\ handler' = [handler EXCEPT ![h] = "writing"]
  /\ UNCHANGED <<clients, closed, cut, broadcastVars>>

(* The write and the flush return, an error of theirs being ignored. *)
Written(h) ==
  /\ handler[h] = "writing"
  /\ handler' = [handler EXCEPT ![h] = "serving"]
  /\ UNCHANGED <<clients, channel, closed, cut, written, broadcastVars>>

(* Mutant of Unsubscribe: the lock is not taken. *)
UnsubscribeUnlocked(h) ==
  /\ handler[h] = "unsubscribing"
  /\ clients' = clients \ {h}
  /\ closed' = closed \cup {h}
  /\ handler' = [handler EXCEPT ![h] = "returned"]
  /\ UNCHANGED <<channel, cut, written, broadcastVars>>

(* The deferred Unsubscribe, and handleSSE returns. *)
Unsubscribe(h) ==
  /\ handler[h] = "unsubscribing" /\ NoReader
  /\ clients' = clients \ {h}
  /\ closed' = closed \cup {h}
  /\ handler' = [handler EXCEPT ![h] = "returned"]
  /\ UNCHANGED <<channel, cut, written, broadcastVars>>

-----------------------------------------------------------------------------
(* Every query parameter names an attribute of the event and equals it. *)
Match(h, e) ==
  \A k \in DOMAIN Subscription[h] :
    k \in DOMAIN e.attrs /\ Subscription[h][k] = e.attrs[k]

(* Broadcast is called ... *)
Broadcast(attrs) ==
  /\ phase = "idle" /\ event.n < MaxEvents
  /\ phase' = "waiting"
  /\ event' = [n |-> event.n + 1, attrs |-> attrs]
  /\ UNCHANGED <<clients, channel, closed, handlerVars, todo, dropped, owed>>

(* ... gets the read lock ... *)
RLock ==
  /\ phase = "waiting" /\ NoWriterWaits
  /\ phase' = "sending"
  /\ todo' = clients
  /\ owed' = [h \in Handler |->
                IF h \in clients THEN owed[h] \cup {event} ELSE owed[h]]
  /\ UNCHANGED <<clients, channel, closed, handlerVars, event, dropped>>

(* Mutants of Visit: the send blocks; the oldest event is evicted. *)
VisitBlocks(h) ==
  /\ phase = "sending" /\ h \in todo
  /\ Match(h, event) => Len(channel[h]) < Capacity
  /\ todo' = todo \ {h}
  /\ channel' = IF Match(h, event)
                  THEN [channel EXCEPT ![h] = Append(@, event)] ELSE channel
  /\ UNCHANGED <<clients, closed, handlerVars, phase, event, dropped, owed>>

VisitEvicts(h) ==
  /\ phase = "sending" /\ h \in todo
  /\ todo' = todo \ {h}
  /\ channel' = [channel EXCEPT ![h] =
                   IF ~Match(h, event) THEN @
                   ELSE IF Len(@) < Capacity THEN Append(@, event)
                   ELSE Append(Tail(@), event)]
  /\ UNCHANGED <<clients, closed, handlerVars, phase, event, dropped, owed>>

(* ... sends without blocking to each client whose subscription matches,    *)
(* dropping the event when the channel is full ...                          *)
Visit(h) ==
  /\ phase = "sending" /\ h \in todo
  /\ todo' = todo \ {h}
  /\ \/ /\ ~Match(h, event)
        /\ UNCHANGED <<channel, dropped>>
     \/ /\ Match(h, event) /\ Len(channel[h]) < Capacity
        /\ channel' = [channel EXCEPT ![h] = Append(@, event)]
        /\ UNCHANGED dropped
     \/ /\ Match(h, event) /\ Len(channel[h]) = Capacity
        /\ dropped' = [dropped EXCEPT ![h] = @ \cup {event}]
        /\ UNCHANGED channel
  /\ UNCHANGED <<clients, closed, handlerVars, phase, event, owed>>

(* ... and returns, releasing the lock. *)
Return ==
  /\ phase = "sending" /\ todo = {}
  /\ phase' = "idle"
  /\ UNCHANGED <<clients, channel, closed, handlerVars, event, todo, dropped, owed>>

-----------------------------------------------------------------------------
Next ==
  \/ \E h \in Handler : \/ Connect(h) \/ Subscribe(h) \/ Disconnect(h)
                        \/ Notice(h) \/ Take(h) \/ Written(h) \/ Unsubscribe(h)
                        \/ Visit(h)
  \/ \E attrs \in Attributes : Broadcast(attrs)
  \/ RLock \/ Return

Spec == Init /\ [][Next]_vars

(* Fairness.  The broadcaster runs, and so does a handler that waits for    *)
(* the lock.  A handler that serves is promised only that select sees a     *)
(* disconnect, which it may pass over any number of times but not for ever, *)
(* and that a write to a connection that is gone returns.  Nobody promises  *)
(* that a connected client reads.                                           *)
Fairness ==
  /\ WF_vars(RLock) /\ WF_vars(\E h \in Handler : Visit(h)) /\ WF_vars(Return)
  /\ \A h \in Handler : /\ WF_vars(Subscribe(h)) /\ WF_vars(Unsubscribe(h))
                        /\ SF_vars(Notice(h)) /\ WF_vars(h \in cut /\ Written(h))

-----------------------------------------------------------------------------
(* A send to a closed channel would panic and end the program: the clients  *)
(* that a broadcast has still to visit are subscribed and their channels    *)
(* are open, whoever disconnects meanwhile.                                 *)
SendsAreSafe == /\ todo \subseteq clients
                /\ clients \cap closed = {}

(* What a subscriber was given, and what waits in its channel. *)
Given(h) == written[h] \o channel[h]

(* A subscriber is given exactly the events that match its subscription and *)
(* were broadcast while it was subscribed, each once and in order, but for  *)
(* those dropped while its channel was full.                                *)
Delivery ==
  \A h \in Handler :
    LET given == Range(Given(h))
        due == {e \in owed[h] : Match(h, e)}
        pending == IF h \in todo THEN {event} ELSE {}
    IN /\ \A i, j \in 1..Len(Given(h)) : i < j => Given(h)[i].n < Given(h)[j].n
       /\ given \cap dropped[h] = {}
       /\ given \cup dropped[h] = due \ pending

(* "Non-blocking send to avoid a slow subscriber stalling the pipeline":    *)
(* every broadcast returns although subscribers stop reading.               *)
BroadcastsReturn == (phase # "idle") ~> (phase = "idle")

(* A subscriber whose client has gone does not stay in the map. *)
GoneIsForgotten ==
  \A h \in Handler : (h \in cut /\ h \in clients) ~> (h \notin clients)
=============================================================================
