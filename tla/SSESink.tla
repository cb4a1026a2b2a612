-------------------------------- MODULE SSESink --------------------------------
(***************************************************************************)
(* The SSE sink, src/sinks/http_sink.go, with the HTTP server it starts    *)
(* (NewEventServer, src/event_server/event_server.go) around the           *)
(* subscribers and broadcasts of EventServer: one goroutine listens, one   *)
(* waits for the context and shuts the server down.  The handlers of       *)
(* requests look at the context of their request and not at that of the    *)
(* server.  The loop of the sink broadcasts what it receives until ctx is  *)
(* done or its input closed: as nothing is promised of its input, it may   *)
(* have made its last broadcast at any time.                               *)
(***************************************************************************)
EXTENDS EventServer

VARIABLES ctxDone,    \* ctx is done, and with it server.ctx
          listener,   \* where the goroutine in ListenAndServe is
          shutdown    \* where the goroutine that calls Shutdown is

serverVars == <<ctxDone, listener, shutdown>>

sseVars == <<vars, serverVars>>

(* Once Shutdown is called nobody listens. *)
ServerTypeOK ==
  /\ ctxDone \in BOOLEAN
  /\ listener \in {"starting", "listening", "returned"}
  /\ shutdown \in {"waiting", "called", "returned"}
  /\ shutdown # "waiting" => ctxDone /\ listener # "listening"

ServerInit == /\ Init
              /\ ctxDone = FALSE
              /\ listener = "starting"
              /\ shutdown = "waiting"

-----------------------------------------------------------------------------
(* ListenAndServe listens, or returns an error: the port is taken, or       *)
(* Shutdown came first.                                                     *)
Listen ==
  /\ listener = "starting"
  /\ \/ shutdown = "waiting" /\ listener' = "listening"
     \/ listener' = "returned"
  /\ UNCHANGED <<vars, ctxDone, shutdown>>

(* A request for the path of the server reaches handleSSE.  Requests for    *)
(* other paths change nothing.                                              *)
Serve(h) ==
  /\ listener = "listening"
  /\ Connect(h)
  /\ UNCHANGED serverVars

(* main() cancels the context. *)
Cancel ==
  /\ ~ctxDone
  /\ ctxDone' = TRUE
  /\ UNCHANGED <<vars, listener, shutdown>>

(* Mutant of CallShutdown: only a server that listens is shut down. *)
CallShutdownListening ==
  /\ shutdown = "waiting" /\ ctxDone /\ listener = "listening"
  /\ shutdown' = "called"
  /\ listener' = "returned"
  /\ UNCHANGED <<vars, ctxDone>>

(* httpServer.Shutdown closes the listener ... *)
CallShutdown ==
  /\ shutdown = "waiting" /\ ctxDone
  /\ shutdown' = "called"
  /\ listener' = IF listener = "listening" THEN "returned" ELSE listener
  /\ UNCHANGED <<vars, ctxDone>>

(* ... and waits, without a deadline, until no request is served. *)
ShutdownEnds ==
  /\ shutdown = "called"
  /\ \A h \in Handler : handler[h] \in {"new", "returned"}
  /\ shutdown' = "returned"
  /\ UNCHANGED <<vars, ctxDone, listener>>

(* What the subscribers and the loop of the sink do goes on in a shutdown. *)
ServeOn ==
  /\ \/ \E h \in Handler : \/ Subscribe(h) \/ Disconnect(h) \/ Notice(h)
                           \/ Take(h) \/ Written(h) \/ Unsubscribe(h) \/ Visit(h)
     \/ \E attrs \in Attributes : Broadcast(attrs)
     \/ RLock \/ Return
  /\ UNCHANGED serverVars

ServerNext ==
  \/ Listen \/ Cancel \/ CallShutdown \/ ShutdownEnds
  \/ \E h \in Handler : Serve(h)
  \/ ServeOn

(* In addition to the fairness of the event server, its other goroutines    *)
(* run.                                                                     *)
ServerSpec ==
  /\ ServerInit /\ [][ServerNext]_sseVars
  /\ Fairness /\ WF_sseVars(Listen) /\ WF_sseVars(CallShutdown) /\ WF_sseVars(ShutdownEnds)

-----------------------------------------------------------------------------
(* "Handle graceful shutdown when context is cancelled": Shutdown returns   *)
(* once the clients have gone.  As the handlers see nothing of the context  *)
(* and no event comes any more, that takes every one of them to notice that *)
(* its client has gone, to get the lock and to unsubscribe; a client that   *)
(* stays keeps Shutdown waiting.                                            *)
ShutdownReturns ==
  <>ctxDone /\ <>[](\A h \in Handler : handler[h] = "new" \/ h \in cut)
    => <>(shutdown = "returned")
=============================================================================
