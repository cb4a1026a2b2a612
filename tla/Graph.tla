--------------------------------- MODULE Graph ---------------------------------
(***************************************************************************)
(* The program as a whole (src/main.go): it reads a configuration, builds  *)
(* the graph, runs its pipelines and shuts down.  Every source, processor  *)
(* and sink has a goroutine, and so have the flows of the go-streams       *)
(* library that connect them; all channels are unbuffered.                 *)
(*                                                                         *)
(* An element is what a source takes from its feed; it keeps its identity  *)
(* in what the processors make of it.  How a processor and a sink treat it *)
(* is the subject of modules of their own.  The goroutines of go-streams   *)
(* between two ends hold an element each; together they are a queue of     *)
(* Slots elements.                                                         *)
(***************************************************************************)
EXTENDS GraphConfig, SequencesExt

CONSTANTS Configs,     \* what the configuration file may say
          Nil,         \* no element
          Slots,       \* what the flows between two ends can hold
          Yields,      \* how many elements a processor makes of one
          MaxPolls     \* bound on the elements of each feed

ASSUME GraphAssumption ==
  /\ Slots \in Nat \ {0}
  /\ Yields \subseteq Nat
  /\ \A c \in Configs : /\ IsGraphConfig(c) /\ NamedApart(c)
                        /\ DOMAIN c.sources \cup c.connectors \subseteq DOMAIN MaxPolls
  /\ \A s \in DOMAIN MaxPolls : MaxPolls[s] \in Nat

(* Elements go by their feed and number. *)
ElementsOf(feeds) == UNION {{s} \X (1..MaxPolls[s]) : s \in feeds}

ASSUME NilAssumption ==
  LET all == ElementsOf(DOMAIN MaxPolls)
  IN Nil \notin all \cup [element : all, next : Nat]

VARIABLES cfg,        \* the configuration
          graph,      \* the graph, once it is built
          phase,      \* where main is
          outcome,    \* what became of NewGraph
          cancelled,  \* ctx is done
          polls,      \* how many elements each feed has given
          sending,    \* the element a source is about to send, or Nil
          stopped,    \* the sources whose goroutine has returned
          inlet,      \* the flows of a pipeline from its sources to its processor
          work,       \* what a processor has still to send
          ended,      \* the processors that have returned and closed out
          fan,        \* the element FanOut is handing out, and the next flow
          outlet,     \* the flows of a pipeline to its sinks
          closed,     \* the channels of sinks and connectors that are closed
          sink,       \* where the goroutine of a sink is
          done,       \* the flows to sinks that have ended
          sent,       \* history: what FanOut took of each pipeline
          got,        \* history: what each flow handed to its sink
          filtered    \* history: what processors made nothing of

sourceVars == <<polls, sending, stopped>>

processorVars == <<inlet, work, ended, filtered>>

fanOutVars == <<fan, sent>>

sinkVars == <<outlet, got, done, closed, sink>>

flowVars == <<sourceVars, processorVars, fanOutVars, sinkVars>>

vars == <<cfg, graph, phase, outcome, cancelled, flowVars>>

Feeds == graph.pollers \cup graph.inlets

Pipelines == DOMAIN graph.reads

Elements == ElementsOf(Feeds)

(* The flows of pipeline p to its sinks, numbered. *)
FlowsOf(p) == {f[2] : f \in {f \in graph.flows : f[1] = p}}

QueueOK(q) == q \in Seq(Elements) /\ Len(q) <= Slots

GraphTypeOK ==
  /\ phase \in {"starting", "configured", "running", "stopping", "exited", "panicked"}
  /\ outcome \in {"none", "invalid", "graph", "panic", "source error",
                  "sink error", "pipeline error"}
  /\ cancelled \in BOOLEAN
  /\ outcome = "graph" =>
       /\ DOMAIN polls = Feeds
       /\ \A s \in Feeds : polls[s] \in 0..MaxPolls[s] /\ sending[s] \in Elements \cup {Nil}
       /\ stopped \subseteq Feeds
       /\ \A p \in Pipelines :
            /\ QueueOK(inlet[p])
            /\ work[p] \in Seq(Elements)
            /\ fan[p] # Nil => fan[p].element \in Elements /\ fan[p].next \in FlowsOf(p)
            /\ \A i \in FlowsOf(p) : QueueOK(outlet[p][i])
       /\ ended \subseteq Pipelines
       /\ closed \subseteq graph.connectors \cup DOMAIN graph.sinks
       /\ sink \in [DOMAIN graph.sinks -> {"selecting", "busy", "returned"}]
       /\ done \subseteq graph.flows

(* Before NewGraph there are no goroutines and channels. *)
Init ==
  /\ cfg \in Configs /\ graph = Nil
  /\ phase = "starting" /\ outcome = "none" /\ cancelled = FALSE
  /\ polls = <<>> /\ sending = <<>> /\ stopped = {}
  /\ inlet = <<>> /\ work = <<>> /\ ended = {} /\ filtered = {}
  /\ fan = <<>> /\ sent = <<>>
  /\ outlet = <<>> /\ got = <<>> /\ done = {} /\ closed = {} /\ sink = <<>>

-----------------------------------------------------------------------------
(* main: ReadConfig. *)
ReadConfig ==
  /\ phase = "starting"
  /\ IF Validate(cfg)
       THEN phase' = "configured" /\ UNCHANGED outcome
       ELSE phase' = "exited" /\ outcome' = "invalid"
  /\ UNCHANGED <<cfg, graph, cancelled, flowVars>>

(* What NewGraph makes: all goroutines wait. *)
Construct ==
  /\ polls' = [s \in Feeds' |-> 0]
  /\ sending' = [s \in Feeds' |-> Nil]
  /\ inlet' = [p \in Pipelines' |-> <<>>]
  /\ work' = [p \in Pipelines' |-> <<>>]
  /\ fan' = [p \in Pipelines' |-> Nil]
  /\ sent' = [p \in Pipelines' |-> <<>>]
  /\ outlet' = [p \in Pipelines' |-> [i \in FlowsOf(p)' |-> <<>>]]
  /\ got' = [p \in Pipelines' |-> [i \in FlowsOf(p)' |-> <<>>]]
  /\ sink' = [k \in DOMAIN graph'.sinks |-> "selecting"]
  /\ UNCHANGED <<stopped, ended, filtered, done, closed>>

(* main: NewGraph, and Graph.Run if there is one. *)
Build ==
  /\ phase = "configured"
  /\ outcome' = NewGraph(cfg)
  /\ phase' = CASE outcome' = "graph" -> "running"
                [] outcome' = "panic" -> "panicked"
                [] OTHER -> "exited"
  /\ IF outcome' = "graph" THEN graph' = Wire(cfg) /\ Construct
                           ELSE UNCHANGED <<graph, flowVars>>
  /\ UNCHANGED <<cfg, cancelled>>

(* main: a signal, and cancel(). *)
Signal ==
  /\ phase = "running"
  /\ phase' = "stopping"
  /\ cancelled' = TRUE
  /\ UNCHANGED <<cfg, graph, outcome, flowVars>>

(* main: Graph.Close closes the state stores, and main returns: nobody      *)
(* waits for the goroutines.                                                *)
Exit ==
  /\ phase = "stopping"
  /\ phase' = "exited"
  /\ UNCHANGED <<cfg, graph, outcome, cancelled, flowVars>>

Alive == phase \in {"running", "stopping"}

(* A step of a goroutine of the graph, and one that panics. *)
Steady == Alive /\ UNCHANGED <<cfg, graph, phase, outcome, cancelled>>

Panic == Alive /\ phase' = "panicked" /\ UNCHANGED <<cfg, graph, outcome, cancelled>>

-----------------------------------------------------------------------------
(* Sources: the goroutine init of an HTTP or Redis source, or the program   *)
(* that feeds a connector.                                                  *)

(* A poll that succeeds, or a message from the subscription.  Polls that    *)
(* fail and messages that Redis loses change nothing.  When ctx is done,    *)
(* select may still prefer the ticker.                                      *)
Poll(s) ==
  /\ Steady
  /\ s \notin stopped /\ sending[s] = Nil
  /\ polls[s] < MaxPolls[s]
  /\ s \notin graph.tickless
  /\ polls' = [polls EXCEPT ![s] = @ + 1]
  /\ sending' = [sending EXCEPT ![s] = <<s, polls'[s]>>]
  /\ UNCHANGED <<stopped, processorVars, fanOutVars, sinkVars>>

(* time.NewTicker panics. *)
TickerPanics(s) ==
  /\ Panic
  /\ s \in graph.tickless
  /\ UNCHANGED flowVars

(* init returns when ctx is done.  It does not close out, and a send does   *)
(* not look at ctx.                                                         *)
SourceReturns(s) ==
  /\ Steady /\ cancelled
  /\ s \in graph.pollers \ stopped /\ sending[s] = Nil
  /\ stopped' = stopped \cup {s}
  /\ UNCHANGED <<polls, sending, processorVars, fanOutVars, sinkVars>>

(* The program that feeds a connector closes it. *)
InletCloses(c) ==
  /\ Steady
  /\ c \in graph.inlets \ stopped /\ sending[c] = Nil
  /\ stopped' = stopped \cup {c}
  /\ closed' = closed \cup {c}
  /\ UNCHANGED <<polls, sending, processorVars, fanOutVars, outlet, got, done, sink>>

-----------------------------------------------------------------------------
(* Pipelines: PassThrough, Merge, the processor and FanOut.                 *)

HasRoom(p) == Len(inlet[p]) < Slots

(* A flow of p receives what a source sends. *)
Take(p, s) ==
  /\ Steady
  /\ s \in Feeds \cap graph.reads[p]
  /\ sending[s] # Nil /\ HasRoom(p)
  /\ inlet' = [inlet EXCEPT ![p] = Append(@, sending[s])]
  /\ sending' = [sending EXCEPT ![s] = Nil]
  /\ UNCHANGED <<polls, stopped, work, ended, filtered, fanOutVars, sinkVars>>

(* doStream receives an element and makes any number of elements of it. *)
Process(p) ==
  /\ Steady
  /\ p \notin ended /\ work[p] = <<>> /\ inlet[p] # <<>>
  /\ inlet' = [inlet EXCEPT ![p] = Tail(@)]
  /\ \E n \in Yields :
       /\ work' = [work EXCEPT ![p] = [i \in 1..n |-> Head(inlet[p])]]
       /\ filtered' = IF n = 0 THEN filtered \cup {Head(inlet[p])} ELSE filtered
  /\ UNCHANGED <<sourceVars, ended, fanOutVars, sinkVars>>

(* Mutant of InputEnds: Merge ends with the first of its flows. *)
InputEndsEarly(p) == (\E c \in graph.reads[p] : c \in closed) /\ inlet[p] = <<>>

(* All channels that p reads are closed and the flows behind them empty. *)
InputEnds(p) == graph.reads[p] \subseteq closed /\ inlet[p] = <<>>

(* doStream returns and closes out. *)
ProcessorReturns(p) ==
  /\ Steady
  /\ p \notin ended /\ work[p] = <<>>
  /\ cancelled \/ InputEnds(p)
  /\ ended' = ended \cup {p}
  /\ UNCHANGED <<sourceVars, inlet, work, filtered, fanOutVars, sinkVars>>

(* FanOut receives what the processor sends ... *)
FanOutTakes(p) ==
  /\ Steady
  /\ work[p] # <<>> /\ fan[p] = Nil
  /\ fan' = [fan EXCEPT ![p] = [element |-> Head(work[p]), next |-> 1]]
  /\ sent' = [sent EXCEPT ![p] = Append(@, Head(work[p]))]
  /\ work' = [work EXCEPT ![p] = Tail(@)]
  /\ UNCHANGED <<sourceVars, inlet, ended, filtered, sinkVars>>

(* Mutants of FanOutSends: the loop over the flows goes one too far; a flow *)
(* that is full is passed over.                                             *)
FanOutSendsOneMore(p) ==
  LET i == fan[p].next
  IN /\ Steady
     /\ fan[p] # Nil /\ Len(outlet[p][i]) < Slots
     /\ outlet' = [outlet EXCEPT ![p][i] = Append(@, fan[p].element)]
     /\ fan' = [fan EXCEPT ![p] = IF i \in FlowsOf(p)
                                    THEN [@ EXCEPT !.next = i + 1] ELSE Nil]
     /\ UNCHANGED <<sourceVars, processorVars, sent, got, done, closed, sink>>

FanOutPassesOver(p) ==
  LET i == fan[p].next
  IN /\ Steady
     /\ fan[p] # Nil
     /\ outlet' = IF Len(outlet[p][i]) < Slots
                    THEN [outlet EXCEPT ![p][i] = Append(@, fan[p].element)] ELSE outlet
     /\ fan' = [fan EXCEPT ![p] = IF i + 1 \in FlowsOf(p)
                                    THEN [@ EXCEPT !.next = i + 1] ELSE Nil]
     /\ UNCHANGED <<sourceVars, processorVars, sent, got, done, closed, sink>>

(* ... and hands it to one flow after the other. *)
FanOutSends(p) ==
  LET i == fan[p].next
  IN /\ Steady
     /\ fan[p] # Nil /\ Len(outlet[p][i]) < Slots
     /\ outlet' = [outlet EXCEPT ![p][i] = Append(@, fan[p].element)]
     /\ fan' = [fan EXCEPT ![p] = IF i + 1 \in FlowsOf(p)
                                    THEN [@ EXCEPT !.next = i + 1] ELSE Nil]
     /\ UNCHANGED <<sourceVars, processorVars, sent, got, done, closed, sink>>

-----------------------------------------------------------------------------
(* Flows to sinks: PassThrough.To and its transmit.                         *)

(* The sinks that may be busy for long with what they are given: flushing a *)
(* batch, or publishing.                                                    *)
MayLinger == {"database", "parquet", "redis"}

(* The goroutine of a sink receives an element. *)
SinkTakes(p, i) ==
  LET k == graph.writes[p, i]
  IN /\ k \in DOMAIN graph.sinks \ closed /\ sink[k] = "selecting"
     /\ \E s \in {"selecting"} \cup (IF graph.sinks[k] \in MayLinger THEN {"busy"} ELSE {}) :
          sink' = [sink EXCEPT ![k] = s]
     /\ UNCHANGED inlet

(* A pipeline that reads the connector receives an element. *)
ConnectorTakes(p, i) ==
  LET c == graph.writes[p, i]
  IN /\ c \in graph.connectors \ closed
     /\ \E q \in Pipelines :
          /\ c \in graph.reads[q] /\ HasRoom(q)
          /\ inlet' = [inlet EXCEPT ![q] = Append(@, Head(outlet[p][i]))]
     /\ UNCHANGED sink

(* A flow sends an element to its sink. *)
Deliver(p, i) ==
  /\ Steady
  /\ outlet[p][i] # <<>>
  /\ SinkTakes(p, i) \/ ConnectorTakes(p, i)
  /\ outlet' = [outlet EXCEPT ![p][i] = Tail(@)]
  /\ got' = [got EXCEPT ![p][i] = Append(@, Head(outlet[p][i]))]
  /\ UNCHANGED <<sourceVars, work, ended, filtered, fanOutVars, done, closed>>

(* A send to a closed channel panics. *)
DeliverPanics(p, i) ==
  /\ Panic
  /\ outlet[p][i] # <<>> /\ graph.writes[p, i] \in closed
  /\ UNCHANGED flowVars

(* close(c): closing a channel that is nil or closed panics. *)
Close(c) ==
  IF c \in closed \cup {NilChannel}
    THEN Panic /\ UNCHANGED closed
    ELSE Steady /\ closed' = closed \cup {c}

(* FanOut and the flow have ended, and the flow closes the sink's channel. *)
FlowEnds(p, i) ==
  /\ p \in ended /\ work[p] = <<>> /\ fan[p] = Nil
  /\ outlet[p][i] = <<>> /\ <<p, i>> \notin done
  /\ done' = done \cup {<<p, i>>}
  /\ Close(graph.writes[p, i])
  /\ UNCHANGED <<sourceVars, processorVars, fanOutVars, outlet, got, sink>>

(* Mutant of SinkIsDone: the sink returns when a flush or publication fails. *)
SinkGivesUp(k) ==
  /\ Steady
  /\ sink[k] = "busy"
  /\ \E s \in {"selecting", "returned"} : sink' = [sink EXCEPT ![k] = s]
  /\ UNCHANGED <<sourceVars, processorVars, fanOutVars, outlet, got, done, closed>>

(* A flush, or a publication, ends. *)
SinkIsDone(k) ==
  /\ Steady
  /\ sink[k] = "busy"
  /\ sink' = [sink EXCEPT ![k] = "selecting"]
  /\ UNCHANGED <<sourceVars, processorVars, fanOutVars, outlet, got, done, closed>>

(* Mutant of SinkReturns: every sink closes its input as the SSE sink does. *)
SinkReturnsClosing(k) ==
  /\ sink[k] = "selecting" /\ (cancelled \/ k \in closed)
  /\ sink' = [sink EXCEPT ![k] = "returned"]
  /\ Close(k)
  /\ UNCHANGED <<sourceVars, processorVars, fanOutVars, outlet, got, done>>

(* The goroutine of a sink sees that ctx is done or that its input is       *)
(* closed, and returns.  That of the SSE sink closes the input itself.      *)
SinkReturns(k) ==
  /\ sink[k] = "selecting" /\ (cancelled \/ k \in closed)
  /\ sink' = [sink EXCEPT ![k] = "returned"]
  /\ IF graph.sinks[k] = "sse" THEN Close(k) ELSE Steady /\ UNCHANGED closed
  /\ UNCHANGED <<sourceVars, processorVars, fanOutVars, outlet, got, done>>

-----------------------------------------------------------------------------
(* The goroutines that hand elements on, and end ... *)
Move ==
  /\ Alive
  /\ \/ \E p \in Pipelines : \/ \E s \in Feeds : Take(p, s)
                             \/ Process(p) \/ ProcessorReturns(p)
                             \/ FanOutTakes(p) \/ FanOutSends(p)
     \/ \E f \in graph.flows : \/ Deliver(f[1], f[2]) \/ DeliverPanics(f[1], f[2])
                                 \/ FlowEnds(f[1], f[2])
     \/ \E k \in DOMAIN graph.sinks : SinkReturns(k)

(* ... and the services behind the sinks. *)
Answer == Alive /\ \E k \in DOMAIN graph.sinks : SinkIsDone(k)

Next ==
  \/ ReadConfig \/ Build \/ Signal \/ Exit
  \/ Alive /\ \/ \E s \in Feeds : Poll(s) \/ SourceReturns(s)
              \/ \E s \in graph.tickless : TickerPanics(s)
              \/ \E c \in graph.inlets : InletCloses(c)
  \/ Move \/ Answer

Spec == Init /\ [][Next]_vars

(* Some goroutine that can go on does, and busy sinks are answered: the     *)
(* scheduler of Go and services that work.  Nothing is assumed of the       *)
(* feeds.                                                                   *)
FairSpec == Spec /\ WF_vars(ReadConfig) /\ WF_vars(Build) /\ WF_vars(Move \/ Answer)

-----------------------------------------------------------------------------
(* What Validate accepts is complete: NewGraph, which looks the sources and *)
(* sinks of a pipeline up in maps of its own, finds them all.               *)
ReferencesResolve == outcome # "pipeline error"

(* A configuration whose connectors and intervals are in order, whose sinks *)
(* have one flow each and of which none closes its own input, never makes   *)
(* the program panic: neither when it is built, nor when the ends of its    *)
(* pipelines follow one another, nor in a shutdown at any time.             *)
NoPanic ==
  phase = "panicked" =>
    \/ outcome = "panic" /\ PanicsOnConnectors(cfg)
    \/ outcome = "graph" /\ (graph.tickless # {} \/ ~graph.singlyOwned)

(* What the flows to sink k were given. *)
Delivered(k) == UNION {Range(got[w[1]][w[2]]) : w \in {f \in graph.flows : graph.writes[f] = k}}

(* "channels close when pipelines drain" (graph_integration_test.go): a     *)
(* sink's input is closed, without a cancellation, only when all that was   *)
(* fed to the connectors above it has come through, however many pipelines  *)
(* and merges are on the way, unless a processor made nothing of it.        *)
DrainedWhenClosed ==
  ~cancelled /\ outcome = "graph" /\ phase # "panicked" =>
    \A k \in closed \cap DOMAIN graph.sinks : graph.wellConnected /\ graph.singlyOwned =>
      \A s \in Feeds : k \in graph.below[s] =>
        \A n \in 1..polls[s] : <<s, n>> \in Delivered(k) \cup filtered

(* A sink gets what its pipeline sent, in order, each element once; and no  *)
(* sink of a pipeline runs ahead of another by more than the flows hold:    *)
(* the slowest sink sets the pace of all.                                   *)
SinksKeepPace ==
  outcome = "graph" =>
    \A p \in Pipelines : \A i \in FlowsOf(p) :
      /\ IsPrefix(got[p][i], sent[p])
      /\ Len(sent[p]) <= Len(got[p][i]) + Slots + 1

(* The n-th element of s was fed, and the sinks below s are to get it. *)
Fed(s, n) ==
  phase = "running" /\ graph.wellConnected /\ s \in Feeds /\ polls[s] >= n

(* An element came to all sinks, or to an end on the way. *)
Settled(s, n) ==
  \/ phase # "running" \/ s \notin Feeds
  \/ <<s, n>> \in filtered
  \/ \A k \in DOMAIN graph.sinks \cap graph.below[s] : <<s, n>> \in Delivered(k)

(* Every element that is fed comes to every sink below, unless a processor  *)
(* makes nothing of it or the program is told to stop: no arrangement of    *)
(* merges, fan-outs and connectors without a cycle blocks itself.           *)
FedIsDelivered ==
  \A s \in DOMAIN MaxPolls : \A n \in 1..MaxPolls[s] :
    Fed(s, n) ~> Settled(s, n)

(* README.md: "Pipeline isolation means a slow Postgres sink doesn't        *)
(* back-pressure the feed poller."  When all goroutines but those that wait *)
(* for an answer have come to rest, no poller is held up in its send.       *)
NoBackPressure ==
  phase = "running" /\ ~ENABLED Move => \A s \in graph.pollers : sending[s] = Nil

(* src/main.go: "Create channel for graceful shutdown", "Cancel context to  *)
(* signal all goroutines to stop".  No goroutine panics on the way.         *)
ShutdownIsGraceful == phase # "panicked"
=============================================================================
