------------------------------ MODULE GraphConfig ------------------------------
(***************************************************************************)
(* The configuration of a graph: what Validate (src/config/config.go)      *)
(* accepts, and what NewGraph (src/graphs/graph.go) and NewPipeline        *)
(* (src/pipelines/pipeline.go) make of it.  The two read the same fields   *)
(* in different ways.                                                      *)
(*                                                                         *)
(* A configuration is a record with the maps sources, sinks and pipelines, *)
(* functions from ids, the set of its connectors, and the maps that are    *)
(* nil because the file leaves them out.  Of a source its type is kept,    *)
(* whether it has a URL and what time.ParseDuration makes of its interval; *)
(* of a sink its type and whether its constructor finds what it needs (a   *)
(* DSN and a database that answers, a bucket); of both the connector they  *)
(* name if they are of that type.                                          *)
(***************************************************************************)
EXTENDS Naturals, Sequences, FiniteSets, Functions

validPipelineTypes == {"feed_message", "vehicle_position", "stop_event",
                       "dwell_event", "headway_event", "travel_time"}

(* A type may be one that nothing knows, or one that has no implementation. *)
SourceConfig ==
  [type : {"http", "bucket", "file_system", "redis", "connector", "unknown"},
   url : BOOLEAN, interval : {"none", "malformed", "nonpositive", "positive"},
   connector : STRING]

SinkConfig ==
  [type : {"connector", "console", "database", "file_system", "parquet", "redis",
           "sse", "unknown"},
   opens : BOOLEAN, connector : STRING]

PipelineConfig ==
  [type : validPipelineTypes \cup {"unknown"}, sources : Seq(STRING), sinks : Seq(STRING)]

IsGraphConfig(cfg) ==
  /\ IsFiniteSet(DOMAIN cfg.pipelines)
  /\ \A s \in DOMAIN cfg.sources : cfg.sources[s] \in SourceConfig
  /\ \A k \in DOMAIN cfg.sinks : cfg.sinks[k] \in SinkConfig
  /\ \A p \in DOMAIN cfg.pipelines : cfg.pipelines[p] \in PipelineConfig
  /\ cfg.nilMaps \subseteq {"sources", "sinks"}
  /\ "sources" \in cfg.nilMaps => cfg.sources = <<>>
  /\ "sinks" \in cfg.nilMaps => cfg.sinks = <<>>

-----------------------------------------------------------------------------
(* GraphConfig.Validate *)

(* Mutant of knownSinks: connectors are looked up among the sources only. *)
knownSinksExplicit(cfg) == DOMAIN cfg.sinks \cup DOMAIN cfg.sources

knownSources(cfg) == DOMAIN cfg.sources \cup cfg.connectors

knownSinks(cfg) == DOMAIN cfg.sinks \cup cfg.connectors

(* time.ParseDuration accepts zero and negative durations. *)
ParsesInterval(source) == source.interval \in {"positive", "nonpositive"}

ValidSource(source) ==
  source.type = "http" => source.url /\ ParsesInterval(source)

ValidPipeline(cfg, p) ==
  /\ p.type \in validPipelineTypes
  /\ p.sources # <<>>
  /\ p.sinks # <<>>
  /\ Range(p.sources) \subseteq knownSources(cfg)
  /\ Range(p.sinks) \subseteq knownSinks(cfg)

Validate(cfg) ==
  /\ \A s \in DOMAIN cfg.sources : ValidSource(cfg.sources[s])
  /\ \A p \in DOMAIN cfg.pipelines : ValidPipeline(cfg, cfg.pipelines[p])

-----------------------------------------------------------------------------
(* NewGraph *)

(* Every connector is entered as a source and as a sink, in place of one    *)
(* that has its id.                                                         *)
Sources(cfg) ==
  [s \in DOMAIN cfg.sources \cup cfg.connectors |->
     IF s \in cfg.connectors THEN [type |-> "connector", connector |-> s]
                             ELSE cfg.sources[s]]

Sinks(cfg) ==
  [k \in DOMAIN cfg.sinks \cup cfg.connectors |->
     IF k \in cfg.connectors THEN [type |-> "connector", connector |-> k]
                             ELSE cfg.sinks[k]]

(* Entering them in a map that is nil panics. *)
PanicsOnConnectors(cfg) == cfg.connectors # {} /\ cfg.nilMaps # {}

(* NewSource and NewSink return no error. *)
MakesSource(source) ==
  \/ source.type \in {"connector", "redis"}
  \/ source.type = "http" /\ ParsesInterval(source)

MakesSink(sink) ==
  \/ sink.type \in {"console", "connector", "sse", "redis"}
  \/ sink.type \in {"database", "parquet"} /\ sink.opens

(* NewPipeline finds its sources and sinks.  A state store that is not      *)
(* found is nil, and the processor makes one of its own.                    *)
MakesPipeline(cfg, p) ==
  /\ Range(p.sources) \subseteq DOMAIN Sources(cfg)
  /\ Range(p.sinks) \subseteq DOMAIN Sinks(cfg)

(* What becomes of NewGraph. *)
NewGraph(cfg) ==
  CASE PanicsOnConnectors(cfg) -> "panic"
    [] \E s \in DOMAIN Sources(cfg) : ~MakesSource(Sources(cfg)[s]) -> "source error"
    [] \E k \in DOMAIN Sinks(cfg) : ~MakesSink(Sinks(cfg)[k]) -> "sink error"
    [] \E p \in DOMAIN cfg.pipelines : ~MakesPipeline(cfg, cfg.pipelines[p])
         -> "pipeline error"
    [] OTHER -> "graph"

-----------------------------------------------------------------------------
(* The graph that is built: its channels are the connectors, the outputs of *)
(* the other sources and the inputs of the other sinks.  A source or sink   *)
(* of type connector that names none has the nil channel.                   *)
NilChannel == "nil channel"

Channel(cfg, end, id) ==
  IF end.type # "connector" THEN id
  ELSE IF end.connector \in cfg.connectors THEN end.connector
  ELSE NilChannel

(* Channels go by the ids of their ends.  Sources and sinks are in maps of  *)
(* their own, so that a source and a sink of one id have a channel each,    *)
(* unless it is a connector's: such ids are taken to be told apart.         *)
NamedApart(cfg) ==
  /\ DOMAIN cfg.sources \cap DOMAIN cfg.sinks \subseteq cfg.connectors
  /\ NilChannel \notin DOMAIN cfg.sources \cup DOMAIN cfg.sinks \cup cfg.connectors

Reads(cfg, p) ==
  {Channel(cfg, Sources(cfg)[s], s) : s \in Range(cfg.pipelines[p].sources)}

(* The channel that the i-th flow of p's FanOut feeds. *)
Writes(cfg, p, i) ==
  LET k == cfg.pipelines[p].sinks[i] IN Channel(cfg, Sinks(cfg)[k], k)

Flows(cfg, p) == DOMAIN cfg.pipelines[p].sinks

AllFlows(cfg) == UNION {{p} \X Flows(cfg, p) : p \in DOMAIN cfg.pipelines}

Readers(cfg, c) == {p \in DOMAIN cfg.pipelines : c \in Reads(cfg, p)}

Writers(cfg, c) == {f \in AllFlows(cfg) : Writes(cfg, f[1], f[2]) = c}

(* The sinks with a goroutine of their own. *)
OwnSinks(cfg) == {k \in DOMAIN Sinks(cfg) : Sinks(cfg)[k].type # "connector"}

Pollers(cfg) == {s \in DOMAIN Sources(cfg) : Sources(cfg)[s].type # "connector"}

(* The pollers whose ticker cannot be made. *)
Tickless(cfg) ==
  {s \in Pollers(cfg) : Sources(cfg)[s].type = "http" /\ Sources(cfg)[s].interval = "nonpositive"}

(* The connectors that no pipeline writes: the program around the graph may *)
(* feed them.                                                               *)
Inlets(cfg) == {c \in cfg.connectors : Writers(cfg, c) = {}}

Channels(cfg) == DOMAIN Sources(cfg) \cup DOMAIN Sinks(cfg) \cup {NilChannel}

(* The channels that an element may come to from each channel: through one  *)
(* pipeline, and through n of them.                                         *)
Onward(cfg, c) == {Writes(cfg, f[1], f[2]) : f \in {f \in AllFlows(cfg) : f[1] \in Readers(cfg, c)}}

Downstream(cfg) ==
  LET next == [c \in Channels(cfg) |-> Onward(cfg, c)]
      within[n \in 0..Cardinality(DOMAIN cfg.pipelines)] ==
        IF n = 0 THEN [c \in Channels(cfg) |-> {}]
        ELSE LET nearer == within[n - 1]
             IN [c \in Channels(cfg) |-> next[c] \cup UNION {nearer[d] : d \in next[c]}]
  IN within[Cardinality(DOMAIN cfg.pipelines)]

(* No end of a pipeline is the nil channel, every channel that is written   *)
(* and has no sink has one reader, and no element comes back.               *)
WellConnected(cfg) ==
  LET below == Downstream(cfg)
  IN /\ Readers(cfg, NilChannel) = {} /\ Writers(cfg, NilChannel) = {}
     /\ \A c \in Channels(cfg) : c \notin below[c]
     /\ \A c \in cfg.connectors \cup Pollers(cfg) :
          /\ \A p, q \in Readers(cfg, c) : p = q
          /\ Writers(cfg, c) # {} => Readers(cfg, c) # {}

(* Every sink and connector has one flow that sends to it and closes it,    *)
(* and no sink closes its own input.                                        *)
SinglyOwned(cfg) ==
  /\ Writers(cfg, NilChannel) = {}
  /\ \A k \in OwnSinks(cfg) : Sinks(cfg)[k].type # "sse"
  /\ \A c \in Channels(cfg) : \A v, w \in Writers(cfg, c) : v = w

(* The graph: what is connected to what. *)
Wire(cfg) ==
  [pollers |-> Pollers(cfg), tickless |-> Tickless(cfg), inlets |-> Inlets(cfg),
   connectors |-> cfg.connectors,
   reads |-> [p \in DOMAIN cfg.pipelines |-> Reads(cfg, p)],
   flows |-> AllFlows(cfg),
   writes |-> [f \in AllFlows(cfg) |-> Writes(cfg, f[1], f[2])],
   sinks |-> [k \in OwnSinks(cfg) |-> Sinks(cfg)[k].type],
   below |-> Downstream(cfg), wellConnected |-> WellConnected(cfg),
   singlyOwned |-> SinglyOwned(cfg)]
=============================================================================
