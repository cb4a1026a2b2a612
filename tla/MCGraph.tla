-------------------------------- MODULE MCGraph --------------------------------
(* Graph for TLC: small graphs with every kind of end, and a pipeline with   *)
(* every defect a file may have.                                            *)
EXTENDS Graph

HTTP(interval) == [type |-> "http", url |-> TRUE, interval |-> interval, connector |-> "c"]

Sink(type) == [type |-> type, opens |-> TRUE, connector |-> "c"]

Pipeline(sources, sinks) ==
  [type |-> "stop_event", sources |-> sources, sinks |-> sinks]

Base == [sources |-> [h |-> HTTP("positive")], sinks |-> [k |-> Sink("console")],
         connectors |-> {}, nilMaps |-> {},
         pipelines |-> [p |-> Pipeline(<<"h">>, <<"k">>)]]

(* A poller and a fan-out to a console and a database. *)
Fanned ==
  [Base EXCEPT !.sinks = [k |-> Sink("console"), d |-> Sink("database")],
               !.pipelines = [p |-> Pipeline(<<"h">>, <<"k", "d">>)]]

(* A merge of two connectors that are fed from outside, and one between two *)
(* pipelines.                                                               *)
Merged ==
  [Base EXCEPT !.sources = <<>>, !.connectors = {"a", "b", "c"},
               !.pipelines = [p |-> Pipeline(<<"a", "b">>, <<"c">>),
                              q |-> Pipeline(<<"c">>, <<"k">>)]]

(* Two pipelines that name one sink. *)
SharedSink ==
  [Base EXCEPT !.sources = <<>>, !.connectors = {"a", "b"},
               !.pipelines = [p |-> Pipeline(<<"a">>, <<"k">>),
                              q |-> Pipeline(<<"b">>, <<"k">>)]]

(* Base with other ends: of each type, unfit, named wrongly or left out. *)
Variants ==
  {[Base EXCEPT !.sources = [h |-> s]] :
     s \in [type : {"http", "redis", "connector", "bucket"}, url : BOOLEAN,
            interval : {"none", "malformed", "nonpositive", "positive"}, connector : {"c"}]}
  \cup {[Base EXCEPT !.sinks = [k |-> k], !.connectors = c] :
          k \in [type : {"console", "sse", "database", "parquet", "redis", "connector",
                         "file_system"}, opens : BOOLEAN, connector : {"c"}],
          c \in {{}, {"c"}}}
  \cup {[Base EXCEPT !.pipelines = [p |-> p], !.connectors = c] :
          p \in [type : {"stop_event", "unknown"}, sources : {<<>>, <<"h">>, <<"c">>, <<"k">>},
                 sinks : {<<>>, <<"k">>, <<"c">>, <<"h">>}],
          c \in {{}, {"c"}, {"h"}, {"k"}}}
  \cup {[Base EXCEPT !.sinks = <<>>, !.nilMaps = n, !.connectors = {"k"}] : n \in SUBSET {"sinks"}}

MCConfigs == {Fanned, Merged, SharedSink} \cup Variants

MCSharedSink == {SharedSink}

(* The poller and the database in pipelines of their own. *)
MCIsolated ==
  {[Fanned EXCEPT !.connectors = {"c"},
                  !.pipelines = [p |-> Pipeline(<<"h">>, <<"c">>),
                                 q |-> Pipeline(<<"c">>, <<"d">>)]]}

MCMaxPolls == [h |-> 3, k |-> 1, a |-> 1, b |-> 1, c |-> 1]

MCManyPolls == [h |-> 12, c |-> 0]

=============================================================================
