------------------------------ MODULE GraphProofs ------------------------------
(***************************************************************************)
(* Proofs about Graph: for every set of configurations, any number of      *)
(* pipelines, sources, sinks and elements and any capacity of the flows.   *)
(*                                                                         *)
(* The inductive invariant GraphInv has three layers.  What NewGraph makes *)
(* of a configuration that Validate accepts (Wired, Owned, Connected)      *)
(* never changes once it is there.  Shape and InStep say where elements    *)
(* are: what FanOut took is, for each of its flows, what the flow handed   *)
(* on, what it holds and what FanOut is still to give it.  Ends, Passes    *)
(* and Drained follow the ends of the pipelines: a channel is closed by    *)
(* the one flow that owns it, after all that entered the pipeline has gone *)
(* through it.                                                             *)
(***************************************************************************)
EXTENDS Graph, FiniteSetTheorems, SequenceTheorems, WellFoundedInduction, NaturalsInduction,
        TLAPS

(* The flows of every pipeline are numbered from 1, without a gap, and lead *)
(* to a sink, a connector or the nil channel; no flow leads to an inlet.    *)
Wired ==
  /\ graph.inlets \subseteq graph.connectors
  /\ Feeds \subseteq DOMAIN MaxPolls
  /\ \A f \in graph.flows : /\ f = <<f[1], f[2]>>
                            /\ f[1] \in Pipelines /\ f[2] \in FlowsOf(f[1])
  /\ \A p \in Pipelines : /\ \E n \in FlowsOf(p) : n \in Nat /\ FlowsOf(p) = 1..n
                          /\ \A i \in FlowsOf(p) : <<p, i>> \in graph.flows
  /\ \A f \in graph.flows :
       /\ graph.writes[f] \in graph.connectors \cup DOMAIN graph.sinks \cup {NilChannel}
       /\ graph.writes[f] \notin graph.inlets

(* With one owner each: no sink closes its own input, and two flows lead to  *)
(* different channels.                                                      *)
Owned ==
  graph.singlyOwned =>
    /\ \A k \in DOMAIN graph.sinks : graph.sinks[k] # "sse"
    /\ \A f \in graph.flows : graph.writes[f] # NilChannel
    /\ \A f, g \in graph.flows : graph.writes[f] = graph.writes[g] => f = g

(* In a graph that is well connected a channel has one reader, and what is   *)
(* below a feed is there by a last hop: a pipeline that reads the feed, or a *)
(* channel that is itself below it.                                         *)
Connected ==
  graph.wellConnected =>
    /\ \A p \in Pipelines : graph.reads[p] \subseteq graph.connectors \cup graph.pollers
    /\ \A p, q \in Pipelines : \A c \in graph.reads[p] \cap graph.reads[q] : p = q
    /\ (graph.connectors \cup graph.pollers) \cap DOMAIN graph.sinks = {}
    /\ graph.connectors \cap graph.pollers = {}
    /\ \A s \in Feeds : \A c \in graph.below[s] :
         \E d \in {s} \cup graph.below[s] : \E f \in graph.flows :
           graph.writes[f] = c /\ d \in graph.reads[f[1]]

(* Where main is: the graph is there from NewGraph on, and only for a        *)
(* configuration that was valid.                                            *)
PhaseInv ==
  /\ cfg \in Configs
  /\ phase \in {"starting", "configured", "running", "stopping", "exited", "panicked"}
  /\ outcome \in {"none", "invalid", "graph", "panic", "source error", "sink error"}
  /\ cancelled \in BOOLEAN
  /\ phase \in {"starting", "configured"} =>
       outcome = "none" /\ stopped = {} /\ ended = {} /\ done = {} /\ closed = {}
  /\ phase = "configured" => Validate(cfg)
  /\ Alive => outcome = "graph"

(* Types and capacities, once there is a graph. *)
Shape ==
  /\ polls \in [Feeds -> Nat]
  /\ \A s \in Feeds : polls[s] \in 0..MaxPolls[s]
  /\ sending \in [Feeds -> Elements \cup {Nil}]
  /\ stopped \subseteq Feeds
  /\ inlet \in [Pipelines -> Seq(Elements)]
  /\ \A p \in Pipelines : Len(inlet[p]) <= Slots
  /\ work \in [Pipelines -> Seq(Elements)]
  /\ sent \in [Pipelines -> Seq(Elements)]
  /\ DOMAIN fan = Pipelines
  /\ \A p \in Pipelines :
       fan[p] # Nil => fan[p] \in [element : Elements, next : FlowsOf(p)]
  /\ DOMAIN outlet = Pipelines /\ DOMAIN got = Pipelines
  /\ \A p \in Pipelines : /\ outlet[p] \in [FlowsOf(p) -> Seq(Elements)]
                          /\ got[p] \in [FlowsOf(p) -> Seq(Elements)]
                          /\ \A i \in FlowsOf(p) : Len(outlet[p][i]) <= Slots
  /\ ended \subseteq Pipelines
  /\ closed \subseteq graph.connectors \cup DOMAIN graph.sinks
  /\ sink \in [DOMAIN graph.sinks -> {"selecting", "busy", "returned"}]
  /\ done \subseteq graph.flows

(* What FanOut has still to hand to the i-th flow. *)
Pending(p, i) == IF fan[p] # Nil /\ fan[p].next <= i THEN <<fan[p].element>> ELSE <<>>

(* What FanOut took of a pipeline, as each of its flows has it: handed on,   *)
(* held, and still to come.                                                 *)
InStep ==
  \A p \in Pipelines : \A i \in FlowsOf(p) :
    sent[p] = (got[p][i] \o outlet[p][i]) \o Pending(p, i)

(* A flow that has ended has nothing left to send.  With one owner each, a   *)
(* closed channel is an inlet that its program closed or was closed by a     *)
(* flow that has ended.  A source returns between two sends.                *)
Ends ==
  /\ \A f \in done : /\ f[1] \in ended /\ work[f[1]] = <<>> /\ fan[f[1]] = Nil
                     /\ outlet[f[1]][f[2]] = <<>>
  /\ graph.singlyOwned =>
       \A c \in closed : \/ c \in graph.inlets /\ c \in stopped
                         \/ \E f \in done : graph.writes[f] = c
  /\ \A s \in stopped : sending[s] = Nil

(* What pipeline p has taken in. *)
Entered(p) == Range(inlet[p]) \cup Range(work[p]) \cup Range(sent[p]) \cup filtered

(* Nothing is lost on the way into a pipeline: what a feed gave is about to  *)
(* be sent or has entered the one pipeline that reads it, and so has what a  *)
(* flow handed to a connector.                                              *)
Passes ==
  graph.wellConnected =>
    /\ \A p \in Pipelines : \A s \in Feeds \cap graph.reads[p] : \A n \in 1..polls[s] :
         <<s, n>> \in Entered(p) \/ sending[s] = <<s, n>>
    /\ \A p \in Pipelines : \A f \in graph.flows :
         graph.writes[f] \in graph.connectors \cap graph.reads[p] =>
           Range(got[f[1]][f[2]]) \subseteq Entered(p)

(* Without a cancellation a pipeline ends after its inputs, and a channel    *)
(* closes after all that can come to it has come, or was filtered.          *)
Drained ==
  graph.wellConnected /\ graph.singlyOwned /\ ~cancelled =>
    /\ \A p \in ended : graph.reads[p] \subseteq closed /\ inlet[p] = <<>>
    /\ \A c \in closed : \A s \in Feeds : c \in graph.below[s] =>
         /\ s \in stopped
         /\ \A n \in 1..polls[s] : <<s, n>> \in Delivered(c) \cup filtered

(* All there is to say of a graph that was built. *)
GraphParts ==
  /\ Wired /\ Owned /\ Connected
  /\ Shape /\ InStep /\ Ends /\ Passes /\ Drained

(* The inductive invariant. *)
GraphInv ==
  /\ PhaseInv /\ NoPanic
  /\ outcome = "graph" => GraphParts

-----------------------------------------------------------------------------
(* What NewGraph makes of a valid configuration.                            *)

(* The flows of a pipeline are numbered like its sinks; Validate lets none   *)
(* be without sinks and none name an end that is not there.                 *)
LEMMA FlowFacts ==
  ASSUME NEW c \in Configs, Validate(c)
  PROVE  /\ \A p \in DOMAIN c.pipelines :
              /\ Flows(c, p) = 1..Len(c.pipelines[p].sinks)
              /\ Len(c.pipelines[p].sinks) \in Nat \ {0}
              /\ c.pipelines[p].sinks # <<>>
              /\ \A i \in Flows(c, p) : c.pipelines[p].sinks[i] \in DOMAIN Sinks(c)
              /\ \A s \in Range(c.pipelines[p].sources) : s \in DOMAIN Sources(c)
         /\ \A f : f \in AllFlows(c) <=>
              \E p \in DOMAIN c.pipelines : \E i \in Flows(c, p) : f = <<p, i>>
<1>1. ASSUME NEW p \in DOMAIN c.pipelines
      PROVE  /\ Flows(c, p) = 1..Len(c.pipelines[p].sinks)
             /\ Len(c.pipelines[p].sinks) \in Nat \ {0}
             /\ c.pipelines[p].sinks # <<>>
             /\ \A i \in Flows(c, p) : c.pipelines[p].sinks[i] \in DOMAIN Sinks(c)
             /\ \A s \in Range(c.pipelines[p].sources) : s \in DOMAIN Sources(c)
  <2>1. c.pipelines[p].sinks \in Seq(STRING) /\ ValidPipeline(c, c.pipelines[p])
    BY GraphAssumption DEF IsGraphConfig, PipelineConfig, Validate
  <2> DEFINE q == c.pipelines[p]
  <2>2. /\ q.sinks # <<>> /\ Range(q.sinks) \subseteq DOMAIN c.sinks \cup c.connectors
        /\ Range(q.sources) \subseteq DOMAIN c.sources \cup c.connectors
    BY <2>1 DEF ValidPipeline, knownSinks, knownSources
  <2> HIDE DEF q
  <2>3. q.sinks \in Seq(STRING)
    BY <2>1 DEF q
  <2>4. DOMAIN q.sinks = 1..Len(q.sinks) /\ Len(q.sinks) \in Nat \ {0}
    BY <2>2, <2>3, EmptySeq
  <2>5. \A i \in DOMAIN q.sinks : q.sinks[i] \in DOMAIN Sinks(c)
    BY <2>2 DEF Sinks, Range
  <2>6. \A s \in Range(q.sources) : s \in DOMAIN Sources(c)
    BY <2>2 DEF Sources
  <2> QED
    BY <2>2, <2>4, <2>5, <2>6 DEF Flows, q
<1>2. ASSUME NEW f
      PROVE  f \in AllFlows(c) <=>
               \E p \in DOMAIN c.pipelines : \E i \in Flows(c, p) : f = <<p, i>>
  BY DEF AllFlows
<1> QED
  BY <1>1, <1>2

(* The fields of the graph. *)
LEMMA WireFields ==
  ASSUME graph' = Wire(cfg)
  PROVE  /\ graph'.pollers = Pollers(cfg) /\ graph'.tickless = Tickless(cfg)
         /\ graph'.inlets = Inlets(cfg) /\ graph'.connectors = cfg.connectors
         /\ graph'.reads = [p \in DOMAIN cfg.pipelines |-> Reads(cfg, p)]
         /\ graph'.flows = AllFlows(cfg)
         /\ graph'.writes = [f \in AllFlows(cfg) |-> Writes(cfg, f[1], f[2])]
         /\ graph'.sinks = [k \in OwnSinks(cfg) |-> Sinks(cfg)[k].type]
         /\ graph'.below = Downstream(cfg)
         /\ graph'.wellConnected = WellConnected(cfg)
         /\ graph'.singlyOwned = SinglyOwned(cfg)
BY DEF Wire

(* A flow writes a connector, a sink with a goroutine of its own or the nil  *)
(* channel; and what a pipeline writes is no inlet.                         *)
LEMMA WritesFacts ==
  ASSUME NEW c \in Configs, Validate(c), NEW f \in AllFlows(c)
  PROVE  LET w == Writes(c, f[1], f[2])
         IN /\ w \in c.connectors \cup OwnSinks(c) \cup {NilChannel}
            /\ w \notin Inlets(c)
            /\ f \in Writers(c, w)
<1> DEFINE w == Writes(c, f[1], f[2])
<1>1. PICK p \in DOMAIN c.pipelines : \E i \in Flows(c, p) : f = <<p, i>>
  BY FlowFacts
<1>2. PICK i \in Flows(c, p) : f = <<p, i>>
  BY <1>1
<1> DEFINE k == c.pipelines[p].sinks[i]
<1>3. k \in DOMAIN Sinks(c)
  BY <1>2, FlowFacts
<1>4. w = Channel(c, Sinks(c)[k], k)
  BY <1>2 DEF Writes
<1> HIDE DEF k
<1>5. w \in c.connectors \cup OwnSinks(c) \cup {NilChannel}
  BY <1>3, <1>4 DEF Channel, OwnSinks
<1>6. f \in Writers(c, w)
  BY DEF Writers
<1> HIDE DEF w
<1>7. w \notin Inlets(c)
  BY <1>6 DEF Inlets
<1> QED
  BY <1>5, <1>6, <1>7 DEF w

(* A graph that is built is wired. *)
LEMMA WiredFacts ==
  ASSUME cfg \in Configs, Validate(cfg), graph' = Wire(cfg)
  PROVE  Wired'
<1>1. /\ graph'.pollers = Pollers(cfg)
      /\ graph'.inlets = Inlets(cfg) /\ graph'.connectors = cfg.connectors
      /\ DOMAIN graph'.reads = DOMAIN cfg.pipelines
      /\ graph'.flows = AllFlows(cfg)
      /\ \A f \in AllFlows(cfg) : graph'.writes[f] = Writes(cfg, f[1], f[2])
      /\ DOMAIN graph'.sinks = OwnSinks(cfg)
  BY WireFields
<1>2. Pipelines' = DOMAIN cfg.pipelines
  BY <1>1 DEF Pipelines
<1>3. graph'.inlets \subseteq graph'.connectors
  BY <1>1 DEF Inlets
<1>4. Feeds' \subseteq DOMAIN MaxPolls
  BY <1>1, <1>3, GraphAssumption DEF Feeds, Pollers, Sources
<1>5. ASSUME NEW p \in DOMAIN cfg.pipelines PROVE FlowsOf(p)' = Flows(cfg, p)
  <2>1. FlowsOf(p)' = {f[2] : f \in {f \in AllFlows(cfg) : f[1] = p}}
    BY <1>1 DEF FlowsOf
  <2>2. ASSUME NEW i \in Flows(cfg, p) PROVE i \in FlowsOf(p)'
    <3>1. <<p, i>> \in AllFlows(cfg)
      BY FlowFacts
    <3>2. <<p, i>> \in {f \in AllFlows(cfg) : f[1] = p} /\ <<p, i>>[2] = i
      BY <3>1
    <3> QED
      BY <2>1, <3>2
  <2>3. ASSUME NEW f \in AllFlows(cfg), f[1] = p PROVE f[2] \in Flows(cfg, p)
    <3>1. PICK q \in DOMAIN cfg.pipelines : \E i \in Flows(cfg, q) : f = <<q, i>>
      BY FlowFacts
    <3> QED
      BY <2>3, <3>1
  <2> QED
    BY <2>1, <2>2, <2>3
<1>6. ASSUME NEW f \in AllFlows(cfg)
      PROVE  /\ f = <<f[1], f[2]>>
             /\ f[1] \in DOMAIN cfg.pipelines /\ f[2] \in Flows(cfg, f[1])
  <2>1. PICK q \in DOMAIN cfg.pipelines : \E i \in Flows(cfg, q) : f = <<q, i>>
    BY FlowFacts
  <2> QED
    BY <2>1
<1>7. \A p \in Pipelines' : /\ \E n \in FlowsOf(p)' : n \in Nat /\ FlowsOf(p)' = 1..n
                            /\ \A i \in FlowsOf(p)' : <<p, i>> \in graph'.flows
  BY <1>1, <1>2, <1>5, FlowFacts
<1>8. \A f \in graph'.flows :
         /\ graph'.writes[f] \in graph'.connectors \cup DOMAIN graph'.sinks \cup {NilChannel}
         /\ graph'.writes[f] \notin graph'.inlets
  BY <1>1, WritesFacts
<1>9. \A f \in graph'.flows : /\ f = <<f[1], f[2]>>
                              /\ f[1] \in Pipelines' /\ f[2] \in FlowsOf(f[1])'
  BY <1>1, <1>2, <1>5, <1>6
<1> QED
  BY <1>3, <1>4, <1>7, <1>8, <1>9 DEF Wired

(* SinglyOwned is what Owned says of the graph. *)
LEMMA OwnedFacts ==
  ASSUME cfg \in Configs, Validate(cfg), graph' = Wire(cfg)
  PROVE  Owned'
<1>1. /\ graph'.singlyOwned = SinglyOwned(cfg)
      /\ graph'.flows = AllFlows(cfg)
      /\ \A f \in AllFlows(cfg) : graph'.writes[f] = Writes(cfg, f[1], f[2])
      /\ DOMAIN graph'.sinks = OwnSinks(cfg)
      /\ \A k \in OwnSinks(cfg) : graph'.sinks[k] = Sinks(cfg)[k].type
  BY WireFields
<1> SUFFICES ASSUME SinglyOwned(cfg)
             PROVE  /\ \A k \in DOMAIN graph'.sinks : graph'.sinks[k] # "sse"
                    /\ \A f \in graph'.flows : graph'.writes[f] # NilChannel
                    /\ \A f, g \in graph'.flows : graph'.writes[f] = graph'.writes[g] => f = g
  BY <1>1 DEF Owned
<1>2. \A k \in DOMAIN graph'.sinks : graph'.sinks[k] # "sse"
  BY <1>1 DEF SinglyOwned
<1>3. \A f \in AllFlows(cfg) : Writes(cfg, f[1], f[2]) # NilChannel
  BY DEF SinglyOwned, Writers
<1>4. ASSUME NEW f \in AllFlows(cfg), NEW g \in AllFlows(cfg),
             Writes(cfg, f[1], f[2]) = Writes(cfg, g[1], g[2])
      PROVE  f = g
  <2> DEFINE w == Writes(cfg, f[1], f[2])
  <2>1. f \in Writers(cfg, w) /\ g \in Writers(cfg, w) /\ w \in cfg.connectors \cup OwnSinks(cfg)
    BY <1>3, <1>4, WritesFacts
  <2> HIDE DEF w
  <2>2. w \in Channels(cfg)
    BY <2>1 DEF Channels, Sinks, OwnSinks
  <2> QED
    BY <2>1, <2>2 DEF SinglyOwned
<1> QED
  BY <1>1, <1>2, <1>3, <1>4

(* A nonempty set of numbers has a least element. *)
LEMMA LeastNat ==
  ASSUME NEW T \in SUBSET Nat, T # {}
  PROVE  \E m \in T : \A n \in T : m <= n
<1> DEFINE R == OpToRel(<, Nat)
<1>1. IsWellFoundedOn(R, Nat)
  BY NatLessThanWellFounded
<1>2. \A m, n \in Nat : <<n, m>> \in R <=> n < m
  BY DEF OpToRel
<1> HIDE DEF R
<1>3. PICK m \in T : \A n \in Nat : <<n, m>> \in R => n \notin T
  BY <1>1, WFMin
<1>4. \A n \in T : ~(n < m)
  BY <1>2, <1>3
<1> QED
  BY <1>4

(* Induction, for a set in place of a predicate. *)
LEMMA SetInduction ==
  ASSUME NEW S, 0 \in S, \A n \in Nat : n \in S => n + 1 \in S
  PROVE  \A n \in Nat : n \in S
<1> DEFINE T == {n \in Nat : n \notin S}
<1>1. ASSUME T # {} PROVE FALSE
  <2>1. PICK m \in T : \A n \in T : m <= n
    BY <1>1, LeastNat
  <2>2. m # 0 /\ m - 1 \in Nat /\ m - 1 \notin T
    BY <2>1
  <2> QED
    BY <2>1, <2>2
<1> QED
  BY <1>1

(* Downstream is a fixpoint that is cut off at the number of pipelines, but   *)
(* whatever it holds has a last hop: by induction on the number of hops.    *)
LEMMA DownstreamFacts ==
  ASSUME NEW c \in Configs, Validate(c), NEW s \in Channels(c), NEW d \in Downstream(c)[s]
  PROVE  \E e \in {s} \cup Downstream(c)[s] : e \in Channels(c) /\ d \in Onward(c, e)
<1> DEFINE Ch == Channels(c)
           N == Cardinality(DOMAIN c.pipelines)
           next == [x \in Ch |-> Onward(c, x)]
           Z == [x \in Ch |-> {}]
           Further(g) == [x \in Ch |-> next[x] \cup UNION {g[y] : y \in next[x]}]
           Loop(f, m) == f = [n \in 0..m |-> IF n = 0 THEN Z ELSE Further(f[n - 1])]
           S == {m \in Nat : \E f : Loop(f, m)}
<1>1. N \in Nat
  BY GraphAssumption, FS_CardinalityType DEF IsGraphConfig
<1>2. \A x \in Ch : next[x] \subseteq Ch
  <2> SUFFICES ASSUME NEW f \in AllFlows(c) PROVE Writes(c, f[1], f[2]) \in Ch
    BY DEF Onward
  <2>1. Writes(c, f[1], f[2]) \in c.connectors \cup OwnSinks(c) \cup {NilChannel}
    BY WritesFacts
  <2> QED
    BY <2>1 DEF Channels, OwnSinks, Sinks
<1>3. Downstream(c) = (CHOOSE f : Loop(f, N))[N]
  BY DEF Downstream
<1>5. \A x \in Ch : next[x] = Onward(c, x)
  OBVIOUS
<1> HIDE DEF Ch, N, next, Z
<1>6. 0 \in S
  <2>1. Loop([n \in 0..0 |-> Z], 0)
    OBVIOUS
  <2> QED
    BY <2>1
<1>7. ASSUME NEW m \in Nat, m \in S PROVE m + 1 \in S
  <2> HIDE DEF Further
  <2>1. PICK f : Loop(f, m)
    BY <1>7
  <2> DEFINE g == [n \in 0..(m + 1) |-> IF n <= m THEN f[n] ELSE Further(f[m])]
  <2>2. \A n \in 0..(m + 1) : g[n] = IF n = 0 THEN Z ELSE Further(g[n - 1])
    <3> SUFFICES ASSUME NEW n \in 0..(m + 1)
                 PROVE  g[n] = IF n = 0 THEN Z ELSE Further(g[n - 1])
      OBVIOUS
    <3>1. CASE n = m + 1
      BY <3>1
    <3>2. CASE n \in 0..m
      <4>1. f[n] = IF n = 0 THEN Z ELSE Further(f[n - 1])
        BY <2>1, <3>2
      <4> QED
        BY <3>2, <4>1
    <3> QED
      BY <3>1, <3>2
  <2>3. g = [n \in 0..(m + 1) |-> g[n]]
    OBVIOUS
  <2> HIDE DEF g
  <2>4. g = [n \in 0..(m + 1) |-> IF n = 0 THEN Z ELSE Further(g[n - 1])]
    BY <2>2, <2>3
  <2> QED
    BY <2>4
<1>8. N \in S
  <2> HIDE DEF S
  <2> QED
    BY <1>1, <1>6, <1>7, SetInduction
<1> DEFINE w == CHOOSE f : Loop(f, N)
<1>9. Loop(w, N)
  <2>1. \E f : Loop(f, N)
    BY <1>8
  <2> HIDE DEF Loop
  <2> QED
    BY <2>1
<1> HIDE DEF w
<1>10. w[0] = Z /\ \A n \in 1..N : w[n] = Further(w[n - 1])
  <2>1. \A n \in 0..N : w[n] = IF n = 0 THEN Z ELSE Further(w[n - 1])
    BY <1>9
  <2> HIDE DEF Further, Loop
  <2> QED
    BY <1>1, <2>1
<1> DEFINE Final(n) == \A x \in Ch : \A y \in w[n][x] : \E e \in {x} \cup w[n][x] :
                         e \in Ch /\ y \in next[e]
           P == {n \in Nat : n <= N => Final(n)}
<1>11. 0 \in P
  BY <1>10 DEF Z
<1>12. ASSUME NEW n \in Nat, n \in P PROVE n + 1 \in P
  <2> SUFFICES ASSUME n + 1 <= N PROVE Final(n + 1)
    OBVIOUS
  <2>1. n + 1 \in 1..N /\ n <= N /\ (n + 1) - 1 = n
    BY <1>1
  <2>2. Final(n)
    BY <1>12, <2>1
  <2>3. w[n + 1] = Further(w[n])
    BY <1>10, <2>1
  <2>4. \A x \in Ch : w[n + 1][x] = next[x] \cup UNION {w[n][y] : y \in next[x]}
    BY <2>3
  <2> SUFFICES ASSUME NEW x \in Ch, NEW y \in w[n + 1][x]
               PROVE  \E e \in {x} \cup w[n + 1][x] : e \in Ch /\ y \in next[e]
    OBVIOUS
  <2>5. CASE y \in next[x]
    BY <2>5
  <2>6. CASE \E z \in next[x] : y \in w[n][z]
    <3>1. PICK z \in next[x] : y \in w[n][z]
      BY <2>6
    <3>2. z \in Ch
      BY <1>2, <3>1
    <3>3. PICK e \in {z} \cup w[n][z] : e \in Ch /\ y \in next[e]
      BY <2>2, <3>1, <3>2
    <3>4. e \in w[n + 1][x]
      BY <2>4, <3>1, <3>3
    <3> QED
      BY <3>3, <3>4
  <2> QED
    BY <2>4, <2>5, <2>6
<1>13. N \in P
  <2> HIDE DEF P
  <2> QED
    BY <1>1, <1>11, <1>12, SetInduction
<1>14. Final(N) /\ Downstream(c) = w[N]
  <2>1. Final(N)
    BY <1>1, <1>13
  <2> HIDE DEF Final
  <2> QED
    BY <1>3, <2>1 DEF w
<1>15. PICK e \in {s} \cup w[N][s] : e \in Ch /\ d \in next[e]
  BY <1>14 DEF Ch
<1> QED
  BY <1>5, <1>14, <1>15 DEF Ch

(* WellConnected is what Connected says of the graph. *)
LEMMA ConnectedFacts ==
  ASSUME cfg \in Configs, Validate(cfg), graph' = Wire(cfg)
  PROVE  Connected'
<1>1. /\ graph'.pollers = Pollers(cfg) /\ graph'.connectors = cfg.connectors
      /\ graph'.inlets = Inlets(cfg)
      /\ DOMAIN graph'.reads = DOMAIN cfg.pipelines
      /\ \A p \in DOMAIN cfg.pipelines : graph'.reads[p] = Reads(cfg, p)
      /\ graph'.flows = AllFlows(cfg)
      /\ \A f \in AllFlows(cfg) : graph'.writes[f] = Writes(cfg, f[1], f[2])
      /\ DOMAIN graph'.sinks = OwnSinks(cfg)
      /\ graph'.below = Downstream(cfg) /\ graph'.wellConnected = WellConnected(cfg)
  BY WireFields
<1>2. Pipelines' = DOMAIN cfg.pipelines /\ Feeds' = Pollers(cfg) \cup Inlets(cfg)
  BY <1>1 DEF Pipelines, Feeds
<1>3. cfg.connectors \cap Pollers(cfg) = {} /\ cfg.connectors \cap OwnSinks(cfg) = {}
  BY DEF Pollers, OwnSinks, Sources, Sinks
<1>4. Pollers(cfg) \cap OwnSinks(cfg) = {}
  <2>1. Pollers(cfg) \subseteq DOMAIN cfg.sources \cup cfg.connectors
    BY DEF Pollers, Sources
  <2>2. OwnSinks(cfg) \subseteq DOMAIN cfg.sinks \cup cfg.connectors
    BY DEF OwnSinks, Sinks
  <2>3. DOMAIN cfg.sources \cap DOMAIN cfg.sinks \subseteq cfg.connectors
    BY GraphAssumption DEF NamedApart
  <2> QED
    BY <1>3, <2>1, <2>2, <2>3
<1> SUFFICES ASSUME WellConnected(cfg)
    PROVE
      /\ \A p \in DOMAIN cfg.pipelines : Reads(cfg, p) \subseteq cfg.connectors \cup Pollers(cfg)
      /\ \A p, q \in DOMAIN cfg.pipelines : \A c \in Reads(cfg, p) \cap Reads(cfg, q) : p = q
      /\ \A s \in Pollers(cfg) \cup Inlets(cfg) : \A c \in Downstream(cfg)[s] :
           \E d \in {s} \cup Downstream(cfg)[s] : \E f \in AllFlows(cfg) :
             Writes(cfg, f[1], f[2]) = c /\ d \in graph'.reads[f[1]]
  <2>1. (cfg.connectors \cup Pollers(cfg)) \cap OwnSinks(cfg) = {}
    BY <1>3, <1>4
  <2> QED
    BY <1>1, <1>2, <1>3, <2>1 DEF Connected
<1>5. /\ Readers(cfg, NilChannel) = {}
      /\ \A c \in cfg.connectors \cup Pollers(cfg) : \A p, q \in Readers(cfg, c) : p = q
  BY DEF WellConnected
<1>6. ASSUME NEW p \in DOMAIN cfg.pipelines, NEW c \in Reads(cfg, p)
      PROVE  c \in cfg.connectors \cup Pollers(cfg) /\ p \in Readers(cfg, c)
  <2>1. p \in Readers(cfg, c)
    BY DEF Readers
  <2>2. PICK s \in Range(cfg.pipelines[p].sources) : c = Channel(cfg, Sources(cfg)[s], s)
    BY DEF Reads
  <2>3. s \in DOMAIN Sources(cfg)
    BY FlowFacts
  <2>4. c \in cfg.connectors \cup Pollers(cfg) \cup {NilChannel}
    BY <2>2, <2>3 DEF Channel, Pollers
  <2> QED
    BY <1>5, <2>1, <2>4
<1>7. ASSUME NEW s \in Pollers(cfg) \cup Inlets(cfg), NEW c \in Downstream(cfg)[s]
      PROVE  \E d \in {s} \cup Downstream(cfg)[s] : \E f \in AllFlows(cfg) :
               Writes(cfg, f[1], f[2]) = c /\ d \in graph'.reads[f[1]]
  <2>1. s \in Channels(cfg)
    BY DEF Pollers, Inlets, Channels, Sources
  <2>2. PICK d \in {s} \cup Downstream(cfg)[s] : c \in Onward(cfg, d)
    BY <2>1, DownstreamFacts
  <2>3. PICK f \in AllFlows(cfg) : f[1] \in Readers(cfg, d) /\ c = Writes(cfg, f[1], f[2])
    BY <2>2 DEF Onward
  <2>4. d \in graph'.reads[f[1]]
    BY <1>1, <2>3 DEF Readers
  <2> QED
    BY <2>3, <2>4
<1> QED
  BY <1>5, <1>6, <1>7

-----------------------------------------------------------------------------
(* Sequences. *)

(* Append adds an element to those of a sequence. *)
LEMMA RangeAppend ==
  ASSUME NEW S, NEW q \in Seq(S), NEW e \in S
  PROVE  Range(Append(q, e)) = Range(q) \cup {e}
<1>1. /\ Append(q, e) \in Seq(S) /\ Len(Append(q, e)) = Len(q) + 1 /\ Len(q) \in Nat
      /\ \A i \in 1..Len(q) : Append(q, e)[i] = q[i]
      /\ Append(q, e)[Len(q) + 1] = e
  BY AppendProperties
<1>2. DOMAIN Append(q, e) = 1..(Len(q) + 1) /\ DOMAIN q = 1..Len(q)
  BY <1>1
<1> DEFINE a == Append(q, e)
<1> HIDE DEF a
<1>3. \A x \in Range(a) : x \in Range(q) \cup {e}
  BY <1>1, <1>2 DEF Range, a
<1>4. \A x \in Range(q) \cup {e} : x \in Range(a)
  <2>1. \A i \in 1..Len(q) : i \in 1..(Len(q) + 1)
    BY <1>1
  <2>2. Len(q) + 1 \in 1..(Len(q) + 1)
    BY <1>1
  <2> QED
    BY <1>1, <1>2, <2>1, <2>2 DEF Range, a
<1> QED
  BY <1>3, <1>4 DEF a

(* Head and Tail part the elements of a sequence. *)
LEMMA RangeTail ==
  ASSUME NEW S, NEW q \in Seq(S), q # <<>>
  PROVE  Range(q) = {Head(q)} \cup Range(Tail(q))
<1> DEFINE t == Tail(q)
<1>1. /\ t \in Seq(S) /\ Len(t) = Len(q) - 1 /\ Len(q) \in Nat \ {0} /\ Head(q) = q[1]
      /\ \A i \in 1..Len(t) : t[i] = q[i + 1]
  BY HeadTailProperties, EmptySeq
<1> HIDE DEF t
<1>2. DOMAIN t = 1..Len(t) /\ DOMAIN q = 1..Len(q)
  BY <1>1
<1>3. ASSUME NEW i \in 1..Len(q) PROVE q[i] \in {Head(q)} \cup Range(t)
  <2>1. CASE i = 1
    BY <1>1, <2>1
  <2>2. CASE i # 1
    <3>1. i - 1 \in 1..Len(t) /\ (i - 1) + 1 = i
      BY <1>1, <2>2
    <3>2. t[i - 1] = q[i]
      BY <1>1, <3>1
    <3> QED
      BY <1>2, <3>1, <3>2 DEF Range
  <2> QED
    BY <2>1, <2>2
<1>4. ASSUME NEW i \in 1..Len(t) PROVE t[i] \in Range(q)
  <2>1. i + 1 \in 1..Len(q)
    BY <1>1
  <2> QED
    BY <1>1, <1>2, <2>1 DEF Range
<1>5. Head(q) \in Range(q)
  <2>1. 1 \in 1..Len(q)
    BY <1>1
  <2> QED
    BY <1>1, <1>2, <2>1 DEF Range
<1>6. \A x \in Range(q) : x \in {Head(q)} \cup Range(t)
  BY <1>2, <1>3 DEF Range
<1>7. \A x \in {Head(q)} \cup Range(t) : x \in Range(q)
  BY <1>2, <1>4, <1>5 DEF Range
<1> QED
  BY <1>6, <1>7 DEF t

(* The empty sequence has no elements. *)
LEMMA RangeEmpty == Range(<<>>) = {}
BY DEF Range

(* What a processor makes of an element holds it, unless it is nothing. *)
LEMMA RangeCopies ==
  ASSUME NEW n \in Nat, n # 0, NEW e
  PROVE  e \in Range([i \in 1..n |-> e])
<1>1. 1 \in 1..n
  OBVIOUS
<1> QED
  BY <1>1 DEF Range

(* FanOut takes an element, and hands it to a flow. *)
LEMMA Moves ==
  \A g, q \in Seq(Elements), e \in Elements :
    /\ Append((g \o q) \o <<>>, e) = (g \o q) \o <<e>>
    /\ (g \o q) \o <<e>> = (g \o Append(q, e)) \o <<>>
<1> SUFFICES ASSUME NEW g \in Seq(Elements), NEW q \in Seq(Elements), NEW e \in Elements
             PROVE  /\ Append((g \o q) \o <<>>, e) = (g \o q) \o <<e>>
                    /\ (g \o q) \o <<e>> = (g \o Append(q, e)) \o <<>>
  OBVIOUS
<1>1. <<e>> \in Seq(Elements) /\ g \o q \in Seq(Elements) /\ Append(q, e) \in Seq(Elements)
  OBVIOUS
<1>2. (g \o q) \o <<>> = g \o q
  BY <1>1, ConcatEmptySeq
<1>3. Append(g \o q, e) = (g \o q) \o <<e>> /\ Append(q, e) = q \o <<e>>
  BY <1>1, AppendIsConcat
<1>4. (g \o q) \o <<e>> = g \o (q \o <<e>>)
  BY <1>1, ConcatAssociative
<1>5. (g \o Append(q, e)) \o <<>> = g \o Append(q, e)
  BY <1>1, ConcatEmptySeq
<1> QED
  BY <1>2, <1>3, <1>4, <1>5

(* A flow hands its first element on. *)
LEMMA MovesOn ==
  \A g, q \in Seq(Elements) : q # <<>> => g \o q = Append(g, Head(q)) \o Tail(q)
<1> SUFFICES ASSUME NEW g \in Seq(Elements), NEW q \in Seq(Elements), q # <<>>
             PROVE  g \o q = Append(g, Head(q)) \o Tail(q)
  OBVIOUS
<1>1. Head(q) \in Elements /\ Tail(q) \in Seq(Elements) /\ <<Head(q)>> \in Seq(Elements)
  BY HeadTailProperties
<1>2. q = <<Head(q)>> \o Tail(q)
  BY HeadTailAppend
<1>3. Append(g, Head(q)) = g \o <<Head(q)>>
  BY <1>1, AppendIsConcat
<1>4. (g \o <<Head(q)>>) \o Tail(q) = g \o (<<Head(q)>> \o Tail(q))
  BY <1>1, ConcatAssociative
<1> QED
  BY <1>2, <1>3, <1>4

-----------------------------------------------------------------------------
(* What steps leave alone.                                                  *)

(* The wiring depends on the graph only. *)
LEMMA SameGraph ==
  ASSUME graph' = graph
  PROVE  /\ Feeds' = Feeds /\ Pipelines' = Pipelines /\ Elements' = Elements
         /\ \A p : FlowsOf(p)' = FlowsOf(p)
         /\ Wired => Wired'
         /\ Owned => Owned'
         /\ Connected => Connected'
<1>1. Feeds' = Feeds /\ Pipelines' = Pipelines
  BY DEF Feeds, Pipelines
<1>2. \A p : FlowsOf(p)' = FlowsOf(p)
  BY DEF FlowsOf
<1>3. Elements' = Elements
  BY <1>1 DEF Elements
<1>4. Wired => Wired'
  BY <1>1, <1>2 DEF Wired
<1>5. Owned => Owned'
  BY DEF Owned
<1>6. Connected => Connected'
  BY <1>1 DEF Connected
<1> QED
  BY <1>1, <1>2, <1>3, <1>4, <1>5, <1>6

(* InStep is about FanOut and the flows behind it. *)
LEMMA InStepKept ==
  ASSUME InStep, UNCHANGED <<graph, sent, got, outlet, fan>>
  PROVE  InStep'
BY SameGraph DEF InStep, Pending

(* Ends stands as long as the flows that have ended are left alone. *)
LEMMA EndsKept ==
  ASSUME Ends, UNCHANGED <<graph, closed, stopped, sending, done>>,
         \A f \in done : /\ f[1] \in ended' /\ work'[f[1]] = work[f[1]] /\ fan'[f[1]] = fan[f[1]]
                         /\ outlet'[f[1]][f[2]] = outlet[f[1]][f[2]]
  PROVE  Ends'
BY DEF Ends

(* Passes stands when no pipeline forgets what it has taken in. *)
LEMMA PassesKept ==
  ASSUME Passes, UNCHANGED <<graph, polls, sending, got>>,
         \A p \in Pipelines : Entered(p) \subseteq Entered(p)'
  PROVE  Passes'
<1>1. SUFFICES ASSUME graph.wellConnected
      PROVE /\ \A p \in Pipelines : \A s \in Feeds \cap graph.reads[p] : \A n \in 1..polls[s] :
                 <<s, n>> \in Entered(p)' \/ sending[s] = <<s, n>>
            /\ \A p \in Pipelines : \A f \in graph.flows :
                 graph.writes[f] \in graph.connectors \cap graph.reads[p] =>
                   Range(got[f[1]][f[2]]) \subseteq Entered(p)'
  BY SameGraph DEF Passes
<1> QED
  BY <1>1 DEF Passes

(* What a channel was given is a matter of got. *)
LEMMA DeliveredKept ==
  ASSUME UNCHANGED <<graph, got>>, NEW c
  PROVE  Delivered(c)' = Delivered(c)
BY DEF Delivered

(* Drained stands when no channel closes, no pipeline ends and none that has *)
(* ended gets an element.                                                   *)
LEMMA DrainedKept ==
  ASSUME Drained, UNCHANGED <<graph, cancelled, polls, stopped, closed, got>>,
         filtered \subseteq filtered',
         \A p \in ended' : p \in ended /\ inlet'[p] = inlet[p]
  PROVE  Drained'
<1>1. SUFFICES ASSUME graph.wellConnected, graph.singlyOwned, ~cancelled
      PROVE /\ \A p \in ended' : graph.reads[p] \subseteq closed /\ inlet'[p] = <<>>
            /\ \A c \in closed : \A s \in Feeds : c \in graph.below[s] =>
                 /\ s \in stopped
                 /\ \A n \in 1..polls[s] : <<s, n>> \in Delivered(c) \cup filtered'
  BY SameGraph, DeliveredKept DEF Drained
<1> QED
  BY <1>1 DEF Drained

-----------------------------------------------------------------------------
(* Every goroutine's steps keep what is said of the graph.                  *)

(* Elements and what FanOut holds are told apart from Nil. *)
LEMMA ElementFacts ==
  ASSUME GraphParts
  PROVE  /\ Nil \notin Elements
         /\ \A s \in Feeds : MaxPolls[s] \in Nat
         /\ \A s \in Feeds : \A n \in 1..MaxPolls[s] : <<s, n>> \in Elements
         /\ \A p \in Pipelines : \A r \in [element : Elements, next : FlowsOf(p)] : r # Nil
         /\ Slots \in Nat \ {0}
<1>1. Feeds \subseteq DOMAIN MaxPolls
  BY DEF GraphParts, Wired
<1>2. Elements \subseteq ElementsOf(DOMAIN MaxPolls)
  BY <1>1 DEF Elements, ElementsOf
<1>3. ASSUME NEW p \in Pipelines, NEW r \in [element : Elements, next : FlowsOf(p)]
      PROVE  r # Nil
  <2>1. FlowsOf(p) \subseteq Nat
    BY DEF GraphParts, Wired
  <2> QED
    BY <1>2, <2>1, NilAssumption
<1> QED
  BY <1>1, <1>2, <1>3, NilAssumption, GraphAssumption DEF Elements, ElementsOf

(* A source takes an element from its feed: it has not returned. *)
LEMMA PollStep ==
  ASSUME GraphParts, NEW s \in Feeds, Poll(s)
  PROVE  GraphParts'
<1> USE DEF GraphParts
<1>1. /\ UNCHANGED <<graph, cancelled, stopped, processorVars, fanOutVars, sinkVars>>
      /\ s \notin stopped /\ sending[s] = Nil /\ polls[s] < MaxPolls[s]
      /\ polls' = [polls EXCEPT ![s] = @ + 1]
      /\ sending' = [sending EXCEPT ![s] = <<s, polls'[s]>>]
  BY DEF Poll, Steady
<1> USE DEF processorVars, fanOutVars, sinkVars
<1>2. polls'[s] = polls[s] + 1 /\ polls'[s] \in 1..MaxPolls[s] /\ <<s, polls'[s]>> \in Elements
  BY <1>1, ElementFacts DEF Shape
<1>3. Shape'
  <2>1. polls' \in [Feeds -> Nat] /\ \A t \in Feeds : polls'[t] \in 0..MaxPolls[t]
    BY <1>1, <1>2, ElementFacts DEF Shape
  <2>2. sending' \in [Feeds -> Elements \cup {Nil}]
    BY <1>1, <1>2 DEF Shape
  <2> QED
    BY <1>1, <2>1, <2>2, SameGraph DEF Shape
<1>4. InStep'
  BY <1>1, InStepKept
<1>5. Ends'
  BY <1>1 DEF Ends
<1>6. Passes'
  <2>1. SUFFICES ASSUME graph.wellConnected, NEW p \in Pipelines,
                        NEW t \in Feeds \cap graph.reads[p], NEW n \in 1..polls'[t]
                 PROVE  <<t, n>> \in Entered(p) \/ sending'[t] = <<t, n>>
    <3>1. \A p : Entered(p)' = Entered(p)
      BY <1>1 DEF Entered
    <3> QED
      BY <1>1, <3>1, SameGraph DEF Passes
  <2>2. CASE t # s
    BY <1>1, <2>1, <2>2 DEF Passes, Shape
  <2>3. CASE t = s /\ n = polls'[s]
    BY <1>1, <2>3 DEF Shape
  <2>4. CASE t = s /\ n # polls'[s]
    <3>1. n \in 1..polls[s] /\ <<s, n>> \in Elements
      BY <1>2, <2>4, ElementFacts DEF Shape
    <3> QED
      BY <1>1, <2>1, <2>4, <3>1, ElementFacts DEF Passes
  <2> QED
    BY <2>2, <2>3, <2>4
<1>7. Drained'
  <2>1. SUFFICES ASSUME graph.wellConnected, graph.singlyOwned, ~cancelled,
                        NEW c \in closed, NEW t \in Feeds, c \in graph.below[t]
                 PROVE  /\ t \in stopped
                        /\ \A n \in 1..polls'[t] : <<t, n>> \in Delivered(c) \cup filtered
    BY <1>1, SameGraph, DeliveredKept DEF Drained
  <2> QED
    BY <1>1, <2>1 DEF Drained, Shape
<1> QED
  BY <1>1, <1>3, <1>4, <1>5, <1>6, <1>7, SameGraph

(* A source returns: ctx is done. *)
LEMMA SourceReturnsStep ==
  ASSUME GraphParts, NEW s \in Feeds, SourceReturns(s)
  PROVE  GraphParts'
<1> USE DEF GraphParts
<1>1. /\ UNCHANGED <<graph, cancelled, polls, sending, processorVars, fanOutVars, sinkVars>>
      /\ cancelled /\ sending[s] = Nil
      /\ stopped' = stopped \cup {s}
  BY DEF SourceReturns, Steady
<1> USE DEF processorVars, fanOutVars, sinkVars
<1>3. Shape'
  BY <1>1, SameGraph DEF Shape
<1>4. InStep'
  BY <1>1, InStepKept
<1>5. Ends'
  BY <1>1 DEF Ends
<1>6. Passes'
  <2>1. \A p : Entered(p)' = Entered(p)
    BY <1>1 DEF Entered
  <2> QED
    BY <1>1, <2>1, PassesKept
<1>7. Drained'
  BY <1>1 DEF Drained
<1> QED
  BY <1>1, <1>3, <1>4, <1>5, <1>6, <1>7, SameGraph

(* The program that feeds a connector closes it: no flow leads there. *)
LEMMA InletClosesStep ==
  ASSUME GraphParts, NEW c \in graph.inlets, InletCloses(c)
  PROVE  GraphParts'
<1> USE DEF GraphParts
<1>1. /\ UNCHANGED <<graph, cancelled, polls, sending, processorVars, fanOutVars>>
      /\ UNCHANGED <<outlet, got, done, sink>>
      /\ sending[c] = Nil
      /\ stopped' = stopped \cup {c} /\ closed' = closed \cup {c}
  BY DEF InletCloses, Steady
<1> USE DEF processorVars, fanOutVars
<1>2. c \in Feeds /\ c \in graph.connectors
  BY DEF Feeds, Wired
<1>3. Shape'
  BY <1>1, <1>2, SameGraph DEF Shape
<1>4. InStep'
  BY <1>1, InStepKept
<1>5. Ends'
  BY <1>1 DEF Ends
<1>6. Passes'
  <2>1. \A p : Entered(p)' = Entered(p)
    BY <1>1 DEF Entered
  <2> QED
    BY <1>1, <2>1, PassesKept
<1>7. Drained'
  <2>1. SUFFICES ASSUME graph.wellConnected, graph.singlyOwned, ~cancelled
        PROVE /\ \A p \in ended : graph.reads[p] \subseteq closed' /\ inlet[p] = <<>>
              /\ \A d \in closed' : \A s \in Feeds : d \in graph.below[s] =>
                   /\ s \in stopped'
                   /\ \A n \in 1..polls[s] : <<s, n>> \in Delivered(d) \cup filtered
    BY <1>1, SameGraph, DeliveredKept DEF Drained
  <2>2. \A s \in Feeds : c \notin graph.below[s]
    BY <2>1 DEF Connected, Wired
  <2> QED
    BY <1>1, <2>1, <2>2 DEF Drained
<1> QED
  BY <1>1, <1>3, <1>4, <1>5, <1>6, <1>7, SameGraph

(* Without a cancellation, nothing comes to a pipeline that has ended. *)
LEMMA EndedReadsNothing ==
  ASSUME GraphParts, graph.wellConnected, graph.singlyOwned, ~cancelled,
         NEW p \in ended, NEW s \in Feeds \cap graph.reads[p]
  PROVE  s \in stopped /\ s \in graph.inlets /\ sending[s] = Nil
<1> USE DEF GraphParts
<1>1. s \in closed /\ p \in Pipelines
  BY DEF Drained, Shape
<1>2. s \in graph.inlets
  BY <1>1 DEF Connected, Shape, Feeds
<1>3. \A f \in done : graph.writes[f] # s
  BY <1>2 DEF Shape, Wired
<1>4. s \in stopped
  BY <1>1, <1>3 DEF Ends
<1> QED
  BY <1>2, <1>4 DEF Ends

(* A pipeline receives from a source: it is the one that reads it. *)
LEMMA TakeStep ==
  ASSUME GraphParts, NEW p \in Pipelines, NEW s \in Feeds, Take(p, s)
  PROVE  GraphParts'
<1> USE DEF GraphParts
<1>1. /\ UNCHANGED <<graph, cancelled, polls, stopped, work, ended, filtered, fanOutVars, sinkVars>>
      /\ s \in graph.reads[p] /\ sending[s] # Nil /\ HasRoom(p)
      /\ inlet' = [inlet EXCEPT ![p] = Append(@, sending[s])]
      /\ sending' = [sending EXCEPT ![s] = Nil]
  BY DEF Take, Steady
<1> USE DEF fanOutVars, sinkVars
<1>2. /\ sending[s] \in Elements /\ inlet[p] \in Seq(Elements)
      /\ inlet'[p] = Append(inlet[p], sending[s])
      /\ Len(inlet'[p]) <= Slots /\ inlet'[p] \in Seq(Elements)
      /\ \A q \in Pipelines \ {p} : inlet'[q] = inlet[q]
  BY <1>1, ElementFacts DEF Shape, HasRoom
<1>3. Shape'
  <2>1. inlet' \in [Pipelines -> Seq(Elements)] /\ \A q \in Pipelines : Len(inlet'[q]) <= Slots
    BY <1>1, <1>2 DEF Shape
  <2>2. sending' \in [Feeds -> Elements \cup {Nil}]
    BY <1>1, <1>2 DEF Shape
  <2> QED
    BY <1>1, <2>1, <2>2, SameGraph DEF Shape
<1>4. InStep'
  BY <1>1, InStepKept
<1>5. Ends'
  BY <1>1 DEF Ends, Shape
<1>6. Passes'
  <2>1. \A q \in Pipelines : Entered(q) \subseteq Entered(q)'
    BY <1>1, <1>2, RangeAppend DEF Entered
  <2>2. sending[s] \in Entered(p)'
    BY <1>2, RangeAppend DEF Entered
  <2>3. SUFFICES ASSUME graph.wellConnected
        PROVE /\ \A q \in Pipelines : \A t \in Feeds \cap graph.reads[q] : \A n \in 1..polls[t] :
                   <<t, n>> \in Entered(q)' \/ sending'[t] = <<t, n>>
              /\ \A q \in Pipelines : \A f \in graph.flows :
                   graph.writes[f] \in graph.connectors \cap graph.reads[q] =>
                     Range(got[f[1]][f[2]]) \subseteq Entered(q)'
    BY <1>1, SameGraph DEF Passes
  <2>4. ASSUME NEW q \in Pipelines, NEW t \in Feeds \cap graph.reads[q], NEW n \in 1..polls[t]
        PROVE  <<t, n>> \in Entered(q)' \/ sending'[t] = <<t, n>>
    <3>1. CASE t = s
      <4>1. q = p
        BY <1>1, <2>3, <3>1 DEF Connected
      <4> QED
        BY <2>1, <2>2, <2>3, <3>1, <4>1 DEF Passes
    <3>2. CASE t # s
      BY <1>1, <2>1, <2>3, <3>2 DEF Passes, Shape
    <3> QED
      BY <3>1, <3>2
  <2> QED
    BY <2>1, <2>3, <2>4 DEF Passes
<1>7. Drained'
  <2>1. CASE graph.wellConnected /\ graph.singlyOwned /\ ~cancelled
    <3>1. p \notin ended
      BY <1>1, <2>1, EndedReadsNothing
    <3>2. \A q \in ended : q \in Pipelines
      BY DEF Shape
    <3> QED
      BY <1>1, <1>2, <3>1, <3>2, DrainedKept
  <2>2. CASE ~(graph.wellConnected /\ graph.singlyOwned /\ ~cancelled)
    BY <1>1, <2>2 DEF Drained
  <2> QED
    BY <2>1, <2>2
<1> QED
  BY <1>1, <1>3, <1>4, <1>5, <1>6, <1>7, SameGraph

(* A processor makes elements of one: they stand for it, or it is filtered. *)
LEMMA ProcessStep ==
  ASSUME GraphParts, NEW p \in Pipelines, Process(p)
  PROVE  GraphParts'
<1> USE DEF GraphParts
<1>1. /\ UNCHANGED <<graph, cancelled, sourceVars, ended, fanOutVars, sinkVars>>
      /\ p \notin ended /\ work[p] = <<>> /\ inlet[p] # <<>>
      /\ inlet' = [inlet EXCEPT ![p] = Tail(@)]
  BY DEF Process, Steady
<1>2. PICK n \in Yields :
        /\ work' = [work EXCEPT ![p] = [i \in 1..n |-> Head(inlet[p])]]
        /\ filtered' = IF n = 0 THEN filtered \cup {Head(inlet[p])} ELSE filtered
  BY DEF Process
<1> USE DEF sourceVars, fanOutVars, sinkVars
<1> DEFINE h == Head(inlet[p])
<1>3. n \in Nat
  BY GraphAssumption
<1>4. /\ inlet[p] \in Seq(Elements) /\ h \in Elements
      /\ inlet'[p] = Tail(inlet[p]) /\ inlet'[p] \in Seq(Elements) /\ Len(inlet'[p]) <= Slots
      /\ \A q \in Pipelines \ {p} : inlet'[q] = inlet[q]
  BY <1>1, HeadTailProperties, ElementFacts DEF Shape
<1>5. /\ work'[p] = [i \in 1..n |-> h] /\ \A q \in Pipelines \ {p} : work'[q] = work[q]
  BY <1>2 DEF Shape
<1> HIDE DEF h
<1>6. work'[p] \in Seq(Elements)
  BY <1>3, <1>4, <1>5, IsASeq
<1>7. Shape'
  <2>1. inlet' \in [Pipelines -> Seq(Elements)] /\ \A q \in Pipelines : Len(inlet'[q]) <= Slots
    BY <1>1, <1>4 DEF Shape
  <2>2. work' \in [Pipelines -> Seq(Elements)]
    BY <1>2, <1>5, <1>6 DEF Shape
  <2> QED
    BY <1>1, <2>1, <2>2, SameGraph DEF Shape
<1>8. InStep'
  BY <1>1, InStepKept
<1>9. Ends'
  <2>1. \A f \in done : f[1] \in Pipelines \ {p}
    BY <1>1 DEF Ends, Shape
  <2> QED
    BY <1>1, <1>5, <2>1, EndsKept DEF Ends
<1>10. Passes'
  <2>1. h \in Range(work'[p]) \cup filtered' /\ filtered \subseteq filtered'
    BY <1>2, <1>3, <1>5, RangeCopies DEF h
  <2>2. Range(inlet[p]) = {h} \cup Range(inlet'[p])
    BY <1>1, <1>4, RangeTail DEF h
  <2>3. Range(work[p]) = {}
    BY <1>1, RangeEmpty
  <2>4. Entered(p) \subseteq Entered(p)'
    BY <1>1, <2>1, <2>2, <2>3 DEF Entered
  <2>5. \A q \in Pipelines \ {p} : Entered(q) \subseteq Entered(q)'
    BY <1>1, <1>4, <1>5, <2>1 DEF Entered
  <2> QED
    BY <1>1, <2>4, <2>5, PassesKept
<1>11. Drained'
  <2>1. \A q \in ended : q \in Pipelines \ {p}
    BY <1>1 DEF Shape
  <2>2. filtered \subseteq filtered'
    BY <1>2
  <2> QED
    BY <1>1, <1>4, <2>1, <2>2, DrainedKept
<1> QED
  BY <1>1, <1>7, <1>8, <1>9, <1>10, <1>11, SameGraph

(* A processor returns: without a cancellation, after its input. *)
LEMMA ProcessorReturnsStep ==
  ASSUME GraphParts, NEW p \in Pipelines, ProcessorReturns(p)
  PROVE  GraphParts'
<1> USE DEF GraphParts
<1>1. /\ UNCHANGED <<graph, cancelled, sourceVars, inlet, work, filtered, fanOutVars, sinkVars>>
      /\ cancelled \/ InputEnds(p)
      /\ ended' = ended \cup {p}
  BY DEF ProcessorReturns, Steady
<1> USE DEF sourceVars, fanOutVars, sinkVars
<1>2. Shape'
  BY <1>1, SameGraph DEF Shape
<1>3. InStep'
  BY <1>1, InStepKept
<1>4. Ends'
  BY <1>1, EndsKept DEF Ends
<1>5. Passes'
  <2>1. \A q : Entered(q)' = Entered(q)
    BY <1>1 DEF Entered
  <2> QED
    BY <1>1, <2>1, PassesKept
<1>6. Drained'
  <2>1. SUFFICES ASSUME graph.wellConnected, graph.singlyOwned, ~cancelled
        PROVE \A q \in ended' : graph.reads[q] \subseteq closed /\ inlet[q] = <<>>
    <3>1. UNCHANGED <<graph, cancelled, polls, stopped, closed, got, filtered, inlet>>
      BY <1>1
    <3> QED
      BY <3>1, SameGraph, DeliveredKept DEF Drained
  <2> QED
    BY <1>1, <2>1 DEF Drained, InputEnds
<1> QED
  BY <1>1, <1>2, <1>3, <1>4, <1>5, <1>6, SameGraph

(* FanOut receives an element: it is owed to every flow. *)
LEMMA FanOutTakesStep ==
  ASSUME GraphParts, NEW p \in Pipelines, FanOutTakes(p)
  PROVE  GraphParts'
<1> USE DEF GraphParts
<1> DEFINE h == Head(work[p])
           r == [element |-> h, next |-> 1]
<1>1. /\ UNCHANGED <<graph, cancelled, sourceVars, inlet, ended, filtered, sinkVars>>
      /\ work[p] # <<>> /\ fan[p] = Nil
      /\ fan' = [fan EXCEPT ![p] = r]
      /\ sent' = [sent EXCEPT ![p] = Append(@, h)]
      /\ work' = [work EXCEPT ![p] = Tail(@)]
  BY DEF FanOutTakes, Steady
<1> USE DEF sourceVars, sinkVars
<1>2. 1 \in FlowsOf(p) /\ FlowsOf(p) \subseteq Nat \ {0}
  BY DEF Wired
<1>3. work[p] \in Seq(Elements) /\ h \in Elements /\ Tail(work[p]) \in Seq(Elements)
  BY <1>1, HeadTailProperties DEF Shape
<1> HIDE DEF h
<1>4. r \in [element : Elements, next : FlowsOf(p)] /\ r # Nil /\ r.next = 1 /\ r.element = h
  BY <1>2, <1>3, ElementFacts
<1> HIDE DEF r
<1>5. /\ fan'[p] = r /\ sent'[p] = Append(sent[p], h) /\ work'[p] = Tail(work[p])
      /\ sent[p] \in Seq(Elements) /\ sent'[p] \in Seq(Elements)
      /\ \A q \in Pipelines \ {p} : /\ fan'[q] = fan[q] /\ sent'[q] = sent[q]
                                    /\ work'[q] = work[q]
  BY <1>1, <1>3 DEF Shape
<1>6. Shape'
  <2>1. DOMAIN fan' = Pipelines /\ \A q \in Pipelines :
          fan'[q] # Nil => fan'[q] \in [element : Elements, next : FlowsOf(q)]
    BY <1>1, <1>4, <1>5 DEF Shape
  <2>2. sent' \in [Pipelines -> Seq(Elements)] /\ work' \in [Pipelines -> Seq(Elements)]
    BY <1>1, <1>3, <1>5 DEF Shape
  <2> QED
    BY <1>1, <2>1, <2>2, SameGraph DEF Shape
<1>7. InStep'
  <2>1. SUFFICES ASSUME NEW q \in Pipelines, NEW i \in FlowsOf(q)
                 PROVE  sent'[q] = (got[q][i] \o outlet[q][i]) \o Pending(q, i)'
    BY <1>1, SameGraph DEF InStep
  <2>2. CASE q # p
    BY <1>5, <2>2 DEF InStep, Pending
  <2>3. CASE q = p
    <3>1. Pending(p, i) = <<>> /\ Pending(p, i)' = <<h>>
      BY <1>1, <1>2, <1>4, <1>5, <2>3 DEF Pending
    <3>2. sent[p] = (got[p][i] \o outlet[p][i]) \o <<>>
      BY <2>3, <3>1 DEF InStep
    <3>3. got[p][i] \in Seq(Elements) /\ outlet[p][i] \in Seq(Elements)
      BY <2>3 DEF Shape
    <3>4. Append((got[p][i] \o outlet[p][i]) \o <<>>, h) = (got[p][i] \o outlet[p][i]) \o <<h>>
      BY <1>3, <3>3, Moves, Zenon
    <3> QED
      BY <1>5, <2>3, <3>1, <3>2, <3>4
  <2> QED
    BY <2>2, <2>3
<1>8. Ends'
  <2>1. \A f \in done : f[1] \in Pipelines \ {p}
    BY <1>1 DEF Ends, Shape, Wired
  <2> QED
    BY <1>1, <1>5, <2>1, EndsKept DEF Ends
<1>9. Passes'
  <2>1. Range(work[p]) = {h} \cup Range(work'[p])
    BY <1>1, <1>3, <1>5, RangeTail DEF h
  <2>2. Range(sent'[p]) = Range(sent[p]) \cup {h}
    BY <1>3, <1>5, RangeAppend
  <2>3. Entered(p) \subseteq Entered(p)'
    BY <1>1, <2>1, <2>2 DEF Entered
  <2>4. \A q \in Pipelines \ {p} : Entered(q) \subseteq Entered(q)'
    BY <1>1, <1>5 DEF Entered
  <2> QED
    BY <1>1, <2>3, <2>4, PassesKept
<1>10. Drained'
  BY <1>1, DrainedKept
<1> QED
  BY <1>1, <1>6, <1>7, <1>8, <1>9, <1>10, SameGraph

(* FanOut hands its element to a flow: it is owed to the later ones only. *)
LEMMA FanOutSendsStep ==
  ASSUME GraphParts, NEW p \in Pipelines, FanOutSends(p)
  PROVE  GraphParts'
<1> USE DEF GraphParts
<1> DEFINE i == fan[p].next
           e == fan[p].element
           r == IF i + 1 \in FlowsOf(p) THEN [fan[p] EXCEPT !.next = i + 1] ELSE Nil
<1>1. /\ UNCHANGED <<graph, cancelled, sourceVars, processorVars, sent, got, done, closed, sink>>
      /\ fan[p] # Nil /\ Len(outlet[p][i]) < Slots
      /\ outlet' = [outlet EXCEPT ![p][i] = Append(@, e)]
      /\ fan' = [fan EXCEPT ![p] = r]
  BY DEF FanOutSends, Steady
<1> USE DEF sourceVars, processorVars
<1>2. PICK n \in Nat : FlowsOf(p) = 1..n
  BY DEF Wired
<1>3. fan[p] \in [element : Elements, next : FlowsOf(p)]
  BY <1>1 DEF Shape
<1>4. e \in Elements /\ i \in FlowsOf(p) /\ i \in Nat
  BY <1>2, <1>3
<1>5. IF i + 1 \in FlowsOf(p)
        THEN r \in [element : Elements, next : FlowsOf(p)] /\ r.element = e /\ r.next = i + 1
        ELSE r = Nil
  BY <1>3
<1>6. outlet[p] \in [FlowsOf(p) -> Seq(Elements)]
  BY DEF Shape
<1> HIDE DEF i, e, r
<1>7. /\ outlet'[p] = [outlet[p] EXCEPT ![i] = Append(@, e)]
      /\ fan'[p] = r
      /\ DOMAIN outlet' = Pipelines /\ DOMAIN fan' = Pipelines
      /\ \A q \in Pipelines \ {p} : outlet'[q] = outlet[q] /\ fan'[q] = fan[q]
  BY <1>1, <1>4 DEF Shape
<1>8. /\ outlet'[p] \in [FlowsOf(p) -> Seq(Elements)]
      /\ outlet'[p][i] = Append(outlet[p][i], e)
      /\ \A j \in FlowsOf(p) \ {i} : outlet'[p][j] = outlet[p][j]
  BY <1>4, <1>6, <1>7
<1>9. Shape'
  <2>1. \A q \in Pipelines : fan'[q] # Nil => fan'[q] \in [element : Elements, next : FlowsOf(q)]
    BY <1>5, <1>7 DEF Shape
  <2>2. Len(outlet'[p][i]) <= Slots
    BY <1>1, <1>4, <1>6, <1>8, ElementFacts
  <2>3. \A q \in Pipelines : /\ outlet'[q] \in [FlowsOf(q) -> Seq(Elements)]
                             /\ \A j \in FlowsOf(q) : Len(outlet'[q][j]) <= Slots
    BY <1>7, <1>8, <2>2 DEF Shape
  <2> QED
    BY <1>1, <1>7, <2>1, <2>3, SameGraph DEF Shape
<1>10. InStep'
  <2>1. SUFFICES ASSUME NEW q \in Pipelines, NEW j \in FlowsOf(q)
                 PROVE  sent[q] = (got[q][j] \o outlet'[q][j]) \o Pending(q, j)'
    BY <1>1, SameGraph DEF InStep
  <2>2. CASE q # p
    BY <1>7, <2>2 DEF InStep, Pending
  <2>3. CASE q = p /\ j = i
    <3>1. Pending(p, j) = <<e>>
      BY <1>1, <1>4, <2>3 DEF Pending, i, e
    <3>2. Pending(p, j)' = <<>>
      <4>1. CASE i + 1 \in FlowsOf(p)
        <5>1. fan'[p].next = i + 1 /\ ~(i + 1 <= j)
          BY <1>4, <1>5, <1>7, <2>3, <4>1
        <5>2. ~(fan'[p].next <= j)
          BY <5>1
        <5> QED
          BY <5>2 DEF Pending
      <4>2. CASE i + 1 \notin FlowsOf(p)
        BY <1>5, <1>7, <4>2 DEF Pending
      <4> QED
        BY <4>1, <4>2
    <3>3. sent[p] = (got[p][j] \o outlet[p][j]) \o <<e>>
      BY <2>3, <3>1 DEF InStep
    <3>4. got[p][j] \in Seq(Elements) /\ outlet[p][j] \in Seq(Elements)
      BY <2>3 DEF Shape
    <3>5. (got[p][j] \o outlet[p][j]) \o <<e>> = (got[p][j] \o Append(outlet[p][j], e)) \o <<>>
      BY <1>4, <3>4, Moves, Zenon
    <3>6. outlet'[p][j] = Append(outlet[p][j], e)
      BY <1>8, <2>3
    <3> QED
      BY <2>3, <3>2, <3>3, <3>5, <3>6
  <2>4. CASE q = p /\ j # i
    <3>1. j \in 1..n /\ i \in 1..n
      BY <1>2, <1>4, <2>4
    <3>2. Pending(p, j)' = Pending(p, j)
      <4>1. CASE j < i
        <5>1. Pending(p, j) = <<>>
          BY <3>1, <4>1 DEF Pending, i
        <5>2. Pending(p, j)' = <<>>
          BY <1>5, <1>7, <3>1, <4>1 DEF Pending
        <5> QED
          BY <5>1, <5>2
      <4>2. CASE i < j
        <5>1. Pending(p, j) = <<e>>
          BY <1>1, <3>1, <4>2 DEF Pending, i, e
        <5>2. i + 1 \in FlowsOf(p) /\ i + 1 <= j
          BY <1>2, <3>1, <4>2
        <5>3. r # Nil /\ r.next <= j /\ r.element = e
          BY <1>5, <5>2, ElementFacts
        <5>4. Pending(p, j)' = <<e>>
          BY <1>7, <5>3 DEF Pending
        <5> QED
          BY <5>1, <5>4
      <4> QED
        BY <2>4, <3>1, <4>1, <4>2
    <3> QED
      BY <1>8, <2>4, <3>2 DEF InStep
  <2> QED
    BY <2>2, <2>3, <2>4
<1>11. Ends'
  <2>1. \A f \in done : f[1] \in Pipelines \ {p}
    BY <1>1 DEF Ends, Shape, Wired
  <2> QED
    BY <1>1, <1>7, <2>1, EndsKept DEF Ends
<1>12. Passes'
  <2>1. \A q : Entered(q)' = Entered(q)
    BY <1>1 DEF Entered
  <2> QED
    BY <1>1, <2>1, PassesKept
<1>13. Drained'
  BY <1>1, DrainedKept
<1> QED
  BY <1>1, <1>9, <1>10, <1>11, <1>12, <1>13, SameGraph

(* A flow hands an element to its sink, or to the one pipeline that reads    *)
(* the connector; that pipeline has not ended, for its input is open.       *)
LEMMA DeliverStep ==
  ASSUME GraphParts, NEW p \in Pipelines, NEW i \in FlowsOf(p), Deliver(p, i)
  PROVE  GraphParts'
<1> USE DEF GraphParts
<1> DEFINE h == Head(outlet[p][i])
           w == graph.writes[<<p, i>>]
<1>1. /\ UNCHANGED <<graph, cancelled, sourceVars, work, ended, filtered, fanOutVars, done, closed>>
      /\ outlet[p][i] # <<>>
      /\ outlet' = [outlet EXCEPT ![p][i] = Tail(@)]
      /\ got' = [got EXCEPT ![p][i] = Append(@, h)]
  BY DEF Deliver, Steady
<1> USE DEF sourceVars, fanOutVars
<1>2. /\ outlet[p] \in [FlowsOf(p) -> Seq(Elements)] /\ got[p] \in [FlowsOf(p) -> Seq(Elements)]
      /\ Len(outlet[p][i]) <= Slots
  BY DEF Shape
<1>3. h \in Elements /\ Tail(outlet[p][i]) \in Seq(Elements) /\ Len(Tail(outlet[p][i])) <= Slots
  BY <1>1, <1>2, HeadTailProperties, ElementFacts
<1> HIDE DEF h
<1>4. /\ outlet'[p] = [outlet[p] EXCEPT ![i] = Tail(@)]
      /\ got'[p] = [got[p] EXCEPT ![i] = Append(@, h)]
      /\ DOMAIN outlet' = Pipelines /\ DOMAIN got' = Pipelines
      /\ \A q \in Pipelines \ {p} : outlet'[q] = outlet[q] /\ got'[q] = got[q]
  BY <1>1 DEF Shape
<1>5. /\ outlet'[p] \in [FlowsOf(p) -> Seq(Elements)] /\ got'[p] \in [FlowsOf(p) -> Seq(Elements)]
      /\ outlet'[p][i] = Tail(outlet[p][i]) /\ got'[p][i] = Append(got[p][i], h)
      /\ \A j \in FlowsOf(p) \ {i} : outlet'[p][j] = outlet[p][j] /\ got'[p][j] = got[p][j]
  BY <1>2, <1>3, <1>4
<1>6. \A f \in graph.flows : f # <<p, i>> => /\ outlet'[f[1]][f[2]] = outlet[f[1]][f[2]]
                                            /\ got'[f[1]][f[2]] = got[f[1]][f[2]]
  <2> SUFFICES ASSUME NEW f \in graph.flows, f # <<p, i>>
               PROVE  /\ outlet'[f[1]][f[2]] = outlet[f[1]][f[2]]
                      /\ got'[f[1]][f[2]] = got[f[1]][f[2]]
    OBVIOUS
  <2>1. f = <<f[1], f[2]>> /\ f[1] \in Pipelines /\ f[2] \in FlowsOf(f[1])
    BY DEF Wired
  <2>2. f[1] # p \/ f[2] # i
    BY <2>1
  <2> QED
    BY <1>4, <1>5, <2>1, <2>2
<1>7. /\ \A f \in graph.flows : Range(got[f[1]][f[2]]) \subseteq Range(got'[f[1]][f[2]])
      /\ Range(got'[p][i]) = Range(got[p][i]) \cup {h}
  <2>1. Range(got'[p][i]) = Range(got[p][i]) \cup {h}
    BY <1>2, <1>3, <1>5, RangeAppend
  <2> QED
    BY <1>6, <2>1
<1>8. \/ /\ w \in DOMAIN graph.sinks /\ UNCHANGED inlet
         /\ sink' \in [DOMAIN graph.sinks -> {"selecting", "busy", "returned"}]
      \/ /\ w \in graph.connectors \ closed /\ UNCHANGED sink
         /\ \E q \in Pipelines : /\ w \in graph.reads[q] /\ HasRoom(q)
                                 /\ inlet' = [inlet EXCEPT ![q] = Append(@, h)]
  <2>1. CASE SinkTakes(p, i)
    BY <2>1 DEF SinkTakes, Shape
  <2>2. CASE ConnectorTakes(p, i)
    BY <2>2 DEF ConnectorTakes, h
  <2> QED
    BY <2>1, <2>2 DEF Deliver
<1> HIDE DEF w
<1>9. \/ UNCHANGED inlet /\ w \in DOMAIN graph.sinks
      \/ \E q \in Pipelines :
           /\ w \in graph.reads[q] /\ w \in graph.connectors \ closed
           /\ inlet'[q] = Append(inlet[q], h) /\ Len(inlet'[q]) <= Slots
           /\ inlet[q] \in Seq(Elements)
           /\ inlet' \in [Pipelines -> Seq(Elements)]
           /\ \A x \in Pipelines \ {q} : inlet'[x] = inlet[x]
  <2>1. ASSUME NEW q \in Pipelines, HasRoom(q), inlet' = [inlet EXCEPT ![q] = Append(@, h)]
        PROVE  /\ inlet'[q] = Append(inlet[q], h) /\ Len(inlet'[q]) <= Slots
               /\ inlet[q] \in Seq(Elements)
               /\ inlet' \in [Pipelines -> Seq(Elements)]
               /\ \A x \in Pipelines \ {q} : inlet'[x] = inlet[x]
    <3>1. inlet \in [Pipelines -> Seq(Elements)] /\ Slots \in Nat
      BY ElementFacts DEF Shape
    <3>2. inlet'[q] = Append(inlet[q], h) /\ inlet[q] \in Seq(Elements)
      BY <2>1, <3>1
    <3>3. Len(Append(inlet[q], h)) = Len(inlet[q]) + 1 /\ Len(inlet[q]) \in Nat
          /\ Append(inlet[q], h) \in Seq(Elements)
      BY <1>3, <3>2
    <3>4. Len(inlet'[q]) <= Slots
      BY <2>1, <3>1, <3>2, <3>3 DEF HasRoom
    <3> QED
      BY <2>1, <3>1, <3>2, <3>3, <3>4
  <2> QED
    BY <1>8, <2>1
<1>10. Shape'
  <2>1. \A q \in Pipelines : /\ outlet'[q] \in [FlowsOf(q) -> Seq(Elements)]
                             /\ got'[q] \in [FlowsOf(q) -> Seq(Elements)]
                             /\ \A j \in FlowsOf(q) : Len(outlet'[q][j]) <= Slots
    BY <1>3, <1>4, <1>5 DEF Shape
  <2>2. inlet' \in [Pipelines -> Seq(Elements)] /\ \A q \in Pipelines : Len(inlet'[q]) <= Slots
    BY <1>9 DEF Shape
  <2>3. sink' \in [DOMAIN graph.sinks -> {"selecting", "busy", "returned"}]
    BY <1>8 DEF Shape
  <2> QED
    BY <1>1, <1>4, <2>1, <2>2, <2>3, SameGraph DEF Shape
<1>11. InStep'
  <2>1. SUFFICES ASSUME NEW q \in Pipelines, NEW j \in FlowsOf(q)
                 PROVE  sent[q] = (got'[q][j] \o outlet'[q][j]) \o Pending(q, j)
    <3>1. \A q, j : Pending(q, j)' = Pending(q, j)
      BY <1>1 DEF Pending
    <3> QED
      BY <1>1, <3>1, SameGraph DEF InStep
  <2>2. CASE q # p \/ j # i
    <3>1. got'[q][j] = got[q][j] /\ outlet'[q][j] = outlet[q][j]
      BY <1>4, <1>5, <2>2
    <3> QED
      BY <3>1 DEF InStep
  <2>3. CASE q = p /\ j = i
    <3>1. got[p][i] \o outlet[p][i] = Append(got[p][i], h) \o Tail(outlet[p][i])
      BY <1>1, <1>2, MovesOn, Zenon DEF h
    <3> QED
      BY <1>5, <2>3, <3>1 DEF InStep
  <2> QED
    BY <2>2, <2>3
<1>12. Ends'
  <2>1. \A f \in done : f # <<p, i>>
    BY <1>1 DEF Ends
  <2>2. \A f \in done : f \in graph.flows
    BY DEF Shape
  <2> QED
    BY <1>1, <1>6, <2>1, <2>2, EndsKept DEF Ends
<1>13. Passes'
  <2>1. \A q \in Pipelines : Entered(q) \subseteq Entered(q)'
    <3>1. \A q \in Pipelines : Range(inlet[q]) \subseteq Range(inlet'[q])
      <4> SUFFICES ASSUME NEW q \in Pipelines, inlet'[q] # inlet[q]
                   PROVE  Range(inlet[q]) \subseteq Range(inlet'[q])
        OBVIOUS
      <4>1. inlet'[q] = Append(inlet[q], h) /\ inlet[q] \in Seq(Elements)
        BY <1>9
      <4> QED
        BY <1>3, <4>1, RangeAppend
    <3> QED
      BY <1>1, <3>1 DEF Entered
  <2>2. SUFFICES ASSUME graph.wellConnected, NEW q \in Pipelines, NEW f \in graph.flows,
                        graph.writes[f] \in graph.connectors \cap graph.reads[q]
                 PROVE  Range(got'[f[1]][f[2]]) \subseteq Entered(q)'
    BY <1>1, <2>1, SameGraph DEF Passes
  <2>3. Range(got[f[1]][f[2]]) \subseteq Entered(q)'
    BY <2>1, <2>2 DEF Passes
  <2>4. CASE f # <<p, i>>
    BY <1>6, <2>3, <2>4
  <2>5. CASE f = <<p, i>>
    <3>1. w \in graph.connectors \cap graph.reads[q] /\ w \notin DOMAIN graph.sinks
      BY <2>2, <2>5 DEF w, Connected
    <3>2. inlet'[q] = Append(inlet[q], h) /\ inlet[q] \in Seq(Elements)
      BY <1>9, <2>2, <3>1 DEF Connected
    <3>3. h \in Range(inlet'[q])
      BY <1>3, <3>2, RangeAppend
    <3>4. h \in Entered(q)'
      BY <3>3 DEF Entered
    <3> QED
      BY <1>7, <2>3, <2>5, <3>4
  <2> QED
    BY <2>4, <2>5
<1>14. Drained'
  <2>1. SUFFICES ASSUME graph.wellConnected, graph.singlyOwned, ~cancelled
        PROVE /\ \A q \in ended : graph.reads[q] \subseteq closed /\ inlet'[q] = <<>>
              /\ \A c \in closed : \A s \in Feeds : c \in graph.below[s] =>
                   /\ s \in stopped
                   /\ \A n \in 1..polls[s] : <<s, n>> \in Delivered(c)' \cup filtered
    BY <1>1, SameGraph DEF Drained
  <2>2. \A c : Delivered(c) \subseteq Delivered(c)'
    BY <1>1, <1>7 DEF Delivered
  <2>3. \A q \in ended : inlet'[q] = inlet[q]
    BY <1>9, <2>1 DEF Drained, Shape
  <2> QED
    BY <2>1, <2>2, <2>3 DEF Drained
<1> QED
  BY <1>1, <1>10, <1>11, <1>12, <1>13, <1>14, SameGraph

(* A panic of a goroutine outside its sends leaves everything as it is. *)
LEMMA FlowVarsKept ==
  ASSUME GraphParts, UNCHANGED <<graph, cancelled, flowVars>>
  PROVE  GraphParts'
<1> USE DEF GraphParts, flowVars, sourceVars, processorVars, fanOutVars, sinkVars
<1>1. Shape'
  BY SameGraph DEF Shape
<1>2. Passes'
  <2>1. \A q : Entered(q)' = Entered(q)
    BY DEF Entered
  <2> QED
    BY <2>1, PassesKept
<1> QED
  BY <1>1, <1>2, SameGraph, InStepKept, EndsKept, DrainedKept DEF Ends

(* The goroutine of a sink goes on; one that closes its input owns it too. *)
LEMMA SinkStep ==
  ASSUME GraphParts, sink' \in [DOMAIN graph.sinks -> {"selecting", "busy", "returned"}],
         UNCHANGED <<graph, cancelled, sourceVars, processorVars, fanOutVars, outlet, got, done>>,
         \/ UNCHANGED closed
         \/ ~graph.singlyOwned /\ \E k \in DOMAIN graph.sinks : closed' = closed \cup {k}
  PROVE  GraphParts'
<1> USE DEF GraphParts, sourceVars, processorVars, fanOutVars
<1>1. Shape'
  BY SameGraph DEF Shape
<1>2. Passes'
  <2>1. \A q : Entered(q)' = Entered(q)
    BY DEF Entered
  <2> QED
    BY <2>1, PassesKept
<1>3. Ends'
  BY DEF Ends
<1>4. Drained'
  <2>1. CASE UNCHANGED closed
    BY <2>1, DrainedKept
  <2>2. CASE ~graph.singlyOwned
    BY <2>2 DEF Drained
  <2> QED
    BY <2>1, <2>2
<1> QED
  BY <1>1, <1>2, <1>3, <1>4, SameGraph, InStepKept

(* Nothing held and nothing owed. *)
LEMMA ConcatNothing ==
  \A g \in Seq(Elements) : (g \o <<>>) \o <<>> = g
BY ConcatEmptySeq

(* A flow of a pipeline that has ended has passed on all that came in. *)
LEMMA EndedIsPassedOn ==
  ASSUME GraphParts, graph.wellConnected, graph.singlyOwned, ~cancelled,
         NEW p \in ended, NEW i \in FlowsOf(p),
         work[p] = <<>>, fan[p] = Nil, outlet[p][i] = <<>>
  PROVE  Entered(p) \subseteq Delivered(graph.writes[<<p, i>>]) \cup filtered
<1> USE DEF GraphParts
<1>1. p \in Pipelines /\ inlet[p] = <<>>
  BY DEF Shape, Drained
<1>2. sent[p] = got[p][i]
  <2>1. Pending(p, i) = <<>>
    BY DEF Pending
  <2>2. sent[p] = (got[p][i] \o <<>>) \o <<>>
    BY <1>1, <2>1 DEF InStep
  <2>3. got[p][i] \in Seq(Elements)
    BY <1>1 DEF Shape
  <2> QED
    BY <2>2, <2>3, ConcatNothing
<1>3. <<p, i>> \in graph.flows
  BY <1>1 DEF Wired
<1>4. Range(got[p][i]) \subseteq Delivered(graph.writes[<<p, i>>])
  BY <1>3 DEF Delivered
<1> QED
  BY <1>1, <1>2, <1>4, RangeEmpty DEF Entered

(* A flow ends: whatever entered its pipeline has gone through it. *)
LEMMA FlowEndsStep ==
  ASSUME GraphParts, NEW p \in Pipelines, NEW i \in FlowsOf(p), FlowEnds(p, i)
  PROVE  GraphParts'
<1> USE DEF GraphParts
<1> DEFINE w == graph.writes[<<p, i>>]
<1>1. /\ UNCHANGED <<graph, cancelled, sourceVars, processorVars, fanOutVars, outlet, got, sink>>
      /\ p \in ended /\ work[p] = <<>> /\ fan[p] = Nil /\ outlet[p][i] = <<>>
      /\ done' = done \cup {<<p, i>>}
      /\ closed' = closed \/ (w # NilChannel /\ closed' = closed \cup {w})
  <2>1. Close(w) /\ UNCHANGED <<sourceVars, processorVars, fanOutVars, outlet, got, sink>>
    BY DEF FlowEnds
  <2> HIDE DEF w
  <2>2. UNCHANGED <<graph, cancelled>>
    BY <2>1 DEF Close, Steady, Panic
  <2>3. closed' = closed \/ (w # NilChannel /\ closed' = closed \cup {w})
    <3>1. CASE w \in closed \cup {NilChannel}
      BY <2>1, <3>1 DEF Close
    <3>2. CASE w \notin closed \cup {NilChannel}
      BY <2>1, <3>2 DEF Close
    <3> QED
      BY <3>1, <3>2
  <2> QED
    BY <2>1, <2>2, <2>3 DEF FlowEnds
<1> USE DEF sourceVars, processorVars, fanOutVars
<1>2. <<p, i>> \in graph.flows
  BY DEF Wired
<1>3. Shape'
  <2>1. closed' \subseteq graph.connectors \cup DOMAIN graph.sinks
    <3>1. w \in graph.connectors \cup DOMAIN graph.sinks \cup {NilChannel}
      BY <1>2 DEF Wired
    <3>2. closed \subseteq graph.connectors \cup DOMAIN graph.sinks
      BY DEF Shape
    <3> HIDE DEF w
    <3> QED
      BY <1>1, <3>1, <3>2
  <2>2. done' \subseteq graph.flows
    BY <1>1, <1>2 DEF Shape
  <2> QED
    BY <1>1, <2>1, <2>2, SameGraph DEF Shape
<1>4. InStep'
  BY <1>1, InStepKept
<1>5. Ends'
  BY <1>1 DEF Ends
<1>6. Passes'
  <2>1. \A q : Entered(q)' = Entered(q)
    BY <1>1 DEF Entered
  <2> QED
    BY <1>1, <2>1, PassesKept
<1>7. Drained'
  <2>1. SUFFICES ASSUME graph.wellConnected, graph.singlyOwned, ~cancelled,
                        NEW s \in Feeds, w \in graph.below[s]
                 PROVE  /\ s \in stopped
                        /\ \A n \in 1..polls[s] : <<s, n>> \in Delivered(w) \cup filtered
    <3> SUFFICES ASSUME graph.wellConnected, graph.singlyOwned, ~cancelled
                 PROVE  /\ \A q \in ended : graph.reads[q] \subseteq closed' /\ inlet[q] = <<>>
                        /\ \A c \in closed' : \A s \in Feeds : c \in graph.below[s] =>
                             /\ s \in stopped
                             /\ \A n \in 1..polls[s] : <<s, n>> \in Delivered(c) \cup filtered
      BY <1>1, SameGraph, DeliveredKept DEF Drained
    <3> HIDE DEF w
    <3> QED
      BY <1>1 DEF Drained
  <2>2. PICK d \in {s} \cup graph.below[s] : \E f \in graph.flows :
               graph.writes[f] = w /\ d \in graph.reads[f[1]]
    BY <2>1 DEF Connected
  <2>3. d \in graph.reads[p]
    <3>1. PICK f \in graph.flows : graph.writes[f] = w /\ d \in graph.reads[f[1]]
      BY <2>2
    <3>2. f = <<p, i>>
      BY <1>2, <2>1, <3>1 DEF Owned
    <3> QED
      BY <3>1, <3>2
  <2>4. Entered(p) \subseteq Delivered(w) \cup filtered
    BY <1>1, <2>1, EndedIsPassedOn
  <2> HIDE DEF w
  <2>5. CASE d = s
    <3>1. s \in stopped /\ sending[s] = Nil
      BY <1>1, <2>1, <2>3, <2>5, EndedReadsNothing
    <3>2. ASSUME NEW n \in 1..polls[s] PROVE <<s, n>> \in Entered(p)
      <4>1. <<s, n>> \in Elements
        <5>1. polls[s] \in Nat /\ MaxPolls[s] \in Nat /\ polls[s] <= MaxPolls[s]
          BY ElementFacts DEF Shape
        <5>2. n \in 1..MaxPolls[s]
          BY <5>1
        <5> QED
          BY <5>2, ElementFacts
      <4>2. sending[s] # <<s, n>>
        BY <3>1, <4>1, ElementFacts
      <4> QED
        BY <2>1, <2>3, <2>5, <4>2 DEF Passes
    <3> QED
      BY <2>4, <3>1, <3>2
  <2>6. CASE d \in graph.below[s]
    <3>1. d \in closed
      BY <1>1, <2>1, <2>3 DEF Drained
    <3>2. s \in stopped /\ \A n \in 1..polls[s] : <<s, n>> \in Delivered(d) \cup filtered
      BY <2>1, <2>6, <3>1 DEF Drained
    <3>3. d \in graph.connectors
      BY <2>1, <2>3, <3>1 DEF Shape, Connected
    <3>4. \A f \in graph.flows : graph.writes[f] = d => Range(got[f[1]][f[2]]) \subseteq Entered(p)
      BY <2>1, <2>3, <3>3 DEF Passes
    <3>5. Delivered(d) \subseteq Entered(p)
      BY <3>4 DEF Delivered
    <3> QED
      BY <2>4, <3>2, <3>5
  <2> QED
    BY <2>5, <2>6
<1> QED
  BY <1>1, <1>3, <1>4, <1>5, <1>6, <1>7, SameGraph

(* With one owner a channel is closed once, and nothing is sent to it then. *)
LEMMA OwnerFindsItOpen ==
  ASSUME GraphParts, graph.singlyOwned, NEW p \in Pipelines, NEW i \in FlowsOf(p),
         <<p, i>> \notin done
  PROVE  graph.writes[<<p, i>>] \notin closed \cup {NilChannel}
<1> USE DEF GraphParts
<1>1. <<p, i>> \in graph.flows
  BY DEF Wired
<1>2. graph.writes[<<p, i>>] \notin graph.inlets /\ graph.writes[<<p, i>>] # NilChannel
  BY <1>1 DEF Wired, Owned
<1>3. \A f \in done : f \in graph.flows
  BY DEF Shape
<1>4. \A f \in done : graph.writes[f] # graph.writes[<<p, i>>]
  BY <1>1, <1>3 DEF Owned
<1> QED
  BY <1>2, <1>4 DEF Ends

-----------------------------------------------------------------------------
(* The invariant.                                                           *)

(* At the start there is no graph. *)
LEMMA StartFacts ==
  ASSUME Init PROVE GraphInv
BY DEF Init, GraphInv, PhaseInv, NoPanic, Alive

(* What Validate accepts has no end that NewPipeline does not find: the two  *)
(* look ids up in maps that agree.                                          *)
LEMMA NewGraphFacts ==
  ASSUME NEW c \in Configs, Validate(c)
  PROVE  /\ NewGraph(c) \in {"panic", "source error", "sink error", "graph"}
         /\ NewGraph(c) = "panic" => PanicsOnConnectors(c)
<1>1. ASSUME NEW p \in DOMAIN c.pipelines PROVE MakesPipeline(c, c.pipelines[p])
  BY DEF Validate, ValidPipeline, MakesPipeline, knownSources, knownSinks, Sources, Sinks
<1> QED
  BY <1>1 DEF NewGraph

(* A graph that was just built is empty and nothing of it has ended. *)
LEMMA ConstructFacts ==
  ASSUME cfg \in Configs, Validate(cfg), graph' = Wire(cfg), Construct,
         stopped = {}, ended = {}, done = {}, closed = {}
  PROVE  GraphParts'
<1>1. Wired' /\ Owned' /\ Connected'
  BY WiredFacts, OwnedFacts, ConnectedFacts
<1>2. /\ polls' = [s \in Feeds' |-> 0] /\ sending' = [s \in Feeds' |-> Nil]
      /\ inlet' = [p \in Pipelines' |-> <<>>] /\ work' = [p \in Pipelines' |-> <<>>]
      /\ fan' = [p \in Pipelines' |-> Nil] /\ sent' = [p \in Pipelines' |-> <<>>]
      /\ outlet' = [p \in Pipelines' |-> [i \in FlowsOf(p)' |-> <<>>]]
      /\ got' = [p \in Pipelines' |-> [i \in FlowsOf(p)' |-> <<>>]]
      /\ sink' = [k \in DOMAIN graph'.sinks |-> "selecting"]
      /\ stopped' = {} /\ ended' = {} /\ done' = {} /\ closed' = {}
  BY DEF Construct
<1>3. Shape'
  <2>1. \A s \in Feeds' : 0 \in 0..MaxPolls[s]
    BY <1>1, GraphAssumption DEF Wired
  <2>2. <<>> \in Seq(Elements') /\ Len(<<>>) = 0 /\ Slots \in Nat /\ 0 <= Slots
    BY GraphAssumption
  <2>3. \A p \in Pipelines' : /\ outlet'[p] = [i \in FlowsOf(p)' |-> <<>>]
                              /\ got'[p] = [i \in FlowsOf(p)' |-> <<>>]
    BY <1>2
  <2>4. \A p \in Pipelines' : /\ outlet'[p] \in [FlowsOf(p)' -> Seq(Elements')]
                              /\ got'[p] \in [FlowsOf(p)' -> Seq(Elements')]
                              /\ \A i \in FlowsOf(p)' : Len(outlet'[p][i]) <= Slots
    BY <2>2, <2>3
  <2> QED
    BY <1>2, <2>1, <2>2, <2>4 DEF Shape
<1>4. InStep'
  <2> SUFFICES ASSUME NEW p \in Pipelines', NEW i \in FlowsOf(p)'
               PROVE  sent'[p] = (got'[p][i] \o outlet'[p][i]) \o Pending(p, i)'
    BY DEF InStep
  <2>1. Pending(p, i)' = <<>>
    BY <1>2 DEF Pending
  <2>2. sent'[p] = <<>> /\ got'[p][i] = <<>> /\ outlet'[p][i] = <<>>
    BY <1>2
  <2>3. (<<>> \o <<>>) \o <<>> = <<>>
    OBVIOUS
  <2> QED
    BY <2>1, <2>2, <2>3
<1>5. Ends'
  BY <1>2 DEF Ends
<1>6. Passes'
  <2>1. \A s \in Feeds' : 1..polls'[s] = {}
    BY <1>2
  <2>2. \A f \in graph'.flows : Range(got'[f[1]][f[2]]) = {}
    BY <1>1, <1>2, RangeEmpty DEF Wired
  <2> QED
    BY <2>1, <2>2 DEF Passes
<1>7. Drained'
  BY <1>2 DEF Drained
<1> QED
  BY <1>1, <1>3, <1>4, <1>5, <1>6, <1>7 DEF GraphParts

(* NewGraph, and Graph.Run. *)
LEMMA BuildStep ==
  ASSUME GraphInv, Build
  PROVE  GraphInv'
<1>1. /\ phase = "configured" /\ cfg \in Configs /\ Validate(cfg) /\ cancelled \in BOOLEAN
      /\ stopped = {} /\ ended = {} /\ done = {} /\ closed = {}
  BY DEF Build, GraphInv, PhaseInv
<1>2. /\ outcome' = NewGraph(cfg)
      /\ outcome' \in {"panic", "source error", "sink error", "graph"}
      /\ outcome' = "panic" => PanicsOnConnectors(cfg)
      /\ UNCHANGED <<cfg, cancelled>>
  BY <1>1, NewGraphFacts DEF Build
<1>3. phase' = CASE outcome' = "graph" -> "running"
                 [] outcome' = "panic" -> "panicked"
                 [] OTHER -> "exited"
  BY DEF Build
<1>4. /\ outcome' = "graph" => phase' = "running"
      /\ outcome' = "panic" => phase' = "panicked"
      /\ outcome' \in {"source error", "sink error"} => phase' = "exited"
  BY <1>3
<1>5. PhaseInv'
  BY <1>1, <1>2, <1>4 DEF PhaseInv, Alive
<1>6. NoPanic'
  BY <1>2, <1>4 DEF NoPanic
<1>7. ASSUME outcome' = "graph" PROVE GraphParts'
  <2>1. graph' = Wire(cfg) /\ Construct
    BY <1>7 DEF Build
  <2> QED
    BY <1>1, <2>1, ConstructFacts
<1> QED
  BY <1>5, <1>6, <1>7 DEF GraphInv

(* ReadConfig, the signal and the end of main. *)
LEMMA MainStep ==
  ASSUME GraphInv, ReadConfig \/ Signal \/ Exit
  PROVE  GraphInv'
<1> USE DEF flowVars, sourceVars, processorVars, fanOutVars, sinkVars
<1>1. CASE ReadConfig
  <2>1. PhaseInv'
    BY <1>1 DEF GraphInv, PhaseInv, ReadConfig, Alive
  <2>2. outcome' # "graph" /\ phase' # "panicked"
    BY <1>1 DEF GraphInv, PhaseInv, ReadConfig
  <2> QED
    BY <2>1, <2>2 DEF GraphInv, NoPanic
<1>2. CASE Signal
  <2>1. PhaseInv'
    BY <1>2 DEF GraphInv, PhaseInv, Signal, Alive
  <2>2. NoPanic'
    BY <1>2 DEF NoPanic, Signal
  <2>3. GraphParts => GraphParts'
    <3> SUFFICES ASSUME GraphParts PROVE GraphParts'
      OBVIOUS
    <3>1. UNCHANGED <<graph, flowVars>> /\ cancelled'
      BY <1>2 DEF Signal
    <3> USE DEF GraphParts
    <3>2. Shape'
      BY <3>1, SameGraph DEF Shape
    <3>3. Passes'
      <4>1. \A q : Entered(q)' = Entered(q)
        BY <3>1 DEF Entered
      <4> QED
        BY <3>1, <4>1, PassesKept
    <3>4. Drained'
      BY <3>1 DEF Drained
    <3>5. Ends'
      BY <3>1, EndsKept DEF Ends
    <3> QED
      BY <3>1, <3>2, <3>3, <3>4, <3>5, SameGraph, InStepKept
  <2> QED
    BY <1>2, <2>1, <2>2, <2>3 DEF GraphInv, Signal
<1>3. CASE Exit
  <2>1. PhaseInv'
    BY <1>3 DEF GraphInv, PhaseInv, Exit, Alive
  <2>2. NoPanic'
    BY <1>3 DEF NoPanic, Exit
  <2>3. GraphParts => GraphParts'
    BY <1>3, FlowVarsKept DEF Exit
  <2> QED
    BY <1>3, <2>1, <2>2, <2>3 DEF GraphInv, Exit
<1> QED
  BY <1>1, <1>2, <1>3

(* What a step of the graph's goroutines leaves of the rest. *)
LEMMA GoroutineStep ==
  ASSUME GraphInv, Steady \/ (Panic /\ (graph.tickless # {} \/ ~graph.singlyOwned)),
         GraphParts => GraphParts'
  PROVE  GraphInv'
<1>1. Alive /\ UNCHANGED <<cfg, graph, outcome, cancelled>> /\ outcome = "graph"
  BY DEF Steady, Panic, GraphInv, PhaseInv
<1>2. phase' = phase \/ (phase' = "panicked" /\ (graph.tickless # {} \/ ~graph.singlyOwned))
  BY DEF Steady, Panic
<1>3. PhaseInv'
  BY <1>1, <1>2 DEF GraphInv, PhaseInv, Alive
<1>4. NoPanic'
  BY <1>1, <1>2 DEF NoPanic, Alive
<1> QED
  BY <1>1, <1>3, <1>4 DEF GraphInv

(* The sources. *)
LEMMA SourceStep ==
  ASSUME GraphInv, Alive,
         \/ \E s \in Feeds : Poll(s) \/ SourceReturns(s)
         \/ \E s \in graph.tickless : TickerPanics(s)
         \/ \E c \in graph.inlets : InletCloses(c)
  PROVE  GraphInv'
<1>1. GraphParts
  BY DEF GraphInv, PhaseInv
<1>2. ASSUME NEW s \in Feeds, Poll(s) PROVE GraphInv'
  BY <1>1, <1>2, PollStep, GoroutineStep DEF Poll
<1>3. ASSUME NEW s \in Feeds, SourceReturns(s) PROVE GraphInv'
  BY <1>1, <1>3, SourceReturnsStep, GoroutineStep DEF SourceReturns
<1>4. ASSUME NEW s \in graph.tickless, TickerPanics(s) PROVE GraphInv'
  <2>1. Panic /\ graph.tickless # {} /\ UNCHANGED flowVars /\ UNCHANGED <<graph, cancelled>>
    BY <1>4 DEF TickerPanics, Panic
  <2>2. GraphParts'
    BY <1>1, <2>1, FlowVarsKept
  <2> QED
    BY <2>1, <2>2, GoroutineStep
<1>5. ASSUME NEW c \in graph.inlets, InletCloses(c) PROVE GraphInv'
  BY <1>1, <1>5, InletClosesStep, GoroutineStep DEF InletCloses
<1> QED
  BY <1>2, <1>3, <1>4, <1>5

(* The processors and FanOut. *)
LEMMA PipelineStep ==
  ASSUME GraphInv, Alive, NEW p \in Pipelines,
         \/ \E s \in Feeds : Take(p, s)
         \/ Process(p) \/ ProcessorReturns(p) \/ FanOutTakes(p) \/ FanOutSends(p)
  PROVE  GraphInv'
<1>1. GraphParts
  BY DEF GraphInv, PhaseInv
<1>2. ASSUME NEW s \in Feeds, Take(p, s) PROVE GraphInv'
  BY <1>1, <1>2, TakeStep, GoroutineStep DEF Take
<1>3. CASE Process(p)
  BY <1>1, <1>3, ProcessStep, GoroutineStep DEF Process
<1>4. CASE ProcessorReturns(p)
  BY <1>1, <1>4, ProcessorReturnsStep, GoroutineStep DEF ProcessorReturns
<1>5. CASE FanOutTakes(p)
  BY <1>1, <1>5, FanOutTakesStep, GoroutineStep DEF FanOutTakes
<1>6. CASE FanOutSends(p)
  BY <1>1, <1>6, FanOutSendsStep, GoroutineStep DEF FanOutSends
<1> QED
  BY <1>2, <1>3, <1>4, <1>5, <1>6

(* The flows to sinks: with one owner each, none sends to a closed channel,  *)
(* and none closes one.                                                     *)
LEMMA FlowStep ==
  ASSUME GraphInv, Alive, NEW p \in Pipelines, NEW i \in FlowsOf(p),
         Deliver(p, i) \/ DeliverPanics(p, i) \/ FlowEnds(p, i)
  PROVE  GraphInv'
<1>1. GraphParts
  BY DEF GraphInv, PhaseInv
<1>2. CASE Deliver(p, i)
  BY <1>1, <1>2, DeliverStep, GoroutineStep DEF Deliver
<1>3. CASE DeliverPanics(p, i)
  <2>1. /\ Panic /\ UNCHANGED flowVars /\ UNCHANGED <<graph, cancelled>>
        /\ outlet[p][i] # <<>> /\ graph.writes[<<p, i>>] \in closed
    BY <1>3 DEF DeliverPanics, Panic
  <2>2. GraphParts'
    BY <1>1, <2>1, FlowVarsKept
  <2>3. <<p, i>> \notin done
    BY <1>1, <2>1 DEF GraphParts, Ends
  <2>4. ~graph.singlyOwned
    BY <1>1, <2>1, <2>3, OwnerFindsItOpen
  <2> QED
    BY <2>1, <2>2, <2>4, GoroutineStep
<1>4. CASE FlowEnds(p, i)
  <2>1. <<p, i>> \notin done /\ Close(graph.writes[<<p, i>>])
    BY <1>4 DEF FlowEnds
  <2>2. graph.singlyOwned => graph.writes[<<p, i>>] \notin closed \cup {NilChannel}
    BY <1>1, <2>1, OwnerFindsItOpen
  <2>3. Steady \/ (Panic /\ ~graph.singlyOwned)
    BY <2>1, <2>2 DEF Close
  <2>4. GraphParts'
    BY <1>1, <1>4, FlowEndsStep
  <2> QED
    BY <2>3, <2>4, GoroutineStep
<1> QED
  BY <1>2, <1>3, <1>4

(* The goroutines of the sinks. *)
LEMMA SinkGoroutineStep ==
  ASSUME GraphInv, Alive, NEW k \in DOMAIN graph.sinks, SinkReturns(k) \/ SinkIsDone(k)
  PROVE  GraphInv'
<1>1. GraphParts
  BY DEF GraphInv, PhaseInv
<1>2. CASE SinkIsDone(k)
  <2>1. /\ Steady /\ UNCHANGED <<graph, cancelled, sourceVars, processorVars, fanOutVars>>
        /\ UNCHANGED <<outlet, got, done, closed>>
    BY <1>2 DEF SinkIsDone, Steady
  <2>2. sink' \in [DOMAIN graph.sinks -> {"selecting", "busy", "returned"}]
    BY <1>1, <1>2 DEF SinkIsDone, GraphParts, Shape
  <2> QED
    BY <1>1, <2>1, <2>2, SinkStep, GoroutineStep
<1>3. CASE SinkReturns(k)
  <2>1. UNCHANGED <<sourceVars, processorVars, fanOutVars, outlet, got, done>>
    BY <1>3 DEF SinkReturns
  <2>2. sink' \in [DOMAIN graph.sinks -> {"selecting", "busy", "returned"}]
    BY <1>1, <1>3 DEF SinkReturns, GraphParts, Shape
  <2>3. CASE graph.sinks[k] # "sse"
    <3>1. Steady /\ UNCHANGED closed /\ UNCHANGED <<graph, cancelled>>
      BY <1>3, <2>3 DEF SinkReturns, Steady
    <3> QED
      BY <1>1, <2>1, <2>2, <3>1, SinkStep, GoroutineStep
  <2>4. CASE graph.sinks[k] = "sse"
    <3>1. ~graph.singlyOwned
      BY <1>1, <2>4 DEF GraphParts, Owned
    <3>2. Close(k)
      BY <1>3, <2>4 DEF SinkReturns
    <3>3. CASE k \in closed \cup {NilChannel}
      <4>1. Panic /\ UNCHANGED closed
        BY <3>2, <3>3 DEF Close
      <4>2. UNCHANGED <<graph, cancelled>>
        BY <4>1 DEF Panic
      <4> QED
        BY <1>1, <2>1, <2>2, <3>1, <4>1, <4>2, SinkStep, GoroutineStep
    <3>4. CASE k \notin closed \cup {NilChannel}
      <4>1. Steady /\ closed' = closed \cup {k}
        BY <3>2, <3>4 DEF Close
      <4>2. UNCHANGED <<graph, cancelled>>
        BY <4>1 DEF Steady
      <4> QED
        BY <1>1, <2>1, <2>2, <3>1, <4>1, <4>2, SinkStep, GoroutineStep
    <3> QED
      BY <3>3, <3>4
  <2> QED
    BY <2>3, <2>4
<1> QED
  BY <1>2, <1>3

(* Nothing happens. *)
LEMMA StutterStep ==
  ASSUME GraphInv, UNCHANGED vars
  PROVE  GraphInv'
<1>1. UNCHANGED <<cfg, graph, phase, outcome, cancelled, flowVars>>
  BY DEF vars
<1>2. PhaseInv'
  BY <1>1 DEF GraphInv, PhaseInv, Alive, flowVars, sourceVars, processorVars, sinkVars
<1>3. NoPanic'
  BY <1>1 DEF GraphInv, NoPanic
<1>4. GraphParts => GraphParts'
  BY <1>1, FlowVarsKept
<1> QED
  BY <1>1, <1>2, <1>3, <1>4 DEF GraphInv

-----------------------------------------------------------------------------
(* GraphInv holds in all reachable states: Init establishes it, and every    *)
(* step of main and of the goroutines keeps it.                             *)
THEOREM GraphInvariant == Spec => []GraphInv
<1>1. Init => GraphInv
  BY StartFacts
<1>2. ASSUME GraphInv, [Next]_vars PROVE GraphInv'
  <2>1. CASE ReadConfig \/ Signal \/ Exit
    BY <1>2, <2>1, MainStep
  <2>2. CASE Build
    BY <1>2, <2>2, BuildStep
  <2>3. CASE Alive /\ \/ \E s \in Feeds : Poll(s) \/ SourceReturns(s)
                      \/ \E s \in graph.tickless : TickerPanics(s)
                      \/ \E c \in graph.inlets : InletCloses(c)
    BY <1>2, <2>3, SourceStep
  <2>4. CASE Move
    <3>1. ASSUME NEW p \in Pipelines,
                 \/ \E s \in Feeds : Take(p, s)
                 \/ Process(p) \/ ProcessorReturns(p) \/ FanOutTakes(p) \/ FanOutSends(p)
          PROVE  GraphInv'
      BY <1>2, <2>4, <3>1, PipelineStep DEF Move
    <3>2. ASSUME NEW f \in graph.flows,
                 Deliver(f[1], f[2]) \/ DeliverPanics(f[1], f[2]) \/ FlowEnds(f[1], f[2])
          PROVE  GraphInv'
      <4>1. Alive
        BY <2>4 DEF Move
      <4>2. f[1] \in Pipelines /\ f[2] \in FlowsOf(f[1])
        BY <1>2, <4>1 DEF GraphInv, PhaseInv, GraphParts, Wired
      <4> QED
        BY <1>2, <3>2, <4>1, <4>2, FlowStep
    <3>3. ASSUME NEW k \in DOMAIN graph.sinks, SinkReturns(k) PROVE GraphInv'
      BY <1>2, <2>4, <3>3, SinkGoroutineStep DEF Move
    <3> QED
      BY <2>4, <3>1, <3>2, <3>3 DEF Move
  <2>5. CASE Answer
    BY <1>2, <2>5, SinkGoroutineStep DEF Answer
  <2>6. CASE UNCHANGED vars
    BY <1>2, <2>6, StutterStep
  <2> QED
    BY <1>2, <2>1, <2>2, <2>3, <2>4, <2>5, <2>6 DEF Next
<1> QED
  BY <1>1, <1>2, PTL DEF Spec

(* The state of the program is well-typed; no flow holds more than Slots. *)
THEOREM GraphTypeCorrect == Spec => []GraphTypeOK
<1>1. ASSUME GraphInv PROVE GraphTypeOK
  <2>1. ASSUME outcome = "graph"
        PROVE  /\ DOMAIN polls = Feeds
               /\ \A s \in Feeds : polls[s] \in 0..MaxPolls[s] /\ sending[s] \in Elements \cup {Nil}
               /\ stopped \subseteq Feeds
               /\ \A p \in Pipelines :
                    /\ QueueOK(inlet[p])
                    /\ work[p] \in Seq(Elements)
                    /\ fan[p] # Nil => fan[p].element \in Elements /\ fan[p].next \in FlowsOf(p)
                    /\ \A i \in FlowsOf(p) : QueueOK(outlet[p][i])
               /\ ended \subseteq Pipelines
               /\ closed \subseteq graph.connectors \cup DOMAIN graph.sinks
               /\ sink \in [DOMAIN graph.sinks -> {"selecting", "busy", "returned"}]
               /\ done \subseteq graph.flows
    <3>1. Shape
      BY <1>1, <2>1 DEF GraphInv, GraphParts
    <3> QED
      BY <3>1 DEF Shape, QueueOK
  <2>2. PhaseInv
    BY <1>1 DEF GraphInv
  <2> QED
    BY <2>1, <2>2 DEF GraphTypeOK, PhaseInv
<1> QED
  BY <1>1, GraphInvariant, PTL

(* NewGraph finds every source and sink of a configuration that Validate     *)
(* accepted.                                                                *)
THEOREM ReferencesFound == Spec => []ReferencesResolve
<1>1. GraphInv => ReferencesResolve
  BY DEF GraphInv, PhaseInv, ReferencesResolve
<1> QED
  BY <1>1, GraphInvariant, PTL

(* The program panics only with connectors in a nil map, with an interval    *)
(* that is no interval, or when a channel has two owners.                   *)
THEOREM PanicsOnlyAsKnown == Spec => []NoPanic
<1>1. GraphInv => NoPanic
  BY DEF GraphInv
<1> QED
  BY <1>1, GraphInvariant, PTL

(* What is before an end is a prefix. *)
LEMMA FrontIsPrefix ==
  ASSUME NEW g \in Seq(Elements), NEW q \in Seq(Elements), NEW r \in Seq(Elements)
  PROVE  /\ IsPrefix(g, (g \o q) \o r)
         /\ Len((g \o q) \o r) = Len(g) + Len(q) + Len(r)
<1>1. (g \o q) \o r = g \o (q \o r) /\ q \o r \in Seq(Elements) /\ g \o q \in Seq(Elements)
  BY ConcatAssociative
<1> DEFINE a == g \o (q \o r)
<1>2. /\ Len(q \o r) = Len(q) + Len(r) /\ Len(a) = Len(g) + Len(q \o r)
      /\ a \in Seq(Elements)
      /\ \A i \in 1..Len(g) : a[i] = g[i]
      /\ Len(g) \in Nat /\ Len(q) \in Nat /\ Len(r) \in Nat
  BY <1>1, ConcatProperties
<1> HIDE DEF a
<1>3. Len(g) <= Len(a)
  BY <1>2
<1>4. SubSeq(a, 1, Len(g)) = g
  <2>1. SubSeq(a, 1, Len(g)) = [i \in 1..Len(g) |-> a[i]]
    BY <1>2, <1>3
  <2>2. g = [i \in 1..Len(g) |-> g[i]]
    OBVIOUS
  <2> QED
    BY <1>2, <2>1, <2>2
<1>5. IsPrefix(g, a)
  BY <1>3, <1>4 DEF IsPrefix
<1> QED
  BY <1>1, <1>2, <1>5 DEF a

(* Every sink gets what its pipeline sent, in order and once, and no sink is *)
(* ahead of another by more than the flows hold: from InStep and Shape.     *)
THEOREM SinksInStep == Spec => []SinksKeepPace
<1>1. ASSUME GraphInv PROVE SinksKeepPace
  <2> SUFFICES ASSUME outcome = "graph", NEW p \in Pipelines, NEW i \in FlowsOf(p)
               PROVE  /\ IsPrefix(got[p][i], sent[p])
                      /\ Len(sent[p]) <= Len(got[p][i]) + Slots + 1
    BY DEF SinksKeepPace
  <2>1. GraphParts
    BY <1>1 DEF GraphInv
  <2> DEFINE g == got[p][i]
             q == outlet[p][i]
             r == Pending(p, i)
  <2>2. g \in Seq(Elements) /\ q \in Seq(Elements) /\ Len(q) <= Slots /\ Slots \in Nat
    BY <2>1, ElementFacts DEF GraphParts, Shape
  <2>3. r \in Seq(Elements) /\ Len(r) <= 1
    <3>1. CASE fan[p] # Nil /\ fan[p].next <= i
      <4>1. fan[p].element \in Elements
        BY <2>1, <3>1 DEF GraphParts, Shape
      <4>2. r = <<fan[p].element>>
        BY <3>1 DEF Pending
      <4> HIDE DEF r
      <4> QED
        BY <4>1, <4>2
    <3>2. CASE ~(fan[p] # Nil /\ fan[p].next <= i)
      <4>1. r = <<>>
        BY <3>2 DEF Pending
      <4> HIDE DEF r
      <4> QED
        BY <4>1
    <3> QED
      BY <3>1, <3>2
  <2>4. sent[p] = (g \o q) \o r
    BY <2>1 DEF GraphParts, InStep
  <2> HIDE DEF g, q, r
  <2>5. /\ IsPrefix(g, (g \o q) \o r)
        /\ Len((g \o q) \o r) = Len(g) + Len(q) + Len(r)
    BY <2>2, <2>3, FrontIsPrefix
  <2>6. Len(g) \in Nat /\ Len(q) \in Nat /\ Len(r) \in Nat
    BY <2>2, <2>3
  <2>7. Len(sent[p]) <= Len(g) + Slots + 1
    BY <2>2, <2>3, <2>4, <2>5, <2>6
  <2> QED
    BY <2>4, <2>5, <2>7 DEF g
<1> QED
  BY <1>1, GraphInvariant, PTL

(* Without a cancellation a sink's input closes only when all that was fed   *)
(* above it has come through or was filtered: from Drained.                 *)
THEOREM ClosedIsDrained == Spec => []DrainedWhenClosed
<1>1. GraphInv => DrainedWhenClosed
  BY DEF GraphInv, GraphParts, Drained, DrainedWhenClosed
<1> QED
  BY <1>1, GraphInvariant, PTL
=============================================================================
