# TLA+ verification of tpm-go

tpm-go polls GTFS-realtime feeds, infers when vehicles arrive at and depart from
stops, and derives dwell times, headways and travel times.  It is a graph of
goroutines that pass protobuf messages over unbuffered channels.  This directory
holds TLA+ models of its parts, the TLC configurations that check them and
TLAPS proofs about them.  Paths below are relative to `src/`.

## 1. Inventory

| Component | Source | State | Operations | What makes it correct |
|---|---|---|---|---|
| State store (interface) | `statestore/state_store.go` | a map with expiring entries | `Get`, `Set`, `Delete`, `Close` | a lapsed entry is never seen, a live one never lost |
| In-memory store | `statestore/in_memory_store.go` | `states`, mutex, `done`; a sweeper goroutine | the same, `expire` | implements the contract whatever the sweeper does; calls return; memory is reclaimed |
| Redis store | `statestore/redis_store.go` | a Redis client | the same, each of which may fail | the processors survive failures |
| Feed message processor | `processors/transit/feed_message_events` | none | bytes to feed messages | other bodies are dropped |
| Vehicle position processor | `processors/transit/vehicle_position_events` | none | one position per entity with a stop | the stop event processor only gets positions it can work with, under the right agency and vehicle |
| Stop event processor | `processors/transit/stop_events` | last position per vehicle | `process` | arrivals and departures alternate and agree with the reports |
| Dwell event processor | `processors/transit/dwell_events` | arrival per vehicle, stop and line | `process` | a departure is paired with the visit it ends |
| Headway event processor | `processors/transit/headway_events` | departure per stop and line | `process` | headways neither overlap nor leave gaps |
| Travel time processor | `processors/transit/travel_time_events` | last arrival per vehicle and trip | `process` | a travel time joins consecutive stops |
| Event server (SSE) | `event_server/event_server.go` | map of subscribers, RWMutex, a channel of 16 each | `Subscribe`, `Unsubscribe`, `Broadcast`, `handleSSE`, start and `Shutdown` | no send to a closed channel; each subscriber gets what it is due; nobody stalls the pipeline |
| Database sink | `sinks/db_sink.go` | a batch | `doSink`, `flush`, four INSERTs | rows once and in order; nothing lost but what the database refuses |
| Parquet sink | `sinks/parquet_sink.go` | a batch | `doSink`, `flush`, `objectKey` | the same, one object per batch |
| SSE, log, Redis, connector sinks | `sinks/` | an input channel | a select loop | a clean end |
| HTTP, Redis, connector sources | `sources/` | an output channel | a polling or receiving loop | a clean end |
| Pipelines and graph | `pipelines/`, `graphs/` | channels between components | `NewGraph`, `Run`, `Close` | what is fed arrives, ends follow the elements, a clean shutdown |
| Configuration | `config/` | none | `Validate` | what it accepts can be built |
| `main` | `main.go` | the context | start, cancel | graceful shutdown |

How they interact: a pipeline is source -> processor -> FanOut -> sinks.  A
connector, an unbuffered channel or a Redis channel, makes the sink of one pipeline
the source of another: feed message -> vehicle position -> stop event -> dwell,
headway and travel time.  Several pipelines may name the same sink, and the same
state store.  Shutdown is a cancelled context that every goroutine selects on;
then processors close their outputs and the flows behind them close the inputs
of the sinks.

What is hard here: entries that lapse at any point of a vehicle's journey; reports
that are missing, repeated, late or out of order; a send that blocks between a read
and a write of the store; errors of the store that are ignored or reported for a
write that took place; int32 conversions of durations; requests that end during a
broadcast; flushes that fail in part or whose answer is lost; crashes between a write of
the store and a send; unbuffered channels that make everyone wait for the slowest sink;
and the races of a shutdown.  `PROJECT.json`
lists these hazards with their lines and the properties that cover them.

## 2. Modules

| Module | Models | Remarks |
|---|---|---|
| `StateStoreSpec` | the contract of a state store | abstract: no lock, no sweeper, lapsed entries vanish and only a client's call changes a live one |
| `InMemoryStateStore` | the in-memory store | implements `StateStoreSpec` |
| `StateStore` | a store as the processors use it | operators over a function from keys to entries, with the faults of Redis |
| `TransitEvents` | positions, stop events, the int32 conversion | |
| `StopEventProcessor` | the stop event processor | |
| `StopEventStream` | what the next three share | |
| `DwellEventProcessor`, `HeadwayEventProcessor`, `TravelTimeEventProcessor` | the metrics | |
| `LineMetrics` | the last two side by side | a behaviour follows one of them |
| `EventServer` | the subscribers and broadcasts of the SSE server | |
| `SSESink` | the HTTP server around it: listening and shutting down | extends `EventServer` |
| `BatchSink` | `doSink`, which both storage sinks have | |
| `DatabaseSink`, `ParquetSink` | their `flush` | extend `BatchSink` |
| `BatchSinks` | either of the two, with the fairness of its goroutine | |
| `Ingest` | feed message and vehicle position processors in front of the stop event processor | extends `StopEventProcessor` and implements its specification |
| `GraphConfig` | `Validate`, and what `NewGraph` and `NewPipeline` make of a configuration | operators only |
| `Graph` | `main`, sources, pipelines, FanOut and sinks from start to exit | extends `GraphConfig` |
| `*Proofs` | theorems | one module for each group of components; those about `Ingest` are in `StopEventProcessorProofs` |
| `ProcessorLemmas` | lemmas on the store and on `Seconds` | for the proofs of the processors |
| `MC*` | constants for TLC | |

Correspondence.  One variable stands for one field or local variable of the code
and keeps its name where that is possible; the comment at each declaration says
which.  Variables marked *history* are not in the code: they record what was
received, sent or lost, properties refer to them and no action looks at them.
Operators that begin with "Mutant of" in their comment are not part of the system:
each is a plausible wrong version of the definition after it, used to see that the
properties notice.

**State store.**  A client invokes an operation, waits for the mutex and runs its
critical section in one step.  The sweeper takes the mutex, reads the clock and
then deletes key by key, one step each, while the clock goes on and calls queue up.
The period of its ticker is abstracted: it may fire at any time.

**Processors.**  A processor is one goroutine; `process` is one step up to its first
send, and every send on the unbuffered channel is a step of its own.  The travel
time processor stores after its send, so that its Set belongs to the second step.
Timestamps are in whole seconds as in GTFS-realtime, and `Int32Max` is a parameter
so that conversions overflow within the bounds; out of range, Go leaves the result
of `int32(float64)` to the machine, and `Seconds` allows what amd64 and arm64 give.
A process may crash at any step (`Restart`, `DwellRestart`, ...): what was about to be
sent is gone, and the store is kept (Redis) or empty (in memory).
Keys are strings that join ids with dashes.  An id is the sequence of its
dash-separated parts, joining is concatenation, and each module assumes that
different things have different keys, which TLC checks for the ids of each run
(`Green-B` is one of them).  `StoreFaults` names the operations of the store
that may fail.  `SharedStore` lets other pipelines write under the processor's keys
in an in-memory store, where the type assertion then fails (`Foreign`).  Bytes of
another message type in a shared Redis store that happen to unmarshal are not
modelled.

**Stop events and their losses.**  The code does not send every event that its positions
tell, so that alternation of the events *sent* is not a property of it.  `lost` records, per
vehicle, the last event that was told and not sent, `last` the last one sent, and `Trail` is
the later of the two.  Events are lost

* to an INCOMING_AT report, for which `process` has no case (`stop_event.go:170-190`): a
  vehicle seen STOPPED_AT and next INCOMING_AT has departed, yet no departure is sent and
  two arrivals follow each other; likewise the visit of a stop that an approaching
  vehicle has passed (`Told` is what the code would send for IN_TRANSIT_TO);
* to a Set that was applied and reported an error, and to a Get that failed (`Missed`);
* to a crash between the Set and the sends (`Restart`).

`Alternation` and `EventsMatchState` count these in and hold without exception: whatever
is sent fits the last event sent or lost, and the store is ahead of the consumers by what
was lost.  The history starts anew when the store has no position of the vehicle, or one
without a status or a stop (`~Met`), for then there is nothing to compare a report with.

**Event server.**  `Subscribe` and `Unsubscribe` are one step under the write lock;
`Broadcast` visits the subscribers one by one under the read lock, and a writer
that waits keeps new readers out, as `sync.RWMutex` does.  `SSESink` adds the
goroutine in `ListenAndServe` and the one that waits for the context and calls
`Shutdown`; `net/http` is modelled from its documentation: a server that is shut down
does not start to listen, and `Shutdown` waits for the handlers and tells them nothing.

**Sinks.**  `doSink` is a select between context, ticker and input, then a flush.  A
flush of the database sink is one step per INSERT, each of which may fail, or be applied
although its answer is lost; under a cancelled context it must fail, except in the last
flush, which has a context of its own.  A flush of the Parquet sink is one upload to a
key that is the current second.  The clock only advances: `objectKey` reads the wall clock,
and one that is set back could make objects that are out of order, or write over older ones.

**Ingest.**  The vehicle position processor looks at each entity once and hands it over
an unbuffered channel, so that an entity is chosen when it is looked at, and is taken
by `process` of the stop event processor in the same step.  The go-streams flows between
the two, which may hold an element or two in order, are collapsed to this rendezvous: the
positions that `process` sees, and their order, are the same, and a position in a flow at
a crash is one that was not read.

**Graph.**  `cfg` is the configuration file, `graph` what `Wire` makes of it: pollers,
pipelines with the channels they read, flows with the channels they write, and sinks.
An element keeps its identity on its way.  Each goroutine is a handful of actions:
a source polls and sends; a processor takes an element, makes some number of elements
(`Yields`) of it and sends them; FanOut hands each to one flow after the other; a
flow sends to a sink or a connector and closes it when it ends.  The goroutines of
go-streams between two ends are one queue of `Slots` elements, without a buffer of
their own otherwise.  A send to, or a close of, a closed or nil channel is the state
`panicked`.  Connectors that no pipeline writes are fed, and closed, from outside, as
the tests do.  `main` does not wait for anybody: `Exit` may come at any time after the
signal.

## 3. Runs

| Run | Bounds | Shows |
|---|---|---|
| `state_store` | 2 clients, 2 keys, ttl 1 and 2, clock to 2 | the store implements `StateStoreSpec`; calls return, also after `Close`; lapsed entries are swept |
| `stop_events` | 2 vehicles, 2 stops, every status, no stop and no vehicle; ttl 1, clock to 2; Get and Set fail; shared store; crashes | alternation of what was sent and lost, and agreement of events with stored positions |
| `dwell` | 2 vehicles, timestamps 0..3, Int32Max 2, ttl 1, clock to 3; shared store; crashes | pairing, freshness, bounds |
| `line_metrics` | departures of 3 vehicles at a stop, timestamps 0..6; arrivals of one at 3 stops, 0..4; Int32Max 2, ttl 1, clock to 3; Get and Delete fail; shared store; crashes | headway and travel time: telescoping sums, consecutive stops, bounds |
| `event_server` | 2 requests, channels of 1, 3 broadcasts, a shutdown | safe sends, exact delivery, no stalling, no leak, `Shutdown` returns |
| `batch_sinks` | batches of 2, 3 events of 3 types, 3 seconds; INSERTs and uploads fail or are not answered | bounds, order, accounting for every event, last flush, liveness |
| `ingest` | 2 agencies, one without vehicle ids, 2 stops, every status, also missing and unknown ones; ttl 0, clock to 1; Set fails, Get does not; shared store; crashes | implements `StopEventProcessor` with named positions as its inputs; no nil events; events are about what their agency reported |
| `graph` | a fan-out to two sinks with 3 polls, a merge of two connectors and two pipelines in a row, a shared sink, and small configurations with every type and defect (190 configurations in all); `Slots` 1, a processor makes 0 or 1 elements | references resolve, only named defects panic, channels close behind the elements, sinks keep pace, what is fed arrives |

Why the bounds are enough: with a ttl of 1 entries lapse between any two events of a
vehicle; timestamp ranges exceed Int32Max, so that conversions overflow; a second
vehicle is needed to see events mixed up and a third to see a chain of headways;
channels of 1 fill after one event; batches of 2 leave both full and partial batches,
and 3 events give two flushes in one second.  `Slots` is what a chain of go-streams flows
holds at least; more slots delay a blockage and do not remove it (`back_pressure` needs
more polls then).  The headway and travel time processors share no state, and neither
do the two batching sinks, so that a run follows one or the other.
Every safety property of these runs is also proved (section 4), so that for them a run
is the first check of the statement; each inductive invariant was checked by TLC on the
run of its component before it was proved.  The liveness properties rest on the runs.

`CHECK_DEADLOCK FALSE` is used where the system may stop: when all requests have
returned, when a sink has returned, and when the program has exited.  The other
models never stop.

Fairness.  The store: its goroutine runs and its ticker fires (weak fairness of each
sweeper step); a client that waits for the mutex gets it (strong fairness), since a
`sync.RWMutex` does not starve a waiter.  The event server: the broadcaster runs
and waiters get the lock (weak fairness, as the model makes readers wait for
writers); a select that is offered a disconnect again and again takes it at last
(strong fairness: Go chooses at random among ready cases); a write to a connection
that is gone returns.  Nothing is assumed of a connected client: it may never read.
Its other goroutines run (weak fairness).  The batching sinks: the ticker fires,
INSERTs and uploads return, and select does not pass over a done context for ever.
The graph: weak fairness of "some goroutine that can go on does, or a busy sink is
answered"; since every element takes finitely many steps and feeds are bounded, this is
enough, and less than Go's scheduler gives.  Nothing is assumed of feeds and signals.

Runs that are expected to fail compare the code with what the repository says of it:

| Run | Says | Does |
|---|---|---|
| `stop_event_attributes` | `docs/processors/stop-event-processor.md:34`: "The arrival uses the previous event's attributes" | `stop_event.go:187` makes it from the current event, so that the arrival and the departure it infers have the same timestamp |
| `db_sink_shutdown` | `sinks/db_sink_test.go:342`: "cancel() // triggers flush of buffered event" | if the sink sees its closed input before the cancelled context, it returns without a flush (`db_sink.go:95`) |
| `shared_sink_shutdown` | `main.go:60`: "graceful shutdown" | flows of several pipelines close the input of the sink they share (`pipeline.go:73`): a second close or a send panics, unless the process exits first |
| `back_pressure` | `README.md:43`: "Pipeline isolation means a slow Postgres sink doesn't back-pressure the feed poller" | connectors are unbuffered (`graph.go:28`): while the database does not answer, the poller is stuck in its send |

`NoPanic` names the configurations that make the program panic: connectors beside a
`sources` or `sinks` that is left out, an interval that is zero or negative (which
`Validate` accepts), several flows to a sink, a connector that is not declared, and any
SSE sink, which closes the input that its flow closes too (`http_sink.go:20`).

## 4. Proofs

TLAPS proves every safety property of the runs for every value of the constants, from
the named assumptions of the modules only.  TLC evaluates these for the constants of
each run.

| Module | Theorem | Argument |
|---|---|---|
| `InMemoryStateStoreProofs` | `TypeCorrect`, `SweepSafe` | one step per action; `SweepInv` needs the mutex: nobody changes the map while the sweeper goes through it |
| | `StoreRefinesContract` | every step maps to a step of the contract or to a stutter under `entries <- Restrict(states, LiveKeys)`. A sweep step is a stutter because `sweepNow <= now`: what the stale clock takes for lapsed has lapsed |
| `StopEventProcessorProofs` | `TypeCorrect`, `EventsAlternate`, `EventsMatchStoredPositions` | the inductive invariant is `TypeOK`, `PendingInv` and `EventsMatchState`. Alternation alone is not inductive: that the next event fits the last one, sent or lost, follows from the stored position agreeing with the last event, those still to be sent included. There is no hypothesis on reports, faults or crashes |
| | `IngestInvariant`, `NoNilBehindFeeds`, `GroundedBehindFeeds`, `AlternationBehindFeeds` | the steps of `Ingest` are steps of the stop event processor with inputs of the feeds. `EventsAreGrounded` is not inductive, since an event may be about the stored position: `IngestInv` adds that what is stored is at a named stop and was reported |
| | `FeedsDeliverPositions` | refinement: `Ingest` implements the `StopEventProcessor` whose `Positions` are `NamedPositions`. That the feeds deliver nothing else is what is proved, from the filter of the vehicle position processor (`Skipped`) and the check of the id in `process` |
| `DwellEventProcessorProofs` | `DwellTypeCorrect`, `DwellPairing`, `DwellFreshness`, `StoredArrivals`, `DwellBounded` | the inductive invariant adds `StoredArrivalIsOpen`: what is stored under a key is the arrival of the visit that is open there. `DwellBounded` holds also for a store that fails |
| `LineMetricsProofs` | `HeadwaysAddUp`, `HeadwayBounded` | `HeadwayInv`: a headway starts at the stored departure, which is where the chain's sum ends; a crash takes out of the chain what was not sent |
| | `TravelTimesJoinCalls`, `StoredCalls`, `TravelBounded` | `TravelInv` adds `StoringInv` for the time between the send and the Set, when the store is one call behind: what is stored then is of the call where the leg began |
| | `LineTypeCorrect` | from both |
| `BatchSinksProofs` | `BatchTypeCorrect`, `WritesOnceInOrder`, `LosesNothing` | `BatchInv`: rows of tables whose INSERT is still to come, and all objects, are older than the batch; INSERTs that are done have settled the events of their tables. The loop that sorts a batch into tables is a recursive function, of which the lemmas show by induction over a set of numbers what it keeps |
| | `LastFlushRuns` | also in `BatchInv`: what a done context made fail is of batches that are gone, unless the flush of the loop is still running |
| `EventServerProofs` | `TypeCorrect`, `NoSendPanics` | the map holds exactly the handlers between Subscribe and Unsubscribe, and a broadcast's loop, under the read lock, meets only those |
| | `DeliveryCorrect` | per subscriber, what was written, waits or was dropped is what it is owed, minus the event its visit is still due; event numbers ascend |
| | `ServerTypeCorrect`, `SinkServesSafely` | every step of `SSESink` is a step of `EventServer` or leaves its state alone, so that what is proved of the one holds of the other |
| `GraphProofs` | `ReferencesFound` | `Validate` and `NewPipeline` look the ids up in sets that agree |
| | `GraphTypeCorrect`, `SinksInStep` | `GraphInv`, of which `InStep` says for each flow that what FanOut took is what the flow handed on, what it holds and what FanOut still owes it, in this order |
| | `PanicsOnlyAsKnown` | `Ends`: with one owner each, a closed channel is an inlet or was closed by a flow that has ended, and such a flow has nothing left to send |
| | `ClosedIsDrained` | below |

`ClosedIsDrained` is about any number of pipelines in a row, so that it needs an invariant
that goes with the elements.  `Passes` says that nothing is lost between channels: what a
feed gave, or a flow handed to a connector, has entered the one pipeline that reads
it (`Entered`: it waits there, is in work, was sent on or was filtered).  `Drained` says
that, without a cancellation, a pipeline has ended only when all channels it reads are
closed and nothing waits, and that a closed channel has been given all that can come to it.
When a flow ends and closes its channel, a last hop leads there from each feed above: the
pipeline of the flow reads the feed itself, or a channel below the feed for which `Drained`
already holds.  That there is a last hop is shown of `Downstream`, a fixpoint that is cut
off at the number of pipelines, by induction over the number of hops.

Assumptions: constants are of their types; ids join without ambiguity; nil is no event; the
limits of batches and channels are positive.  `GraphAssumption` also asks that a file
has finitely many pipelines, and that a source and a sink of one id are a connector
(`NamedApart`): the code keeps sources and sinks in maps of their own, and the model
names a channel by the id of its end.  The theorems on telescoping and on consecutive
calls have `ReliableSet` as their hypothesis, as the properties do: the processors ignore
the error of a Set.

All of them hold with crashes where the component may crash: a restart keeps or empties the
store and clears what was about to be sent.

Only model-checked: the liveness properties `CallsReturn`, `LapsedIsSwept`,
`BroadcastsReturn`, `GoneIsForgotten`, `ShutdownReturns`, `BufferedIsFlushed`, `SinkStops`
and `FedIsDelivered`, since temporal logic with fairness is out of the prover's reach, and the
properties that are expected to fail.

## 5. Not modelled, and the plan

Not modelled: generated code (`transit.pb.go`), the text of SQL and the layout of Parquet
rows, YAML, logging, OpenTelemetry, HTTP headers and JSON, the client libraries of
Redis, S3 and PostgreSQL beyond the outcomes of a call, and `main`'s flags and
environment.  A poller whose interval is not positive may also panic while `NewGraph`
still builds or reports an error; the model lets it panic afterwards only.

Observed and not a property: agencies that use the same vehicle ids are taken for one
(`EventsAreGrounded` is stated for ids that differ); a repeated departure of a
vehicle is not stored by the headway processor, as the documentation of its step 4
says, so that the next headway is measured from the first of the two; the Parquet sink's
last flush runs under the cancelled context, and two flushes in one second write the same
object; `Shutdown` of the SSE server waits for clients that stay; at shutdown a poller
or processor may stay in its send until the process exits; a departure is lost when an
INCOMING_AT report follows a STOPPED_AT one (section 2).

Two sentences of the documentation that the code does not keep, and that no run compares:
`docs/processors/vehicle-position-event-processor.md:20` promises one event per vehicle
entity, while the code skips the entities without a stop (`Skipped`); and
`docs/processors/stop-event-processor.md:36` says that events with an empty `stop_id` are
discarded, while `process` stores them as the vehicle's position, and only `makeStopEvent`
looks at the stop and returns nil.  Behind the feeds the first makes the second harmless
(`NoNilEvents`).

What is left, in order:

1. The stop event processor composed with the three metric processors over FanOut and
   connectors: end-to-end properties of visits and legs, and their proofs.
2. Graphs like `all-in-one.yaml`, whose pipelines share sinks, an SSE sink among them.  They
   are not `singlyOwned`, so that `NoPanic` and `DrainedWhenClosed` say nothing of them
   (`shared_sink_shutdown` shows what can happen); of `GraphProofs` they have the types, the
   references and `SinksKeepPace`.  A property that says what such a graph does until it is
   cancelled is missing, and their liveness is out of TLC's reach as they are.
