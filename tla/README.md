# A TLA+ model of bus-exporter

bus-exporter polls devices on Modbus, I2C, I3C and SPI buses and exports their
values to Prometheus, OTLP and MQTT.  The modules in this directory model the
parts of it whose correctness depends on order: tasks that interleave, links
that fail, queues that fill, shutdowns that race with everything else.

## 1. The system

| part | source | state | operations |
|---|---|---|---|
| collector task | `src/collector.rs` | connection, backoff, pre_poll failures, cache of the last cycle, error counters | connect, init_writes, poll, pre_poll, publish, reconnect, exit |
| collector engine | `src/collector.rs` | one task per collector, a `watch` channel | `spawn`, `shutdown` with a timeout |
| metric store | `src/metrics.rs` | one slot per collector (`DashMap`) | `publish` (replaces a slot), `all_metrics_flat` (walks the slots) |
| Modbus reader | `src/reader/modbus/` | a connection | batch read with coalescing and fallback |
| I2C, I3C, SPI readers and writers | `src/reader/{i2c,i3c,spi}/` | a device handle, a lock per bus or device, a cached I3C address | read a metric, execute write steps |
| decoder | `src/reader/decoder.rs` | none | registers or bytes to a value |
| Prometheus exporter | `src/exporter/prometheus/` | none | a scrape walks the store |
| OTLP exporter | `src/exporter/otlp/` | shared values that the SDK's thread exports | interval, final flush |
| MQTT exporter | `src/exporter/mqtt/` | client, event loop task, request queue, backoff | announce, publish, reconnect, go offline |
| internal metrics | `src/internal_metrics.rs` | atomic counters per collector and exporter | increments, rendering, listing for OTLP |
| run command | `src/commands/run.rs` | cancellation token, task handles | start, signal, shutdown in order |
| pull, watch | `src/commands/{pull,watch,mod}.rs` | counters of a pass, totals, a cancellation token | one pass over the collectors, repeated, exit code |
| configuration | `src/config.rs` | none | load, validate |
| install, show-config, logging | `src/commands/`, `src/logging.rs` | none | |

Collectors and exporters meet only in the metric store.  The run command owns a
`CancellationToken`, which stops the exporters, and a `watch` channel, which
stops the collectors.  A collector calls its reader and writer, one await at a
time; the MQTT exporter and its event loop talk through a bounded queue and a
`watch` channel; the OTLP SDK reads the exporter's shared values on a thread of
its own.

What is hard to test in this code: a connection that dies at any await point, or
dies without the reader noticing; init_writes that fail between connect and poll;
a shutdown that arrives in any state; a store that changes while it is walked; a
queue that is full while nobody drains it; readers and writers that share a
bus, a device or an address; an I3C bus that is reset; casts, slices and unwraps
that rely on checks made when the configuration was loaded; the order in which the parts of the
daemon stop; requests for merged registers that fail for one of them; address
arithmetic at the end of a 16 bit space.  PROJECT.json lists these under
`hazards`, each with its line and with the properties that cover it.

## 2. The modules

| module | models | composed with |
|---|---|---|
| `MetricFeed` | what one collector promises to the readers of its slot (abstract) | implemented by `Collector` |
| `Collector` | `run_collector` and `reconnect_with_init_writes` | |
| `Scrape` | a Prometheus scrape, or the OTLP exporter's listing, of a collector's slot and counters | extends `Collector` |
| `SingleReads` | what the caller of a batch read is promised (abstract) | implemented by `BatchRead` |
| `BatchRead` | one call of `batch_read_coalesced` | |
| `Presence` | the MQTT exporter as its subscribers see it (abstract) | implemented by `MqttExporter` |
| `MqttExporter` | `run_mqtt_exporter`, its event loop, queue and broker | |
| `StoreFeed` | what the exporters make of the store, for those who see their output (abstract) | implemented by `Daemon` |
| `Daemon` | `run_command`, engine, store, OTLP exporter and readers | |
| `SerialBus` | what collectors that share a bus may count on (abstract) | implemented by `SharedBus` |
| `SharedBus` | I2C, I3C and SPI readers and writers of several collectors on one bus | |
| `ConfigLoad` | merging, validation, factory, start of the exporters, first read and write of a configuration | |
| `Watch` | pull and watch: filters, passes, counters, interrupt, exit code | |
| `...Proofs` | the proofs about the module of that name (`MqttProofs`, `ConfigProofs`, `BatchProofs`: about `MqttExporter`, `ConfigLoad`, `BatchRead`) | |
| `MC...` | the constants of the runs | |

### Collector and MetricFeed

`pc` is the await point of the task; an action is what the code does from one
await to the next.  `handle` is what `is_connected` would answer, `peer` whether
the device at the other end still answers: `LoseConnection` makes them differ.
`LossNoticed` says whether a failed read on a dead connection makes the reader
drop its handle: the trait allows it, the readers in the repository never do
(`src/reader/modbus/tcp.rs:69`), and the invariants hold for both.  `configured`
records whether the present connection has had its init_writes.  A value is
abstracted to the number of the poll that read it, so that stale and fresh ones
differ; a delay to multiples of the initial one.  `MCMetrics` has a metric with the
name of the other one's error counter, because the code lets them share an entry
of the cache: it shows the metric until the other one fails for the first time, and
the count from then on (`ErrorCountersExact`).

`MetricFeed` is the abstract specification: a slot is a snapshot, replaced as a
whole, in which a metric is either refreshed by the open cycle or left as it was,
an entry once present stays, and error counters only grow.  Of an entry that is a
metric and a counter it says only that it stays.  `ImplementsFeed` is the
refinement mapping, checked by TLC and proved, whatever the metrics are called.

### Scrape

`Scrape` is `Collector` with a reader beside it.  `Fields` is the order in which a
reply is put together: the samples of the slot, then the counters one by one
(`LoadCounter`, as `render_prometheus` loads them) or all of the collector's at
once (`LoadCounters`: `to_metric_values` holds the guard of the map's entry).
Between any two fields the collector may do anything it does in `Collector`.

### BatchRead

The contents of register *a* are *a*, so a decoded value says where it was read.
One step is one iteration of `coalesce` or one request.  The device refuses the
registers in `bad`, and all requests may fail at random when `flaky`.  u16 is
scaled to 0..15, `MAX_COALESCE_GAP` to 1 and `MAX_REGISTERS_PER_READ` to 4; the
saturating arithmetic is kept.  Metrics with one address are taken in any order,
which includes the stable order of the code.

`SingleReads` is the call as its caller sees it: each metric gets one answer, which
a request of its own could have given (`Possible`), keeps it, and has it on return.
Ranges, fallback and counters are hidden; `ImplementsSingleReads` maps `results` to
the answers.

### MqttExporter

`pc` is the await point of the exporter task, `loop` and `net` the event loop
task and its connection, `queue` the request channel, `session` and `status` the
broker.  rumqttc and the broker are external: an event loop that ends drops its
queue and fails every later publish, and a broker publishes the will of a session
that ends without DISCONNECT or is taken over.

`Presence` keeps of this what the broker hands on: a session, the retained status
and the last message of the connection (`last`).  It says what may be heard after
what: "online" first, then metrics, "offline" after one of these, DISCONNECT after
"offline"; and that a connection which ends in another way is declared offline.
Client, queue, backoff and the exporter's task are hidden in `ImplementsPresence`.

### Daemon

A collector is what `Collector` looks like from here: a task that publishes,
hangs or ends.  A slot is the number of
times it was published.  Exporters take slots one at a time (`ReadSlot`), as
`all_metrics_flat` does.  The Prometheus handler runs once for each request, so any
of `Requests` may be walking at the same time; the OTLP and the MQTT exporter do one
walk after the other.  The SDK's thread calls the callback of one instrument after
the other (`ReadInstrument`), and each takes the lock of the shared state for itself,
so that the exporter may replace the state between two of them.  `run_command`
returns (`ExportersJoined`) when the exporters are joined; the process ends when the
runtime is dropped (`DropRuntime`), which waits for closures of `spawn_blocking` that
have begun (`"call"`).  Before that moment a blocking call makes no difference to
the main task, which is why `col` knows of it only from then on.  `at_signal`,
`at_begin` and `offered` are history variables: the store when the signal came and
when a walk began, and the shared states there were during a collection.

`StoreFeed` has the store, the exports under way and what was shown and received.
An export is regular, which is less than a snapshot: what it shows of a collector
the collector had in the store at some moment between the begin and the end of the
export.  What the backend receives is less again: of each metric name what one export
showed, of those that were current during the collection.  Two scrapes that overlap
may be answered in either order, so that a reply can be older than one that ended
before it; `NothingGoesBack` says what remains.

### SharedBus

A collector's task does one operation at a time, a read or a write step, and an
operation is a closure that takes a lock (`Acquire`), talks to the device and
drops it (`Finish`).  A lock belongs to the bus path, with SPI to the device path
(`Key`).  An I2C read is two system calls, with the device's register pointer
(`pointer`) between them; an I3C or SPI transfer is one, so that one register
stands for all.

`LinuxI3cDevice` ignores the address it is given (`src/reader/i3c/mod.rs:84`): its
transfers go to what the character device of the bus path stands for (`endpoint`).
So the address a client has cached does not choose the device, but a client without
one makes no transfer.  `known` says whether a reader or a writer has an address
(the factory gives them objects of their own), `mode` whether it was configured or
is looked up in sysfs by PID, or by class and instance: an instance is found when
enough devices of the class are there (`InSysfs`).  `Reset` and `Enumerate` are the
I3C bus.

`SerialBus` is a bus on which an operation is asked for, taken up when nobody else
is at work on what it needs, and answered in one step, or as failed, with the right
register of the device that the collector's operations reach, which is always the
same one.  With I2C and SPI that is the one configured; with I3C it need not be
(`RoutedByAddress`).  `Serial` maps every place between lock and unlock
to "busy"; address resolution, register pointer, retries and caches are hidden.

### ConfigLoad

Entries of metrics files and inline entries arrive one by one (`FileEntry`,
`InlineEntry`), are merged by name, and are validated by `Load` unless the command
is pull or watch.  `Valid` holds the checks that a reader, a writer, an exporter or
the factory relies on.  What follows uses what was loaded: `Create` is the factory,
which puts defaults in the place of what it cannot use (`Made`), panics or skips
the collector; `StartExporters` runs each exporter whose settings its library
takes (`Runs`, `DurationOk`, `MqttClient`); `ExecuteWrites` is a write step;
`ReadMetric` reads a metric.  `last` is a history variable: the last entry of each
name and the defaults of its file, which `FullyReplaced` compares with what was merged.
Reading a metric yields where its value came from: the first register
or byte, and the order of the bytes after it.  Modbus metrics go through the batch
read as in the code: a range of one metric (`alone`) or one that was merged with
others, whose end saturates at the last register.  `Intended` says the same from the
configuration and the table of spec/decoder.md, so the two descriptions are
independent, and `Readings` adds the boundaries at which the code does something
else.  `CASE` follows the `match` of the code.  u8 and u16 are scaled to 16
and 64 values; the u16 sum of the SPI check keeps its wrap.

### Watch

`pc` is the await point of pull or watch.  `successful`, `failed` and
`total_metrics` are the counters of `collect_once`, `total_...` those of
`run_watch`.  Collectors that cannot be created or do not connect, metrics that
fail, and metrics a byte-bus reader did not come to because the token was
cancelled each take the path they take in the code.  A pass takes collectors in
any order.

## 3. The runs

| run | question | bounds |
|---|---|---|
| `collector` | does a collector keep its books, its caches and its connection right, does it end and does it recover? | 2 metrics, one called like the error counter of the other, 4 polls, backoff up to 4 |
| `collector_backoff` (violation) | does the backoff grow while the device cannot be set up? | 3 polls |
| `scrape` | is a reply that is put together field by field consistent? | 2 metrics, 3 polls, 1 reply |
| `batch` | does a batch read answer each metric as a single read would, once, and within budget? | 3 metrics, 16 registers |
| `mqtt` | presence, order, shutdown and reconnect of the MQTT exporter | queue of 3, up to 4 metrics |
| `daemon` | what is exported of a changing store, what does a shutdown flush, do values arrive, does the daemon end while collectors hang? | 2 collectors with a metric each, each exporter, 2 overlapping scrapes, 1 publication per collector |
| `daemon_flush` (violation) | are the last values flushed? | 2 collectors, OTLP, 1 publication each |
| `bus` | do operations that share a bus or a device keep apart, does everyone get the bus, do clients recover from a reset? | 2 collectors with one device or two, 3 assignments of address modes, 2 resets |
| `bus_i3c` (violation) | does the address of an I3C device choose who answers? | 2 collectors, I3C, static addresses |
| `config` | is what validation accepts created, started, written and read as configured? | 1 metric name, 2 entries, about 200 metrics, about 150 collectors |
| `config_pull` (violation) | is it so for pull and watch? | I2C |
| `watch` | do the reports of pull and watch add up, and does an interrupt end watch quietly? | 2 collectors with up to 2 metrics, every filter, 2 passes |

Why the bounds are enough.  Four polls hold a success, a failure of each kind and
a recovery; three pre_poll failures in a row fit, and a reset between.  Backoff 4
is reached after two doublings and is capped at the third.  One reply during three
polls meets every order of a load with a start, an end and a failure of a cycle,
and replies do not affect each other.  Three metrics give a
range, a member that extends it, one that does not, and an overlap in between;
with a gap of 1 and 4 registers every way to stop merging occurs, and metrics on
registers 13 to 15 bring in the saturated end.  A queue of 3
with 4 metrics fills up in one tick.  Two slots are what a walk needs to be torn, two names what a collection needs, two
requests what scrapes need to overlap.  One publication of each collector tells a
store before it from one after it; exporters meet only in the store, so a run has one kind of them at a time,
and two where no collector could be created, which is enough for joining.  The theorems of
`DaemonProofs` hold for any number of publications.
Two collectors on one device or two are all ways to share a bus; two resets let
the second one meet a client that has been through the first.
A metric is validated and read by itself, so one name is enough; two
entries give every way to replace.  The metrics and set-ups of `MCConfigLoad` vary
those fields together that are checked or used together, around both ends of a
byte and a word.  Two collectors in two passes have one that is through, one that
is in hand or to come, and a pass before this one.
`MaxPolls`, `MaxScrapes`, `MaxMetrics`, `MaxBackoff`, `MaxResets`, `MaxEntries` and
`MaxIterations` are the only bounds.  `config` and `config_pull` do not check for
deadlock, because loading ends.

Fairness.  Tokio schedules a ready task again, sleeps end, and `select!` polls its
branches in random order, so a branch that is ready again and again is taken
(strong fairness where another branch may win first).  A call on a bus returns, in
`FairSpec` (Modbus requests have timeouts, the ioctls of the other buses
return); in `Daemon` nothing is assumed of collectors, and the second half of
`ShutdownCompletes` names what it needs of them: no blocking call hangs for ever
after `run_command` has returned.  A walk of the store ends, and so does the answer
to a scrape that the HTTP server still has: the client reads it.  Recovery properties
assume of the environment only that what is tried for ever sometimes succeeds:
`BusRecovers` for the device, the strong fairness inside `Recovers` for a transfer,
`BrokerAnswers` for the broker, strong fairness
of `ExportOk` for the OTLP backend.  The locks of the buses are not queues;
`SharedBus` assumes that one that is free again and again is taken at last by
whoever waits, since collectors sleep between polls.

What the violations show.

* `collector_backoff`: `connect()` succeeds, init_writes fail, and the delay is
  reset in between (`collector.rs:55`, `:109`), so that it stays at 1 s.
* `daemon_flush`: the exporters are cancelled first; a collector that finishes its
  cycle after the last walk of the OTLP exporter publishes for nobody.
* `bus_i3c`: a transfer does not carry the address (`reader/i3c/mod.rs:84`), so of two
  devices configured on one bus path one is read for the other, although
  spec/i3c.md:91-92 has access routed by address.
* `config_pull`: `load_for_pull` validates nothing, so an I2C metric without an
  address panics the process and one above 255 reads another register.

Met while modelling, without a run of their own:

* A poll whose every read fails on a dead connection is a completed cycle, since
  `is_connected()` only looks for a handle (`reader/modbus/tcp.rs:69`);
  spec/collector.md:119 describes a reconnect.
* The exclusive end of a range that holds register 65535 saturates one short
  (`batch.rs:54`).  A metric of several registers that ends there is accepted and never
  read: its range is decoded "out of bounds", merged or not.  One of a single register
  is read when it is alone, since its empty range is refused and it is read again by
  itself, and not when it is merged with others.  `EndsAtTop` in `MatchesIndividual`
  and in `AcceptedIsReadable`.
* The OTLP SDK's callbacks read the shared state one by one
  (`exporter/otlp/mod.rs:75-106`), so that a backend may receive a mix of two walks.
* A read or write on I2C, SPI or I3C that hangs in its system call keeps the process
  alive after `run_command` has returned, since the runtime waits for it (`main.rs:11`);
  the timeout of the join (`collector.rs:461`) does not help.
* A writer on an I3C bus never looks its address up again once it has one
  (`reader/i3c/mod.rs:312`).  As transfers ignore it, nothing comes of this
  (`ClientsRecover`).
* The MQTT exporter resets its backoff when "online" is queued, before there is a
  connection (`mqtt/mod.rs:184`).
* The sum of a `response_offset` near 65535 and the bytes read wraps past the check of
  `config.rs:1237` in a release build, although spec/spi.md:157 has it rejected, and
  the first read panics.  `AcceptedIsReadable` says of exactly which metrics this is
  so (`Overruns`) and that no other one panics.
* An OTLP interval of zero and an MQTT keep-alive of less than a second are
  accepted and panic the exporter's task (`DurationOk`, which `AcceptedIsCreated`
  leaves out).
* watch waits for Ctrl-C only (`commands/watch.rs:81`), although spec/cli.md:126 has
  SIGTERM stop it too; `Interrupt` is Ctrl-C.
* A watch that is interrupted while a byte-bus reader has metrics left counts these
  as failed and ends with exit code 2.

## 4. The proofs

Each proof is about the specification the run checks, without its fairness, for
every value of the constants its assumptions admit.  In each module the properties
follow from one inductive invariant, `IInv` (in `ScrapeProofs`, `ScrapeIInv`), which
is proved one action at a time and was run through TLC first.  "Refinement" is the
theorem that the module implements its abstract specification.

| module | proves | inductive invariant: what the properties need beside themselves |
|---|---|---|
| `CollectorProofs` | `TypeOK`, `PollAccounting`, `ReadyToPoll`, `PrePollBudget`, `ExitOnlyOnShutdown`, `ErrorCountersExact`, `AvailableAfterSuccess`, refinement of `MetricFeed`, `WindsDown` | where the task is with respect to its connection (`ControlInv`), and what the two private caches hold at each `pc` (`CacheInv`) |
| `ScrapeProofs` | `CyclesAccounted`, `SamplesCounted` | in the collector, that nothing is published before it is counted (`CountedInv`); in a reply, what a loaded field is to those not loaded yet (`ReplyInv`) |
| `BatchProofs` | `TypeOK`, `RangesFit`, `MatchesIndividual`, `RequestBudget`, refinement of `SingleReads`, `NothingForgotten` (every metric has a result on return), `EveryStepCounts` | each metric is at one place only (`PlaceInv`), metrics are placed in the order of their addresses (`OrderInv`) |
| `MqttProofs` | `TypeOK`, `OnlineHasWill`, refinement of `Presence`, `MetricsOnlyOnline`, `OneEventLoop`, `JoinsEnd`, `WindsDown` | what the queue may hold at which `pc` (`QueueInv`), what the broker has been told (`BrokerInv`) and what was the last of it (`HeardInv`), that the exporter waits for the end of an event loop (`LoopInv`) |
| `DaemonProofs` | `TypeOK`, `SignalledIsFlushed`, refinement of `StoreFeed`, `NothingGoesBack` | a walk lags behind the store and leads the view it replaces (`WalkInv`); the backend lags behind every shared state of the collection, and each callback has returned one of these (`CollectInv`); from the last walk on nothing of `at_signal` is missing (`SignalInv`) |
| `SharedBusProofs` | `TypeOK`, `ReadsOwnRegister`, `Exclusive`, refinement of `SerialBus`, `HoldIsBounded` | a lock is held by the one that uses what it protects (`LockInv`), the pointer stays where the first call put it (`PointerInv`), an operation is where its kind of bus lets it be (`KindInv`) |
| `ConfigProofs` | `TypeOK`, `AcceptedIsReadable`, `AcceptedIsCreated`, `StepsTakeEffect`, `FullyReplaced` | past `Load` the configuration is valid (`LoadInv`); what was made and used is what the code computes of it (`MadeInv`, `UsedInv`) |
| `WatchProofs` | type correctness, `ReportsAddUp`, `QuietAfterInterrupt`, `EveryStepCounts` | the counters of a pass are those of the collectors it is through with (`CountInv`), the totals those of the passes that are over (`PassInv`) |

`ConfigProofs` rests on lemmas about the checks themselves: `ValidIsReadable` (a
metric that `MetricOk` accepts is read as one of its `Readings`, for
all data types, byte orders and widths), `ValidIsMade`, `ValidIsStarted`.  `SharedBusProofs` has
`MutualExclusion`.

Refinements.  Each is proved action by action from the inductive invariant: a step
is one step of the abstract specification or leaves its variables alone.

* `Collector` to `MetricFeed`: `StartPoll` opens a cycle, `Publish` closes it.
* `BatchRead` to `SingleReads`: a range that succeeds answers all its members, a
  range that fails answers each by a request of its own; that these are disjoint
  from what was answered before is `PlaceInv`.
* `MqttExporter` to `Presence`: `LoopConnect` is an arrival, `LoopSend` is heard,
  `WillPublished` is the will.  That the head of the queue is what may follow takes
  `QueueInv` and `HeardInv`.
* `Daemon` to `StoreFeed`: `BeginWalk` and the OTLP exporter's last walk begin an
  export, `EndWalk` shows it.  `WalkInv` keeps each slot read so far between
  `at_begin` and the store.  `Collect` begins a collection, the end of the export ends
  it, and the callbacks between stutter; that each name comes from one state that was
  shown meanwhile is `CollectInv`.
* `SharedBus` to `SerialBus`: `Acquire` is the only step that takes, and the step
  that unlocks is the only one that answers; the calls in between stutter.  The rest
  is `LockInv` and `PointerInv`.

Variants.  `EveryStepCounts` says that a natural number falls with every step: of a
batch read (`Work`: answers missing, ranges and metrics to come), and of a pass of
pull or watch (`Work`: steps left of the pass; only `StartPass` and `Interrupt` raise
it, and after an interrupt nothing does).  `HoldIsBounded` has one for each operation
on a bus, which is over after at most 2 `MaxTries` + 3 steps of its own.  They are
the half of termination that needs no fairness: such a task cannot go on for ever.
`WindsDown` is a variant of a shutdown, of a collector and of the MQTT exporter: each
step brings the task nearer to its end, unless a `select!` in which the shutdown is
ready picks a sleep or an interval that is over too.  These steps are named in the
theorem; that they do not win for ever is fairness.  A collector begins no other
cycle meanwhile.  `JoinsEnd` adds for the exporter's two joins that what it waits for
is over or told to end.

Proved, and not run: the types of `BatchRead` and `SharedBus`, `NothingGoesBack` and
`MetricsOnlyOnline` (the last follows from the refinement that is run), and
the variants.

The assumptions are those of the modules: finite sets of metrics and devices;
bounds that are natural numbers; two metrics never share an error counter
(`MetricsAssumption`); assignments of devices and modes that are functions, and a
lock's holder that differs from nobody (`BusAssumption`); exporters that are among the
three there are, requests that are not called like them, and metrics that are pairs of
a name and a collector (`DaemonAssumption`); metrics that end within the address space, as the validation
has it (`LayoutsFit`); inputs that have the fields of the configuration's types
(`InputAssumption`), and `None` differs from entries and from what the code compares
it with (`NoneAssumption`).  `SamplesCounted` leaves out configurations in which names collide (`NoNameClash`).  TLC evaluates them in the runs.

Only model-checked: liveness, which rests on fairness that the prover does not
handle (`ShutdownCompletes`, `ResumesPolling`, `AllAnswered`, `CancelCompletes`,
`OfflineAtLast`, `Reannounced`, `PublishedIsReceived`, `NotStarved`,
`ClientsRecover`, `InterruptEnds`).  The variants above prove the part of
`AllAnswered`, `NotStarved`, `InterruptEnds`, `ShutdownCompletes` of a collector and
`CancelCompletes` that is not about fairness.

## 5. Not modelled

* Timeouts inside a Modbus request and the pairing of late answers: tokio-modbus
  has both.
* Checks of the configuration that no other code relies on: names, paths, scale,
  polling interval, the global sections.
* Label merging, name sanitising, text formats and output: data that no
  step depends on.
* Floating point: scale, offset and the widening of 64 bit integers.
* The trait implementations `MqttMetricExporter` and `OtlpMetricExporter`, which no
  command uses, and the set-up of the `MetricExporter` trait.
* The counters of the exporters, and gauges among the internal metrics: each has one
  writer and no property relates it to another.
* `install` (one pass of file I/O), `show-config` (prints), logging (set-up of the
  subscriber, formatting).

## 6. What comes next

1. The composition of `Collector` with `SharedBus`: collectors that poll, reconnect
   and shut down while they wait for the lock of a bus; `SerialBus` is what a
   collector would see of it.
2. A fault model of a Modbus connection on which a late answer is still in flight,
   with the transaction ids of TCP and the missing ones of RTU.
3. The internal counters of the exporters next to those of the collectors.
