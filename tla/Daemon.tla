-------------------------------- MODULE Daemon --------------------------------
(***************************************************************************)
(* The daemon of the run command: the main task (commands/run.rs), the      *)
(* collector tasks of the engine, the MetricStore they publish to, and the  *)
(* exporters that read it, from start to the end of a graceful shutdown.    *)
(*                                                                          *)
(* A collector is what is left of Collector.tla seen from here: it replaces *)
(* its slot of the store as a whole when a cycle completes, and some time   *)
(* after a shutdown request, or never when its bus hangs, it ends.  A slot  *)
(* is abstracted to the number of times it was published.                   *)
(* Exporters walk the store slot by slot while collectors publish: the OTLP *)
(* and the MQTT exporter one walk after the other, the Prometheus exporter  *)
(* one for each request, several at a time.  The OTLP SDK collects on a     *)
(* thread of its own, one instrument after the other, what the exporter     *)
(* last put into its shared state.                                          *)
(***************************************************************************)
EXTENDS Integers, FiniteSets

CONSTANTS
  Collectors,  \* the configured collectors
  Exporters,   \* the exporters there are, some of "otlp", "prometheus", "mqtt"
  Setups,      \* what may be enabled and could be created, a set of pairs
  Requests,    \* scrapes that may be answered at the same time
  Names,       \* of metrics: the OTLP exporter has an instrument for each
  Metrics,     \* which collector has a metric of which name, a set of pairs
  MaxPolls     \* bound: publications per collector

ASSUME DaemonAssumption ==
  /\ IsFiniteSet(Collectors) /\ MaxPolls \in Nat
  /\ Exporters \subseteq {"otlp", "prometheus", "mqtt"} /\ "otlp" \in Exporters
  /\ Setups \subseteq (SUBSET Collectors) \X (SUBSET Exporters)
  /\ Metrics \subseteq Names \X Collectors
  /\ Requests \cap {"otlp", "prometheus", "mqtt"} = {}

VARIABLES
  main,       \* where run_command, and after it the process, stands
  cancelled,  \* the CancellationToken of the exporters
  shutdown,   \* the watch channel of the collectors
  col,        \* the collector tasks
  store,      \* the MetricStore: publications per slot
  exp,        \* the exporter tasks
  walking,    \* who is walking the store
  unread,     \* slots a walk has not reached yet
  snap,       \* what the walk has found
  view,       \* the last complete walk: scraped, published, or OTLP shared state
  sdk,        \* what the thread of the OTLP SDK does
  uncollected,\* instruments whose callback the collection has not called yet
  collected,  \* what the callbacks have returned
  received,   \* what the OTLP backend has received
  at_begin,   \* history: the store when the walk under way began
  offered,    \* history: the shared states there were during the collection
  at_signal   \* history: the store at the moment of the signal

engine == <<shutdown, col, store>>
walks == <<walking, unread, snap, view, at_begin>>
otel == <<sdk, uncollected, collected, received>>
exporting == <<exp, walks, otel, offered>>
vars == <<main, cancelled, engine, exporting, at_signal>>

\* The Prometheus exporter walks once for each request, the others are loops.
Walkers == (Exporters \ {"prometheus"}) \cup IF "prometheus" \in Exporters THEN Requests ELSE {}
Exporter(w) == IF w \in Requests THEN "prometheus" ELSE w

Never == [c \in Collectors |-> 0]
Nothing == [m \in Metrics |-> 0]

\* Collectors whose reader or writer cannot be created are skipped; exporters
\* that are disabled or cannot be set up are "off".
Init ==
  /\ main = "run" /\ cancelled = FALSE /\ shutdown = FALSE
  /\ \E S \in Setups :
       /\ col = [c \in Collectors |-> IF c \in S[1] THEN "live" ELSE "skipped"]
       /\ exp = [e \in Exporters |-> IF e \in S[2] THEN "on" ELSE "off"]
  /\ store = Never /\ at_signal = Never
  /\ walking = {}
  /\ unread = [w \in Walkers |-> {}]
  /\ snap = [w \in Walkers |-> Never]
  /\ view = [w \in Walkers |-> Never]
  /\ at_begin = [w \in Walkers |-> Never]
  /\ sdk = "idle" /\ uncollected = {} /\ offered = {}
  /\ collected = Nothing /\ received = Nothing

-------------------------------------------------------------------------------
(***************************************************************************)
(* The main task.  It is the only one that ends the process.                *)
(***************************************************************************)
Running == main # "exited"

Signal ==
  /\ main = "run" /\ main' = "cancel"
  /\ at_signal' = store
  /\ UNCHANGED <<cancelled, engine, exporting>>

CancelExporters ==
  /\ main = "cancel" /\ main' = "shutdown"
  /\ cancelled' = TRUE
  /\ UNCHANGED <<engine, exporting, at_signal>>

\* engine.shutdown: send true, then wait for every collector task ...
ShutdownEngine ==
  /\ main = "shutdown" /\ main' = "join_collectors"
  /\ shutdown' = TRUE
  /\ UNCHANGED <<cancelled, col, store, exporting, at_signal>>

CollectorsJoined ==
  /\ main = "join_collectors" /\ main' = "join_exporters"
  /\ \A c \in Collectors : col[c] \in {"done", "skipped"}
  /\ UNCHANGED <<cancelled, engine, exporting, at_signal>>

\* ... for at most DEFAULT_SHUTDOWN_TIMEOUT.
JoinTimeoutNever == FALSE /\ UNCHANGED vars   \* Mutant: join_all without a timeout.
JoinTimeout ==
  /\ main = "join_collectors" /\ main' = "join_exporters"
  /\ \E c \in Collectors : col[c] \notin {"done", "skipped"}
  /\ UNCHANGED <<cancelled, engine, exporting, at_signal>>

\* run_command returns.  A collector that has not ended may be in a blocking call: a
\* read or write on an I2C, SPI or I3C bus is a closure for spawn_blocking.
ExportersJoined ==
  /\ main = "join_exporters" /\ main' = "returned"
  /\ \A e \in Exporters : exp[e] \in {"done", "off"}
  /\ \E B \in SUBSET {c \in Collectors : col[c] = "live"} :
       col' = [c \in Collectors |-> IF c \in B THEN "call" ELSE col[c]]
  /\ UNCHANGED <<cancelled, shutdown, store, exporting, at_signal>>

\* #[tokio::main] drops the runtime: tasks end at their next await, but a closure
\* that has begun is waited for.
DropRuntime ==
  /\ main = "returned" /\ main' = "exited"
  /\ \A c \in Collectors : col[c] # "call"
  /\ UNCHANGED <<cancelled, engine, exporting, at_signal>>

Exited == main = "exited" /\ UNCHANGED vars

-------------------------------------------------------------------------------
(***************************************************************************)
(* A collector task.                                                        *)
(***************************************************************************)
\* A completed cycle replaces the slot.
PublishSlot(c) ==
  /\ Running /\ col[c] = "live" /\ store[c] < MaxPolls
  /\ store' = [store EXCEPT ![c] = @ + 1]
  /\ UNCHANGED <<main, cancelled, shutdown, col, exporting, at_signal>>

\* In a select, or at the top of the poll loop; "late" is after the join timed out.
EndCollector(c) ==
  /\ Running /\ shutdown /\ col[c] = "live"
  /\ col' = [col EXCEPT ![c] = IF main = "join_collectors" THEN "done" ELSE "late"]
  /\ UNCHANGED <<main, cancelled, shutdown, store, exporting, at_signal>>

\* The blocking call returns, or never does; nobody polls the task any more.
LeaveCall(c) ==
  /\ col[c] = "call"
  /\ col' = [col EXCEPT ![c] = "late"]
  /\ UNCHANGED <<main, cancelled, shutdown, store, exporting, at_signal>>

CollectorStep(c) == PublishSlot(c) \/ EndCollector(c) \/ LeaveCall(c)

-------------------------------------------------------------------------------
(***************************************************************************)
(* The exporters.                                                           *)
(***************************************************************************)
\* What all steps of an exporter or of the SDK leave alone.
OthersUnchanged == Running /\ UNCHANGED <<main, cancelled, engine, at_signal>>

StartWalk(w) ==
  /\ w \notin walking /\ walking' = walking \cup {w}
  /\ unread' = [unread EXCEPT ![w] = Collectors]
  /\ at_begin' = [at_begin EXCEPT ![w] = store]
  /\ UNCHANGED <<snap, view>>

\* An interval is over, or a scrape comes in, whether or not others are being
\* answered: walk the store.
BeginWalk(w) ==
  /\ OthersUnchanged /\ exp[Exporter(w)] = "on"
  /\ StartWalk(w)
  /\ UNCHANGED <<exp, otel, offered>>

\* all_metrics_flat: the next slot, as it is now.
ReadSlotOverwrites(w, c) ==                 \* Mutant: the result holds one slot only.
  /\ OthersUnchanged /\ c \in unread[w]
  /\ snap' = [snap EXCEPT ![w] = [d \in {c} |-> store[d]]]
  /\ unread' = [unread EXCEPT ![w] = @ \ {c}]
  /\ UNCHANGED <<exp, walking, view, at_begin, otel, offered>>
ReadSlot(w, c) ==
  /\ OthersUnchanged /\ c \in unread[w]
  /\ snap' = [snap EXCEPT ![w][c] = store[c]]
  /\ unread' = [unread EXCEPT ![w] = @ \ {c}]
  /\ UNCHANGED <<exp, walking, view, at_begin, otel, offered>>

\* The walk is over: respond, publish, or update the shared state.
Offer(w, v) == offered' = IF w = "otlp" /\ offered # {} THEN offered \cup {v} ELSE offered
CompleteWalk(w) ==
  /\ OthersUnchanged /\ w \in walking /\ walking' = walking \ {w}
  /\ exp' = [exp EXCEPT ![Exporter(w)] = IF @ = "last_walk" THEN "flush" ELSE @]
  /\ snap' = [snap EXCEPT ![w] = Never] /\ at_begin' = [at_begin EXCEPT ![w] = Never]
  /\ UNCHANGED <<unread, otel>>
EndWalkEarly(w) ==                          \* Mutant: shared state updated meanwhile.
  /\ CompleteWalk(w)
  /\ view' = [view EXCEPT ![w] = snap[w]] /\ Offer(w, snap[w])
EndWalkOnce(w) ==                           \* Mutant: updated with new names only.
  /\ CompleteWalk(w) /\ unread[w] = {}
  /\ view' = IF view[w] = Never THEN [view EXCEPT ![w] = snap[w]] ELSE view
  /\ Offer(w, view'[w])
EndWalk(w) ==
  /\ CompleteWalk(w) /\ unread[w] = {}
  /\ view' = [view EXCEPT ![w] = snap[w]] /\ Offer(w, snap[w])

\* cancelled() wins the select.  The OTLP exporter walks the store once more, the
\* HTTP server answers the requests it has, the MQTT exporter is done
\* (MqttExporter.tla has the details).
CancelOtlpAtOnce ==                         \* Mutant: flush without a last update.
  /\ OthersUnchanged /\ cancelled /\ exp["otlp"] = "on" /\ "otlp" \notin walking
  /\ exp' = [exp EXCEPT !["otlp"] = "flush"]
  /\ UNCHANGED <<walks, otel, offered>>
CancelOtlp ==
  /\ OthersUnchanged /\ cancelled /\ exp["otlp"] = "on"
  /\ exp' = [exp EXCEPT !["otlp"] = "last_walk"]
  /\ StartWalk("otlp")
  /\ UNCHANGED <<otel, offered>>

CancelMqtt ==
  /\ OthersUnchanged /\ cancelled
  /\ "mqtt" \in Exporters \ walking /\ exp["mqtt"] = "on"
  /\ exp' = [exp EXCEPT !["mqtt"] = "done"]
  /\ UNCHANGED <<walks, otel, offered>>

StopServing ==
  /\ OthersUnchanged /\ cancelled /\ "prometheus" \in Exporters
  /\ \/ exp["prometheus"] = "on" /\ exp' = [exp EXCEPT !["prometheus"] = "drain"]
     \/ /\ exp["prometheus"] = "drain" /\ Requests \cap walking = {}
        /\ exp' = [exp EXCEPT !["prometheus"] = "done"]
  /\ UNCHANGED <<walks, otel, offered>>

-------------------------------------------------------------------------------
(***************************************************************************)
(* The PeriodicReader of the OTLP SDK: one collection and export after the  *)
(* other, the last one for provider.shutdown().                             *)
(***************************************************************************)
Collect(purpose) ==
  /\ OthersUnchanged /\ sdk = "idle"
  /\ sdk' = purpose /\ uncollected' = Names /\ offered' = {view["otlp"]}
  /\ UNCHANGED <<exp, walks, collected, received>>
PeriodicCollect == exp["otlp"] \in {"on", "last_walk"} /\ Collect("periodic")
LastCollect == exp["otlp"] = "flush" /\ Collect("last")

\* The callback of an instrument takes the lock of the shared state for itself.
ReadInstrument(n) ==
  /\ OthersUnchanged /\ n \in uncollected
  /\ uncollected' = uncollected \ {n}
  /\ collected' = [m \in Metrics |-> IF m[1] = n THEN view["otlp"][m[2]] ELSE collected[m]]
  /\ UNCHANGED <<exp, walks, sdk, received, offered>>

\* The export succeeds, or fails and is not repeated.
EndExport(outcome) ==
  /\ OthersUnchanged /\ sdk # "idle" /\ uncollected = {}
  /\ sdk' = "idle" /\ offered' = {}
  /\ exp' = IF sdk = "last" THEN [exp EXCEPT !["otlp"] = outcome] ELSE exp
  /\ collected' = Nothing
  /\ UNCHANGED <<walks, uncollected>>
ExportOk == EndExport("done") /\ received' = collected
ExportFails == EndExport("off") /\ UNCHANGED received

Walk(w) == (\E c \in Collectors : ReadSlot(w, c)) \/ EndWalk(w)
Main ==
  CancelExporters \/ ShutdownEngine \/ CollectorsJoined \/ JoinTimeout \/ ExportersJoined \/ DropRuntime
Sdk == LastCollect \/ (\E n \in Names : ReadInstrument(n)) \/ ExportOk \/ ExportFails

Next ==
  \/ Main \/ Signal \/ Exited
  \/ \E c \in Collectors : CollectorStep(c)
  \/ \E w \in Walkers : BeginWalk(w) \/ Walk(w)
  \/ CancelOtlp \/ CancelMqtt \/ StopServing
  \/ PeriodicCollect \/ Sdk

Spec == Init /\ [][Next]_vars

(***************************************************************************)
(* The main task, the exporters and the SDK are scheduled fairly, and walks *)
(* of the store end; nothing is assumed of the collectors, whose bus may    *)
(* hang.  A select with two ready branches picks at random.  Intervals      *)
(* pass, and a backend that is tried for ever sometimes answers.            *)
(***************************************************************************)
Fairness ==
  /\ WF_vars(Main) /\ WF_vars(StopServing)
  /\ \A w \in Walkers : WF_vars(Walk(w))
  /\ SF_vars(CancelOtlp) /\ SF_vars(CancelMqtt)
  /\ WF_vars(BeginWalk("otlp"))
  /\ WF_vars(PeriodicCollect) /\ WF_vars(Sdk) /\ SF_vars(ExportOk)

FairSpec == Spec /\ Fairness
-------------------------------------------------------------------------------
(***************************************************************************)
(* Properties.                                                              *)
(***************************************************************************)
Slots == [Collectors -> 0 .. MaxPolls]

TypeOK ==
  /\ main \in {"run", "cancel", "shutdown", "join_collectors", "join_exporters", "returned", "exited"}
  /\ cancelled \in BOOLEAN /\ shutdown \in BOOLEAN
  /\ col \in [Collectors -> {"live", "call", "done", "late", "skipped"}]
  /\ store \in Slots /\ at_signal \in Slots
  /\ exp \in [Exporters -> {"on", "last_walk", "flush", "drain", "done", "off"}]
  /\ walking \subseteq Walkers /\ unread \in [Walkers -> SUBSET Collectors]
  /\ snap \in [Walkers -> Slots] /\ view \in [Walkers -> Slots] /\ at_begin \in [Walkers -> Slots]
  /\ sdk \in {"idle", "periodic", "last"} /\ uncollected \subseteq Names /\ offered \subseteq Slots
  /\ collected \in [Metrics -> 0 .. MaxPolls] /\ received \in [Metrics -> 0 .. MaxPolls]

\* What the exporters show is what readers of the store were promised: although a
\* walk takes the slots one by one, without a lock, while collectors publish, it is
\* complete, no older than its begin and no newer than its end.  The OTLP backend
\* gets no such walk as a whole, because callbacks read the shared state one by one
\* while it is replaced; but of each metric it gets what one walk found, of those
\* that were current during the collection.
Feed == INSTANCE StoreFeed WITH busy <- walking, since <- at_begin, shown <- view
ImplementsStoreFeed == Feed!FeedSpec

\* The backend never goes back to an older value of a collector's metric, and no
\* walk begins behind what anybody has been shown.  (Two scrapes that overlap may
\* be answered in either order.)
NothingGoesBack ==
  [][/\ \A m \in Metrics : received'[m] >= received[m]
     /\ \A c \in Collectors :
          /\ \A w \in walking' \ walking : \A x \in Walkers : at_begin'[w][c] >= view[x][c]
          /\ \A w \in walking \ walking' : view'[w][c] >= at_begin[w][c]]_vars

\* Everything that was in the store when the signal came has reached the OTLP
\* backend when the exporter is done, if its last export succeeded.
SignalledIsFlushed ==
  exp["otlp"] = "done" => \A m \in Metrics : received[m] >= at_signal[m[2]]

\* A value a collector has published reaches the OTLP backend, whatever the other
\* collectors and exporters do, unless the daemon is told to stop.
PublishedIsReceived ==
  \A m \in Metrics : \A v \in 1 .. MaxPolls :
    store[m[2]] = v /\ exp["otlp"] # "off" ~> received[m] >= v \/ cancelled

\* run_command returns after a signal, also when a collector hangs on its bus.  The
\* process ends after it unless a blocking call never returns.
ShutdownCompletes ==
  /\ main = "cancel" ~> main \in {"returned", "exited"}
  /\ (\A c \in Collectors : []<>(col[c] # "call")) => (main = "returned" ~> main = "exited")

\* When every collector ended in time and the last export succeeded, run_command
\* returns with the last values flushed (spec/collector.md:127 has it wait for the
\* collectors before it shuts down the exporters, spec/export-otlp.md:35 has the
\* last values flushed).
LastValuesFlushed ==
  /\ main = "returned" /\ exp["otlp"] = "done"
  /\ \A c \in Collectors : col[c] \in {"done", "skipped"}
  => \A m \in Metrics : received[m] = store[m[2]]
===============================================================================
