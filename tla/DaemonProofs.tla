------------------------------ MODULE DaemonProofs ------------------------------
(***************************************************************************)
(* Proofs about Daemon, for every set of collectors and of exporters, any   *)
(* number of publications, of scrapes at the same time and of instruments.  *)
(***************************************************************************)
EXTENDS Daemon, TLAPS

\* A walk lags behind the store; what it has read leads its begin, and its begin
\* leads the view that it will replace.
WalkInv ==
  \A w \in Walkers :
    /\ w \notin walking => unread[w] = {}
    /\ \A c \in Collectors :
         /\ snap[w][c] <= store[c] /\ view[w][c] <= store[c] /\ at_begin[w][c] <= store[c]
         /\ w \in walking => view[w][c] <= at_begin[w][c]
         /\ w \in walking /\ c \notin unread[w] => at_begin[w][c] <= snap[w][c]

\* What was collected for a name, or one of the shared states it may have come from.
From(n, s) == \A m \in Metrics : m[1] = n => collected[m] = s[m[2]]

\* The backend lags behind every shared state there was during the collection, and
\* each callback has returned one of them.
CollectInv ==
  /\ sdk = "idle" => offered = {}
  /\ sdk # "idle" => view["otlp"] \in offered
  /\ \A m \in Metrics :
       /\ received[m] <= view["otlp"][m[2]]
       /\ \A s \in offered : received[m] <= s[m[2]] /\ s[m[2]] <= view["otlp"][m[2]]
  /\ sdk # "idle" => \A n \in Names \ uncollected : \E s \in offered : From(n, s)

\* From the last walk on, which comes after the signal, nothing the store held at
\* the signal is missing.
SignalInv ==
  /\ cancelled => main \notin {"run", "cancel"}
  /\ exp["otlp"] \in {"last_walk", "flush", "done"} => cancelled
  /\ "otlp" \in walking => exp["otlp"] \in {"on", "last_walk"}
  /\ exp["otlp"] = "last_walk" => "otlp" \in walking
  /\ sdk = "last" => exp["otlp"] = "flush"
  /\ \A c \in Collectors :
       /\ at_signal[c] <= store[c]
       /\ exp["otlp"] = "last_walk" => at_signal[c] <= at_begin["otlp"][c]
       /\ exp["otlp"] = "flush" => at_signal[c] <= view["otlp"][c]
       /\ sdk = "last" => \A s \in offered : at_signal[c] <= s[c]
  /\ \A m \in Metrics : exp["otlp"] = "done" => at_signal[m[2]] <= received[m]

IInv == TypeOK /\ WalkInv /\ CollectInv /\ SignalInv

-------------------------------------------------------------------------------
\* The OTLP exporter walks the store itself, and every walk is one of an exporter.
LEMMA WalkerNames ==
  /\ "otlp" \in Walkers /\ Exporter("otlp") = "otlp"
  /\ \A w \in Walkers : Exporter(w) \in Exporters /\ (Exporter(w) = "otlp" => w = "otlp")
  BY DaemonAssumption DEF Walkers, Exporter

\* A metric is one of a name and of a collector.
LEMMA MetricParts == \A m \in Metrics : m[1] \in Names /\ m[2] \in Collectors
  BY DaemonAssumption

\* What is counted are numbers.
LEMMA Numbers ==
  ASSUME TypeOK
  PROVE  /\ \A c \in Collectors : store[c] \in Nat /\ at_signal[c] \in Nat
         /\ \A w \in Walkers : \A c \in Collectors :
              snap[w][c] \in Nat /\ view[w][c] \in Nat /\ at_begin[w][c] \in Nat
         /\ \A m \in Metrics : collected[m] \in Nat /\ received[m] \in Nat
         /\ \A s \in offered : \A c \in Collectors : s[c] \in Nat
  <1> USE DaemonAssumption DEF TypeOK, Slots
  <1>1. \A f \in [Collectors -> 0 .. MaxPolls] : \A c \in Collectors : f[c] \in Nat
    OBVIOUS
  <1>2. \A c \in Collectors : store[c] \in Nat /\ at_signal[c] \in Nat
    BY <1>1
  <1>3. \A w \in Walkers : \A c \in Collectors :
          snap[w][c] \in Nat /\ view[w][c] \in Nat /\ at_begin[w][c] \in Nat
    BY <1>1
  <1>4. \A m \in Metrics : collected[m] \in Nat /\ received[m] \in Nat
    OBVIOUS
  <1>5. \A s \in offered : \A c \in Collectors : s[c] \in Nat
    BY <1>1
  <1> QED BY <1>2, <1>3, <1>4, <1>5

\* When the daemon has started the invariant holds.
LEMMA InitIInv == Init => IInv
  <1> SUFFICES ASSUME Init PROVE IInv
    OBVIOUS
  <1> USE DaemonAssumption, WalkerNames, MetricParts DEF Init
  <1>1. Never \in Slots /\ \A c \in Collectors : Never[c] = 0
    BY DEF Never, Slots
  <1>2. Nothing \in [Metrics -> 0 .. MaxPolls] /\ \A m \in Metrics : Nothing[m] = 0
    BY DEF Nothing
  <1>3. TypeOK
    <2>1. PICK S \in Setups :
            /\ col = [c \in Collectors |-> IF c \in S[1] THEN "live" ELSE "skipped"]
            /\ exp = [e \in Exporters |-> IF e \in S[2] THEN "on" ELSE "off"]
      OBVIOUS
    <2> QED BY <1>1, <1>2, <2>1 DEF TypeOK
  <1>4. exp["otlp"] \in {"on", "off"}
    OBVIOUS
  <1>5. WalkInv
    BY <1>1 DEF WalkInv
  <1>6. CollectInv
    BY <1>1, <1>2 DEF CollectInv
  <1>7. SignalInv
    BY <1>1, <1>4 DEF SignalInv
  <1> QED BY <1>3, <1>5, <1>6, <1>7 DEF IInv

\* The main task changes neither the store nor what exporters have of it.
LEMMA MainStep ==
  ASSUME IInv, Main \/ Signal
  PROVE  IInv'
  <1> USE DEF IInv, Main, Signal, CancelExporters, ShutdownEngine, CollectorsJoined,
          JoinTimeout, ExportersJoined, DropRuntime, engine, exporting, walks, otel
  <1>1. UNCHANGED <<store, exporting>>
    OBVIOUS
  <1>2. TypeOK'
    <2>1. CASE ExportersJoined
      <3>1. PICK B \in SUBSET {c \in Collectors : col[c] = "live"} :
              col' = [c \in Collectors |-> IF c \in B THEN "call" ELSE col[c]]
        BY <2>1
      <3> QED BY <2>1, <3>1 DEF TypeOK
    <2>2. CASE ~ExportersJoined
      BY <2>2 DEF TypeOK
    <2> QED BY <2>1, <2>2
  <1>3. WalkInv' /\ CollectInv'
    BY <1>1 DEF WalkInv, CollectInv, From
  <1>4. SignalInv'
    <2>1. CASE Signal
      <3>1. at_signal' = store /\ exp["otlp"] \notin {"last_walk", "flush", "done"} /\ sdk # "last"
        BY <2>1 DEF SignalInv
      <3> QED BY <1>1, <2>1, <3>1, Numbers DEF SignalInv
    <2>2. CASE ~Signal
      BY <1>1, <2>2 DEF SignalInv
    <2> QED BY <2>1, <2>2
  <1> QED BY <1>2, <1>3, <1>4

\* A collector only adds to its slot.
LEMMA CollectorSteps ==
  ASSUME IInv, NEW d \in Collectors, CollectorStep(d)
  PROVE  IInv'
  <1> USE DaemonAssumption
          DEF IInv, CollectorStep, PublishSlot, EndCollector, LeaveCall, exporting, walks, otel
  <1>1. UNCHANGED <<main, cancelled, exporting, at_signal>>
    OBVIOUS
  <1>2. store' \in Slots /\ \A c \in Collectors : store'[c] \in Nat /\ store[c] <= store'[c]
    <2>1. CASE PublishSlot(d)
      BY <2>1 DEF TypeOK, Slots
    <2>2. CASE UNCHANGED store
      BY <2>2, Numbers DEF TypeOK
    <2> QED BY <2>1, <2>2
  <1>3. TypeOK'
    BY <1>1, <1>2 DEF TypeOK
  <1>4. WalkInv'
    BY <1>1, <1>2, Numbers DEF WalkInv
  <1>5. CollectInv' /\ SignalInv'
    BY <1>1, <1>2, Numbers DEF CollectInv, SignalInv, From
  <1> QED BY <1>3, <1>4, <1>5

-------------------------------------------------------------------------------
\* A walk begins: with the store as it is.
LEMMA StartStep ==
  ASSUME IInv, NEW w \in Walkers, StartWalk(w), OthersUnchanged, UNCHANGED <<otel, offered>>,
         \/ UNCHANGED exp /\ (w = "otlp" => exp["otlp"] = "on")
         \/ w = "otlp" /\ exp' = [exp EXCEPT !["otlp"] = "last_walk"] /\ cancelled /\ exp["otlp"] = "on"
  PROVE  IInv'
  <1> USE WalkerNames, MetricParts, Numbers DEF IInv, StartWalk, OthersUnchanged, engine, otel
  <1>1. TypeOK'
    BY DaemonAssumption DEF TypeOK
  <1>2. WalkInv'
    BY DEF WalkInv, TypeOK
  <1>3. CollectInv'
    BY DEF CollectInv, From
  <1>4. SignalInv'
    <2>1. \A c \in Collectors : at_signal[c] <= store[c]
      BY DEF SignalInv
    <2>2. CASE UNCHANGED exp
      <3>1. w # "otlp" => at_begin'["otlp"] = at_begin["otlp"]
        BY DEF TypeOK
      <3> QED BY <2>2, <3>1 DEF SignalInv
    <2>3. CASE w = "otlp" /\ exp' = [exp EXCEPT !["otlp"] = "last_walk"] /\ cancelled /\ exp["otlp"] = "on"
      <3>1. at_begin'["otlp"] = store /\ exp'["otlp"] = "last_walk"
        BY <2>3, DaemonAssumption DEF TypeOK
      <3>2. sdk # "last"
        BY <2>3 DEF SignalInv
      <3> QED BY <2>1, <2>3, <3>1, <3>2 DEF SignalInv
    <2> QED BY <2>2, <2>3
  <1> QED BY <1>1, <1>2, <1>3, <1>4

\* A walk takes one slot.
LEMMA ReadStep ==
  ASSUME IInv, NEW w \in Walkers, NEW d \in Collectors, ReadSlot(w, d)
  PROVE  IInv'
  <1> USE DEF IInv, ReadSlot, OthersUnchanged, engine, otel
  <1>1. TypeOK'
    BY DEF TypeOK, Slots
  <1>2. w \in walking
    BY DEF WalkInv
  <1>3. \A x \in Walkers : \A c \in Collectors :
          /\ snap'[x][c] = IF x = w /\ c = d THEN store[c] ELSE snap[x][c]
          /\ c \in unread[x] => c \in unread'[x] \/ (x = w /\ c = d)
    BY DEF TypeOK, Slots
  <1>4. \A x \in Walkers : unread'[x] \subseteq unread[x]
    BY DEF TypeOK
  <1>5. WalkInv'
    BY <1>3, <1>4, Numbers DEF WalkInv
  <1>6. CollectInv' /\ SignalInv'
    BY DEF CollectInv, SignalInv, From
  <1> QED BY <1>1, <1>5, <1>6

\* A walk ends: its view moves on, and with it what the OTLP exporter shares.
LEMMA EndStep ==
  ASSUME IInv, NEW w \in Walkers, EndWalk(w)
  PROVE  /\ IInv'
         /\ \A c \in Collectors : at_begin[w][c] <= view'[w][c]
  <1> USE WalkerNames, MetricParts, Numbers
          DEF IInv, EndWalk, CompleteWalk, OthersUnchanged, Offer, engine, otel
  <1>1. Never \in Slots /\ \A c \in Collectors : Never[c] = 0
    BY DaemonAssumption DEF Never, Slots
  <1>2. exp' \in [Exporters -> {"on", "last_walk", "flush", "drain", "done", "off"}]
    BY DEF TypeOK
  <1>3. TypeOK'
    BY <1>1, <1>2 DEF TypeOK
  <1>4. \A x \in Walkers : view'[x] = IF x = w THEN snap[w] ELSE view[x]
    BY DEF TypeOK
  <1>5. \A c \in Collectors :
          at_begin[w][c] <= snap[w][c] /\ view[w][c] <= snap[w][c] /\ snap[w][c] <= store[c]
    BY DEF WalkInv
  <1>6. WalkInv'
    BY <1>1, <1>4, <1>5 DEF WalkInv, TypeOK
  <1>7. \A c \in Collectors : view["otlp"][c] <= view'["otlp"][c]
    BY <1>4, <1>5
  <1>8. \A c \in Collectors : view'["otlp"][c] \in Nat
    BY <1>4
  <1>9. CollectInv'
    <2>1. offered \subseteq offered' /\ (sdk = "idle" => offered' = {})
      BY DEF CollectInv
    <2>2. sdk # "idle" => view'["otlp"] \in offered'
      BY <1>4 DEF CollectInv
    <2>3. \A s \in offered' : s \in offered \/ s = view'["otlp"]
      BY <1>4
    <2>4. \A m \in Metrics : received[m] <= view'["otlp"][m[2]]
      BY <1>7, <1>8 DEF CollectInv
    <2>5. \A m \in Metrics : \A s \in offered' :
            received[m] <= s[m[2]] /\ s[m[2]] <= view'["otlp"][m[2]]
      BY <1>7, <1>8, <2>3, <2>4 DEF CollectInv
    <2>6. sdk # "idle" => \A n \in Names \ uncollected : \E s \in offered' : From(n, s)
      BY <2>1 DEF CollectInv
    <2> QED BY <2>1, <2>2, <2>4, <2>5, <2>6 DEF CollectInv, From
  <1>10. SignalInv'
    <2>1. CASE w = "otlp"
      <3>1. exp["otlp"] \in {"on", "last_walk"} /\ sdk # "last"
        BY <2>1 DEF SignalInv
      <3>2. exp'["otlp"] = IF exp["otlp"] = "last_walk" THEN "flush" ELSE exp["otlp"]
        BY <2>1 DEF TypeOK
      <3>3. exp["otlp"] = "last_walk" => \A c \in Collectors : at_signal[c] <= view'["otlp"][c]
        BY <1>4, <1>5, <2>1 DEF SignalInv
      <3> QED BY <2>1, <3>1, <3>2, <3>3 DEF SignalInv
    <2>2. CASE w # "otlp"
      <3>1. exp'["otlp"] = exp["otlp"] /\ at_begin'["otlp"] = at_begin["otlp"] /\ view'["otlp"] = view["otlp"]
        BY <2>2 DEF TypeOK
      <3> QED BY <2>2, <3>1 DEF SignalInv
    <2> QED BY <2>1, <2>2
  <1> QED BY <1>3, <1>4, <1>5, <1>6, <1>9, <1>10

\* The token stops an exporter, or sends it on its last walk.
LEMMA CancelStep ==
  ASSUME IInv, CancelOtlp \/ CancelMqtt \/ StopServing
  PROVE  IInv'
  <1>1. CASE CancelOtlp
    BY <1>1, StartStep, WalkerNames DEF CancelOtlp, OthersUnchanged
  <1>2. CASE CancelMqtt \/ StopServing
    <2> USE <1>2, DaemonAssumption
            DEF IInv, CancelMqtt, StopServing, OthersUnchanged, engine, walks, otel
    <2>1. TypeOK'
      BY DEF TypeOK
    <2>2. exp'["otlp"] = exp["otlp"]
      BY DEF TypeOK
    <2>3. WalkInv' /\ CollectInv' /\ SignalInv'
      BY <2>2 DEF WalkInv, CollectInv, SignalInv, From
    <2> QED BY <2>1, <2>3
  <1> QED BY <1>1, <1>2

-------------------------------------------------------------------------------
\* A collection begins.
LEMMA CollectStep ==
  ASSUME IInv, PeriodicCollect \/ LastCollect
  PROVE  IInv'
  <1> USE WalkerNames, MetricParts, Numbers
          DEF IInv, PeriodicCollect, LastCollect, Collect, OthersUnchanged, engine, walks
  <1>1. TypeOK'
    BY DEF TypeOK
  <1>2. WalkInv'
    BY DEF WalkInv
  <1>3. CollectInv'
    BY DEF CollectInv
  <1>4. SignalInv'
    BY DEF SignalInv
  <1> QED BY <1>1, <1>2, <1>3, <1>4

\* A callback returns what is shared at that moment.
LEMMA CallbackStep ==
  ASSUME IInv, NEW n \in Names, ReadInstrument(n)
  PROVE  IInv'
  <1> USE WalkerNames, MetricParts
          DEF IInv, ReadInstrument, OthersUnchanged, engine, walks
  <1>1. TypeOK'
    <2>1. \A m \in Metrics : view["otlp"][m[2]] \in 0 .. MaxPolls
      BY DEF TypeOK, Slots
    <2> QED BY <2>1 DEF TypeOK
  <1>2. WalkInv' /\ SignalInv'
    BY DEF WalkInv, SignalInv
  <1>3. CollectInv'
    <2>1. \A m \in Metrics :
            collected'[m] = IF m[1] = n THEN view["otlp"][m[2]] ELSE collected[m]
      OBVIOUS
    <2>2. ASSUME sdk # "idle", NEW k \in Names \ uncollected'
          PROVE  \E s \in offered : From(k, s)'
      <3>1. CASE k = n
        <4>1. view["otlp"] \in offered /\ From(n, view["otlp"])'
          BY <2>1, <2>2 DEF CollectInv, From
        <4> QED BY <3>1, <4>1
      <3>2. CASE k # n
        <4>1. k \in Names \ uncollected
          BY <3>2
        <4>2. PICK s \in offered : From(k, s)
          BY <2>2, <4>1 DEF CollectInv
        <4>3. From(k, s)'
          BY <2>1, <3>2, <4>2 DEF From
        <4> QED BY <4>3
      <3> QED BY <3>1, <3>2
    <2> QED BY <2>2 DEF CollectInv
  <1> QED BY <1>1, <1>2, <1>3

\* The collection is over: every metric has been taken from one of the shared
\* states there were during it.
LEMMA AllCollected ==
  ASSUME IInv, sdk # "idle", uncollected = {}, NEW m \in Metrics
  PROVE  \E s \in offered : collected[m] = s[m[2]]
  <1>1. m[1] \in Names \ uncollected
    BY MetricParts
  <1>2. PICK s \in offered : From(m[1], s)
    BY <1>1 DEF IInv, CollectInv
  <1> QED BY <1>2 DEF From

\* It is exported, or not.
LEMMA ExportStep ==
  ASSUME IInv, ExportOk \/ ExportFails
  PROVE  /\ IInv'
         /\ \A m \in Metrics : received[m] <= received'[m]
  <1> USE WalkerNames, MetricParts, Numbers
          DEF IInv, ExportOk, ExportFails, EndExport, OthersUnchanged, engine, walks
  <1>1. TypeOK'
    <2>1. Nothing \in [Metrics -> 0 .. MaxPolls]
      BY DaemonAssumption DEF Nothing
    <2> QED BY <2>1 DEF TypeOK
  <1>2. WalkInv'
    BY DEF WalkInv
  <1>3. \A m \in Metrics : received[m] <= collected[m] /\ collected[m] <= view["otlp"][m[2]]
    BY AllCollected DEF CollectInv
  <1>4. \A m \in Metrics : received[m] <= received'[m] /\ received'[m] <= view["otlp"][m[2]]
    BY <1>3 DEF CollectInv
  <1>5. CollectInv'
    BY <1>4 DEF CollectInv
  <1>6. SignalInv'
    <2>1. CASE sdk = "last"
      <3>1. \A m \in Metrics : at_signal[m[2]] <= collected[m]
        BY <2>1, AllCollected DEF SignalInv
      <3>2. exp["otlp"] = "flush" /\ exp'["otlp"] \in {"done", "off"} /\ "otlp" \notin walking
        BY <2>1 DEF SignalInv, TypeOK
      <3>3. exp'["otlp"] = "done" => received' = collected
        BY <2>1 DEF SignalInv, TypeOK
      <3> QED BY <3>1, <3>2, <3>3 DEF SignalInv
    <2>2. CASE sdk # "last"
      <3>1. \A m \in Metrics : exp["otlp"] = "done" => at_signal[m[2]] <= received'[m]
        <4>1. \A m \in Metrics : received'[m] \in Nat
          OBVIOUS
        <4> QED BY <1>4, <4>1 DEF SignalInv
      <3> QED BY <2>2, <3>1 DEF SignalInv
    <2> QED BY <2>1, <2>2
  <1> QED BY <1>1, <1>2, <1>4, <1>5, <1>6

\* Every step of the daemon preserves the invariant.
LEMMA NextIInv ==
  ASSUME IInv, [Next]_vars
  PROVE  IInv'
  <1>1. CASE UNCHANGED vars
    BY <1>1 DEF IInv, vars, engine, exporting, walks, otel, TypeOK, WalkInv, CollectInv, SignalInv, From
  <1>2. CASE Main \/ Signal
    BY <1>2, MainStep
  <1>3. CASE \E c \in Collectors : CollectorStep(c)
    BY <1>3, CollectorSteps
  <1>4. ASSUME NEW w \in Walkers, BeginWalk(w)
        PROVE  IInv'
    <2>1. w = "otlp" => exp["otlp"] = "on"
      BY <1>4, WalkerNames DEF BeginWalk
    <2> QED BY <1>4, <2>1, StartStep DEF BeginWalk
  <1>5. ASSUME NEW w \in Walkers, Walk(w)
        PROVE  IInv'
    BY <1>5, ReadStep, EndStep DEF Walk
  <1>6. CASE CancelOtlp \/ CancelMqtt \/ StopServing
    BY <1>6, CancelStep
  <1>7. CASE PeriodicCollect \/ Sdk
    BY <1>7, CollectStep, CallbackStep, ExportStep DEF Sdk
  <1> QED BY <1>1, <1>2, <1>3, <1>4, <1>5, <1>6, <1>7 DEF Next, Exited

\* Types, walks, collections and the signal's snapshot: the invariant that the other
\* theorems follow from (run_command, the loop of otlp::run, all_metrics_flat).
THEOREM InductiveInvariant == Spec => []IInv
  BY InitIInv, NextIInv, PTL DEF Spec

\* Every reachable state is well typed.
THEOREM TypeCorrect == Spec => []TypeOK
  BY InductiveInvariant, PTL DEF IInv

\* What was in the store at the signal is with the backend when the exporter is
\* done, whatever was published and exported in between.
THEOREM FlushesSignalled == Spec => []SignalledIsFlushed
  <1>1. IInv => SignalledIsFlushed
    BY MetricParts, Numbers DEF IInv, SignalInv, SignalledIsFlushed
  <1> QED BY <1>1, InductiveInvariant, PTL

\* Neither the OTLP backend goes back to an older value of a metric, nor does a walk
\* begin behind what was shown before, to whoever it was, or end behind its begin.
THEOREM NeverBackwards == Spec => NothingGoesBack
  <1> DEFINE Forward ==
        /\ \A m \in Metrics : received'[m] >= received[m]
        /\ \A c \in Collectors :
             /\ \A w \in walking' \ walking : \A x \in Walkers : at_begin'[w][c] >= view[x][c]
             /\ \A w \in walking \ walking' : view'[w][c] >= at_begin[w][c]
  <1>1. IInv /\ [Next]_vars => [Forward]_vars
    <2> SUFFICES ASSUME IInv, Next PROVE Forward
      OBVIOUS
    <2> USE Numbers DEF IInv
    <2>1. ASSUME NEW w \in Walkers, StartWalk(w), UNCHANGED <<store, received>>
          PROVE  Forward
      <3>1. walking' \ walking = {w} /\ walking \ walking' = {} /\ at_begin'[w] = store
        BY <2>1 DEF StartWalk, TypeOK
      <3>2. \A x \in Walkers : \A c \in Collectors : view[x][c] <= store[c]
        BY DEF WalkInv
      <3> QED BY <2>1, <3>1, <3>2
    <2>2. ASSUME NEW w \in Walkers, EndWalk(w)
          PROVE  Forward
      <3>1. walking' \ walking = {} /\ walking \ walking' = {w} /\ UNCHANGED received
        BY <2>2 DEF EndWalk, CompleteWalk, otel
      <3>2. \A c \in Collectors : at_begin[w][c] <= view'[w][c] /\ view'[w][c] \in Nat
        <4>1. view'[w] = snap[w]
          BY <2>2 DEF EndWalk, TypeOK
        <4> QED BY <2>2, <4>1, EndStep
      <3> QED BY <3>1, <3>2
    <2>3. CASE ExportOk \/ ExportFails
      <3>1. UNCHANGED walking
        BY <2>3 DEF ExportOk, ExportFails, EndExport, walks
      <3>2. \A m \in Metrics : received[m] <= received'[m] /\ received'[m] \in Nat
        BY <2>3, ExportStep DEF ExportOk, ExportFails
      <3> QED BY <3>1, <3>2
    <2>4. CASE UNCHANGED <<received, walking>>
      BY <2>4
    <2>5. CASE CancelOtlp \/ \E w \in Walkers : BeginWalk(w)
      BY <2>1, <2>5, WalkerNames DEF CancelOtlp, BeginWalk, OthersUnchanged, engine, otel
    <2>6. Main \/ Signal \/ Exited \/ (\E c \in Collectors : CollectorStep(c)) => UNCHANGED <<received, walking>>
      BY DEF Main, Signal, Exited, CancelExporters, ShutdownEngine, CollectorsJoined, JoinTimeout,
             ExportersJoined, DropRuntime, CollectorStep, PublishSlot, EndCollector, LeaveCall,
             vars, exporting, walks, otel
    <2>7. CancelMqtt \/ StopServing \/ PeriodicCollect \/ LastCollect \/ (\E n \in Names : ReadInstrument(n))
            \/ (\E w \in Walkers : \E c \in Collectors : ReadSlot(w, c)) => UNCHANGED <<received, walking>>
      BY DEF CancelMqtt, StopServing, PeriodicCollect, LastCollect, Collect, ReadInstrument, ReadSlot, walks, otel
    <2> QED BY <2>2, <2>3, <2>4, <2>5, <2>6, <2>7 DEF Next, Walk, Sdk
  <1> QED BY <1>1, InductiveInvariant, PTL DEF Spec, NothingGoesBack

-------------------------------------------------------------------------------
(***************************************************************************)
(* The daemon implements StoreFeed.                                         *)
(***************************************************************************)
\* What StoreFeed tells changes only when a slot is published, a walk begins or
\* ends, and a collection begins or ends.
LEMMA OthersStutter ==
  \/ Main \/ Signal \/ Exited \/ CancelMqtt \/ StopServing \/ UNCHANGED vars
  \/ \E c \in Collectors : EndCollector(c) \/ LeaveCall(c)
  \/ \E w \in Walkers : \E c \in Collectors : ReadSlot(w, c)
  \/ \E n \in Names : ReadInstrument(n)
  => UNCHANGED Feed!feedVars
  BY DEF Main, Signal, Exited, CancelExporters, ShutdownEngine, CollectorsJoined, JoinTimeout,
         ExportersJoined, DropRuntime, EndCollector, LeaveCall, ReadSlot, ReadInstrument,
         CancelMqtt, StopServing, OthersUnchanged, vars, engine, exporting, walks, otel, Feed!feedVars

\* A collector that completes a cycle publishes.
LEMMA SlotIsPublished ==
  ASSUME NEW c \in Collectors, PublishSlot(c)
  PROVE  Feed!PublishOne(c)
  BY DEF PublishSlot, Feed!PublishOne, exporting, walks, otel

\* A walk, the last one of the OTLP exporter too, begins an export ...
LEMMA WalkBegins ==
  ASSUME NEW w \in Walkers, BeginWalk(w) \/ (w = "otlp" /\ CancelOtlp)
  PROVE  Feed!BeginExport(w)
  BY DEF BeginWalk, CancelOtlp, StartWalk, OthersUnchanged, engine, otel, Feed!BeginExport

\* ... and shows what each slot held at some moment meanwhile.
LEMMA WalkShows ==
  ASSUME IInv, NEW w \in Walkers, EndWalk(w)
  PROVE  Feed!Show(w)
  <1> USE DEF EndWalk, CompleteWalk, OthersUnchanged, engine, otel
  <1>1. view'[w] = snap[w] /\ \A x \in Walkers \ {w} : view'[x] = view[x]
    BY DEF IInv, TypeOK
  <1>2. view' \in [Walkers -> [Collectors -> Nat]]
    <2>1. \A s \in Slots : s \in [Collectors -> Nat]
      BY DaemonAssumption DEF Slots
    <2> QED BY <2>1 DEF IInv, TypeOK
  <1>3. \A c \in Collectors : at_begin[w][c] <= view'[w][c] /\ view'[w][c] <= store[c]
    BY <1>1 DEF IInv, WalkInv
  <1>4. at_begin' = [at_begin EXCEPT ![w] = Feed!Nothing]
    BY DEF Never, Feed!Nothing
  <1>5. offered' = IF w = "otlp" /\ offered # {} THEN offered \cup {view'[w]} ELSE offered
    BY <1>1 DEF Offer
  <1> QED BY <1>1, <1>2, <1>3, <1>4, <1>5 DEF Feed!Show

\* A collection begins with what is shared.
LEMMA CollectionBegins ==
  ASSUME IInv, PeriodicCollect \/ LastCollect
  PROVE  Feed!BeginCollection
  BY DEF PeriodicCollect, LastCollect, Collect, OthersUnchanged, engine, walks, IInv, CollectInv,
         Feed!BeginCollection

\* It ends with one of the shared states for each name, or with nothing.
LEMMA CollectionEnds ==
  ASSUME IInv, ExportOk \/ ExportFails
  PROVE  Feed!EndCollection
  <1> USE DEF ExportOk, ExportFails, EndExport, OthersUnchanged, engine, walks
  <1>1. /\ UNCHANGED <<store, walking, at_begin, view>>
        /\ offered # {} /\ offered' = {}
    BY DEF IInv, CollectInv
  <1>2. CASE UNCHANGED received
    BY <1>1, <1>2 DEF Feed!EndCollection
  <1>3. CASE received' = collected
    <2> DEFINE of == [n \in Names |-> CHOOSE s \in offered : From(n, s)]
    <2>1. \A n \in Names : of[n] \in offered /\ From(n, of[n])
      BY DEF IInv, CollectInv
    <2>2. of \in [Names -> offered]
      BY <2>1
    <2>3. \A m \in Metrics : collected[m] = of[m[1]][m[2]]
      BY <2>1, MetricParts DEF From
    <2>4. collected = [m \in Metrics |-> of[m[1]][m[2]]]
      <3> HIDE DEF of
      <3> QED BY <2>3 DEF IInv, TypeOK
    <2>5. received' = [m \in Metrics |-> of[m[1]][m[2]]]
      BY <1>3, <2>4
    <2> HIDE DEF of
    <2> QED BY <1>1, <2>2, <2>5 DEF Feed!EndCollection
  <1> QED BY <1>2, <1>3

\* What an exporter shows is a regular snapshot of the store: complete, no older
\* than the moment its walk began and no newer than the moment it ended, however
\* many scrapes overlap.  What the OTLP backend receives of each name comes from one
\* of those that were current during the collection (all_metrics_flat, otlp::run,
\* register_observable, metrics_handler).
THEOREM Refinement == Spec => ImplementsStoreFeed
  <1>1. Init => Feed!FeedInit
    BY DEF Init, Feed!FeedInit, Feed!Nothing, Never, Nothing
  <1>2. IInv /\ [Next]_vars => [Feed!FeedNext]_(Feed!feedVars)
    <2> SUFFICES ASSUME IInv, [Next]_vars PROVE [Feed!FeedNext]_(Feed!feedVars)
      OBVIOUS
    <2>1. CASE \E w \in Walkers : BeginWalk(w) \/ EndWalk(w)
      BY <2>1, WalkBegins, WalkShows DEF Feed!FeedNext
    <2>2. CASE CancelOtlp
      BY <2>2, WalkBegins, WalkerNames DEF Feed!FeedNext
    <2>3. CASE \E c \in Collectors : PublishSlot(c)
      BY <2>3, SlotIsPublished DEF Feed!FeedNext
    <2>4. CASE PeriodicCollect \/ LastCollect \/ ExportOk \/ ExportFails
      BY <2>4, CollectionBegins, CollectionEnds DEF Feed!FeedNext
    <2> QED BY <2>1, <2>2, <2>3, <2>4, OthersStutter DEF Next, CollectorStep, Walk, Sdk
  <1> QED BY <1>1, <1>2, InductiveInvariant, PTL DEF Spec, ImplementsStoreFeed, Feed!FeedSpec
===============================================================================
