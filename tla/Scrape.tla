--------------------------------- MODULE Scrape ---------------------------------
(***************************************************************************)
(* A collector task together with a reader of what it publishes and of its  *)
(* counters: a Prometheus scrape (metrics_handler, render_prometheus) or    *)
(* the OTLP exporter's walk (to_metric_values of internal_metrics.rs).      *)
(*                                                                          *)
(* Nothing stops the collector while a reply is put together.  A scrape     *)
(* looks every counter up on its own; to_metric_values loads those of a     *)
(* collector under one guard of the DashMap, which the collector needs for  *)
(* each of its updates.  A reply is abstracted to the samples of the        *)
(* collector's slot and its four counters of cycles and errors; gauges, the *)
(* other counters and the text are left out.  Loads that fall between the   *)
(* errors counted in one read see values between two that are modelled.     *)
(***************************************************************************)
EXTENDS Collector, Sequences

CONSTANT MaxScrapes   \* bound: replies begun

ASSUME ScrapesAssumption == MaxScrapes \in Nat

VARIABLES
  scrapes,   \* replies begun (prometheus_scrapes_total, otlp_exports_total)
  exporter,  \* whose reply is being put together
  at,        \* the field it loads next; 0 = none is, AtEnd = it is complete
  samples,   \* the samples in the reply
  counters   \* the counters in the reply

scrapeVars == <<scrapes, exporter, at, samples, counters>>

CounterNames == {"polls_total", "polls_success", "polls_error", "read_errors"}
NoCounters == [f \in CounterNames |-> 0]

FieldsTotalLast ==                          \* Mutant: in another order.
  <<"samples", "polls_success", "polls_error", "polls_total", "read_errors">>
FieldsSamplesLast ==                        \* Mutant: internal metrics come first.
  <<"polls_total", "polls_success", "polls_error", "read_errors", "samples">>
\* The order in which a reply is put together.
Fields == <<"samples", "polls_total", "polls_success", "polls_error", "read_errors">>
AtEnd == Len(Fields) + 1

Counter(f) ==
  CASE f = "polls_total" -> polls_total
    [] f = "polls_success" -> polls_success
    [] f = "polls_error" -> polls_error
    [] f = "read_errors" -> read_errors

ScrapeInit ==
  /\ Init
  /\ scrapes = 0 /\ exporter = "prometheus" /\ at = 0
  /\ samples = Empty /\ counters = NoCounters

-------------------------------------------------------------------------------
\* A request comes in, or a tick of the OTLP exporter.
BeginReply ==
  /\ at = 0 /\ scrapes < MaxScrapes
  /\ scrapes' = scrapes + 1
  /\ exporter' \in {"prometheus", "otlp"}
  /\ at' = 1
  /\ UNCHANGED <<samples, counters>>

\* The slot of the collector is read, all of it at once.
LoadSamples ==
  /\ at \in 1 .. Len(Fields) /\ Fields[at] = "samples"
  /\ samples' = store
  /\ at' = at + 1
  /\ UNCHANGED <<scrapes, exporter, counters>>

\* render_prometheus: one counter, as it is now.
LoadCounter ==
  /\ exporter = "prometheus"
  /\ at \in 1 .. Len(Fields) /\ Fields[at] # "samples"
  /\ counters' = [counters EXCEPT ![Fields[at]] = Counter(Fields[at])]
  /\ at' = at + 1
  /\ UNCHANGED <<scrapes, exporter, samples>>

\* to_metric_values: all counters of the collector.
LoadCounters ==
  /\ exporter = "otlp"
  /\ at \in 1 .. Len(Fields) /\ Fields[at] = "polls_total"
  /\ counters' = [f \in CounterNames |-> Counter(f)]
  /\ at' = AtEnd
  /\ UNCHANGED <<scrapes, exporter, samples>>

\* The reply is sent, or put into the shared state of the SDK.
Reply ==
  /\ at = AtEnd
  /\ at' = 0
  /\ samples' = Empty /\ counters' = NoCounters
  /\ UNCHANGED <<scrapes, exporter>>

ScrapeStep == BeginReply \/ LoadSamples \/ LoadCounter \/ LoadCounters \/ Reply

ScrapeNext ==
  \/ Next /\ UNCHANGED scrapeVars
  \/ ScrapeStep /\ UNCHANGED vars

ScrapeSpec == ScrapeInit /\ [][ScrapeNext]_<<vars, scrapeVars>>

-------------------------------------------------------------------------------
ScrapeTypeOK ==
  /\ scrapes \in 0 .. MaxScrapes
  /\ exporter \in {"prometheus", "otlp"}
  /\ at \in 0 .. AtEnd
  /\ samples \in [Names -> Nat]
  /\ counters \in [CounterNames -> Nat]

\* No cycle is missing from a reply, although its counters are loaded one after
\* the other while the collector counts: what is not a success and not an error
\* is at most the one cycle that was running.  Loaded under one guard, there is
\* no cycle too many either.
CyclesAccounted ==
  LET ended == counters["polls_success"] + counters["polls_error"]
  IN  at = AtEnd =>
        /\ ended >= counters["polls_total"] - 1
        /\ exporter = "otlp" => ended <= counters["polls_total"]

\* Every sample of a reply was read by a cycle the same reply has counted, and no
\* metric's error counter is ahead of the collector's (device metrics come first:
\* spec/internal-metrics.md:73).
SamplesCounted ==
  NoNameClash /\ at = AtEnd => \A m \in Metrics :
    /\ samples[m] <= counters["polls_total"]
    /\ samples[ErrorName[m]] <= counters["read_errors"]

\* What makes the two inductive.  In the collector: nothing is published that is
\* not counted ...
CountedInv ==
  /\ \A m \in Metrics : error_counts[m] <= read_errors
  /\ NoNameClash => \A m \in Metrics : store[m] <= polls_total

\* ... and in a reply: what a field that is loaded is to those that are not.
ReplyInv ==
  /\ at > 1 /\ NoNameClash => \A m \in Metrics :
       /\ samples[m] <= (IF at > 2 THEN counters["polls_total"] ELSE polls_total)
       /\ samples[ErrorName[m]] <= (IF at = AtEnd THEN counters["read_errors"] ELSE read_errors)
  /\ at > 2 =>
       /\ (IF at > 3 THEN counters["polls_success"] ELSE polls_success)
            + (IF at > 4 THEN counters["polls_error"] ELSE polls_error)
          >= counters["polls_total"] - 1
       /\ exporter = "otlp" =>
            /\ at = AtEnd
            /\ counters["polls_success"] + counters["polls_error"] <= counters["polls_total"]

ScrapeIInv == ScrapeTypeOK /\ CountedInv /\ ReplyInv
===============================================================================
