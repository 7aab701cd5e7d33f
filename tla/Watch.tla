--------------------------------- MODULE Watch ---------------------------------
(***************************************************************************)
(* The pull and watch commands: one pass over the selected collectors       *)
(* (collect_once, src/commands/mod.rs), once (pull.rs), or again and again  *)
(* with a sleep in between until Ctrl-C (watch.rs).                         *)
(*                                                                          *)
(* pc is the await point.  A pass takes the collectors in any order, which  *)
(* includes that of the configuration; one is told from another whatever    *)
(* their names.  A filter is what it selects.  Of the readers only what     *)
(* concerns the token is kept: those of byte buses (I2C, I3C, SPI) look at  *)
(* it before each metric, the Modbus readers never do.                      *)
(***************************************************************************)
EXTENDS Integers, FiniteSets

CONSTANTS
  Collectors,
  Metrics,
  Configs,        \* assignments of [kind, metrics] to collectors
  MaxIterations   \* bound: passes of watch

ASSUME WatchAssumption ==
  /\ IsFiniteSet(Collectors) /\ IsFiniteSet(Metrics)
  /\ Configs \subseteq [Collectors -> [kind : {"modbus", "bytes"}, metrics : SUBSET Metrics]]
  /\ MaxIterations \in Nat

VARIABLES
  command,           \* "pull" or "watch"
  selected,          \* what filter_collectors left: [kind, metrics] of each collector
  pc,
  left,              \* collectors the pass has not come to
  at,                \* the collector it is at
  open,              \* the reader is connected
  unread,            \* metrics of the reader without a result
  good,              \* metrics whose result is a value
  successful,        \* the counters of collect_once
  failed,
  total_metrics,
  iteration,         \* the counters of run_watch
  total_successful,
  total_failed,
  cancelled,         \* Ctrl-C cancelled the token
  exit_code

input == <<command, selected>>
reader == <<at, open, unread, good>>
counts == <<successful, failed, total_metrics>>
totals == <<iteration, total_successful, total_failed>>
vars == <<input, pc, left, reader, counts, totals, cancelled, exit_code>>

\* A collector whose name does not match, or none of whose metrics do, is dropped.
filter_collectors(config, names, metrics) ==
  [c \in {d \in names : config[d].metrics \cap metrics # {}} |->
     [config[c] EXCEPT !.metrics = @ \cap metrics]]

Chosen == DOMAIN selected

Init ==
  /\ command \in {"pull", "watch"}
  /\ \E config \in Configs, names \in SUBSET Collectors, metrics \in SUBSET Metrics :
       selected = filter_collectors(config, names, metrics)
  /\ pc = IF Chosen = {} THEN "exited" ELSE IF command = "pull" THEN "next" ELSE "top"
  /\ exit_code = IF Chosen = {} THEN 1 ELSE 0
  /\ left = Chosen
  /\ at \in Collectors /\ open = FALSE /\ unread = {} /\ good = {}
  /\ successful = 0 /\ failed = 0 /\ total_metrics = 0
  /\ iteration = 0 /\ total_successful = 0 /\ total_failed = 0
  /\ cancelled = FALSE

\* The task that waits for ctrl_c(); pull has none.
Interrupt ==
  /\ command = "watch" /\ ~cancelled /\ pc # "exited"
  /\ cancelled' = TRUE
  /\ UNCHANGED <<input, pc, left, reader, counts, totals, exit_code>>

-------------------------------------------------------------------------------
(***************************************************************************)
(* collect_once.                                                            *)
(***************************************************************************)
\* The metrics of a collector are reported, those of ok with a value and the
\* others with an error.
CountResults(metrics, ok) ==                \* Mutant: counts only what was read.
  /\ successful' = successful + Cardinality(ok)
  /\ failed' = failed + Cardinality(metrics \ (ok \cup unread))
  /\ total_metrics' = total_metrics + Cardinality(metrics)
Count(metrics, ok) ==
  /\ successful' = successful + Cardinality(ok)
  /\ failed' = failed + Cardinality(metrics \ ok)
  /\ total_metrics' = total_metrics + Cardinality(metrics)

\* factory.create fails.
CreateErr(c) ==
  /\ pc = "next" /\ c \in left
  /\ left' = left \ {c}
  /\ Count(selected[c].metrics, {})
  /\ UNCHANGED <<input, pc, reader, totals, cancelled, exit_code>>

Create(c) ==
  /\ pc = "next" /\ c \in left
  /\ left' = left \ {c} /\ at' = c
  /\ pc' = "connect"
  /\ UNCHANGED <<input, open, unread, good, counts, totals, cancelled, exit_code>>

ConnectErr ==
  /\ pc = "connect" /\ pc' = "next"
  /\ Count(selected[at].metrics, {})
  /\ UNCHANGED <<input, left, reader, totals, cancelled, exit_code>>

ConnectOk ==
  /\ pc = "connect" /\ pc' = "read"
  /\ open' = TRUE
  /\ unread' = selected[at].metrics /\ good' = {}
  /\ UNCHANGED <<input, left, at, counts, totals, cancelled, exit_code>>

\* The child token is cancelled with the token of watch.
Stops == selected[at].kind = "bytes" /\ cancelled

StartReadUnchecked ==                       \* Mutant: the token is not looked at.
  /\ pc = "read" /\ pc' = "reading"
  /\ unread # {}
  /\ UNCHANGED <<input, left, reader, counts, totals, cancelled, exit_code>>
StartRead ==
  /\ pc = "read" /\ pc' = "reading"
  /\ unread # {} /\ ~Stops
  /\ UNCHANGED <<input, left, reader, counts, totals, cancelled, exit_code>>

ReadMetric(m) ==
  /\ pc = "reading" /\ pc' = "read"
  /\ m \in unread /\ unread' = unread \ {m}
  /\ good' \in {good, good \cup {m}}
  /\ UNCHANGED <<input, left, at, open, counts, totals, cancelled, exit_code>>

ReadOverRetries ==                          \* Mutant: connects again for the rest.
  /\ pc = "read" /\ pc' = IF unread = {} THEN "disconnect" ELSE "connect"
  /\ unread = {} \/ Stops
  /\ open' = (unread = {})
  /\ UNCHANGED <<input, left, at, unread, good, counts, totals, cancelled, exit_code>>
ReadOver ==
  /\ pc = "read" /\ pc' = "disconnect"
  /\ unread = {} \/ Stops
  /\ UNCHANGED <<input, left, reader, counts, totals, cancelled, exit_code>>

\* reader.disconnect(), whatever its result; a metric not in the results failed.
Disconnect ==
  /\ pc = "disconnect" /\ pc' = "next"
  /\ open' = FALSE
  /\ Count(selected[at].metrics, good)
  /\ unread' = {} /\ good' = {}
  /\ UNCHANGED <<input, left, at, totals, cancelled, exit_code>>

collect_once ==
  \/ \E c \in Collectors : CreateErr(c) \/ Create(c)
  \/ ConnectErr \/ ConnectOk \/ StartRead \/ ReadOver \/ Disconnect
  \/ \E m \in Metrics : ReadMetric(m)

-------------------------------------------------------------------------------
(***************************************************************************)
(* run_pull and run_watch.                                                  *)
(***************************************************************************)
ExitCode(failures) == IF failures > 0 THEN 2 ELSE 0

Pulled ==
  /\ command = "pull" /\ pc = "next" /\ left = {}
  /\ pc' = "exited" /\ exit_code' = ExitCode(failed)
  /\ UNCHANGED <<input, left, reader, counts, totals, cancelled>>

\* The top of the loop of run_watch.
StartPass ==
  /\ command = "watch" /\ pc = "top" /\ iteration < MaxIterations /\ ~cancelled
  /\ pc' = "next" /\ iteration' = iteration + 1
  /\ left' = Chosen
  /\ successful' = 0 /\ failed' = 0 /\ total_metrics' = 0
  /\ UNCHANGED <<input, reader, total_successful, total_failed, cancelled, exit_code>>

\* A line of output, and to sleep.
EndPass ==
  /\ command = "watch" /\ pc = "next" /\ left = {}
  /\ pc' = "sleep"
  /\ total_successful' = total_successful + successful
  /\ total_failed' = total_failed + failed
  /\ UNCHANGED <<input, left, reader, counts, iteration, cancelled, exit_code>>

SleepOver ==
  /\ pc = "sleep" /\ pc' = "top"
  /\ UNCHANGED <<input, left, reader, counts, totals, cancelled, exit_code>>

\* At the top of the loop, or in the select with the sleep: the summary.
Stop ==
  /\ pc \in {"top", "sleep"} /\ cancelled
  /\ pc' = "exited" /\ exit_code' = ExitCode(total_failed)
  /\ UNCHANGED <<input, left, reader, counts, totals, cancelled>>

Exited == pc = "exited" /\ UNCHANGED vars

Task == collect_once \/ Pulled \/ StartPass \/ EndPass \/ SleepOver \/ Stop
Next == Task \/ Interrupt \/ Exited

Spec == Init /\ [][Next]_vars
\* A ready task is scheduled, the calls of a reader return, a sleep ends.
FairSpec == Spec /\ WF_vars(Task)
-------------------------------------------------------------------------------
(***************************************************************************)
(* Properties.                                                              *)
(***************************************************************************)
Selection == [kind : {"modbus", "bytes"}, metrics : SUBSET Metrics]

TypeOK ==
  /\ command \in {"pull", "watch"}
  /\ Chosen \subseteq Collectors /\ selected \in [Chosen -> Selection]
  /\ pc \in {"top", "next", "connect", "read", "reading", "disconnect", "sleep", "exited"}
  /\ left \subseteq Chosen
  /\ at \in Collectors /\ (pc \in {"connect", "read", "reading", "disconnect"} => at \in Chosen)
  /\ open \in BOOLEAN /\ (open <=> pc \in {"read", "reading", "disconnect"})
  /\ unread \subseteq Metrics /\ good \subseteq Metrics
  /\ successful \in Nat /\ failed \in Nat /\ total_metrics \in Nat
  /\ iteration \in 0 .. MaxIterations /\ total_successful \in Nat /\ total_failed \in Nat
  /\ cancelled \in BOOLEAN /\ exit_code \in 0 .. 2

\* The metrics of a set of collectors.
Pairs(C) == {p \in C \X Metrics : p[2] \in selected[p[1]].metrics}
All == Cardinality(Pairs(Chosen))

\* Every report has one line for each selected metric, and each is either a value
\* or a failure: when a collector cannot be created or connected, when a metric
\* fails, and when an interrupt leaves metrics unread.
LinesAddUp ==
  /\ total_metrics = successful + failed
  /\ pc \in {"next", "sleep"} /\ left = {} => total_metrics = All

\* The totals account for every metric of every finished pass, and 0 is returned
\* exactly if all of them got a value.
ReportsAddUp ==
  /\ LinesAddUp
  /\ command = "watch" /\ pc \in {"top", "sleep", "exited"}
       => total_successful + total_failed = iteration * All
  /\ pc = "exited" /\ Chosen # {} =>
       (exit_code = 0 <=> IF command = "pull" THEN successful = All
                          ELSE total_successful = iteration * All)

\* After an interrupt no new pass starts, and no metric is asked for on a byte bus
\* (a Modbus collector is still read to the end).
QuietAfterInterrupt ==
  [][cancelled => /\ iteration' = iteration
                  /\ pc # "reading" /\ pc' = "reading" => selected[at].kind = "modbus"]_vars

\* An interrupt ends watch, wherever it is.
InterruptEnds == cancelled ~> pc = "exited"
===============================================================================
