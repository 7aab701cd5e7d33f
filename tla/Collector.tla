------------------------------- MODULE Collector -------------------------------
(***************************************************************************)
(* One collector task of the daemon: run_collector and                      *)
(* reconnect_with_init_writes (src/collector.rs), against any MetricReader  *)
(* and MetricWriter.                                                        *)
(*                                                                          *)
(* pc names the await point the task is suspended at, so every action is    *)
(* the code from one await to the next; the only other actors are the       *)
(* engine, which raises the shutdown flag, and the bus, which may lose the  *)
(* connection at any moment.  A metric value is abstracted to the number    *)
(* of the poll cycle that read it, 0 standing for "no entry".               *)
(***************************************************************************)
EXTENDS Integers, FiniteSets

CONSTANTS
  Metrics,      \* names of the metrics configured for the collector
  ErrorName,    \* ErrorName[m] is format!("{}_errors", m)
  MaxBackoff,   \* MAX_BACKOFF in units of INITIAL_BACKOFF (60 in the code)
  LossNoticed,  \* whether is_connected() can turn false after a failed read
  MaxPolls      \* bound: poll cycles begun before shutdown is requested

ASSUME MetricsAssumption ==
  /\ IsFiniteSet(Metrics)
  /\ DOMAIN ErrorName = Metrics
  /\ \A m, n \in Metrics : ErrorName[m] = ErrorName[n] => m = n
ASSUME BoundsAssumption ==
  /\ MaxBackoff \in Nat \ {0}
  /\ MaxPolls \in Nat
  /\ LossNoticed \subseteq BOOLEAN /\ LossNoticed # {}

VARIABLES
  pc,                 \* the await point of the task
  writes,             \* the WriteStep lists that are configured: "init", "pre_poll"
  shutdown,           \* the watch channel of the engine
  cancel,             \* the CancellationToken handed to read()
  handle,             \* what is_connected() of the reader returns
  peer,               \* the connection behind the handle is alive
  configured,         \* init_writes were executed since the last connect
  backoff,            \* in units of INITIAL_BACKOFF
  pre_poll_failures,  \* consecutive pre_poll failures
  local_cache,        \* values read by the open cycle
  prev_cache,         \* values of the last completed cycle
  error_counts,       \* failed reads per metric
  store,              \* the collector's slot of the MetricStore
  polls_total, polls_success, polls_error, read_errors   \* InternalMetrics

link == <<handle, peer, configured>>
caches == <<local_cache, prev_cache, error_counts, store>>
stats == <<polls_total, polls_success, polls_error, read_errors>>
vars == <<pc, writes, shutdown, cancel, link, backoff, pre_poll_failures,
          caches, stats>>

Counters == {ErrorName[m] : m \in Metrics}
Names == Metrics \cup Counters
Empty == [n \in Names |-> 0]
INITIAL_BACKOFF == 1
PrePollLimit == 3

Connecting == {"connect", "init", "init_wait", "init_wait_down"}
Polling == {"poll", "pre_poll", "read", "publish", "sleep"}
Reconnecting == {"drop", "backoff", "reconnect", "reinit"}

Init ==
  /\ pc = "connect"
  /\ writes \in SUBSET {"init", "pre_poll"}
  /\ shutdown = FALSE /\ cancel = FALSE
  /\ handle = FALSE /\ peer = FALSE /\ configured = FALSE
  /\ backoff = INITIAL_BACKOFF
  /\ pre_poll_failures = 0
  /\ local_cache = Empty /\ prev_cache = Empty /\ store = Empty
  /\ error_counts = [m \in Metrics |-> 0]
  /\ polls_total = 0 /\ polls_success = 0 /\ polls_error = 0 /\ read_errors = 0

-------------------------------------------------------------------------------
(***************************************************************************)
(* Pieces shared by several actions.                                        *)
(***************************************************************************)
NextBackoffUncapped(b) == 2 * b             \* Mutant: the doubled delay is not capped.
NextBackoff(b) == IF 2 * b < MaxBackoff THEN 2 * b ELSE MaxBackoff

\* Values of the metrics the cycle read, everything else absent.
Fresh(failed) ==
  [n \in Names |-> IF n \in Metrics \ failed THEN polls_total ELSE 0]

\* or_insert_with of the previous cycle's entries into the new cache.
CarryForwardNothing(local, prev) == local   \* Mutant: the merge is forgotten.
CarryForwardStale(local, prev) ==           \* Mutant: old entries win the merge.
  [n \in Names |-> IF prev[n] # 0 THEN prev[n] ELSE local[n]]
CarryForward(local, prev) ==
  [n \in Names |-> IF local[n] # 0 THEN local[n] ELSE prev[n]]

\* The "<metric>_errors" entries: inserted, and overwritten when present.
PutErrorCountsOnce(cache) ==                \* Mutant: only inserted when absent.
  [n \in Names |-> IF \E m \in Metrics : ErrorName[m] = n /\ error_counts[m] > 0 /\ cache[n] = 0
                   THEN error_counts[CHOOSE m \in Metrics : ErrorName[m] = n]
                   ELSE cache[n]]
PutErrorCounts(cache) ==
  [n \in Names |-> IF \E m \in Metrics : ErrorName[m] = n /\ error_counts[m] > 0
                   THEN error_counts[CHOOSE m \in Metrics : ErrorName[m] = n]
                   ELSE cache[n]]

\* cancel.cancel(); client.disconnect(); return
ExitConnected ==                            \* Mutant: return without disconnect.
  /\ pc' = "done"
  /\ cancel' = TRUE
  /\ UNCHANGED <<handle, peer>>
Exit ==
  /\ pc' = "done"
  /\ cancel' = TRUE
  /\ handle' = FALSE /\ peer' = FALSE

\* stats.polls_error / stats.polls_success of the cycle that ends here.
CountErrorForgotten == UNCHANGED <<polls_error, polls_success>>   \* Mutant.
CountError == polls_error' = polls_error + 1 /\ UNCHANGED polls_success
CountSuccess == polls_success' = polls_success + 1 /\ UNCHANGED polls_error

-------------------------------------------------------------------------------
(***************************************************************************)
(* The environment: CollectorEngine::shutdown sends true on the watch       *)
(* channel, and the connection of the reader may die at any moment.         *)
(***************************************************************************)
RequestShutdown ==
  /\ ~shutdown
  /\ shutdown' = TRUE
  /\ UNCHANGED <<pc, writes, cancel, link, backoff, pre_poll_failures, caches, stats>>

LoseConnection ==
  /\ peer
  /\ peer' = FALSE
  /\ UNCHANGED <<pc, writes, shutdown, cancel, handle, configured, backoff,
                 pre_poll_failures, caches, stats>>

-------------------------------------------------------------------------------
(***************************************************************************)
(* The initial connect loop.                                                *)
(***************************************************************************)
ConnectOk ==
  /\ pc = "connect"
  /\ handle' = TRUE /\ peer' = TRUE /\ configured' = FALSE
  /\ backoff' = INITIAL_BACKOFF
  /\ pc' = IF "init" \in writes THEN "init" ELSE "poll"
  /\ UNCHANGED <<writes, shutdown, cancel, pre_poll_failures, caches, stats>>

ConnectErr ==
  /\ pc = "connect"
  /\ pc' = "init_wait"
  /\ UNCHANGED <<writes, shutdown, cancel, link, backoff, pre_poll_failures, caches, stats>>

InitWritesOk ==
  /\ pc = "init"
  /\ configured' = TRUE
  /\ pc' = "poll"
  /\ UNCHANGED <<writes, shutdown, cancel, handle, peer, backoff, pre_poll_failures,
                 caches, stats>>

\* init_writes failed: disconnect, then back off with the connection closed.
InitWritesErr ==
  /\ pc = "init"
  /\ handle' = FALSE /\ peer' = FALSE
  /\ pc' = "init_wait_down"
  /\ UNCHANGED <<writes, shutdown, cancel, configured, backoff, pre_poll_failures,
                 caches, stats>>

\* The sleep(backoff) branch of either select.
InitWaitOver ==
  /\ pc \in {"init_wait", "init_wait_down"}
  /\ backoff' = NextBackoff(backoff)
  /\ pc' = "connect"
  /\ UNCHANGED <<writes, shutdown, cancel, link, pre_poll_failures, caches, stats>>

\* The shutdown_rx.changed() branch; after failed init_writes it does not
\* disconnect again.
InitWaitExit ==
  /\ shutdown
  /\ \/ pc = "init_wait" /\ Exit
     \/ pc = "init_wait_down" /\ pc' = "done" /\ cancel' = TRUE /\ UNCHANGED <<handle, peer>>
  /\ UNCHANGED <<writes, shutdown, configured, backoff, pre_poll_failures,
                 caches, stats>>

-------------------------------------------------------------------------------
(***************************************************************************)
(* The poll loop.                                                           *)
(***************************************************************************)
\* Top of the loop: count the cycle, then look at the shutdown flag.  MaxPolls
\* bounds the cycles begun while nobody asks for shutdown.
StartPoll ==
  /\ pc = "poll"
  /\ polls_total < MaxPolls \/ shutdown
  /\ polls_total' = polls_total + 1
  /\ IF shutdown
     THEN Exit
     ELSE /\ pc' = IF "pre_poll" \in writes THEN "pre_poll" ELSE "read"
          /\ UNCHANGED <<cancel, handle, peer>>
  /\ UNCHANGED <<writes, shutdown, configured, backoff, pre_poll_failures, caches,
                 polls_success, polls_error, read_errors>>

PrePollOkKeepsCount ==                      \* Mutant: a success does not reset the count.
  /\ pc = "pre_poll"
  /\ pc' = "read"
  /\ UNCHANGED <<writes, shutdown, cancel, link, backoff, pre_poll_failures, caches, stats>>
PrePollOk ==
  /\ pc = "pre_poll"
  /\ pre_poll_failures' = 0
  /\ pc' = "read"
  /\ UNCHANGED <<writes, shutdown, cancel, link, backoff, caches, stats>>

\* The cycle is skipped; the third failure in a row forces a reconnect.  A
\* skipped cycle sleeps unless it has already used up its interval.
PrePollErr ==
  /\ pc = "pre_poll"
  /\ pre_poll_failures' = pre_poll_failures + 1
  /\ CountError
  /\ pc' \in IF pre_poll_failures + 1 >= PrePollLimit THEN {"drop"} ELSE {"sleep", "poll"}
  /\ UNCHANGED <<writes, shutdown, cancel, link, backoff, caches,
                 polls_total, read_errors>>

\* read() returns: every configured metric has a result.  On a dead connection
\* at least one read fails, and the reader may or may not notice.
ReadOutcome(failed) ==
  /\ pc = "read"
  /\ failed \in SUBSET Metrics
  /\ peer \/ failed # {} \/ Metrics = {}
  /\ \E noticed \in LossNoticed :
       handle' = (handle /\ (peer \/ failed = {} \/ ~noticed))

\* A result is an error and is_connected() is false.
LostDuring(failed) == failed # {} /\ ~handle'

\* The cycle is aborted at the first error: whatever was read so far is
\* dropped, no error counter is touched and nothing is published.
ReadLost ==
  /\ \E failed \in SUBSET Metrics : ReadOutcome(failed) /\ LostDuring(failed)
  /\ read_errors' = read_errors + 1
  /\ CountError
  /\ pc' = "drop"
  /\ UNCHANGED <<writes, shutdown, cancel, peer, configured, backoff, pre_poll_failures,
                 caches, polls_total>>

\* Otherwise the cycle completes: successes go to local_cache, failures are
\* counted, the backoff is reset and the cycle is accounted for.
ReadDone ==
  /\ \E failed \in SUBSET Metrics :
       /\ ReadOutcome(failed)
       /\ ~LostDuring(failed)
       /\ local_cache' = Fresh(failed)
       /\ error_counts' = [m \in Metrics |-> IF m \in failed THEN error_counts[m] + 1
                                             ELSE error_counts[m]]
       /\ read_errors' = read_errors + Cardinality(failed)
       /\ IF failed = {} THEN CountSuccess ELSE CountError
  /\ backoff' = INITIAL_BACKOFF
  /\ pc' = "publish"
  /\ UNCHANGED <<writes, shutdown, cancel, peer, configured, pre_poll_failures,
                 prev_cache, store, polls_total>>

\* Merge with the previous cycle, add the error counters, replace the slot in
\* the store, and sleep for the rest of the interval.  A cycle that overran its
\* interval looks at the shutdown flag instead.
Publish ==
  /\ pc = "publish"
  /\ store' = PutErrorCounts(CarryForward(local_cache, prev_cache))
  /\ prev_cache' = store'
  /\ local_cache' = Empty
  /\ \/ pc' = "sleep" /\ UNCHANGED <<cancel, handle, peer>>
     \/ shutdown /\ Exit
     \/ ~shutdown /\ pc' = "poll" /\ UNCHANGED <<cancel, handle, peer>>
  /\ UNCHANGED <<writes, shutdown, configured, backoff, pre_poll_failures,
                 error_counts, stats>>

\* The two branches of the select around the sleep until the next cycle.
SleepOver ==
  /\ pc = "sleep"
  /\ pc' = "poll"
  /\ UNCHANGED <<writes, shutdown, cancel, link, backoff, pre_poll_failures, caches, stats>>

SleepExit ==
  /\ pc = "sleep"
  /\ shutdown
  /\ Exit
  /\ UNCHANGED <<writes, shutdown, configured, backoff, pre_poll_failures,
                 caches, stats>>

-------------------------------------------------------------------------------
(***************************************************************************)
(* reconnect_with_init_writes.                                              *)
(***************************************************************************)
DropAtOnce ==                               \* Mutant: retry without the select.
  /\ pc = "drop"
  /\ handle' = FALSE /\ peer' = FALSE
  /\ pc' = "reconnect"
  /\ UNCHANGED <<writes, shutdown, cancel, configured, backoff, pre_poll_failures,
                 caches, stats>>
Drop ==
  /\ pc = "drop"
  /\ handle' = FALSE /\ peer' = FALSE
  /\ pc' = "backoff"
  /\ UNCHANGED <<writes, shutdown, cancel, configured, backoff, pre_poll_failures,
                 caches, stats>>

BackoffOver ==
  /\ pc = "backoff"
  /\ backoff' = NextBackoff(backoff)
  /\ pc' = "reconnect"
  /\ UNCHANGED <<writes, shutdown, cancel, link, pre_poll_failures, caches, stats>>

BackoffExit ==
  /\ pc = "backoff"
  /\ shutdown
  /\ Exit
  /\ UNCHANGED <<writes, shutdown, configured, backoff, pre_poll_failures,
                 caches, stats>>

\* backoff and pre_poll_failures are reset before init_writes are executed.
ReconnectOkSkipsInit ==                     \* Mutant: init_writes are not repeated.
  /\ pc = "reconnect"
  /\ handle' = TRUE /\ peer' = TRUE /\ configured' = FALSE
  /\ backoff' = INITIAL_BACKOFF
  /\ pre_poll_failures' = 0
  /\ pc' = "poll"
  /\ UNCHANGED <<writes, shutdown, cancel, caches, stats>>
ReconnectOk ==
  /\ pc = "reconnect"
  /\ handle' = TRUE /\ peer' = TRUE /\ configured' = FALSE
  /\ backoff' = INITIAL_BACKOFF
  /\ pre_poll_failures' = 0
  /\ pc' = IF "init" \in writes THEN "reinit" ELSE "poll"
  /\ UNCHANGED <<writes, shutdown, cancel, caches, stats>>

ReconnectErr ==
  /\ pc = "reconnect"
  /\ pc' = "drop"
  /\ UNCHANGED <<writes, shutdown, cancel, link, backoff, pre_poll_failures, caches, stats>>

ReinitOk ==
  /\ pc = "reinit"
  /\ configured' = TRUE
  /\ pc' = "poll"
  /\ UNCHANGED <<writes, shutdown, cancel, handle, peer, backoff, pre_poll_failures,
                 caches, stats>>

ReinitErrGivesUp ==                         \* Mutant: return instead of continue.
  /\ pc = "reinit"
  /\ pc' = "done"
  /\ UNCHANGED <<writes, shutdown, cancel, link, backoff, pre_poll_failures, caches, stats>>
ReinitErr ==
  /\ pc = "reinit"
  /\ pc' = "drop"
  /\ UNCHANGED <<writes, shutdown, cancel, link, backoff, pre_poll_failures, caches, stats>>

Terminated == pc = "done" /\ shutdown /\ UNCHANGED vars

-------------------------------------------------------------------------------
Connect == ConnectOk \/ ConnectErr \/ InitWritesOk \/ InitWritesErr \/ InitWaitOver
Poll == StartPoll \/ PrePollOk \/ PrePollErr \/ ReadLost \/ ReadDone \/ Publish \/ SleepOver
Reconnect == Drop \/ BackoffOver \/ ReconnectOk \/ ReconnectErr \/ ReinitOk \/ ReinitErr
ShutdownBranch == InitWaitExit \/ SleepExit \/ BackoffExit
Task == Connect \/ Poll \/ Reconnect \/ ShutdownBranch

Next == Task \/ RequestShutdown \/ LoseConnection \/ Terminated

Spec == Init /\ [][Next]_vars

(***************************************************************************)
(* Every await of the task returns: bus I/O is bounded by its timeouts and  *)
(* the sleeps by their durations.  A select whose two branches are both     *)
(* ready picks one at random, so a shutdown branch that is ready again and  *)
(* again is taken.  BusRecovers is an assumption of ResumesPolling alone: a  *)
(* device that is asked again and again answers at last.                    *)
(***************************************************************************)
Fairness == WF_vars(Task) /\ SF_vars(ShutdownBranch)
BusRecovers == SF_vars(ConnectOk \/ ReconnectOk) /\ SF_vars(InitWritesOk \/ ReinitOk)

FairSpec == Spec /\ Fairness

-------------------------------------------------------------------------------
TypeOK ==
  /\ pc \in Connecting \cup Polling \cup Reconnecting \cup {"done"}
  /\ writes \subseteq {"init", "pre_poll"}
  /\ shutdown \in BOOLEAN /\ cancel \in BOOLEAN
  /\ handle \in BOOLEAN /\ peer \in BOOLEAN /\ configured \in BOOLEAN
  /\ backoff \in 1 .. MaxBackoff
  /\ pre_poll_failures \in Nat
  /\ local_cache \in [Names -> Nat] /\ prev_cache \in [Names -> Nat]
  /\ store \in [Names -> Nat]
  /\ error_counts \in [Metrics -> Nat]
  /\ polls_total \in Nat /\ polls_success \in Nat
  /\ polls_error \in Nat /\ read_errors \in Nat

-------------------------------------------------------------------------------
(***************************************************************************)
(* Properties.                                                              *)
(***************************************************************************)
\* No metric is called like another one's counter; nothing in the code excludes it.
NoNameClash == Counters \cap Metrics = {}

\* Every counted cycle is accounted for exactly once, as a success or as an error,
\* whichever of the six ways out it takes; while a cycle is running one is
\* outstanding, and a task that exits at the top of the loop leaves one uncounted.
PollAccounting ==
  LET outstanding == polls_total - polls_success - polls_error
  IN  /\ pc \in {"pre_poll", "read"} => outstanding = 1
      /\ pc \notin {"pre_poll", "read", "done"} => outstanding = 0
      /\ pc = "done" => outstanding \in {0, 1}

\* The poll loop is only ever entered over an open handle and with init_writes
\* executed since the connection was made, also after any number of reconnects
\* that failed half way.
ReadyToPoll ==
  pc \in Polling => handle /\ ("init" \in writes => configured)

\* Three pre_poll failures in a row force a reconnect, and nothing less does: no
\* further cycle begins with a third one on its account, a connection that is open
\* and set up is dropped for exactly three, and whatever a cycle that got as far as
\* its read had on its account is forgotten, so that they were consecutive.
PrePollBudget ==
  /\ pre_poll_failures <= PrePollLimit
  /\ pc \in Polling => pre_poll_failures < PrePollLimit
  /\ pc = "drop" /\ handle /\ ("init" \in writes => configured) =>
       pre_poll_failures = PrePollLimit
  /\ pc \in {"read", "publish"} => pre_poll_failures = 0

\* The task ends only because shutdown was requested, with its reader disconnected;
\* and the token that read() polls is cancelled at that moment and never earlier,
\* so no read in progress ever observes it.
ExitOnlyOnShutdown ==
  /\ pc = "done" => shutdown /\ ~handle
  /\ cancel <=> pc = "done"

\* Except between a read and its publication, the published error counter of
\* every metric is the exact number of its failed reads in completed cycles.  Where
\* another metric is configured under the counter's name the first failure takes
\* the entry from it for good; until then it shows that metric's value.
ErrorCountersExact ==
  pc # "publish" =>
    \A m \in Metrics :
      \/ store[ErrorName[m]] = error_counts[m]
      \/ error_counts[m] = 0 /\ ErrorName[m] \in Metrics

\* Once one cycle has read everything, every metric stays available to the
\* exporters for good: errors, reconnects and aborted cycles never remove one.
AvailableAfterSuccess ==
  polls_success > 0 /\ pc # "publish" => \A m \in Metrics : store[m] # 0

\* What makes the invariants above inductive.  Where the task stands determines
\* the state of its reader and of the pre_poll count ...
ControlInv ==
  /\ pc \in {"init", "reinit"} => handle
  /\ pc \in {"init_wait_down", "backoff", "reconnect"} => ~handle
  /\ pc \in Connecting \cup {"reinit"} => pre_poll_failures = 0
  /\ pc = "reinit" => "init" \in writes /\ ~configured
  /\ pc = "pre_poll" => "pre_poll" \in writes
  /\ "pre_poll" \notin writes => pre_poll_failures = 0
  /\ ReadyToPoll /\ PrePollBudget /\ ExitOnlyOnShutdown

\* ... and the caches: prev_cache mirrors the store, local_cache is empty outside
\* a completed cycle and holds only what that cycle has read, no published
\* counter runs ahead of error_counts, and what the store lacks the cycle has.
CacheInv ==
  /\ prev_cache = store
  /\ pc # "publish" => local_cache = Empty
  /\ pc \in {"pre_poll", "read", "publish"} => polls_total > 0
  /\ \A m \in Metrics : local_cache[m] \in {0, polls_total}
  /\ \A n \in Names \ Metrics : local_cache[n] = 0
  /\ \A m \in Metrics : ErrorName[m] \notin Metrics => store[ErrorName[m]] <= error_counts[m]
  /\ polls_success > 0 => \A m \in Metrics : store[m] # 0 \/ local_cache[m] # 0

IInv ==
  /\ TypeOK /\ ControlInv /\ PollAccounting /\ CacheInv
  /\ ErrorCountersExact /\ AvailableAfterSuccess

\* The collector's slot of the store is the feed the exporters were promised.
Feed == INSTANCE MetricFeed WITH
          feed <- store,
          clock <- polls_total,
          good <- {m \in Metrics : local_cache[m] # 0},
          open <- pc \in {"pre_poll", "read", "publish"}
ImplementsFeed == Feed!FeedSpec

\* A collector that never gets to poll ends up waiting for the maximal delay
\* between its attempts (spec/collector.md: "1s, 2s, 4s, 8s, ..., max 60s", reset
\* "after a successful poll cycle").
BackoffReachesMax ==
  <>[](pc \notin Polling \cup {"done"}) => <>(backoff = MaxBackoff)

\* Once shutdown is requested the task terminates, wherever it is waiting.
ShutdownCompletes == shutdown ~> pc = "done"

\* On a bus that answers at last, a collector that lost (or never had) its
\* connection polls again, unless shutdown intervenes.
ResumesPolling ==
  BusRecovers => (pc \in Connecting \cup Reconnecting ~> (pc \in Polling \/ shutdown))
===============================================================================
