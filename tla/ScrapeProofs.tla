------------------------------ MODULE ScrapeProofs ------------------------------
(***************************************************************************)
(* Proofs about Scrape, for every set of metrics, every bound and any       *)
(* number of replies.                                                       *)
(***************************************************************************)
EXTENDS Scrape, CollectorProofs

\* The order of the fields, spelled out.
LEMMA FieldOrder ==
  /\ Len(Fields) = 5 /\ AtEnd = 6
  /\ Fields[1] = "samples" /\ Fields[2] = "polls_total" /\ Fields[3] = "polls_success"
  /\ Fields[4] = "polls_error" /\ Fields[5] = "read_errors"
  BY DEF Fields, AtEnd

\* A collector with a reader is a collector: its invariants hold.
LEMMA CollectorBehaves == ScrapeSpec => Spec
  <1>1. ScrapeInit => Init
    BY DEF ScrapeInit
  <1>2. [ScrapeNext]_<<vars, scrapeVars>> => [Next]_vars
    BY DEF ScrapeNext
  <1> QED BY <1>1, <1>2, PTL DEF ScrapeSpec, Spec

\* A read that fails for a metric adds at least one to read_errors.
LEMMA FailuresCounted ==
  ASSUME TypeOK, ReadDone
  PROVE  /\ read_errors' >= read_errors
         /\ \A m \in Metrics : error_counts'[m] <= error_counts[m] + (read_errors' - read_errors)
  <1>1. PICK failed \in SUBSET Metrics :
          /\ error_counts' = [m \in Metrics |-> IF m \in failed THEN error_counts[m] + 1
                                                ELSE error_counts[m]]
          /\ read_errors' = read_errors + Cardinality(failed)
    BY DEF ReadDone
  <1>2. IsFiniteSet(failed) /\ Cardinality(failed) \in Nat
    BY FS_Subset, FS_CardinalityType, MetricsAssumption
  <1>3. failed # {} => Cardinality(failed) > 0
    BY <1>2, FS_EmptySet
  <1> QED BY <1>1, <1>2, <1>3 DEF TypeOK

\* The counters of a collector never fall.
LEMMA CountersGrow ==
  ASSUME TypeOK, TypeOK', [Next]_vars
  PROVE  /\ polls_total' >= polls_total /\ polls_success' >= polls_success
         /\ polls_error' >= polls_error /\ read_errors' >= read_errors
  <1> USE DEF TypeOK, stats
  <1>1. CASE StartPoll BY <1>1 DEF StartPoll
  <1>2. CASE PrePollErr \/ ReadLost BY <1>2 DEF PrePollErr, ReadLost, CountError
  <1>3. CASE ReadDone
    <2>1. UNCHANGED polls_total BY <1>3 DEF ReadDone
    <2>2. polls_success' >= polls_success /\ polls_error' >= polls_error
      BY <1>3 DEF ReadDone, CountSuccess, CountError
    <2> QED BY <1>3, <2>1, <2>2, FailuresCounted
  <1>4. CASE PrePollOk \/ Publish \/ SleepOver BY <1>4 DEF PrePollOk, Publish, SleepOver
  <1>5. CASE Connect
    BY <1>5 DEF Connect, ConnectOk, ConnectErr, InitWritesOk, InitWritesErr, InitWaitOver
  <1>6. CASE Reconnect
    BY <1>6 DEF Reconnect, Drop, BackoffOver, ReconnectOk, ReconnectErr, ReinitOk, ReinitErr
  <1>7. CASE ShutdownBranch BY <1>7 DEF ShutdownBranch, InitWaitExit, SleepExit, BackoffExit
  <1>8. CASE RequestShutdown \/ LoseConnection BY <1>8 DEF RequestShutdown, LoseConnection
  <1>9. CASE UNCHANGED vars BY <1>9 DEF vars
  <1> QED
    BY <1>1, <1>2, <1>3, <1>4, <1>5, <1>6, <1>7, <1>8, <1>9 DEF Next, Task, Poll, Terminated

-------------------------------------------------------------------------------
\* What the collector has published it has counted: error counters stay below
\* read_errors, and the number of a published cycle below polls_total.
THEOREM Counted == Spec => []CountedInv
<1> USE DEF CountedInv
<1>1. Init => CountedInv
  <2>1. \A m \in Metrics : Empty[m] = 0
    BY DEF Empty, Names
  <2> QED BY <2>1 DEF Init
<1>2. IInv /\ IInv' /\ CountedInv /\ [Next]_vars => CountedInv'
  <2> SUFFICES ASSUME IInv, IInv', CountedInv, [Next]_vars PROVE CountedInv'
    OBVIOUS
  <2> USE DEF IInv
  <2>1. polls_total' >= polls_total /\ read_errors' >= read_errors
    BY CountersGrow
  <2>2. \A m \in Metrics : m \in Names
    BY DEF Names
  <2>3. CASE ReadDone
    <3>1. UNCHANGED <<store, polls_total>>
      BY <2>3 DEF ReadDone
    <3> QED BY <2>3, <3>1, FailuresCounted DEF TypeOK
  <2>4. CASE Publish
    <3> DEFINE out == PutErrorCounts(CarryForward(local_cache, prev_cache))
    <3>1. store' = out /\ UNCHANGED <<error_counts, polls_total, read_errors>>
      BY <2>4 DEF Publish, stats
    <3>2. ASSUME NoNameClash, NEW m \in Metrics
          PROVE  out[m] <= polls_total
      <4>1. out[m] = IF local_cache[m] # 0 THEN local_cache[m] ELSE prev_cache[m]
        BY <3>2, PublishedMetric DEF NoNameClash
      <4> QED BY <2>2, <3>2, <4>1 DEF CacheInv, TypeOK
    <3> HIDE DEF out
    <3> QED BY <3>1, <3>2
  <2>5. CASE UNCHANGED <<store, error_counts>>
    BY <2>1, <2>2, <2>5 DEF TypeOK
  <2>6. [Next]_vars => ReadDone \/ Publish \/ UNCHANGED <<store, error_counts>>
    BY DEF Next, Task, Connect, Poll, Reconnect, ShutdownBranch, Terminated, vars, caches,
           RequestShutdown, LoseConnection, ConnectOk, ConnectErr, InitWritesOk, InitWritesErr,
           InitWaitOver, InitWaitExit, StartPoll, PrePollOk, PrePollErr, ReadLost, SleepOver,
           SleepExit, Drop, BackoffOver, BackoffExit, ReconnectOk, ReconnectErr, ReinitOk, ReinitErr
  <2> QED BY <2>3, <2>4, <2>5, <2>6
<1> QED BY <1>1, <1>2, InductiveInvariant, PTL DEF Spec

\* Type correctness of the reader and its reply.
THEOREM ScrapeTypeCorrect == ScrapeSpec => []ScrapeTypeOK
<1> USE DEF ScrapeTypeOK
<1>1. ScrapeInit => ScrapeTypeOK
  BY ScrapesAssumption, FieldOrder DEF ScrapeInit, Empty, NoCounters
<1>2. TypeOK /\ ScrapeTypeOK /\ [ScrapeNext]_<<vars, scrapeVars>> => ScrapeTypeOK'
  <2> SUFFICES ASSUME TypeOK, ScrapeTypeOK, [ScrapeNext]_<<vars, scrapeVars>>
               PROVE  ScrapeTypeOK'
    OBVIOUS
  <2> USE ScrapesAssumption, FieldOrder
  <2>0. \A f \in CounterNames : Counter(f) \in Nat
    BY DEF CounterNames, Counter, TypeOK
  <2>1. CASE BeginReply BY <2>1 DEF BeginReply
  <2>2. CASE LoadSamples BY <2>2 DEF LoadSamples, TypeOK
  <2>3. CASE LoadCounter
    <3>1. at \in 2 .. 5 /\ Fields[at] \in CounterNames
      BY <2>3 DEF LoadCounter, CounterNames
    <3> QED BY <2>0, <2>3, <3>1 DEF LoadCounter
  <2>4. CASE LoadCounters BY <2>0, <2>4 DEF LoadCounters
  <2>5. CASE Reply BY <2>5 DEF Reply, Empty, NoCounters
  <2>6. CASE UNCHANGED scrapeVars BY <2>6 DEF scrapeVars
  <2> QED BY <2>1, <2>2, <2>3, <2>4, <2>5, <2>6 DEF ScrapeNext, ScrapeStep
<1> QED BY <1>1, <1>2, CollectorBehaves, TypeCorrect, PTL DEF ScrapeSpec

\* How a reply that is being put together relates to the running counters.
THEOREM ReplyInvariant == ScrapeSpec => []ReplyInv
<1> USE DEF ReplyInv
<1>1. ScrapeInit => ReplyInv
  BY DEF ScrapeInit
<1> DEFINE SInv == IInv /\ CountedInv /\ ScrapeTypeOK
<1>2. SInv /\ SInv' /\ ReplyInv /\ [ScrapeNext]_<<vars, scrapeVars>> => ReplyInv'
  <2> SUFFICES ASSUME SInv, SInv', ReplyInv, [ScrapeNext]_<<vars, scrapeVars>>
               PROVE  ReplyInv'
    OBVIOUS
  <2> USE FieldOrder DEF IInv, ScrapeTypeOK
  <2>n. \A m \in Metrics : m \in Names /\ ErrorName[m] \in Names
    BY DEF Names, Counters
  <2>c. \A f \in CounterNames : counters[f] \in Nat
    OBVIOUS
  <2>e. polls_success + polls_error >= polls_total - 1 /\ polls_success + polls_error <= polls_total
    BY DEF PollAccounting, TypeOK, Connecting, Polling, Reconnecting
  <2>1. CASE [Next]_vars /\ UNCHANGED scrapeVars
    <3>1. /\ polls_total' >= polls_total /\ polls_success' >= polls_success
          /\ polls_error' >= polls_error /\ read_errors' >= read_errors
      BY <2>1, CountersGrow
    <3>2. UNCHANGED <<exporter, at, samples, counters>>
      BY <2>1 DEF scrapeVars
    <3> QED BY <2>n, <2>c, <3>1, <3>2 DEF TypeOK, CounterNames
  <2>2. CASE BeginReply BY <2>2 DEF BeginReply
  <2>3. CASE LoadSamples /\ UNCHANGED vars
    <3>1. at = 1 /\ at' = 2 /\ samples' = store
      BY <2>3 DEF LoadSamples
    <3>2. NoNameClash => \A m \in Metrics :
            store[m] <= polls_total /\ store[ErrorName[m]] <= read_errors
      <4>1. \A m \in Metrics : ErrorName[m] \in Counters
        BY DEF Counters
      <4> QED BY <2>n, <4>1 DEF NoNameClash, CountedInv, CacheInv, TypeOK
    <3> QED BY <2>3, <3>1, <3>2 DEF vars, stats
  <2>4. CASE LoadCounter /\ UNCHANGED vars
    <3>1. UNCHANGED <<exporter, samples, polls_total, polls_success, polls_error, read_errors>>
      BY <2>4 DEF LoadCounter, vars, stats
    <3>2. exporter = "prometheus" /\ at' = at + 1
      BY <2>4 DEF LoadCounter
    <3>3. CASE at = 2
      <4>1. counters'["polls_total"] = polls_total
        BY <2>4, <3>3 DEF LoadCounter, Counter, CounterNames
      <4> QED BY <2>n, <2>e, <3>1, <3>2, <3>3, <4>1
    <3>4. CASE at = 3
      <4>1. counters' = [counters EXCEPT !["polls_success"] = polls_success]
        BY <2>4, <3>4 DEF LoadCounter, Counter
      <4>2. counters'["polls_success"] = polls_success /\ counters'["polls_total"] = counters["polls_total"]
        BY <4>1 DEF CounterNames
      <4> QED BY <2>n, <3>1, <3>2, <3>4, <4>2
    <3>5. CASE at = 4
      <4>1. counters' = [counters EXCEPT !["polls_error"] = polls_error]
        BY <2>4, <3>5 DEF LoadCounter, Counter
      <4>2. /\ counters'["polls_error"] = polls_error
            /\ counters'["polls_success"] = counters["polls_success"]
            /\ counters'["polls_total"] = counters["polls_total"]
        BY <4>1 DEF CounterNames
      <4> QED BY <2>n, <3>1, <3>2, <3>5, <4>2
    <3>6. CASE at = 5
      <4>1. counters' = [counters EXCEPT !["read_errors"] = read_errors]
        BY <2>4, <3>6 DEF LoadCounter, Counter
      <4>2. /\ counters'["read_errors"] = read_errors
            /\ \A f \in CounterNames \ {"read_errors"} : counters'[f] = counters[f]
        BY <4>1 DEF CounterNames
      <4> QED BY <2>n, <3>1, <3>2, <3>6, <4>2 DEF CounterNames
    <3>7. at \in 2 .. 5
      BY <2>4 DEF LoadCounter
    <3> QED BY <3>3, <3>4, <3>5, <3>6, <3>7
  <2>5. CASE LoadCounters /\ UNCHANGED vars
    <3>1. at = 2 /\ at' = 6 /\ UNCHANGED <<exporter, samples>>
      BY <2>5 DEF LoadCounters
    <3>2. /\ counters'["polls_total"] = polls_total /\ counters'["polls_success"] = polls_success
          /\ counters'["polls_error"] = polls_error /\ counters'["read_errors"] = read_errors
      BY <2>5 DEF LoadCounters, Counter, CounterNames
    <3> QED BY <2>n, <2>e, <3>1, <3>2
  <2>6. CASE Reply BY <2>6 DEF Reply
  <2> QED BY <2>1, <2>2, <2>3, <2>4, <2>5, <2>6 DEF ScrapeNext, ScrapeStep
<1>3. ScrapeSpec => []SInv
  BY CollectorBehaves, InductiveInvariant, Counted, ScrapeTypeCorrect, PTL
<1> QED BY <1>1, <1>2, <1>3, PTL DEF ScrapeSpec

\* A reply of either exporter accounts for every cycle it has counted.
THEOREM RepliesAccountCycles == ScrapeSpec => []CyclesAccounted
<1>1. ReplyInv => CyclesAccounted
  BY FieldOrder DEF ReplyInv, CyclesAccounted
<1> QED BY <1>1, ReplyInvariant, PTL

\* Every sample and every error in a reply is counted in it.
THEOREM RepliesCountSamples == ScrapeSpec => []SamplesCounted
<1>1. ReplyInv => SamplesCounted
  BY FieldOrder DEF ReplyInv, SamplesCounted
<1> QED BY <1>1, ReplyInvariant, PTL
===============================================================================
