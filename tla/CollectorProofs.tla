---------------------------- MODULE CollectorProofs ----------------------------
(***************************************************************************)
(* Proofs about Collector, for every set of metrics and every bound.        *)
(***************************************************************************)
EXTENDS Collector, FiniteSetTheorems, TLAPS

\* The delay stays between INITIAL_BACKOFF and MAX_BACKOFF when it is doubled.
LEMMA NextBackoffType ==
  ASSUME NEW b \in 1 .. MaxBackoff
  PROVE  NextBackoff(b) \in 1 .. MaxBackoff
  BY BoundsAssumption DEF NextBackoff

\* What a read puts into local_cache is the number of the cycle or nothing.
LEMMA FreshType ==
  ASSUME polls_total \in Nat, NEW failed
  PROVE  Fresh(failed) \in [Names -> Nat]
  BY DEF Fresh

\* The new contents of the store are well typed.
LEMMA PublishedType ==
  ASSUME local_cache \in [Names -> Nat], prev_cache \in [Names -> Nat],
         error_counts \in [Metrics -> Nat]
  PROVE  PutErrorCounts(CarryForward(local_cache, prev_cache)) \in [Names -> Nat]
  <1>1. CarryForward(local_cache, prev_cache) \in [Names -> Nat]
    BY DEF CarryForward
  <1>2. ASSUME NEW n \in Names, \E m \in Metrics : ErrorName[m] = n /\ error_counts[m] > 0
        PROVE  error_counts[CHOOSE m \in Metrics : ErrorName[m] = n] \in Nat
    BY <1>2
  <1> QED BY <1>1, <1>2 DEF PutErrorCounts

\* Type correctness: the invariant TypeOK of Collector holds for every instance;
\* in particular the delay never exceeds MAX_BACKOFF.
THEOREM TypeCorrect == Spec => []TypeOK
<1>1. Init => TypeOK
  <2> SUFFICES ASSUME Init PROVE TypeOK
    OBVIOUS
  <2>1. 1 \in 1 .. MaxBackoff 
    BY BoundsAssumption
  <2>2. Empty \in [Names -> Nat] /\ [m \in Metrics |-> 0] \in [Metrics -> Nat]
    BY DEF Empty
  <2> QED
    BY <2>1, <2>2 DEF Init, TypeOK, INITIAL_BACKOFF, Connecting
<1>2. TypeOK /\ [Next]_vars => TypeOK'
  <2> SUFFICES ASSUME TypeOK, [Next]_vars PROVE TypeOK'
    OBVIOUS
  <2> USE DEF TypeOK, Connecting, Polling, Reconnecting, link, caches, stats
  <2>1. CASE RequestShutdown BY <2>1 DEF RequestShutdown
  <2>2. CASE LoseConnection BY <2>2 DEF LoseConnection
  <2>3. CASE ConnectOk
    <3>1. pc' \in {"init", "poll"} BY <2>3 DEF ConnectOk
    <3>2. backoff' \in 1 .. MaxBackoff BY <2>3, BoundsAssumption DEF ConnectOk, INITIAL_BACKOFF
    <3> QED BY <2>3, <3>1, <3>2 DEF ConnectOk
  <2>4. CASE ConnectErr BY <2>4 DEF ConnectErr
  <2>5. CASE InitWritesOk BY <2>5 DEF InitWritesOk
  <2>6. CASE InitWritesErr BY <2>6 DEF InitWritesErr
  <2>7. CASE InitWaitOver BY <2>7, NextBackoffType DEF InitWaitOver
  <2>8. CASE InitWaitExit BY <2>8 DEF InitWaitExit, Exit
  <2>9. CASE StartPoll
    <3>1. pc' \in {"pre_poll", "read", "done"} BY <2>9 DEF StartPoll, Exit
    <3>2. handle' \in BOOLEAN /\ peer' \in BOOLEAN /\ cancel' \in BOOLEAN
      BY <2>9 DEF StartPoll, Exit
    <3> QED BY <2>9, <3>1, <3>2 DEF StartPoll
  <2>10. CASE PrePollOk BY <2>10 DEF PrePollOk
  <2>11. CASE PrePollErr
    <3>1. pc' \in {"drop", "sleep", "poll"} BY <2>11 DEF PrePollErr
    <3> QED BY <2>11, <3>1 DEF PrePollErr, CountError
  <2>12. CASE ReadLost BY <2>12 DEF ReadLost, ReadOutcome, LostDuring, CountError
  <2>13. CASE ReadDone
    <3>1. PICK failed \in SUBSET Metrics :
            /\ ReadOutcome(failed)
            /\ local_cache' = Fresh(failed)
            /\ error_counts' = [m \in Metrics |-> IF m \in failed THEN error_counts[m] + 1
                                                  ELSE error_counts[m]]
            /\ read_errors' = read_errors + Cardinality(failed)
            /\ CountSuccess \/ CountError
      BY <2>13 DEF ReadDone
    <3>2. Cardinality(failed) \in Nat
      BY FS_Subset, FS_CardinalityType, MetricsAssumption
    <3>3. handle' \in BOOLEAN
      BY <3>1 DEF ReadOutcome
    <3>4. /\ error_counts' \in [Metrics -> Nat]
          /\ local_cache' \in [Names -> Nat]
          /\ read_errors' \in Nat
      BY <3>1, <3>2, FreshType
    <3>5. polls_success' \in Nat /\ polls_error' \in Nat
      BY <3>1 DEF CountSuccess, CountError
    <3>6. backoff' \in 1 .. MaxBackoff
      BY <2>13, BoundsAssumption DEF ReadDone, INITIAL_BACKOFF
    <3> QED BY <2>13, <3>3, <3>4, <3>5, <3>6 DEF ReadDone
  <2>14. CASE Publish BY <2>14, PublishedType DEF Publish, Exit, Empty
  <2>15. CASE SleepOver BY <2>15 DEF SleepOver
  <2>16. CASE SleepExit BY <2>16 DEF SleepExit, Exit
  <2>17. CASE Drop BY <2>17 DEF Drop
  <2>18. CASE BackoffOver BY <2>18, NextBackoffType DEF BackoffOver
  <2>19. CASE BackoffExit BY <2>19 DEF BackoffExit, Exit
  <2>20. CASE ReconnectOk
    <3>1. pc' \in {"reinit", "poll"} BY <2>20 DEF ReconnectOk
    <3>2. backoff' \in 1 .. MaxBackoff BY <2>20, BoundsAssumption DEF ReconnectOk, INITIAL_BACKOFF
    <3> QED BY <2>20, <3>1, <3>2 DEF ReconnectOk
  <2>21. CASE ReconnectErr BY <2>21 DEF ReconnectErr
  <2>22. CASE ReinitOk BY <2>22 DEF ReinitOk
  <2>23. CASE ReinitErr BY <2>23 DEF ReinitErr
  <2>24. CASE UNCHANGED vars BY <2>24 DEF vars
  <2> QED
    BY <2>1, <2>2, <2>3, <2>4, <2>5, <2>6, <2>7, <2>8, <2>9, <2>10, <2>11, <2>12, <2>13,
       <2>14, <2>15, <2>16, <2>17, <2>18, <2>19, <2>20, <2>21, <2>22, <2>23, <2>24
       DEF Next, Task, Connect, Poll, Reconnect, ShutdownBranch, Terminated
<1> QED BY <1>1, <1>2, PTL DEF Spec

-------------------------------------------------------------------------------
\* Control: a task that polls has an open, configured reader and pre_poll failures
\* to spare; it ends only on shutdown, disconnected, and cancels its token
\* exactly then (ReadyToPoll, PrePollBudget and ExitOnlyOnShutdown).
THEOREM Control == Spec => []ControlInv
<1> USE DEF ControlInv, ReadyToPoll, PrePollBudget, ExitOnlyOnShutdown,
            Connecting, Polling, Reconnecting, PrePollLimit
<1>1. Init => ControlInv
  BY DEF Init
<1>2. TypeOK /\ ControlInv /\ [Next]_vars => ControlInv'
  <2> SUFFICES ASSUME TypeOK, ControlInv, [Next]_vars PROVE ControlInv'
    OBVIOUS
  <2> USE DEF TypeOK, link
  <2>1. CASE RequestShutdown BY <2>1 DEF RequestShutdown
  <2>2. CASE LoseConnection BY <2>2 DEF LoseConnection
  <2>3. CASE ConnectOk BY <2>3 DEF ConnectOk
  <2>4. CASE ConnectErr BY <2>4 DEF ConnectErr
  <2>5. CASE InitWritesOk BY <2>5 DEF InitWritesOk
  <2>6. CASE InitWritesErr BY <2>6 DEF InitWritesErr
  <2>7. CASE InitWaitOver BY <2>7 DEF InitWaitOver
  <2>8. CASE InitWaitExit BY <2>8 DEF InitWaitExit, Exit
  <2>9. CASE StartPoll
    <3>1. CASE shutdown BY <2>9, <3>1 DEF StartPoll, Exit
    <3>2. CASE ~shutdown
      <4>1. pc' \in {"pre_poll", "read"} BY <2>9, <3>2 DEF StartPoll
      <4> QED BY <2>9, <3>2, <4>1 DEF StartPoll
    <3> QED BY <3>1, <3>2
  <2>10. CASE PrePollOk BY <2>10 DEF PrePollOk
  <2>11. CASE PrePollErr BY <2>11 DEF PrePollErr
  <2>12. CASE ReadLost BY <2>12 DEF ReadLost, ReadOutcome, LostDuring
  <2>13. CASE ReadDone BY <2>13 DEF ReadDone, ReadOutcome, LostDuring
  <2>14. CASE Publish
    <3>1. /\ pc = "publish"
          /\ UNCHANGED <<writes, shutdown, configured, pre_poll_failures>>
      BY <2>14 DEF Publish
    <3>2. CASE shutdown /\ Exit BY <3>1, <3>2 DEF Exit
    <3>3. CASE pc' \in {"sleep", "poll"} /\ UNCHANGED <<cancel, handle>>
      BY <3>1, <3>3
    <3> QED BY <2>14, <3>2, <3>3 DEF Publish
  <2>15. CASE SleepOver BY <2>15 DEF SleepOver
  <2>16. CASE SleepExit BY <2>16 DEF SleepExit, Exit
  <2>17. CASE Drop BY <2>17 DEF Drop
  <2>18. CASE BackoffOver BY <2>18 DEF BackoffOver
  <2>19. CASE BackoffExit BY <2>19 DEF BackoffExit, Exit
  <2>20. CASE ReconnectOk BY <2>20 DEF ReconnectOk
  <2>21. CASE ReconnectErr BY <2>21 DEF ReconnectErr
  <2>22. CASE ReinitOk BY <2>22 DEF ReinitOk
  <2>23. CASE ReinitErr BY <2>23 DEF ReinitErr
  <2>24. CASE UNCHANGED vars BY <2>24 DEF vars
  <2> QED
    BY <2>1, <2>2, <2>3, <2>4, <2>5, <2>6, <2>7, <2>8, <2>9, <2>10, <2>11, <2>12, <2>13,
       <2>14, <2>15, <2>16, <2>17, <2>18, <2>19, <2>20, <2>21, <2>22, <2>23, <2>24
       DEF Next, Task, Connect, Poll, Reconnect, ShutdownBranch, Terminated
<1> HIDE DEF ControlInv
<1> QED BY <1>1, <1>2, TypeCorrect, PTL DEF Spec

\* Every poll cycle is counted once as a success or as an error, on every path.
THEOREM Accounting == Spec => []PollAccounting
<1> USE DEF PollAccounting
<1>1. Init => PollAccounting
  BY DEF Init
<1>2. TypeOK /\ PollAccounting /\ [Next]_vars => PollAccounting'
  <2> SUFFICES ASSUME TypeOK, PollAccounting, [Next]_vars PROVE PollAccounting'
    OBVIOUS
  <2> USE DEF TypeOK, stats
  <2>1. CASE StartPoll BY <2>1 DEF StartPoll, Exit
  <2>2. CASE PrePollOk BY <2>2 DEF PrePollOk
  <2>3. CASE PrePollErr BY <2>3 DEF PrePollErr, CountError
  <2>4. CASE ReadLost BY <2>4 DEF ReadLost, ReadOutcome, CountError
  <2>5. CASE ReadDone BY <2>5 DEF ReadDone, ReadOutcome, CountError, CountSuccess
  <2>6. CASE Publish \/ SleepOver BY <2>6 DEF Publish, SleepOver, Exit
  <2>7. CASE Connect
    BY <2>7 DEF Connect, ConnectOk, ConnectErr, InitWritesOk, InitWritesErr, InitWaitOver
  <2>8. CASE Reconnect
    BY <2>8 DEF Reconnect, Drop, BackoffOver, ReconnectOk, ReconnectErr, ReinitOk, ReinitErr
  <2>9. CASE ShutdownBranch
    BY <2>9 DEF ShutdownBranch, InitWaitExit, SleepExit, BackoffExit, Exit
  <2>10. CASE RequestShutdown \/ LoseConnection
    BY <2>10 DEF RequestShutdown, LoseConnection
  <2>11. CASE UNCHANGED vars BY <2>11 DEF vars
  <2> QED
    BY <2>1, <2>2, <2>3, <2>4, <2>5, <2>6, <2>7, <2>8, <2>9, <2>10, <2>11
       DEF Next, Task, Poll, Terminated
<1> QED BY <1>1, <1>2, TypeCorrect, PTL DEF Spec

-------------------------------------------------------------------------------
\* A read fills local_cache with the number of its cycle, for exactly the metrics
\* that did not fail.
LEMMA FreshValues ==
  ASSUME NEW failed
  PROVE  /\ \A m \in Metrics : Fresh(failed)[m] = IF m \in failed THEN 0 ELSE polls_total
         /\ \A n \in Names \ Metrics : Fresh(failed)[n] = 0
  BY DEF Fresh, Names

\* An error counter that is published has the value of error_counts.
LEMMA PublishedCounter ==
  ASSUME NEW cache \in [Names -> Nat], TypeOK, NEW m \in Metrics
  PROVE  PutErrorCounts(cache)[ErrorName[m]] =
           IF error_counts[m] > 0 THEN error_counts[m] ELSE cache[ErrorName[m]]
  <1>1. ErrorName[m] \in Names
    BY DEF Names, Counters
  <1>2. \A k \in Metrics : ErrorName[k] = ErrorName[m] => k = m
    BY MetricsAssumption
  <1>3. (CHOOSE k \in Metrics : ErrorName[k] = ErrorName[m]) = m
    BY <1>2
  <1> QED BY <1>1, <1>2, <1>3 DEF PutErrorCounts

\* Publishing never empties an entry; it refreshes the metrics that were read and
\* retains the others, where the name is not that of a counter too.
LEMMA PublishedMetric ==
  ASSUME TypeOK, NEW m \in Metrics
  PROVE  LET out == PutErrorCounts(CarryForward(local_cache, prev_cache))[m]
         IN  /\ local_cache[m] # 0 \/ prev_cache[m] # 0 => out # 0
             /\ m \notin Counters => out = IF local_cache[m] # 0 THEN local_cache[m]
                                     ELSE prev_cache[m]
  <1>1. m \in Names
    BY DEF Names
  <1>2. CarryForward(local_cache, prev_cache)[m] =
          IF local_cache[m] # 0 THEN local_cache[m] ELSE prev_cache[m]
    BY <1>1 DEF CarryForward
  <1>3. CASE \E k \in Metrics : ErrorName[k] = m /\ error_counts[k] > 0
    <2>1. PICK k \in Metrics : ErrorName[k] = m /\ error_counts[k] > 0
      BY <1>3
    <2>2. m \in Counters
      BY <2>1 DEF Counters
    <2>3. CarryForward(local_cache, prev_cache) \in [Names -> Nat]
      BY DEF TypeOK, CarryForward
    <2>4. PutErrorCounts(CarryForward(local_cache, prev_cache))[ErrorName[k]] = error_counts[k]
      BY <2>1, <2>3, PublishedCounter
    <2> QED BY <2>1, <2>2, <2>4 DEF TypeOK
  <1>4. CASE ~ \E k \in Metrics : ErrorName[k] = m /\ error_counts[k] > 0
    BY <1>1, <1>2, <1>4 DEF PutErrorCounts
  <1> QED BY <1>3, <1>4

\* The caches: prev_cache mirrors the store, error counters are published exactly,
\* and once every metric has been read no metric is ever missing from the store
\* (CacheInv, ErrorCountersExact and AvailableAfterSuccess).
THEOREM Caches == Spec => [](CacheInv /\ ErrorCountersExact /\ AvailableAfterSuccess)
<1> DEFINE Inv == CacheInv /\ ErrorCountersExact /\ AvailableAfterSuccess
<1>1. Init => Inv
  <2>1. \A m \in Metrics : m \in Names /\ ErrorName[m] \in Names
    BY DEF Names, Counters
  <2> QED BY <2>1 DEF Init, CacheInv, ErrorCountersExact, AvailableAfterSuccess, Empty
<1>2. TypeOK /\ Inv /\ [Next]_vars => Inv'
  <2> SUFFICES ASSUME TypeOK, Inv, [Next]_vars PROVE Inv'
    OBVIOUS
  <2> USE DEF CacheInv, ErrorCountersExact, AvailableAfterSuccess
  <2>0. \A m \in Metrics : m \in Names /\ ErrorName[m] \in Names
    BY DEF Names, Counters
  <2>1. CASE StartPoll
    <3>1. pc' \in {"pre_poll", "read", "done"} /\ pc = "poll"
      BY <2>1 DEF StartPoll, Exit
    <3>2. UNCHANGED <<caches, polls_success>> /\ polls_total' = polls_total + 1
      BY <2>1 DEF StartPoll
    <3>3. \A m \in Metrics : local_cache[m] = 0
      BY <2>0, <3>1 DEF Empty
    <3> QED BY <3>1, <3>2, <3>3 DEF caches, TypeOK
  <2>2. CASE PrePollOk BY <2>2 DEF PrePollOk, caches, stats
  <2>3. CASE PrePollErr
    <3>1. pc' \in {"drop", "sleep", "poll"} /\ pc = "pre_poll"
      BY <2>3 DEF PrePollErr
    <3> QED BY <2>3, <3>1 DEF PrePollErr, CountError, caches
  <2>4. CASE ReadLost BY <2>4 DEF ReadLost, ReadOutcome, CountError, caches
  <2>5. CASE ReadDone
    <3>1. PICK failed \in SUBSET Metrics :
            /\ local_cache' = Fresh(failed)
            /\ error_counts' = [m \in Metrics |-> IF m \in failed THEN error_counts[m] + 1
                                                  ELSE error_counts[m]]
            /\ \/ failed = {} /\ CountSuccess
               \/ CountError
      BY <2>5 DEF ReadDone
    <3>2. /\ pc = "read" /\ pc' = "publish"
          /\ UNCHANGED <<prev_cache, store, polls_total>>
      BY <2>5 DEF ReadDone, ReadOutcome
    <3>3. \A m \in Metrics : error_counts'[m] >= error_counts[m]
      BY <3>1 DEF TypeOK
    <3>4. /\ \A m \in Metrics : local_cache'[m] \in {0, polls_total}
          /\ \A n \in Names \ Metrics : local_cache'[n] = 0
      BY <3>1, FreshValues
    <3>5. polls_success' > 0 => \A m \in Metrics : store[m] # 0 \/ local_cache'[m] # 0
      <4>1. CASE failed = {} /\ CountSuccess BY <3>1, <3>2, <4>1, FreshValues DEF TypeOK
      <4>2. CASE CountError
        <5>1. polls_success' = polls_success BY <4>2 DEF CountError
        <5>2. \A m \in Metrics : local_cache[m] = 0 BY <2>0, <3>2 DEF Empty
        <5> QED BY <5>1, <5>2
      <4> QED BY <3>1, <4>1, <4>2
    <3>6. \A m \in Metrics : ErrorName[m] \notin Metrics => store[ErrorName[m]] <= error_counts'[m]
      BY <2>0, <3>3, <3>1 DEF TypeOK
    <3> QED BY <3>2, <3>4, <3>5, <3>6
  <2>6. CASE Publish
    <3> DEFINE out == PutErrorCounts(CarryForward(local_cache, prev_cache))
    <3>1. /\ pc = "publish" /\ pc' \in {"sleep", "done", "poll"}
          /\ store' = out /\ prev_cache' = out /\ local_cache' = Empty
          /\ UNCHANGED <<error_counts, stats>>
      BY <2>6 DEF Publish, Exit
    <3>2. polls_success > 0 => \A m \in Metrics : out[m] # 0
      BY PublishedMetric
    <3>3. ASSUME NEW m \in Metrics
          PROVE  \/ out[ErrorName[m]] = error_counts[m]
                 \/ error_counts[m] = 0 /\ ErrorName[m] \in Metrics
      <4>1. CarryForward(local_cache, prev_cache) \in [Names -> Nat]
        BY DEF TypeOK, CarryForward
      <4>2. CASE error_counts[m] > 0
        BY <4>1, <4>2, PublishedCounter
      <4>3. CASE error_counts[m] = 0 /\ ErrorName[m] \notin Metrics
        <5>1. ErrorName[m] \in Names \ Metrics
          BY <2>0, <4>3
        <5>2. CarryForward(local_cache, prev_cache)[ErrorName[m]] <= error_counts[m]
          BY <5>1 DEF CarryForward
        <5> QED BY <2>0, <4>1, <4>3, <5>2, PublishedCounter DEF TypeOK
      <4> QED BY <4>2, <4>3 DEF TypeOK
    <3>4. \A m \in Metrics : Empty[m] = 0
      BY <2>0 DEF Empty
    <3>5. \A n \in Names : Empty[n] = 0
      BY DEF Empty
    <3> HIDE DEF out
    <3>6. \A m \in Metrics : ErrorName[m] \notin Metrics => out[ErrorName[m]] <= error_counts[m]
      BY <3>3 DEF TypeOK
    <3> QED BY <3>1, <3>2, <3>3, <3>4, <3>5, <3>6 DEF stats
  <2>7. CASE SleepOver BY <2>7 DEF SleepOver, caches, stats
  <2>8. CASE Connect
    <3>1. pc # "publish" /\ pc' \in {"init", "poll", "connect", "init_wait", "init_wait_down"}
      BY <2>8 DEF Connect, ConnectOk, ConnectErr, InitWritesOk, InitWritesErr, InitWaitOver
    <3>2. UNCHANGED <<caches, stats>>
      BY <2>8 DEF Connect, ConnectOk, ConnectErr, InitWritesOk, InitWritesErr, InitWaitOver
    <3> QED BY <3>1, <3>2 DEF caches, stats
  <2>9. CASE Reconnect
    <3>1. pc # "publish" /\ pc' \in {"drop", "backoff", "reconnect", "reinit", "poll"}
      BY <2>9 DEF Reconnect, Drop, BackoffOver, ReconnectOk, ReconnectErr, ReinitOk, ReinitErr
    <3>2. UNCHANGED <<caches, stats>>
      BY <2>9 DEF Reconnect, Drop, BackoffOver, ReconnectOk, ReconnectErr, ReinitOk, ReinitErr
    <3> QED BY <3>1, <3>2 DEF caches, stats
  <2>10. CASE ShutdownBranch
    <3>1. pc # "publish" /\ pc' = "done" /\ UNCHANGED <<caches, stats>>
      BY <2>10 DEF ShutdownBranch, InitWaitExit, SleepExit, BackoffExit, Exit
    <3> QED BY <3>1 DEF caches, stats
  <2>11. CASE RequestShutdown \/ LoseConnection
    BY <2>11 DEF RequestShutdown, LoseConnection, caches, stats
  <2>12. CASE UNCHANGED vars BY <2>12 DEF vars, caches, stats
  <2> QED
    BY <2>1, <2>2, <2>3, <2>4, <2>5, <2>6, <2>7, <2>8, <2>9, <2>10, <2>11, <2>12
       DEF Next, Task, Poll, Terminated
<1> QED BY <1>1, <1>2, TypeCorrect, PTL DEF Spec

\* The whole inductive invariant of Collector.
THEOREM InductiveInvariant == Spec => []IInv
  BY TypeCorrect, Control, Accounting, Caches, PTL DEF IInv

\* The task polls only over an open reader, with its init_writes executed.
COROLLARY PollsWhenReady == Spec => []ReadyToPoll
  BY Control, PTL DEF ControlInv

\* Three pre_poll failures in a row, and no fewer, lead to a reconnect and are
\* forgotten then.
COROLLARY BudgetKept == Spec => []PrePollBudget
  BY Control, PTL DEF ControlInv

\* The task ends only on shutdown, disconnected, and cancels its token just then.
COROLLARY ExitsOnShutdown == Spec => []ExitOnlyOnShutdown
  BY Control, PTL DEF ControlInv

\* The published error counters are exactly the failures counted, also in an entry
\* that is the metric of that name until the first failure.
COROLLARY CountersExact == Spec => []ErrorCountersExact
  BY Caches, PTL

\* A metric that has been read once is never missing from the store again.
COROLLARY AvailabilityKept == Spec => []AvailableAfterSuccess
  BY Caches, PTL

-------------------------------------------------------------------------------
\* Refinement: the collector's slot of the store implements the feed of MetricFeed:
\* whole snapshots, each metric refreshed by the open cycle exactly when that cycle
\* read it and retained otherwise, counters that never fall, entries that never go
\* away; whatever the metrics are called.
THEOREM Refinement == Spec => ImplementsFeed
<1> DEFINE good == {m \in Metrics : local_cache[m] # 0}
           open == pc \in {"pre_poll", "read", "publish"}
<1>1. Init => Feed!FeedInit
  <2> SUFFICES ASSUME Init PROVE Feed!FeedInit
    OBVIOUS
  <2>1. \A m \in Metrics : Empty[m] = 0
    BY DEF Empty, Names
  <2> QED BY <2>1 DEF Init, Feed!FeedInit, Feed!Names, Empty, Names
<1>2. IInv /\ [Next]_vars => [Feed!FeedNext]_(Feed!feedVars)
  <2> SUFFICES ASSUME IInv, [Next]_vars
               PROVE  Feed!FeedNext \/ UNCHANGED Feed!feedVars
    OBVIOUS
  <2> USE DEF IInv, Feed!FeedNext, Feed!feedVars
  <2>0. \A m \in Metrics : m \in Names /\ ErrorName[m] \in Names
    BY DEF Names, Counters
  <2>e. pc # "publish" => good = {}
    BY <2>0 DEF CacheInv, Empty
  <2>s. UNCHANGED caches => UNCHANGED store /\ good' = good
    BY DEF caches
  <2>1. CASE StartPoll
    <3>1. /\ pc = "poll" /\ polls_total' = polls_total + 1
          /\ UNCHANGED caches
      BY <2>1 DEF StartPoll
    <3>2. Feed!Begin
      BY <2>s, <3>1 DEF Feed!Begin
    <3> QED BY <3>2
  <2>2. CASE PrePollOk
    <3>1. pc = "pre_poll" /\ pc' = "read" /\ UNCHANGED <<caches, polls_total>>
      BY <2>2 DEF PrePollOk, stats
    <3> QED BY <2>s, <3>1
  <2>3. CASE PrePollErr \/ ReadLost
    <3>1. /\ pc \in {"pre_poll", "read"} /\ pc' \in {"drop", "sleep", "poll"}
          /\ UNCHANGED <<caches, polls_total>>
      BY <2>3 DEF PrePollErr, ReadLost, ReadOutcome
    <3>2. Feed!Abandon
      BY <2>e, <2>s, <3>1 DEF Feed!Abandon
    <3> QED BY <3>2
  <2>4. CASE ReadDone
    <3>1. pc = "read" /\ pc' = "publish" /\ UNCHANGED <<store, polls_total>>
      BY <2>4 DEF ReadDone, ReadOutcome
    <3>2. good' \in SUBSET Metrics
      OBVIOUS
    <3>3. Feed!Observe
      BY <2>e, <3>1, <3>2 DEF Feed!Observe
    <3> QED BY <3>3
  <2>5. CASE Publish
    <3> DEFINE out == PutErrorCounts(CarryForward(local_cache, prev_cache))
    <3>1. /\ pc = "publish" /\ pc' \in {"sleep", "done", "poll"}
          /\ store' = out /\ local_cache' = Empty
          /\ UNCHANGED polls_total
      BY <2>5 DEF Publish, Exit, stats
    <3>2. good' = {}
      BY <2>0, <3>1 DEF Empty
    <3>3. out \in [Names -> Nat] /\ Feed!Names = Names
      BY PublishedType DEF TypeOK, Names, Feed!Names
    <3>4. ASSUME NEW m \in Metrics \ Counters
          PROVE  out[m] = IF m \in good THEN polls_total ELSE store[m]
      <4>1. out[m] = IF local_cache[m] # 0 THEN local_cache[m] ELSE prev_cache[m]
        BY PublishedMetric
      <4> QED BY <4>1 DEF CacheInv
    <3>5. ASSUME NEW c \in Counters \ Metrics
          PROVE  out[c] >= store[c]
      <4>1. PICK m \in Metrics : c = ErrorName[m]
        BY DEF Counters
      <4>2. c \in Names \ Metrics
        BY <2>0, <4>1
      <4>3. /\ CarryForward(local_cache, prev_cache) \in [Names -> Nat]
            /\ CarryForward(local_cache, prev_cache)[c] = store[c]
        BY <4>2 DEF TypeOK, CarryForward, CacheInv
      <4>4. store[c] <= error_counts[m]
        BY <4>1 DEF CacheInv
      <4> QED BY <4>1, <4>2, <4>3, <4>4, PublishedCounter DEF TypeOK
    <3>6. ASSUME NEW n \in Names, store[n] # 0
          PROVE  out[n] # 0
      <4>1. CASE n \in Metrics
        BY <3>6, <4>1, PublishedMetric DEF CacheInv
      <4>2. CASE n \in Counters \ Metrics
        BY <3>3, <3>5, <3>6, <4>2 DEF TypeOK
      <4> QED BY <4>1, <4>2 DEF Names
    <3> HIDE DEF out
    <3>7. Feed!Refresh
      BY <3>1, <3>2, <3>3, <3>4, <3>5, <3>6 DEF Feed!Refresh
    <3> QED BY <3>7
  <2>6. CASE SleepOver
    <3>1. pc = "sleep" /\ pc' = "poll" /\ UNCHANGED <<caches, polls_total>>
      BY <2>6 DEF SleepOver, stats
    <3> QED BY <2>s, <3>1
  <2>7. CASE Connect
    <3>1. /\ pc \in {"connect", "init", "init_wait", "init_wait_down"}
          /\ pc' \in {"init", "poll", "connect", "init_wait", "init_wait_down"}
          /\ UNCHANGED <<caches, polls_total>>
      BY <2>7 DEF Connect, ConnectOk, ConnectErr, InitWritesOk, InitWritesErr, InitWaitOver, stats
    <3> QED BY <2>s, <3>1
  <2>8. CASE Reconnect
    <3>1. /\ pc \in {"drop", "backoff", "reconnect", "reinit"}
          /\ pc' \in {"drop", "backoff", "reconnect", "reinit", "poll"}
          /\ UNCHANGED <<caches, polls_total>>
      BY <2>8 DEF Reconnect, Drop, BackoffOver, ReconnectOk, ReconnectErr, ReinitOk, ReinitErr, stats
    <3> QED BY <2>s, <3>1
  <2>9. CASE ShutdownBranch
    <3>1. /\ pc \in {"init_wait", "init_wait_down", "sleep", "backoff"} /\ pc' = "done"
          /\ UNCHANGED <<caches, polls_total>>
      BY <2>9 DEF ShutdownBranch, InitWaitExit, SleepExit, BackoffExit, Exit, stats
    <3> QED BY <2>s, <3>1
  <2>10. CASE RequestShutdown \/ LoseConnection
    <3>1. UNCHANGED <<pc, caches, polls_total>>
      BY <2>10 DEF RequestShutdown, LoseConnection, stats
    <3> QED BY <2>s, <3>1
  <2>11. CASE UNCHANGED vars
    <3>1. UNCHANGED <<pc, caches, polls_total>>
      BY <2>11 DEF vars, stats
    <3> QED BY <2>s, <3>1
  <2> QED
    BY <2>1, <2>2, <2>3, <2>4, <2>5, <2>6, <2>7, <2>8, <2>9, <2>10, <2>11
       DEF Next, Task, Poll, Terminated
<1> QED BY <1>1, <1>2, InductiveInvariant, PTL DEF Spec, ImplementsFeed, Feed!FeedSpec

-------------------------------------------------------------------------------
(***************************************************************************)
(* Shutdown.  How far the task is from its end once it was told to stop: no *)
(* cycle begins any more, the last one is finished, a connection that is    *)
(* being made is made or given up.                                          *)
(***************************************************************************)
Distance(p) ==
  CASE p = "pre_poll" -> 9
    [] p = "read" -> 8
    [] p \in {"connect", "reconnect"} -> 7
    [] p \in {"init", "reinit"} -> 6
    [] p = "drop" -> 5
    [] p \in {"init_wait", "init_wait_down", "backoff"} -> 4
    [] p = "publish" -> 3
    [] p = "sleep" -> 2
    [] p = "poll" -> 1
    [] p = "done" -> 0
ToTheEnd == Distance(pc)

\* Its values, one by one.
LEMMA Distances ==
  /\ Distance("pre_poll") = 9 /\ Distance("read") = 8
  /\ Distance("connect") = 7 /\ Distance("reconnect") = 7
  /\ Distance("init") = 6 /\ Distance("reinit") = 6 /\ Distance("drop") = 5
  /\ Distance("init_wait") = 4 /\ Distance("init_wait_down") = 4 /\ Distance("backoff") = 4
  /\ Distance("publish") = 3 /\ Distance("sleep") = 2 /\ Distance("poll") = 1 /\ Distance("done") = 0
  BY DEF Distance

\* After a shutdown request run_collector begins no other cycle, and every step brings
\* it nearer to its end, save for a backoff select in which the sleep is over too and
\* wins: between two chances to see the request are at most nine steps.
THEOREM WindsDown ==
  Spec => /\ [](ToTheEnd \in 0 .. 9)
          /\ [][shutdown => \/ ToTheEnd' < ToTheEnd
                            \/ InitWaitOver \/ BackoffOver \/ LoseConnection]_vars
          /\ [][shutdown /\ pc' \in {"pre_poll", "read"} => pc \in {"pre_poll", "read"}]_vars
<1> DEFINE Nearer == shutdown => ToTheEnd' < ToTheEnd \/ InitWaitOver \/ BackoffOver \/ LoseConnection
<1>1. Next => Nearer \/ UNCHANGED vars
  <2> SUFFICES ASSUME Next, shutdown
               PROVE  ToTheEnd' < ToTheEnd \/ InitWaitOver \/ BackoffOver \/ LoseConnection \/ UNCHANGED vars
    OBVIOUS
  <2> USE Distances DEF ToTheEnd
  <2>1. CASE ConnectOk BY <2>1 DEF ConnectOk
  <2>2. CASE ConnectErr BY <2>2 DEF ConnectErr
  <2>3. CASE InitWritesOk BY <2>3 DEF InitWritesOk
  <2>4. CASE InitWritesErr BY <2>4 DEF InitWritesErr
  <2>5. CASE StartPoll BY <2>5 DEF StartPoll, Exit
  <2>6. CASE PrePollOk BY <2>6 DEF PrePollOk
  <2>7. CASE PrePollErr BY <2>7 DEF PrePollErr
  <2>8. CASE ReadLost BY <2>8 DEF ReadLost, ReadOutcome
  <2>9. CASE ReadDone BY <2>9 DEF ReadDone, ReadOutcome
  <2>10. CASE Publish BY <2>10 DEF Publish, Exit
  <2>11. CASE SleepOver BY <2>11 DEF SleepOver
  <2>12. CASE Drop BY <2>12 DEF Drop
  <2>13. CASE ReconnectOk BY <2>13 DEF ReconnectOk
  <2>14. CASE ReconnectErr BY <2>14 DEF ReconnectErr
  <2>15. CASE ReinitOk BY <2>15 DEF ReinitOk
  <2>16. CASE ReinitErr BY <2>16 DEF ReinitErr
  <2>17. CASE ShutdownBranch
    <3>1. pc' = "done" /\ pc \in {"init_wait", "init_wait_down", "sleep", "backoff"}
      BY <2>17 DEF ShutdownBranch, InitWaitExit, SleepExit, BackoffExit, Exit
    <3> QED BY <3>1
  <2>18. CASE RequestShutdown BY <2>18 DEF RequestShutdown
  <2>19. CASE Terminated BY <2>19 DEF Terminated
  <2> QED
    BY <2>1, <2>2, <2>3, <2>4, <2>5, <2>6, <2>7, <2>8, <2>9, <2>10, <2>11, <2>12,
       <2>13, <2>14, <2>15, <2>16, <2>17, <2>18, <2>19
       DEF Next, Task, Connect, Poll, Reconnect
<1>2. TypeOK => ToTheEnd \in 0 .. 9
  BY Distances DEF TypeOK, ToTheEnd, Connecting, Polling, Reconnecting
<1> DEFINE Quiet == shutdown /\ pc' \in {"pre_poll", "read"} => pc \in {"pre_poll", "read"}
<1>3. [Next]_vars => Quiet \/ UNCHANGED vars
  <2> SUFFICES ASSUME Next, shutdown PROVE Quiet
    OBVIOUS
  <2>1. CASE Connect
    BY <2>1 DEF Connect, ConnectOk, ConnectErr, InitWritesOk, InitWritesErr, InitWaitOver
  <2>2. CASE StartPoll BY <2>2 DEF StartPoll, Exit
  <2>3. CASE PrePollOk \/ PrePollErr BY <2>3 DEF PrePollOk, PrePollErr
  <2>4. CASE ReadLost \/ ReadDone BY <2>4 DEF ReadLost, ReadDone
  <2>5. CASE Publish \/ SleepOver BY <2>5 DEF Publish, SleepOver, Exit
  <2>6. CASE Reconnect
    BY <2>6 DEF Reconnect, Drop, BackoffOver, ReconnectOk, ReconnectErr, ReinitOk, ReinitErr
  <2>7. CASE ShutdownBranch
    BY <2>7 DEF ShutdownBranch, InitWaitExit, SleepExit, BackoffExit, Exit
  <2>8. CASE RequestShutdown \/ LoseConnection \/ Terminated
    BY <2>8 DEF RequestShutdown, LoseConnection, Terminated, vars
  <2> QED BY <2>1, <2>2, <2>3, <2>4, <2>5, <2>6, <2>7, <2>8 DEF Next, Task, Poll
<1> QED BY <1>1, <1>2, <1>3, TypeCorrect, PTL DEF Spec
===============================================================================
