------------------------------ MODULE WatchProofs -------------------------------
(***************************************************************************)
(* Proofs about Watch, for every set of collectors and metrics, every       *)
(* configuration, every filter and any number of passes.                    *)
(***************************************************************************)
EXTENDS Watch, FiniteSetTheorems, TLAPS

\* The collector that the pass is at, and those it is through with.
InHand == IF pc \in {"connect", "read", "reading", "disconnect"} THEN {at} ELSE {}
Through == Chosen \ (left \cup InHand)

\* A collector is taken once; what is read is among its metrics.
HandInv ==
  /\ InHand \cap left = {}
  /\ pc \in {"read", "reading", "disconnect"} =>
       unread \subseteq selected[at].metrics /\ good \subseteq selected[at].metrics

\* The counters of the pass are those of the collectors it is through with.
CountInv ==
  /\ total_metrics = Cardinality(Pairs(Through))
  /\ successful + failed = total_metrics

\* The totals are those of the passes that are over.
PassInv ==
  IF command = "pull"
  THEN /\ pc \notin {"top", "sleep"}
       /\ iteration = 0 /\ total_successful = 0 /\ total_failed = 0
       /\ pc = "exited" /\ Chosen # {} => left = {} /\ (exit_code = 0 <=> failed = 0)
  ELSE /\ pc = "sleep" => left = {}
       /\ total_successful + total_failed =
            (IF pc \in {"top", "sleep", "exited"} THEN iteration ELSE iteration - 1) * All
       /\ pc \notin {"top", "exited"} => iteration >= 1
       /\ pc = "exited" /\ Chosen # {} => (exit_code = 0 <=> total_failed = 0)

IInv == TypeOK /\ HandInv /\ CountInv /\ PassInv
-------------------------------------------------------------------------------
\* The size of a union of two sets that have nothing in common.
LEMMA DisjointUnion ==
  ASSUME NEW S, NEW T, IsFiniteSet(S), IsFiniteSet(T), S \cap T = {}
  PROVE  /\ Cardinality(S) \in Nat /\ Cardinality(T) \in Nat
         /\ Cardinality(S \cup T) = Cardinality(S) + Cardinality(T)
  <1>1. Cardinality(S) \in Nat /\ Cardinality(T) \in Nat
    BY FS_CardinalityType
  <1>2. Cardinality(S \cup T) = Cardinality(S) + Cardinality(T) - Cardinality({})
    BY FS_Union
  <1> QED BY <1>1, <1>2, FS_EmptySet

\* The selected metrics of some collectors are finitely many.
LEMMA PairsFinite ==
  ASSUME TypeOK, NEW S \in SUBSET Chosen
  PROVE  IsFiniteSet(Pairs(S)) /\ Cardinality(Pairs(S)) \in Nat
  <1>1. IsFiniteSet(S)
    BY FS_Subset, WatchAssumption DEF TypeOK
  <1>2. IsFiniteSet(S \X Metrics)
    BY <1>1, FS_Product, WatchAssumption
  <1>3. Pairs(S) \in SUBSET (S \X Metrics)
    BY DEF Pairs
  <1> QED BY <1>2, <1>3, FS_Subset, FS_CardinalityType

\* The selected metrics of a collector are some of all metrics.
LEMMA MetricsOf ==
  ASSUME TypeOK, NEW c \in Chosen
  PROVE  /\ selected[c].metrics \in SUBSET Metrics
         /\ IsFiniteSet(selected[c].metrics)
  <1>1. selected[c].metrics \in SUBSET Metrics
    BY DEF TypeOK, Selection
  <1> QED BY <1>1, FS_Subset, WatchAssumption

\* One collector more adds its metrics to the pairs.
LEMMA AddCollector ==
  ASSUME TypeOK, NEW S \in SUBSET Chosen, NEW c \in Chosen, c \notin S
  PROVE  Cardinality(Pairs(S \cup {c})) = Cardinality(Pairs(S)) + Cardinality(selected[c].metrics)
  <1> DEFINE M == selected[c].metrics
             new == {c} \X M
  <1>1. IsFiniteSet(M) /\ M \in SUBSET Metrics
    BY MetricsOf
  <1>2. IsFiniteSet(new) /\ Cardinality(new) = Cardinality(M)
    <2>1. IsFiniteSet({c}) /\ Cardinality({c}) = 1
      BY FS_Singleton
    <2>2. IsFiniteSet(new) /\ Cardinality(new) = 1 * Cardinality(M)
      BY <1>1, <2>1, FS_Product
    <2>3. Cardinality(M) \in Nat
      BY <1>1, FS_CardinalityType
    <2> QED BY <2>2, <2>3
  <1>3. Pairs(S \cup {c}) = Pairs(S) \cup new /\ Pairs(S) \cap new = {}
    BY <1>1 DEF Pairs
  <1>4. IsFiniteSet(Pairs(S))
    BY PairsFinite
  <1> HIDE DEF new, M
  <1>5. Cardinality(Pairs(S) \cup new) = Cardinality(Pairs(S)) + Cardinality(new)
    BY <1>2, <1>3, <1>4, DisjointUnion
  <1>6. Cardinality(Pairs(S \cup {c})) = Cardinality(Pairs(S)) + Cardinality(M)
    BY <1>2, <1>3, <1>5
  <1> QED BY <1>6 DEF M

\* What was read of some metrics and what was not add up to all of them.
LEMMA Split ==
  ASSUME NEW M, IsFiniteSet(M), NEW ok \in SUBSET M
  PROVE  /\ Cardinality(ok) \in Nat /\ Cardinality(M \ ok) \in Nat
         /\ Cardinality(ok) + Cardinality(M \ ok) = Cardinality(M)
  <1> DEFINE rest == M \ ok
  <1>1. IsFiniteSet(ok) /\ IsFiniteSet(rest)
    BY FS_Subset
  <1>2. ok \cap rest = {} /\ ok \cup rest = M
    OBVIOUS
  <1> HIDE DEF rest
  <1>3. /\ Cardinality(ok) \in Nat /\ Cardinality(rest) \in Nat
        /\ Cardinality(ok \cup rest) = Cardinality(ok) + Cardinality(rest)
    BY <1>1, <1>2, DisjointUnion
  <1> QED BY <1>2, <1>3 DEF rest

\* Counting the metrics of the collector that the pass gets through with.
LEMMA CountStep ==
  ASSUME TypeOK, CountInv, NEW c \in Chosen, c \notin Through,
         NEW ok \in SUBSET selected[c].metrics,
         Count(selected[c].metrics, ok), UNCHANGED selected, Through' = Through \cup {c}
  PROVE  /\ CountInv'
         /\ successful' \in Nat /\ failed' \in Nat /\ total_metrics' \in Nat
  <1>1. IsFiniteSet(selected[c].metrics)
    BY MetricsOf
  <1>2. /\ Cardinality(ok) \in Nat /\ Cardinality(selected[c].metrics \ ok) \in Nat
        /\ Cardinality(ok) + Cardinality(selected[c].metrics \ ok) = Cardinality(selected[c].metrics)
    BY <1>1, Split
  <1>3. Through \in SUBSET Chosen
    BY DEF Through
  <1>4. Cardinality(Pairs(Through \cup {c})) = Cardinality(Pairs(Through)) + Cardinality(selected[c].metrics)
    BY <1>3, AddCollector
  <1>5. Pairs(Through)' = Pairs(Through \cup {c})
    BY DEF Pairs
  <1> QED BY <1>2, <1>4, <1>5 DEF CountInv, Count, TypeOK

-------------------------------------------------------------------------------
\* Before the first pass, and when nothing is selected, the invariant holds.
LEMMA InitIInv == Init => IInv
  <1> SUFFICES ASSUME Init PROVE IInv
    OBVIOUS
  <1>1. PICK config \in Configs, names \in SUBSET Collectors, metrics \in SUBSET Metrics :
          selected = filter_collectors(config, names, metrics)
    BY DEF Init
  <1>2. config \in [Collectors -> Selection]
    BY WatchAssumption DEF Selection
  <1>3. Chosen \subseteq Collectors /\ selected \in [Chosen -> Selection]
    BY <1>1, <1>2 DEF filter_collectors, Chosen, Selection
  <1>4. TypeOK
    <2>1. pc \in {"exited", "next", "top"} /\ exit_code \in 0 .. 2
      BY DEF Init
    <2>2. command \in {"pull", "watch"} /\ left \subseteq Chosen /\ at \in Collectors
      BY DEF Init
    <2>3. open = FALSE /\ cancelled = FALSE /\ unread = {} /\ good = {}
      BY DEF Init
    <2>4. /\ iteration \in 0 .. MaxIterations /\ total_successful \in Nat /\ total_failed \in Nat
          /\ successful \in Nat /\ failed \in Nat /\ total_metrics \in Nat
      BY WatchAssumption DEF Init
    <2> QED BY <1>3, <2>1, <2>2, <2>3, <2>4 DEF TypeOK
  <1>5. Through = {} /\ Pairs({}) = {} /\ HandInv
    BY DEF Init, Through, InHand, HandInv, Pairs
  <1>6. CountInv
    BY <1>5, FS_EmptySet DEF Init, CountInv
  <1>7. All \in Nat
    BY <1>4, PairsFinite DEF All
  <1>8. PassInv
    BY <1>7 DEF Init, PassInv
  <1> QED BY <1>4, <1>5, <1>6, <1>8 DEF IInv

\* One step of collect_once.
LEMMA CollectStep ==
  ASSUME IInv, collect_once
  PROVE  IInv'
  <1> USE DEF IInv, input, reader, counts, totals
  <1>1. UNCHANGED <<command, selected, iteration, total_successful, total_failed, exit_code, cancelled, Chosen>>
    BY DEF collect_once, CreateErr, Create, ConnectErr, ConnectOk, StartRead, ReadOver, Disconnect, ReadMetric, Chosen
  <1>2. UNCHANGED All
    BY <1>1 DEF All, Pairs
  <1>3. PassInv'
    <2>1. /\ pc \notin {"top", "sleep", "exited"} /\ pc' \notin {"top", "sleep", "exited"}
      BY DEF collect_once, CreateErr, Create, ConnectErr, ConnectOk, StartRead, ReadOver, Disconnect, ReadMetric
    <2> QED BY <1>1, <1>2, <2>1 DEF PassInv
  <1>4. ASSUME NEW c \in Collectors, CreateErr(c)
        PROVE  TypeOK' /\ HandInv' /\ CountInv'
    <2>1. c \in Chosen /\ c \notin Through /\ {} \in SUBSET selected[c].metrics
      BY <1>4 DEF CreateErr, TypeOK, Through
    <2>2. Through' = Through \cup {c} /\ HandInv'
      BY <1>1, <1>4, <2>1 DEF CreateErr, Through, InHand, HandInv
    <2>3. CountInv' /\ successful' \in Nat /\ failed' \in Nat /\ total_metrics' \in Nat
      BY <1>1, <1>4, <2>1, <2>2, CountStep DEF CreateErr
    <2> QED BY <1>1, <1>4, <2>2, <2>3 DEF CreateErr, TypeOK
  <1>5. ASSUME ConnectErr
        PROVE  TypeOK' /\ HandInv' /\ CountInv'
    <2>1. at \in Chosen /\ at \notin Through /\ {} \in SUBSET selected[at].metrics
      BY <1>5 DEF ConnectErr, TypeOK, Through, InHand
    <2>2. Through' = Through \cup {at} /\ HandInv'
      BY <1>1, <1>5, <2>1 DEF ConnectErr, Through, InHand, HandInv
    <2>3. CountInv' /\ successful' \in Nat /\ failed' \in Nat /\ total_metrics' \in Nat
      BY <1>1, <1>5, <2>1, <2>2, CountStep DEF ConnectErr
    <2> QED BY <1>1, <1>5, <2>2, <2>3 DEF ConnectErr, TypeOK
  <1>6. ASSUME Disconnect
        PROVE  TypeOK' /\ HandInv' /\ CountInv'
    <2>1. at \in Chosen /\ at \notin Through /\ good \in SUBSET selected[at].metrics
      BY <1>6 DEF Disconnect, TypeOK, Through, InHand, HandInv
    <2>2. Through' = Through \cup {at} /\ HandInv'
      BY <1>1, <1>6, <2>1 DEF Disconnect, Through, InHand, HandInv
    <2>3. CountInv' /\ successful' \in Nat /\ failed' \in Nat /\ total_metrics' \in Nat
      BY <1>1, <1>6, <2>1, <2>2, CountStep DEF Disconnect
    <2> QED BY <1>1, <1>6, <2>2, <2>3 DEF Disconnect, TypeOK
  <1>7. ASSUME (\E c \in Collectors : Create(c)) \/ ConnectOk \/ StartRead \/ ReadOver \/ \E m \in Metrics : ReadMetric(m)
        PROVE  TypeOK' /\ HandInv' /\ CountInv'
    <2>1. TypeOK' /\ HandInv' /\ UNCHANGED <<counts, Through>>
      <3>1. CASE \E c \in Collectors : Create(c)
        BY <1>1, <3>1 DEF Create, TypeOK, HandInv, InHand, Through
      <3>2. CASE ConnectOk
        BY <1>1, <3>2, MetricsOf DEF ConnectOk, TypeOK, HandInv, InHand, Through
      <3>3. CASE StartRead \/ ReadOver
        BY <1>1, <3>3 DEF StartRead, ReadOver, TypeOK, HandInv, InHand, Through
      <3>4. CASE \E m \in Metrics : ReadMetric(m)
        BY <1>1, <3>4 DEF ReadMetric, TypeOK, HandInv, InHand, Through
      <3> QED BY <1>7, <3>1, <3>2, <3>3, <3>4
    <2>2. UNCHANGED Pairs(Through)
      BY <1>1, <2>1 DEF Pairs
    <2> QED BY <2>1, <2>2 DEF CountInv
  <1> QED BY <1>3, <1>4, <1>5, <1>6, <1>7 DEF collect_once

\* One step of run_pull, of run_watch or of Ctrl-C.
LEMMA LoopStep ==
  ASSUME IInv, Pulled \/ StartPass \/ EndPass \/ SleepOver \/ Stop \/ Interrupt
  PROVE  IInv'
  <1> USE DEF IInv, input, reader, counts, totals
  <1>1. UNCHANGED <<command, selected, at, open, unread, good, Chosen>>
    BY DEF Pulled, StartPass, EndPass, SleepOver, Stop, Interrupt, Chosen
  <1>2. UNCHANGED All /\ All \in Nat
    BY <1>1, PairsFinite DEF All, Pairs
  <1>3. TypeOK'
    <2> USE DEF TypeOK
    <2>1. CASE Pulled BY <1>1, <2>1 DEF Pulled, ExitCode
    <2>2. CASE StartPass
      <3>1. iteration' \in 0 .. MaxIterations
        BY <2>2, WatchAssumption DEF StartPass
      <3> QED BY <1>1, <2>2, <3>1 DEF StartPass
    <2>3. CASE EndPass BY <1>1, <2>3 DEF EndPass
    <2>4. CASE SleepOver BY <1>1, <2>4 DEF SleepOver
    <2>5. CASE Stop BY <1>1, <2>5 DEF Stop, ExitCode
    <2>6. CASE Interrupt BY <1>1, <2>6 DEF Interrupt
    <2> QED BY <2>1, <2>2, <2>3, <2>4, <2>5, <2>6
  <1>4. HandInv'
    BY <1>1 DEF HandInv, InHand, Pulled, StartPass, EndPass, SleepOver, Stop, Interrupt
  <1>5. left = {} /\ pc = "next" => Through = Chosen
    BY DEF Through, InHand
  <1>6. CountInv'
    <2>1. CASE StartPass
      <3>1. Through' = {}
        BY <1>1, <2>1 DEF StartPass, Through, InHand
      <3>2. Pairs(Through)' = {}
        BY <3>1 DEF Pairs
      <3> QED BY <2>1, <3>2, FS_EmptySet DEF StartPass, CountInv
    <2>2. CASE ~StartPass
      <3>1. UNCHANGED <<counts, Through>>
        BY <1>1, <2>2 DEF Pulled, EndPass, SleepOver, Stop, Interrupt, Through, InHand
      <3>2. UNCHANGED Pairs(Through)
        BY <1>1, <3>1 DEF Pairs
      <3> QED BY <3>1, <3>2 DEF CountInv
    <2> QED BY <2>1, <2>2
  <1>7. PassInv'
    <2> DEFINE k == All
    <2>1. k \in Nat /\ k' = k
      BY <1>2
    <2>2. (iteration - 1) * k + k = iteration * k
      BY <2>1, WatchAssumption DEF TypeOK
    <2>3. CASE Pulled
      BY <1>1, <2>3 DEF Pulled, PassInv, ExitCode, TypeOK
    <2>4. CASE StartPass
      BY <1>1, <2>1, <2>4 DEF StartPass, PassInv, TypeOK
    <2>5. CASE EndPass
      <3>1. successful + failed = k
        BY <1>5, <2>5 DEF EndPass, CountInv, All
      <3> QED BY <1>1, <2>1, <2>2, <2>5, <3>1 DEF EndPass, PassInv, TypeOK
    <2>6. CASE SleepOver
      BY <1>1, <2>1, <2>6 DEF SleepOver, PassInv, TypeOK
    <2>7. CASE Stop
      BY <1>1, <2>1, <2>7 DEF Stop, PassInv, TypeOK, ExitCode
    <2>8. CASE Interrupt
      BY <1>1, <2>1, <2>8 DEF Interrupt, PassInv, TypeOK
    <2> QED BY <2>3, <2>4, <2>5, <2>6, <2>7, <2>8
  <1> QED BY <1>3, <1>4, <1>6, <1>7

\* A step that changes no variable.
LEMMA StutterStep ==
  ASSUME IInv, UNCHANGED vars
  PROVE  IInv'
  <1> USE DEF IInv, vars, input, reader, counts, totals
  <1>1. UNCHANGED Chosen
    BY DEF Chosen
  <1>2. UNCHANGED <<InHand, Through, All>>
    BY <1>1 DEF InHand, Through, All, Pairs
  <1>3. UNCHANGED Pairs(Through)
    BY <1>2 DEF Pairs
  <1>4. TypeOK' BY <1>1 DEF TypeOK
  <1>5. HandInv' BY <1>2 DEF HandInv
  <1>6. CountInv' BY <1>3 DEF CountInv
  <1>7. PassInv' BY <1>1, <1>2 DEF PassInv
  <1> QED BY <1>4, <1>5, <1>6, <1>7

\* The strengthening: what has been counted is what the pass is through with.
THEOREM InductiveInvariant == Spec => []IInv
  <1>1. IInv /\ [Next]_vars => IInv'
    BY CollectStep, LoopStep, StutterStep DEF Next, Task, Exited
  <1> QED BY <1>1, InitIInv, PTL DEF Spec

\* Every reachable state is well typed.
THEOREM TypeCorrect == Spec => []TypeOK
  BY InductiveInvariant, PTL DEF IInv

\* Every report accounts for every selected metric, and so do the totals and the
\* exit code.
THEOREM ReportsCorrect == Spec => []ReportsAddUp
  <1>1. IInv => ReportsAddUp
    <2> SUFFICES ASSUME IInv PROVE ReportsAddUp
      OBVIOUS
    <2> USE DEF IInv
    <2>1. LinesAddUp
      <3>1. pc \in {"next", "sleep"} /\ left = {} => Through = Chosen
        BY DEF Through, InHand
      <3> QED BY <3>1 DEF LinesAddUp, CountInv, All
    <2>2. All \in Nat
      BY PairsFinite DEF All, TypeOK
    <2>3. pc = "exited" /\ left = {} => total_metrics = All
      <3>1. pc = "exited" /\ left = {} => Through = Chosen
        BY DEF Through, InHand
      <3> QED BY <3>1 DEF CountInv, All
    <2>4. command = "watch" /\ pc \in {"top", "sleep", "exited"}
            => total_successful + total_failed = iteration * All
      BY DEF PassInv
    <2>5. pc = "exited" /\ Chosen # {} /\ command = "pull" => (exit_code = 0 <=> successful = All)
      BY <2>2, <2>3 DEF PassInv, CountInv, TypeOK
    <2>6. pc = "exited" /\ Chosen # {} /\ command = "watch"
            => (exit_code = 0 <=> total_successful = iteration * All)
      BY <2>4 DEF PassInv, TypeOK
    <2> QED BY <2>1, <2>4, <2>5, <2>6 DEF ReportsAddUp, TypeOK
  <1> QED BY <1>1, InductiveInvariant, PTL

\* After an interrupt no pass starts and no metric is asked for on a byte bus.
THEOREM QuietOnInterrupt == Spec => QuietAfterInterrupt
  <1>1. TypeOK /\ [Next]_vars =>
          [cancelled => /\ iteration' = iteration
                        /\ pc # "reading" /\ pc' = "reading" => selected[at].kind = "modbus"]_vars
    <2> SUFFICES ASSUME TypeOK, Next, cancelled
                 PROVE  /\ iteration' = iteration
                        /\ pc # "reading" /\ pc' = "reading" => selected[at].kind = "modbus"
      OBVIOUS
    <2>1. pc \in {"read", "reading"} => selected[at].kind \in {"modbus", "bytes"}
      BY DEF TypeOK, Selection
    <2>2. CASE StartRead
      BY <2>1, <2>2 DEF StartRead, Stops, totals
    <2>3. CASE ~StartRead
      BY <2>3 DEF Next, Task, collect_once, CreateErr, Create, ConnectErr, ConnectOk, ReadMetric, ReadOver,
                  Disconnect, Pulled, StartPass, EndPass, SleepOver, Stop, Interrupt, Exited, vars, totals
    <2> QED BY <2>2, <2>3
  <1> QED BY <1>1, TypeCorrect, PTL DEF Spec, QuietAfterInterrupt

-------------------------------------------------------------------------------
(***************************************************************************)
(* A pass ends, and with it, after an interrupt, the command: each step of  *)
(* the task leaves less to do.                                              *)
(***************************************************************************)
\* The steps that are left of a collector: to connect to it, to read each metric
\* (two), to be through with them and to disconnect.
OfCollector ==
  CASE pc = "connect"    -> 3 + 2 * Cardinality(selected[at].metrics)
    [] pc = "read"       -> 2 + 2 * Cardinality(unread)
    [] pc = "reading"    -> 1 + 2 * Cardinality(unread)
    [] pc = "disconnect" -> 1
    [] OTHER             -> 0
Waiting(S) == 4 * Cardinality(S) + 2 * Cardinality(Pairs(S))

\* The steps that are left of a pass, and to the end of the command.
Work ==
  CASE pc = "exited" -> 0
    [] pc = "top"    -> 1
    [] pc = "sleep"  -> 2
    [] OTHER         -> 3 + Waiting(left) + OfCollector

InPass == pc \in {"next", "connect", "read", "reading", "disconnect"}

\* They are a number.
LEMMA WorkType ==
  ASSUME IInv
  PROVE  /\ Cardinality(unread) \in Nat /\ Cardinality(left) \in Nat /\ Cardinality(Pairs(left)) \in Nat
         /\ InPass => OfCollector \in Nat
         /\ Waiting(left) \in Nat /\ Work \in Nat
         /\ InPass => Work = 3 + Waiting(left) + OfCollector
  <1>1. TypeOK /\ left \in SUBSET Chosen /\ unread \in SUBSET Metrics
    BY DEF IInv, TypeOK
  <1>2. Cardinality(unread) \in Nat /\ Cardinality(left) \in Nat /\ Cardinality(Pairs(left)) \in Nat
    <2>1. IsFiniteSet(unread) /\ IsFiniteSet(left)
      BY <1>1, FS_Subset, WatchAssumption DEF TypeOK
    <2> QED BY <1>1, <2>1, FS_CardinalityType, PairsFinite
  <1>3. pc = "connect" => Cardinality(selected[at].metrics) \in Nat
    BY <1>1, MetricsOf, FS_CardinalityType DEF TypeOK
  <1>4. OfCollector \in Nat
    BY <1>1, <1>2, <1>3 DEF OfCollector, TypeOK
  <1>5. Waiting(left) \in Nat
    BY <1>2 DEF Waiting
  <1> QED BY <1>1, <1>2, <1>4, <1>5 DEF Work, InPass, TypeOK

\* A collector that is taken up was waiting.
LEMMA TakeUp ==
  ASSUME IInv, NEW c \in left
  PROVE  /\ Cardinality(selected[c].metrics) \in Nat
         /\ Waiting(left \ {c}) = Waiting(left) - 4 - 2 * Cardinality(selected[c].metrics)
  <1> DEFINE S == left \ {c}
  <1>1. TypeOK /\ c \in Chosen /\ S \in SUBSET Chosen /\ c \notin S /\ S \cup {c} = left
    BY DEF IInv, TypeOK
  <1>2. Cardinality(selected[c].metrics) \in Nat
    BY <1>1, MetricsOf, FS_CardinalityType
  <1>3. Cardinality(Pairs(left)) = Cardinality(Pairs(S)) + Cardinality(selected[c].metrics)
    BY <1>1, AddCollector
  <1>4. Cardinality(S) = Cardinality(left) - 1 /\ Cardinality(left) \in Nat
    <2>1. IsFiniteSet(left)
      BY FS_Subset, WatchAssumption DEF IInv, TypeOK
    <2> QED BY <2>1, FS_RemoveElement, FS_CardinalityType
  <1>5. Cardinality(Pairs(S)) \in Nat
    BY <1>1, PairsFinite
  <1> QED BY <1>2, <1>3, <1>4, <1>5 DEF Waiting

\* Each step of collect_once is one less to do.
LEMMA CollectCounts ==
  ASSUME IInv, IInv', collect_once
  PROVE  Work' < Work
  <1> USE DEF input, reader, totals
  <1>1. InPass /\ InPass' /\ UNCHANGED selected
    BY DEF collect_once, CreateErr, Create, ConnectErr, ConnectOk, StartRead, ReadOver, Disconnect,
           ReadMetric, InPass
  <1> DEFINE w == Waiting(left)
             w1 == Waiting(left)'
             o == OfCollector
             o1 == OfCollector'
  <1>2. /\ Work = 3 + w + o /\ w \in Nat /\ o \in Nat
    BY <1>1, WorkType
  <1>3. Work' = 3 + w1 + o1
    BY <1>1 DEF Work, InPass
  <1>4. w1 + o1 < w + o /\ w1 \in Nat /\ o1 \in Nat
    <2>1. ASSUME UNCHANGED left PROVE w1 = w
      BY <1>1, <2>1 DEF Waiting, Pairs
    <2>2. ASSUME NEW c \in Collectors, CreateErr(c) \/ Create(c) PROVE w1 + o1 < w + o /\ w1 \in Nat /\ o1 \in Nat
      <3>1. c \in left /\ left' = left \ {c} /\ pc = "next"
        BY <2>2 DEF CreateErr, Create
      <3> DEFINE n == Cardinality(selected[c].metrics)
      <3>2. w1 = w - 4 - 2 * n /\ n \in Nat
        <4>1. Waiting(left)' = Waiting(left \ {c})
          BY <1>1, <3>1 DEF Waiting, Pairs
        <4> QED BY <3>1, <4>1, TakeUp
      <3>3. o = 0
        BY <3>1 DEF OfCollector
      <3>4. o1 = 0 \/ o1 = 3 + 2 * n
        BY <1>1, <2>2 DEF CreateErr, Create, OfCollector
      <3>5. w1 \in Nat
        <4>1. Waiting(left)' = 4 * Cardinality(left') + 2 * Cardinality(Pairs(left'))
          BY <1>1 DEF Waiting, Pairs
        <4>2. Cardinality(left') \in Nat /\ Cardinality(Pairs(left')) \in Nat
          <5>1. TypeOK /\ left' \in SUBSET Chosen /\ Chosen \subseteq Collectors
            BY <3>1 DEF IInv, TypeOK
          <5>2. IsFiniteSet(left')
            BY <5>1, FS_Subset, WatchAssumption
          <5> QED BY <5>1, <5>2, FS_CardinalityType, PairsFinite
        <4> QED BY <4>1, <4>2
      <3> HIDE DEF n, w, w1, o, o1
      <3> QED BY <1>2, <3>2, <3>3, <3>4, <3>5
    <2>3. ASSUME ConnectErr \/ ConnectOk PROVE w1 = w /\ o1 \in Nat /\ o1 < o
      <3> DEFINE n == Cardinality(selected[at].metrics)
      <3>1. w1 = w /\ pc = "connect"
        BY <2>1, <2>3 DEF ConnectErr, ConnectOk
      <3>2. n \in Nat
        BY <3>1, MetricsOf, FS_CardinalityType DEF IInv, TypeOK
      <3>3. o = 3 + 2 * n
        BY <3>1 DEF OfCollector
      <3>4. o1 = 0 \/ o1 = 2 + 2 * n
        BY <2>3 DEF ConnectErr, ConnectOk, OfCollector
      <3> HIDE DEF n, o, o1
      <3> QED BY <3>1, <3>2, <3>3, <3>4
    <2>4. ASSUME StartRead \/ ReadOver \/ Disconnect PROVE w1 = w /\ o1 \in Nat /\ o1 < o
      <3>1. w1 = w /\ Cardinality(unread) \in Nat
        BY <2>1, <2>4, WorkType DEF StartRead, ReadOver, Disconnect
      <3>2. CASE StartRead
        <4>1. o = 2 + 2 * Cardinality(unread) /\ o1 = 1 + 2 * Cardinality(unread)
          BY <3>2 DEF StartRead, OfCollector
        <4> QED BY <3>1, <4>1
      <3>3. CASE ReadOver
        <4>1. o = 2 + 2 * Cardinality(unread) /\ o1 = 1
          BY <3>3 DEF ReadOver, OfCollector
        <4> QED BY <3>1, <4>1
      <3>4. CASE Disconnect
        <4>1. o = 1 /\ o1 = 0
          BY <3>4 DEF Disconnect, OfCollector
        <4> QED BY <3>1, <4>1
      <3> QED BY <2>4, <3>2, <3>3, <3>4
    <2>5. ASSUME NEW m \in Metrics, ReadMetric(m) PROVE w1 = w /\ o1 \in Nat /\ o1 < o
      <3>1. w1 = w /\ m \in unread /\ unread' = unread \ {m} /\ pc = "reading" /\ pc' = "read"
        BY <2>1, <2>5 DEF ReadMetric
      <3>2. Cardinality(unread') = Cardinality(unread) - 1 /\ Cardinality(unread) \in Nat
            /\ Cardinality(unread') \in Nat
        <4>1. IsFiniteSet(unread) /\ IsFiniteSet(unread')
          BY <3>1, FS_Subset, WatchAssumption DEF IInv, TypeOK
        <4> QED BY <3>1, <4>1, FS_RemoveElement, FS_CardinalityType
      <3>3. o = 1 + 2 * Cardinality(unread) /\ o1 = 2 + 2 * Cardinality(unread')
        BY <3>1 DEF OfCollector
      <3> QED BY <3>1, <3>2, <3>3
    <2> HIDE DEF w, w1, o, o1
    <2> QED BY <1>2, <2>2, <2>3, <2>4, <2>5 DEF collect_once
  <1> HIDE DEF w, w1, o, o1
  <1> QED BY <1>2, <1>3, <1>4

\* Only the begin of a pass adds to the work, and after an interrupt nothing does:
\* pull ends, and watch ends after Ctrl-C, in a number of steps that the selection
\* bounds, whatever the readers do.
THEOREM EveryStepCounts ==
  Spec => /\ [](Work \in Nat)
          /\ [][StartPass \/ Interrupt \/ Work' < Work]_vars
          /\ [][cancelled => Work' < Work]_vars
  <1>1. IInv => Work \in Nat
    BY WorkType
  <1>2. IInv /\ IInv' /\ [Next]_vars => [StartPass \/ Interrupt \/ Work' < Work]_vars
    <2> SUFFICES ASSUME IInv, IInv', Task, ~StartPass PROVE Work' < Work
      BY DEF Next, Exited
    <2>1. CASE collect_once
      BY <2>1, CollectCounts
    <2>2. CASE Pulled \/ EndPass
      <3>1. InPass /\ pc' \in {"exited", "sleep"}
        BY <2>2 DEF Pulled, EndPass, InPass
      <3>2. Work' \in {0, 2}
        BY <3>1 DEF Work
      <3>3. Work >= 3
        BY <3>1, WorkType
      <3>4. Work \in Nat
        BY WorkType
      <3> QED BY <3>2, <3>3, <3>4
    <2>3. CASE SleepOver \/ Stop
      BY <2>3 DEF SleepOver, Stop, Work
    <2> QED BY <2>1, <2>2, <2>3 DEF Task
  <1>3. [StartPass \/ Interrupt \/ Work' < Work]_vars => [cancelled => Work' < Work]_vars
    BY DEF StartPass, Interrupt
  <1> QED BY <1>1, <1>2, <1>3, InductiveInvariant, PTL DEF Spec
===============================================================================
