------------------------------ MODULE SingleReads ------------------------------
(***************************************************************************)
(* What the caller of a batch read is promised, however the batch is read:  *)
(* from the call to the return each metric gets one answer, which is one    *)
(* that reading this metric alone could have given, and keeps it.  Several  *)
(* metrics may get theirs at once.                                          *)
(***************************************************************************)
CONSTANTS
  Metrics,
  NotYet      \* the metric has no answer

VARIABLES
  possible,   \* the answers that reading a metric alone could give
  answer,
  returned    \* the call has returned

callVars == <<possible, answer, returned>>

Open == {m \in Metrics : answer[m] = NotYet}

\* Some metrics are answered without a look at the device.
CallInit ==
  /\ DOMAIN possible = Metrics /\ DOMAIN answer = Metrics
  /\ \A m \in Metrics : answer[m] = NotYet \/ answer[m] \in possible[m]
  /\ returned = FALSE

\* One or more metrics are answered, and the others are left alone.
Answer ==
  /\ ~returned
  /\ DOMAIN answer' = Metrics
  /\ \E M \in SUBSET Open :
       /\ M # {}
       /\ \A m \in M : answer'[m] \in possible[m]
       /\ \A m \in Metrics \ M : answer'[m] = answer[m]
  /\ UNCHANGED <<possible, returned>>

Return ==
  /\ ~returned /\ Open = {}
  /\ returned' = TRUE
  /\ UNCHANGED <<possible, answer>>

CallNext == Answer \/ Return

CallSpec == CallInit /\ [][CallNext]_callVars
===============================================================================
