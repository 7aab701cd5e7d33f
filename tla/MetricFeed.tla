------------------------------ MODULE MetricFeed ------------------------------
(***************************************************************************)
(* What one collector promises to the exporters that read its slot of the  *)
(* MetricStore, whatever happens to its bus: the slot is a snapshot that    *)
(* is replaced as a whole; a metric in it is either refreshed by the poll   *)
(* cycle that is open at that moment or left exactly as it was; a metric    *)
(* that was once there never goes away; error counters only grow.  A metric *)
(* with the name of another one's counter shares its entry.                 *)
(* A value is abstracted to the number of the poll cycle that read it.      *)
(***************************************************************************)
EXTENDS Naturals

CONSTANTS
  Metrics,   \* the configured metrics of the collector
  Counters   \* the names of the per-metric error counters

VARIABLES
  feed,      \* feed[n]: cycle that read metric n, or value of counter n; 0 = absent
  clock,     \* number of poll cycles begun
  open,      \* the current cycle may still publish
  good       \* the metrics it has read

feedVars == <<feed, clock, open, good>>

Names == Metrics \cup Counters

FeedInit ==
  /\ feed = [n \in Names |-> 0]
  /\ clock = 0
  /\ open = FALSE
  /\ good = {}

\* A poll cycle begins (or, during shutdown, is counted and given up at once).
Begin ==
  /\ ~open
  /\ clock' = clock + 1
  /\ open' \in BOOLEAN
  /\ UNCHANGED <<feed, good>>

\* The cycle has read some of the metrics.
Observe ==
  /\ open /\ good = {}
  /\ good' \in SUBSET Metrics
  /\ UNCHANGED <<feed, clock, open>>

\* The cycle ends without publishing: pre_poll failed or the connection was lost.
Abandon ==
  /\ open /\ good = {}
  /\ open' = FALSE
  /\ UNCHANGED <<feed, clock, good>>

\* The cycle publishes: exactly the metrics it read are refreshed, all others
\* are retained, no error counter falls and no entry goes away.  An entry that is
\* a metric and the counter of another one only has that last promise.
Refresh ==
  /\ open
  /\ open' = FALSE
  /\ good' = {}
  /\ UNCHANGED clock
  /\ feed' \in [Names -> Nat]
  /\ \A m \in Metrics \ Counters : feed'[m] = IF m \in good THEN clock ELSE feed[m]
  /\ \A c \in Counters \ Metrics : feed'[c] >= feed[c]
  /\ \A n \in Names : feed[n] # 0 => feed'[n] # 0

FeedNext == Begin \/ Observe \/ Abandon \/ Refresh

FeedSpec == FeedInit /\ [][FeedNext]_feedVars
===============================================================================
