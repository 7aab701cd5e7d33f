------------------------------- MODULE StoreFeed -------------------------------
(***************************************************************************)
(* What the exporters of the daemon make of the MetricStore, for those who  *)
(* see only their output.  The store is never locked as a whole, so an      *)
(* export is not a snapshot of one instant.  It is regular, though: what it *)
(* shows of a collector, that collector had in the store at some moment     *)
(* between the begin and the end of the export.  Several exports may be     *)
(* under way at the same time.                                              *)
(*                                                                          *)
(* What the OTLP exporter shows is collected name by name, and it may show  *)
(* something new meanwhile.  So the backend receives of each metric what    *)
(* one export showed, but not the same one for all of them.                 *)
(*                                                                          *)
(* A slot is abstracted to the number of times it was published.            *)
(***************************************************************************)
EXTENDS Naturals

CONSTANTS
  Collectors,
  Walkers,     \* those who export, "otlp" among them
  Names,       \* of metrics
  Metrics      \* which collector has a metric of which name, a set of pairs

VARIABLES
  store,       \* publications per collector
  busy,        \* those with an export under way
  since,       \* the store when that export began
  shown,       \* the last export of each
  offered,     \* what "otlp" has shown during the collection under way
  received     \* what the OTLP backend has of each metric

feedVars == <<store, busy, since, shown, offered, received>>

Nothing == [c \in Collectors |-> 0]

FeedInit ==
  /\ store = Nothing /\ busy = {} /\ offered = {}
  /\ received = [m \in Metrics |-> 0]
  /\ since = [w \in Walkers |-> Nothing]
  /\ shown = [w \in Walkers |-> Nothing]

\* A collector replaces its slot.
PublishOne(c) ==
  /\ store' = [store EXCEPT ![c] = @ + 1]
  /\ UNCHANGED <<busy, since, shown, offered, received>>

\* An export of w begins.
BeginExport(w) ==
  /\ w \notin busy /\ busy' = busy \cup {w}
  /\ since' = [since EXCEPT ![w] = store]
  /\ UNCHANGED <<store, shown, offered, received>>

\* It ends: every collector as it was at some moment since then.
Show(w) ==
  /\ w \in busy /\ busy' = busy \ {w}
  /\ shown' \in [Walkers -> [Collectors -> Nat]]
  /\ \A c \in Collectors : since[w][c] <= shown'[w][c] /\ shown'[w][c] <= store[c]
  /\ \A x \in Walkers \ {w} : shown'[x] = shown[x]
  /\ since' = [since EXCEPT ![w] = Nothing]
  /\ offered' = IF w = "otlp" /\ offered # {} THEN offered \cup {shown'[w]} ELSE offered
  /\ UNCHANGED <<store, received>>

\* A collection for the backend begins,
BeginCollection ==
  /\ offered = {} /\ offered' = {shown["otlp"]}
  /\ UNCHANGED <<store, busy, since, shown, received>>

\* and ends: of each name the backend receives what was shown once during it, or it
\* receives nothing.
EndCollection ==
  /\ offered # {} /\ offered' = {}
  /\ \/ \E of \in [Names -> offered] : received' = [m \in Metrics |-> of[m[1]][m[2]]]
     \/ UNCHANGED received
  /\ UNCHANGED <<store, busy, since, shown>>

FeedNext ==
  \/ \E c \in Collectors : PublishOne(c)
  \/ \E w \in Walkers : BeginExport(w) \/ Show(w)
  \/ BeginCollection \/ EndCollection

FeedSpec == FeedInit /\ [][FeedNext]_feedVars
===============================================================================
