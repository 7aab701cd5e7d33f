------------------------------ MODULE MCCollector ------------------------------
(* Small instances of Collector: two metrics named as in the configuration, *)
(* the second one like the error counter of the first.                      *)
EXTENDS Collector, Sequences

MCMetrics == {"power", "power_errors"}
MCErrorName == [m \in MCMetrics |-> m \o "_errors"]
AnyReader == {TRUE, FALSE}
===============================================================================
