-------------------------------- MODULE MCDaemon --------------------------------
(* Two collectors, each with a metric of its own for OTLP to collect.       *)
(* Exporters meet only in the store and at the end, so they walk it one     *)
(* kind at a time: OTLP while both publish, two scrapes that overlap while  *)
(* one does.  Two kinds are joined when no collector could be created.      *)
EXTENDS Daemon

CONSTANTS c1, c2, n1, n2

AllExporters == {"otlp", "prometheus", "mqtt"}
OnlyOtlp == {"otlp"}
OwnMetrics == {<<n1, c1>>, <<n2, c2>>}

Otlp == {<<Collectors, {"otlp"}>>}
EachKind ==
  Otlp \cup {<<Collectors, {"mqtt"}>>, <<{}, {"prometheus", "mqtt"}>>}
       \cup {<<{c}, {"prometheus"}>> : c \in Collectors}
===============================================================================
