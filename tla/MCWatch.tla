-------------------------------- MODULE MCWatch --------------------------------
(* Two collectors with up to two metrics each, of one kind or of both.           *)
EXTENDS Watch

MCConfigs == [Collectors -> [kind : {"modbus", "bytes"}, metrics : SUBSET Metrics]]
===============================================================================
