---------------------------- MODULE MCMqttExporter ----------------------------
(* MqttExporter with a queue smaller than one tick's metrics, so that publish   *)
(* has to wait for room.                                                        *)
EXTENDS MqttExporter
===============================================================================
