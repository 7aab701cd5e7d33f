------------------------------- MODULE Presence -------------------------------
(***************************************************************************)
(* The MQTT exporter as its subscribers see it, at the broker: connections  *)
(* on each of which it first says that it is online, then sends metrics,    *)
(* and may say that it is offline and take its leave.  A connection that    *)
(* ends in any other way, or is taken over by the next one, is declared     *)
(* offline by the broker.  So the retained status is "online" only while    *)
(* somebody is there who said so on this very connection.                   *)
(***************************************************************************)
VARIABLES
  session,  \* the broker holds a session of the exporter
  status,   \* the retained status
  last      \* the last message on the connection

presenceVars == <<session, status, last>>

PresenceInit == session = FALSE /\ status = "none" /\ last = "none"

\* A connection, possibly one that takes over a session.
Arrive ==
  /\ session' = TRUE /\ last' = "none"
  /\ status' = IF session THEN "offline" ELSE status

\* What may be heard after what.
Follows(m) ==
  CASE m = "online"     -> last = "none"
    [] m = "metric"     -> last \in {"online", "metric"}
    [] m = "offline"    -> last \in {"online", "metric"}
    [] m = "disconnect" -> last = "offline"

Hear(m) ==
  /\ session /\ Follows(m)
  /\ last' = m
  /\ status' = IF m \in {"online", "offline"} THEN m ELSE status
  /\ session' = (m # "disconnect")

\* The will.
Vanish ==
  /\ session /\ session' = FALSE
  /\ status' = "offline"
  /\ UNCHANGED last

PresenceNext == Arrive \/ Vanish \/ \E m \in {"online", "metric", "offline", "disconnect"} : Hear(m)

PresenceSpec == PresenceInit /\ [][PresenceNext]_presenceVars
===============================================================================
