-------------------------------- MODULE MCScrape --------------------------------
(* A collector of two metrics whose bus fails as it likes, and one reply.           *)
EXTENDS Scrape

MCMetrics == {"power", "energy"}
MCErrorName == [m \in MCMetrics |-> m \o "_errors"]
AnyReader == {TRUE, FALSE}
===============================================================================
