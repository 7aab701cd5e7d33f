----------------------------- MODULE MqttExporter -----------------------------
(***************************************************************************)
(* The MQTT exporter task (run_mqtt_exporter, src/exporter/mqtt/mod.rs),    *)
(* the event loop task it spawns for every client, the bounded request      *)
(* queue between the two, and the broker with the last will it holds.       *)
(*                                                                          *)
(* pc is the await point of the exporter task.  The event loop and the      *)
(* broker are rumqttc and an MQTT 3.1.1 server: an event loop that stops    *)
(* drops its end of the queue, so that every later publish fails, and a     *)
(* broker publishes the will of a session that ends without DISCONNECT or   *)
(* is taken over.  A metric message is not told from another one.           *)
(***************************************************************************)
EXTENDS Integers, Sequences

CONSTANTS
  QueueCap,    \* capacity of AsyncClient's request channel (64 in the code)
  MaxMetrics,  \* bound: metrics in the store at one tick
  MaxBackoff   \* max_backoff in units of the initial delay (60 in the code)

ASSUME MqttAssumption ==
  QueueCap \in Nat \ {0} /\ MaxMetrics \in Nat /\ MaxBackoff \in Nat \ {0}

VARIABLES
  pc,         \* the await point of run_mqtt_exporter
  cancel,     \* the daemon's CancellationToken
  todo,       \* metrics of the current tick not yet handed to the client
  backoff,
  loop,       \* the event loop task: "running" or "stopped"
  net,        \* its connection to the broker is up
  queue,      \* requests accepted from the client and not yet sent
  lost,       \* the event loop sent false on the watch channel, not yet seen
  session,    \* the broker holds a session, with its will, of this client id
  status,     \* the retained message of <topic_prefix>/status at the broker
  last        \* the last message the broker got on the connection

task == <<pc, todo, backoff>>
client == <<loop, net, queue, lost>>
broker == <<session, status, last>>
vars == <<task, cancel, client, broker>>

Messages == {"online", "offline", "metric", "disconnect"}

Init ==
  /\ pc = "setup" /\ todo = 0 /\ backoff = 1
  /\ cancel = FALSE
  /\ loop = "stopped" /\ net = FALSE /\ queue = <<>> /\ lost = FALSE
  /\ session = FALSE /\ status = "none" /\ last = "none"

RequestCancel ==
  /\ ~cancel /\ cancel' = TRUE
  /\ UNCHANGED <<task, client, broker>>

-------------------------------------------------------------------------------
(***************************************************************************)
(* client.publish(..).await: accepted when there is room, refused when the  *)
(* event loop is gone, pending otherwise.                                   *)
(***************************************************************************)
Accepted(msg) ==
  /\ loop = "running" /\ Len(queue) < QueueCap
  /\ queue' = Append(queue, msg)
  /\ UNCHANGED <<loop, net, lost>>
Refused == loop = "stopped" /\ UNCHANGED client

-------------------------------------------------------------------------------
(***************************************************************************)
(* The event loop task.                                                     *)
(***************************************************************************)
Stop ==
  /\ loop' = "stopped" /\ net' = FALSE /\ queue' = <<>>

\* eventloop.poll() connects.  The broker ends an older session of the same
\* client id and publishes its will.
LoopConnect ==
  /\ loop = "running" /\ ~net
  /\ net' = TRUE /\ last' = "none"
  /\ session' = TRUE
  /\ status' = IF session THEN "offline" ELSE status
  /\ UNCHANGED <<task, cancel, loop, queue, lost>>

\* eventloop.poll() sends the oldest request.
LoopSend ==
  /\ loop = "running" /\ net /\ queue # <<>>
  /\ queue' = Tail(queue) /\ last' = Head(queue)
  /\ status' = IF Head(queue) \in {"online", "offline"} THEN Head(queue) ELSE status
  /\ session' = (session /\ Head(queue) # "disconnect")
  /\ UNCHANGED <<task, cancel, loop, net, lost>>

\* eventloop.poll() fails: refused, connection lost, or closed after DISCONNECT.
LoopErrRetries ==                           \* Mutant: warn and poll again.
  /\ loop = "running"
  /\ net' = FALSE /\ lost' = lost
  /\ UNCHANGED <<task, cancel, loop, queue, broker>>
LoopErr ==
  /\ loop = "running"
  /\ Stop /\ lost' = TRUE
  /\ UNCHANGED <<task, cancel, broker>>

LoopCancel ==
  /\ loop = "running" /\ cancel
  /\ Stop
  /\ UNCHANGED <<task, cancel, lost, broker>>

EventLoop == LoopConnect \/ LoopSend \/ LoopErr \/ LoopCancel

\* The broker notices that the connection of a session is gone and publishes the
\* will that set_last_will gave it.
WillNotSet ==                               \* Mutant: set_last_will is missing.
  /\ session /\ ~net
  /\ session' = FALSE
  /\ UNCHANGED <<task, cancel, client, status, last>>
WillPublished ==
  /\ session /\ ~net
  /\ session' = FALSE /\ status' = "offline"
  /\ UNCHANGED <<task, cancel, client, last>>

-------------------------------------------------------------------------------
(***************************************************************************)
(* The exporter task.                                                       *)
(***************************************************************************)
\* No endpoint or unreadable certificates: the task ends.
Setup ==
  /\ pc = "setup" /\ pc' \in {"create", "done"}
  /\ UNCHANGED <<todo, backoff, cancel, client, broker>>

\* AsyncClient::new, a new watch channel and the event loop's task.
Create ==
  /\ pc = "create" /\ pc' = "online"
  /\ loop' = "running" /\ net' = FALSE /\ queue' = <<>> /\ lost' = FALSE
  /\ UNCHANGED <<todo, backoff, cancel, broker>>

\* The online status was queued: "connected", whatever the event loop does.
OnlineOk ==
  /\ pc = "online" /\ Accepted("online")
  /\ backoff' = 1 /\ pc' = "select"
  /\ UNCHANGED <<todo, cancel, broker>>

OnlineErr ==
  /\ pc = "online" /\ Refused
  /\ pc' = "join"
  /\ UNCHANGED <<todo, backoff, cancel, broker>>

SelectCancelNoStatus ==                     \* Mutant: no offline status.
  /\ pc = "select" /\ cancel
  /\ pc' = "disconnect"
  /\ UNCHANGED <<todo, backoff, cancel, client, broker>>
SelectCancel ==
  /\ pc = "select" /\ cancel
  /\ pc' = "offline"
  /\ UNCHANGED <<todo, backoff, cancel, client, broker>>

SelectLostForgotten ==                      \* Mutant: the flag is seen, not acted on.
  /\ pc = "select" /\ lost /\ lost' = FALSE
  /\ UNCHANGED <<task, cancel, loop, net, queue, broker>>
SelectLost ==
  /\ pc = "select" /\ lost /\ lost' = FALSE
  /\ pc' = "join"
  /\ UNCHANGED <<todo, backoff, cancel, loop, net, queue, broker>>

\* connected_rx.changed() fails when the event loop was cancelled: select again.
SelectClosed ==
  /\ pc = "select" /\ loop = "stopped" /\ ~lost
  /\ UNCHANGED vars

\* The interval is over: snapshot the store.
Tick ==
  /\ pc = "select" /\ pc' = "publish"
  /\ todo' \in 0 .. MaxMetrics
  /\ UNCHANGED <<backoff, cancel, client, broker>>

\* The metrics one by one; a failure is logged.
PublishRetries ==                           \* Mutant: a refused metric is tried again.
  /\ pc = "publish" /\ todo > 0
  /\ \/ Accepted("metric") /\ todo' = todo - 1
     \/ Refused /\ UNCHANGED todo
  /\ UNCHANGED <<pc, backoff, cancel, broker>>
Publish ==
  /\ pc = "publish" /\ todo > 0
  /\ Accepted("metric") \/ Refused
  /\ todo' = todo - 1
  /\ UNCHANGED <<pc, backoff, cancel, broker>>

PublishEnd ==
  /\ pc = "publish" /\ todo = 0
  /\ pc' = "select"
  /\ UNCHANGED <<todo, backoff, cancel, client, broker>>

Offline ==
  /\ pc = "offline" /\ (Accepted("offline") \/ Refused)
  /\ pc' = "disconnect"
  /\ UNCHANGED <<todo, backoff, cancel, broker>>

Disconnect ==
  /\ pc = "disconnect" /\ (Accepted("disconnect") \/ Refused)
  /\ pc' = "join_last"
  /\ UNCHANGED <<todo, backoff, cancel, broker>>

\* loop_handle.await.
JoinLast ==
  /\ pc = "join_last" /\ loop = "stopped"
  /\ pc' = "done"
  /\ UNCHANGED <<todo, backoff, cancel, client, broker>>

Join ==
  /\ pc = "join" /\ loop = "stopped"
  /\ pc' = IF cancel THEN "done" ELSE "wait"
  /\ UNCHANGED <<todo, backoff, cancel, client, broker>>

DoubleUncapped(b) == 2 * b                  \* Mutant: min(max_backoff) is missing.
Double(b) == IF 2 * b < MaxBackoff THEN 2 * b ELSE MaxBackoff

WaitOver ==
  /\ pc = "wait" /\ pc' = "create"
  /\ backoff' = Double(backoff)
  /\ UNCHANGED <<todo, cancel, client, broker>>

WaitCancel ==
  /\ pc = "wait" /\ cancel
  /\ pc' = "done"
  /\ UNCHANGED <<todo, backoff, cancel, client, broker>>

Stopped == pc = "done" /\ UNCHANGED vars

Exporter ==
  \/ Setup \/ Create \/ OnlineOk \/ OnlineErr \/ SelectCancel \/ SelectLost
  \/ SelectClosed \/ Tick \/ Publish \/ PublishEnd \/ Offline \/ Disconnect
  \/ JoinLast \/ Join \/ WaitOver \/ WaitCancel

Next == Exporter \/ EventLoop \/ WillPublished \/ RequestCancel \/ Stopped

Spec == Init /\ [][Next]_vars

(***************************************************************************)
(* Both tasks are scheduled fairly and a select with several ready branches *)
(* picks at random.  poll() returns while it has something to do: a connect *)
(* attempt, a request to send, a connection closed after DISCONNECT; an     *)
(* idle connection may stay idle.  A connection that died silently times    *)
(* out, so the broker publishes its will.                                   *)
(*                                                                          *)
(* BrokerAnswers is an assumption on the network: attempts that are         *)
(* repeated for ever sometimes succeed, with the first publish queued, and  *)
(* last until it is sent.                                                   *)
(***************************************************************************)
Busy == ~net \/ queue # <<>> \/ ~session
Fairness ==
  /\ WF_vars(Exporter) /\ WF_vars(LoopCancel) /\ WF_vars(WillPublished)
  /\ WF_vars(Busy /\ (LoopConnect \/ LoopSend \/ LoopErr))
  /\ SF_vars(SelectCancel) /\ SF_vars(SelectLost) /\ SF_vars(WaitCancel)
BrokerAnswers ==
  /\ SF_vars(OnlineOk)
  /\ SF_vars(queue # <<>> /\ LoopConnect)
  /\ SF_vars(LoopSend)

FairSpec == Spec /\ Fairness
AnsweringSpec == FairSpec /\ BrokerAnswers
-------------------------------------------------------------------------------
(***************************************************************************)
(* Properties.                                                              *)
(***************************************************************************)
TypeOK ==
  /\ pc \in {"setup", "create", "online", "select", "publish", "offline", "disconnect",
             "join_last", "join", "wait", "done"}
  /\ cancel \in BOOLEAN /\ todo \in 0 .. MaxMetrics /\ backoff \in 1 .. MaxBackoff
  /\ loop \in {"running", "stopped"} /\ net \in BOOLEAN /\ lost \in BOOLEAN
  /\ queue \in Seq(Messages) /\ Len(queue) <= QueueCap
  /\ session \in BOOLEAN /\ status \in {"none", "online", "offline"}
  /\ last \in Messages \cup {"none"}

\* A retained "online" is always backed by a session whose will says "offline":
\* no way to end leaves subscribers with an exporter that seems to be running.
OnlineHasWill == status = "online" => session

\* No metric reaches the broker over a connection that has not announced itself
\* as online first, also after any number of reconnects.
MetricsOnlyOnline ==
  [][queue # <<>> /\ Head(queue) = "metric" /\ queue' = Tail(queue) /\ net'
     => status = "online"]_vars

\* Subscribers see connections that are announced, used, and closed or declared
\* dead, whatever becomes of the event loops that make them.
AtBroker == INSTANCE Presence
ImplementsPresence == AtBroker!PresenceSpec

\* The exporter ends after a cancellation, also when its queue is full and
\* nobody drains it.
CancelCompletes == cancel ~> pc = "done"

\* When it has ended the retained status becomes "offline" (or never existed).
OfflineAtLast == pc = "done" ~> status # "online"

\* A lost connection is made again and announced, unless the exporter is cancelled.
Reannounced == pc = "join" ~> status = "online" \/ cancel
===============================================================================
