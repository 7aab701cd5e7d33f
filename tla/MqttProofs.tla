------------------------------- MODULE MqttProofs -------------------------------
(***************************************************************************)
(* Proofs about MqttExporter, for every capacity of the queue, number of    *)
(* metrics and cap of the backoff.                                          *)
(***************************************************************************)
EXTENDS MqttExporter, TLAPS

Announcing == queue # <<>> /\ queue[1] = "online"

\* Between the online and the offline status: one has been queued, the other has
\* not been sent.
Present ==
  \/ pc \in {"select", "publish", "offline"}
  \/ pc = "disconnect" /\ queue # <<>>
  \/ pc = "join_last" /\ Len(queue) >= 2

\* The exporter waits for the end of an event loop before it goes on without it.
LoopInv ==
  /\ pc \in {"setup", "create", "join", "wait", "done"} => loop = "stopped"
  /\ loop = "stopped" => queue = <<>> /\ ~net
  /\ lost => loop = "stopped"

\* The messages of a session are online, metrics, offline and DISCONNECT, in that
\* order, and the queue holds the last of them.
QueueInv ==
  /\ pc = "online" => queue = <<>>
  /\ \A i \in DOMAIN queue :
       /\ queue[i] = "online" => i = 1
       /\ queue[i] = "offline" => \/ pc = "disconnect" /\ i = Len(queue)
                                  \/ pc = "join_last" /\ i = Len(queue) - 1
       /\ queue[i] = "disconnect" => pc = "join_last" /\ i = Len(queue)
  /\ pc = "disconnect" /\ queue # <<>> => queue[Len(queue)] = "offline"
  /\ pc = "join_last" /\ queue # <<>> =>
       /\ queue[Len(queue)] = "disconnect"
       /\ Len(queue) >= 2 => queue[Len(queue) - 1] = "offline"

\* What the broker has been told.
BrokerInv ==
  /\ net => session \/ (pc = "join_last" /\ queue = <<>>)
  /\ loop = "running" /\ pc # "online" =>
       IF Present THEN Announcing \/ (net /\ status = "online") ELSE net /\ status # "online"
  /\ OnlineHasWill

\* What it has heard on a connection that is up: nothing before the online status,
\* then that or metrics, then the offline status, then DISCONNECT.
HeardInv ==
  net =>
    /\ pc = "online" \/ Announcing => last = "none"
    /\ Present /\ ~Announcing => last \in {"online", "metric"}
    /\ ~Present /\ ~Announcing /\ pc # "online" =>
         last = IF session THEN "offline" ELSE "disconnect"

IInv == TypeOK /\ LoopInv /\ QueueInv /\ BrokerInv /\ HeardInv

-------------------------------------------------------------------------------
\* A queue is empty if and only if it has no length.
LEMMA EmptyQueue == \A q \in Seq(Messages) : q = <<>> <=> Len(q) = 0
  OBVIOUS

\* What a queue is after a request was added or sent.
LEMMA QueueFacts ==
  ASSUME queue \in Seq(Messages)
  PROVE  /\ Len(queue) \in Nat /\ DOMAIN queue = 1 .. Len(queue)
         /\ queue = <<>> <=> Len(queue) = 0
         /\ queue # <<>> =>
              /\ Head(queue) = queue[1] /\ Head(queue) \in Messages
              /\ Tail(queue) \in Seq(Messages) /\ Len(Tail(queue)) = Len(queue) - 1
              /\ DOMAIN Tail(queue) = 1 .. Len(queue) - 1
              /\ \A i \in 1 .. Len(queue) - 1 : Tail(queue)[i] = queue[i + 1]
         /\ \A m \in Messages :
              /\ Append(queue, m) \in Seq(Messages) /\ Len(Append(queue, m)) = Len(queue) + 1
              /\ DOMAIN Append(queue, m) = 1 .. Len(queue) + 1
              /\ Append(queue, m)[Len(queue) + 1] = m
              /\ \A i \in 1 .. Len(queue) : Append(queue, m)[i] = queue[i]
  OBVIOUS

\* Every step keeps the types; in particular the queue to its capacity.
LEMMA TypeStep == TypeOK /\ [Next]_vars => TypeOK'
  <1> SUFFICES ASSUME TypeOK, [Next]_vars PROVE TypeOK'
    OBVIOUS
  <1> USE MqttAssumption DEF TypeOK, task, client, broker
  <1>0. <<>> \in Seq(Messages) /\ Len(<<>>) <= QueueCap
    OBVIOUS
  <1>1. CASE EventLoop
    <2>1. CASE LoopConnect BY <2>1 DEF LoopConnect
    <2>2. CASE LoopSend
      <3>1. queue' \in Seq(Messages) /\ Len(queue') <= QueueCap
        BY <2>2, QueueFacts DEF LoopSend
      <3>2. session' \in BOOLEAN /\ status' \in {"none", "online", "offline"}
        BY <2>2 DEF LoopSend
      <3> QED BY <2>2, <3>1, <3>2 DEF LoopSend
    <2>3. CASE LoopErr \/ LoopCancel BY <1>0, <2>3 DEF LoopErr, LoopCancel, Stop
    <2> QED BY <1>1, <2>1, <2>2, <2>3 DEF EventLoop
  <1>2. CASE WillPublished \/ RequestCancel
    <2>1. CASE WillPublished BY <2>1 DEF WillPublished
    <2>2. CASE RequestCancel BY <2>2 DEF RequestCancel
    <2> QED BY <1>2, <2>1, <2>2
  <1>3. CASE Setup \/ Create \/ PublishEnd \/ SelectCancel \/ SelectLost \/ Tick \/ JoinLast \/ Join \/ WaitCancel
    <2>1. CASE Setup \/ PublishEnd \/ SelectCancel
      BY <2>1 DEF Setup, PublishEnd, SelectCancel
    <2>4. CASE JoinLast \/ Join \/ WaitCancel
      BY <2>4 DEF JoinLast, Join, WaitCancel
    <2>2. CASE Create BY <1>0, <2>2 DEF Create
    <2>3. CASE SelectLost \/ Tick BY <2>3 DEF SelectLost, Tick
    <2> QED BY <1>3, <2>1, <2>2, <2>3, <2>4
  <1>4. CASE OnlineOk \/ OnlineErr
    <2>1. CASE OnlineOk
      <3>1. queue' \in Seq(Messages) /\ Len(queue') <= QueueCap
        BY <2>1, QueueFacts DEF OnlineOk, Accepted, Messages
      <3> QED BY <2>1, <3>1 DEF OnlineOk, Accepted
    <2>2. CASE OnlineErr
      BY <2>2 DEF OnlineErr, Refused
    <2> QED BY <1>4, <2>1, <2>2
  <1>5. CASE Publish
    <2>1. queue' \in Seq(Messages) /\ Len(queue') <= QueueCap
      BY <1>5, QueueFacts DEF Publish, Accepted, Refused, Messages
    <2> QED BY <1>5, <2>1 DEF Publish, Accepted, Refused
  <1>6. CASE Offline \/ Disconnect
    <2>1. queue' \in Seq(Messages) /\ Len(queue') <= QueueCap
      BY <1>6, QueueFacts DEF Offline, Disconnect, Accepted, Refused, Messages
    <2>2. CASE Offline
      BY <2>1, <2>2 DEF Offline, Accepted, Refused
    <2>3. CASE Disconnect
      BY <2>1, <2>3 DEF Disconnect, Accepted, Refused
    <2> QED BY <1>6, <2>2, <2>3
  <1>7. CASE WaitOver
    BY <1>7 DEF WaitOver, Double
  <1>8. CASE UNCHANGED vars
    BY <1>8 DEF vars
  <1> QED
    BY <1>1, <1>2, <1>3, <1>4, <1>5, <1>6, <1>7, <1>8 DEF Next, Exporter, SelectClosed, Stopped

\* The event loop, the broker and the daemon.
LEMMA LoopStep ==
  ASSUME IInv, TypeOK', EventLoop \/ WillPublished \/ RequestCancel
  PROVE  LoopInv' /\ QueueInv' /\ BrokerInv'
  <1> USE DEF IInv, task, client, broker
  <1>1. queue \in Seq(Messages)
    BY DEF TypeOK
  <1>2. UNCHANGED pc
    BY DEF EventLoop, LoopConnect, LoopSend, LoopErr, LoopCancel, WillPublished, RequestCancel
  <1>3. CASE LoopConnect
    BY <1>1, <1>3 DEF LoopConnect, LoopInv, QueueInv, BrokerInv, Announcing, Present, OnlineHasWill
  <1>4. CASE LoopSend
    <2>1. queue # <<>> /\ queue' = Tail(queue) /\ net /\ net' /\ loop = "running" /\ pc # "online"
      BY <1>4 DEF LoopSend, QueueInv, TypeOK
    <2>2. LoopInv'
      BY <1>2, <1>4 DEF LoopSend, LoopInv
    <2>3. QueueInv'
      BY <1>1, <1>2, <2>1, QueueFacts DEF QueueInv
    <2>4. CASE queue[1] = "disconnect"
      <3>1. pc = "join_last" /\ Len(queue) = 1
        BY <1>1, <2>1, <2>4, QueueFacts DEF QueueInv
      <3>2. queue' = <<>> /\ status # "online" /\ UNCHANGED status
        BY <1>1, <1>4, <2>1, <2>4, <3>1, QueueFacts DEF LoopSend, BrokerInv, Present
      <3>3. ~Present'
        BY <1>2, <3>1, <3>2, QueueFacts DEF Present
      <3> QED BY <1>2, <2>1, <2>2, <2>3, <3>1, <3>2, <3>3 DEF BrokerInv, OnlineHasWill
    <2>5. CASE queue[1] = "offline"
      <3>1. (pc = "disconnect" /\ Len(queue) = 1) \/ (pc = "join_last" /\ Len(queue) = 2)
        BY <1>1, <2>1, <2>5, QueueFacts DEF QueueInv
      <3>2. status' = "offline" /\ (session' <=> session)
        BY <1>1, <1>4, <2>1, <2>5, QueueFacts DEF LoopSend, TypeOK
      <3>3. session
        BY <2>1 DEF BrokerInv
      <3>4. ~Present'
        BY <1>1, <1>2, <2>1, <3>1, QueueFacts DEF Present
      <3> QED BY <2>1, <2>2, <2>3, <3>2, <3>3, <3>4 DEF BrokerInv, OnlineHasWill
    <2>6. CASE queue[1] \in {"online", "metric"}
      <3>1. Present /\ Present' /\ session
        <4>1. pc = "disconnect" => Len(queue) >= 2
          BY <1>1, <2>1, <2>6, QueueFacts DEF QueueInv
        <4>2. pc = "join_last" => Len(queue) >= 3
          BY <1>1, <2>1, <2>6, QueueFacts DEF QueueInv
        <4>3. session
          BY <2>1 DEF BrokerInv
        <4>4. pc \in {"select", "publish", "offline", "disconnect", "join_last"}
          BY <2>1 DEF LoopInv, TypeOK
        <4>5. Len(queue) \in Nat /\ queue' \in Seq(Messages) /\ Len(queue') = Len(queue) - 1
          BY <1>1, <2>1, QueueFacts
        <4>8. queue' # <<>> <=> Len(queue') # 0
          BY <4>5, EmptyQueue
        <4>6. Present
          BY <2>1, <4>2, <4>4, <4>5 DEF Present
        <4>7. Present'
          BY <1>2, <4>1, <4>2, <4>4, <4>5, <4>8 DEF Present
        <4> QED BY <4>3, <4>6, <4>7
      <3>2. session' /\ status' = "online"
        BY <1>1, <1>4, <2>1, <2>6, <3>1, QueueFacts DEF LoopSend, BrokerInv, Announcing
      <3> QED BY <2>1, <2>2, <2>3, <3>1, <3>2 DEF BrokerInv, OnlineHasWill
    <2>7. queue[1] \in Messages
      BY <1>1, <2>1, QueueFacts
    <2> QED BY <2>2, <2>3, <2>4, <2>5, <2>6, <2>7 DEF Messages
  <1>5. CASE LoopErr \/ LoopCancel
    BY <1>5 DEF LoopErr, LoopCancel, Stop, LoopInv, QueueInv, BrokerInv, OnlineHasWill
  <1>6. CASE WillPublished
    BY <1>6 DEF WillPublished, LoopInv, QueueInv, BrokerInv, Announcing, Present, OnlineHasWill
  <1>7. CASE RequestCancel
    BY <1>7 DEF RequestCancel, LoopInv, QueueInv, BrokerInv, Announcing, Present, OnlineHasWill
  <1> QED BY <1>3, <1>4, <1>5, <1>6, <1>7 DEF EventLoop

\* The steps of the exporter that hand nothing to the client.
LEMMA QuietStep ==
  ASSUME IInv, TypeOK',
         \/ Setup \/ Create \/ OnlineErr \/ SelectCancel \/ SelectLost \/ Tick
         \/ PublishEnd \/ JoinLast \/ Join \/ WaitOver \/ WaitCancel
  PROVE  LoopInv' /\ QueueInv' /\ BrokerInv'
  <1> USE DEF IInv, TypeOK, client, broker, LoopInv, QueueInv, BrokerInv, Announcing, Present, OnlineHasWill
  <1>1. CASE Setup BY <1>1 DEF Setup
  <1>2. CASE Create BY <1>2 DEF Create
  <1>3. CASE OnlineErr BY <1>3 DEF OnlineErr, Refused
  <1>4. CASE SelectCancel BY <1>4 DEF SelectCancel
  <1>5. CASE SelectLost BY <1>5 DEF SelectLost
  <1>6. CASE Tick BY <1>6 DEF Tick
  <1>7. CASE PublishEnd BY <1>7 DEF PublishEnd
  <1>8. CASE JoinLast BY <1>8 DEF JoinLast
  <1>9. CASE Join BY <1>9 DEF Join
  <1>10. CASE WaitOver \/ WaitCancel BY <1>10 DEF WaitOver, WaitCancel
  <1> QED BY <1>1, <1>2, <1>3, <1>4, <1>5, <1>6, <1>7, <1>8, <1>9, <1>10

\* The steps that publish, or ask for the connection to be closed.
LEMMA RequestStep ==
  ASSUME IInv, TypeOK', OnlineOk \/ Publish \/ Offline \/ Disconnect
  PROVE  LoopInv' /\ QueueInv' /\ BrokerInv'
  <1> USE DEF IInv, client, broker
  <1>1. queue \in Seq(Messages)
    BY DEF TypeOK
  <1>2. CASE Refused
    BY <1>2 DEF Refused, OnlineOk, Publish, Offline, Disconnect, Accepted,
                LoopInv, QueueInv, BrokerInv, Present, OnlineHasWill
  <1>3. ASSUME NEW m \in Messages, Accepted(m),
               \/ m = "online" /\ pc = "online" /\ pc' = "select"
               \/ m = "metric" /\ pc = "publish" /\ pc' = "publish"
               \/ m = "offline" /\ pc = "offline" /\ pc' = "disconnect"
               \/ m = "disconnect" /\ pc = "disconnect" /\ pc' = "join_last",
               UNCHANGED broker
        PROVE  LoopInv' /\ QueueInv' /\ BrokerInv'
    <2>1. /\ loop = "running" /\ ~lost /\ UNCHANGED <<loop, net, lost, session, status>>
          /\ queue' = Append(queue, m)
      BY <1>3 DEF Accepted, LoopInv
    <2>2. LoopInv'
      BY <1>3, <2>1 DEF LoopInv
    <2>3. DOMAIN queue' = 1 .. Len(queue) + 1 /\ Len(queue') = Len(queue) + 1 /\ queue' # <<>>
      BY <1>1, <2>1, QueueFacts
    <2>4. queue'[Len(queue) + 1] = m /\ \A i \in 1 .. Len(queue) : queue'[i] = queue[i]
      BY <1>1, <2>1, QueueFacts
    <2>5. \A i \in DOMAIN queue' : \/ i \in DOMAIN queue /\ queue'[i] = queue[i]
                                   \/ i = Len(queue) + 1 /\ queue'[i] = m
      BY <1>1, <2>3, <2>4, QueueFacts
    <2>6. QueueInv'
      <3>1. CASE m = "online"
        BY <1>1, <1>3, <2>3, <2>4, <2>5, <3>1, QueueFacts DEF QueueInv
      <3>2. CASE m = "metric"
        BY <1>1, <1>3, <2>3, <2>4, <2>5, <3>2, QueueFacts DEF QueueInv
      <3>3. CASE m = "offline"
        BY <1>1, <1>3, <2>3, <2>4, <2>5, <3>3, QueueFacts DEF QueueInv
      <3>4. CASE m = "disconnect"
        BY <1>1, <1>3, <2>3, <2>4, <2>5, <3>4, QueueFacts DEF QueueInv
      <3> QED BY <1>3, <3>1, <3>2, <3>3, <3>4
    <2>7. Present' <=> Present \/ m = "online"
      BY <1>1, <1>3, <2>3, QueueFacts DEF Present, QueueInv
    <2>8. Announcing' <=> Announcing \/ m = "online"
      BY <1>1, <1>3, <2>3, <2>4, <2>5, QueueFacts DEF Announcing, QueueInv
    <2>9. m # "online" => pc # "online"
      BY <1>3
    <2> QED BY <1>3, <2>1, <2>2, <2>3, <2>6, <2>7, <2>8, <2>9 DEF BrokerInv, OnlineHasWill
  <1> QED BY <1>2, <1>3 DEF OnlineOk, Publish, Offline, Disconnect, Messages, Accepted

\* The head of the queue is what the broker may hear next.
LEMMA SendFollows ==
  ASSUME IInv, LoopSend
  PROVE  AtBroker!Hear(Head(queue)) /\ Head(queue) \in Messages
  <1>1. queue \in Seq(Messages) /\ queue # <<>> /\ net /\ loop = "running" /\ pc # "online"
    BY DEF LoopSend, IInv, TypeOK, QueueInv
  <1>2. Head(queue) = queue[1] /\ queue[1] \in Messages /\ 1 \in DOMAIN queue /\ Len(queue) \in Nat
    BY <1>1, QueueFacts
  <1>3. session
    BY <1>1 DEF IInv, BrokerInv
  <1>4. AtBroker!Follows(queue[1])
    <2>1. CASE queue[1] = "online"
      BY <1>1, <2>1 DEF IInv, HeardInv, Announcing, AtBroker!Follows
    <2>2. CASE queue[1] \in {"metric", "offline"}
      <3>1. Present
        <4>1. pc \in {"select", "publish", "offline", "disconnect", "join_last"}
          BY <1>1 DEF IInv, LoopInv, TypeOK
        <4>2. pc = "join_last" => Len(queue) >= 2
          BY <1>1, <2>2, QueueFacts DEF IInv, QueueInv
        <4> QED BY <1>1, <4>1, <4>2 DEF Present
      <3>2. ~Announcing
        BY <2>2 DEF Announcing
      <3>3. last \in {"online", "metric"}
        BY <1>1, <3>1, <3>2 DEF IInv, HeardInv
      <3> QED BY <2>2, <3>3 DEF AtBroker!Follows
    <2>3. CASE queue[1] = "disconnect"
      <3>1. pc = "join_last" /\ Len(queue) = 1
        BY <1>1, <1>2, <2>3 DEF IInv, QueueInv
      <3>2. ~Present /\ ~Announcing
        BY <2>3, <3>1 DEF Present, Announcing
      <3>3. last = "offline"
        BY <1>1, <1>3, <3>2 DEF IInv, HeardInv
      <3> QED BY <2>3, <3>3 DEF AtBroker!Follows
    <2> QED BY <1>2, <2>1, <2>2, <2>3 DEF Messages
  <1> QED BY <1>2, <1>3, <1>4 DEF LoopSend, AtBroker!Hear

\* What has been heard agrees with where the exporter stands, after every step.
LEMMA HeardStep ==
  ASSUME IInv, TypeOK', LoopInv', QueueInv', BrokerInv', [Next]_vars
  PROVE  HeardInv'
  <1> USE DEF task, client, broker
  <1>1. queue \in Seq(Messages) /\ queue' \in Seq(Messages) /\ Len(queue) \in Nat
    BY QueueFacts DEF IInv, TypeOK
  <1>2. CASE LoopConnect
    <2>1. loop = "running" /\ ~net /\ last' = "none" /\ UNCHANGED <<pc, queue>>
      BY <1>2 DEF LoopConnect
    <2>2. pc = "online" \/ Announcing
      BY <2>1 DEF IInv, BrokerInv
    <2> QED BY <2>1, <2>2 DEF HeardInv, Announcing, Present
  <1>3. CASE LoopSend
    <2>1. /\ queue # <<>> /\ net /\ pc # "online" /\ queue' = Tail(queue) /\ last' = Head(queue)
          /\ session' = (session /\ Head(queue) # "disconnect") /\ UNCHANGED <<pc, net>>
      BY <1>3 DEF LoopSend, IInv, TypeOK, QueueInv
    <2>2. Head(queue) = queue[1] /\ queue[1] \in Messages /\ 1 \in DOMAIN queue /\ session
      BY <1>1, <2>1, QueueFacts DEF IInv, BrokerInv
    <2>3. /\ Len(queue') = Len(queue) - 1 /\ DOMAIN queue' = 1 .. Len(queue) - 1
          /\ queue' = <<>> <=> Len(queue') = 0
      BY <1>1, <2>1, QueueFacts
    <2>4. ~Announcing'
      <3> SUFFICES ASSUME queue' # <<>>, queue'[1] = "online" PROVE FALSE
        BY DEF Announcing
      <3>1. queue'[1] = queue[2] /\ 2 \in DOMAIN queue
        BY <1>1, <2>1, <2>3, QueueFacts
      <3> QED BY <3>1 DEF IInv, QueueInv
    <2>5. CASE queue[1] \in {"online", "metric"}
      <3>1. Present'
        <4>1. pc \in {"select", "publish", "offline", "disconnect", "join_last"}
          BY <1>3, <2>1 DEF IInv, LoopInv, TypeOK, LoopSend
        <4>2. pc = "disconnect" => Len(queue) >= 2
          BY <1>1, <2>1, <2>5, QueueFacts DEF IInv, QueueInv
        <4>3. pc = "join_last" => Len(queue) >= 3
          BY <1>1, <2>1, <2>5, QueueFacts DEF IInv, QueueInv
        <4>4. pc' = pc /\ (pc = "disconnect" => queue' # <<>>) /\ (pc = "join_last" => Len(queue') >= 2)
          BY <1>1, <2>1, <2>3, <4>2, <4>3
        <4> QED BY <4>1, <4>4 DEF Present
      <3> QED BY <2>1, <2>2, <2>4, <2>5, <3>1 DEF HeardInv
    <2>6. CASE queue[1] = "offline"
      <3>1. (pc = "disconnect" /\ Len(queue) = 1) \/ (pc = "join_last" /\ Len(queue) = 2)
        BY <1>1, <2>1, <2>6, QueueFacts DEF IInv, QueueInv
      <3>4. session'
        BY <2>1, <2>2, <2>6 DEF TypeOK
      <3>2. pc' = pc /\ session' /\ pc' # "online" /\ (pc = "disconnect" => queue' = <<>>)
        BY <1>1, <2>1, <2>3, <3>1, <3>4
      <3>3. ~Present'
        BY <2>3, <3>1, <3>2 DEF Present
      <3> QED BY <2>1, <2>2, <2>4, <2>6, <3>2, <3>3 DEF HeardInv
    <2>7. CASE queue[1] = "disconnect"
      <3>1. pc = "join_last" /\ Len(queue) = 1
        BY <1>1, <2>2, <2>7, QueueFacts DEF IInv, QueueInv
      <3>2. pc' = pc /\ ~session' /\ pc' # "online"
        BY <2>1, <2>2, <2>7, <3>1
      <3>3. ~Present'
        BY <2>3, <3>1, <3>2 DEF Present
      <3> QED BY <2>1, <2>2, <2>4, <2>7, <3>2, <3>3 DEF HeardInv
    <2> QED BY <2>2, <2>5, <2>6, <2>7 DEF Messages
  <1>4. CASE net' = FALSE
    BY <1>4 DEF HeardInv
  <1>5. CASE OnlineOk
    <2>1. pc = "online" /\ queue = <<>> /\ queue' = Append(queue, "online") /\ UNCHANGED <<net, last>>
      BY <1>5 DEF OnlineOk, Accepted, IInv, QueueInv
    <2>2. Announcing' /\ pc' = "select"
      BY <1>1, <1>5, <2>1, QueueFacts DEF Announcing, OnlineOk, Messages
    <2> QED BY <2>1, <2>2 DEF IInv, HeardInv
  <1>6. ASSUME Publish \/ Offline \/ Disconnect, net' # FALSE
        PROVE  HeardInv'
    <2>1. loop = "running" /\ net /\ UNCHANGED <<net, last, session>>
      BY <1>6 DEF Publish, Offline, Disconnect, Accepted, Refused, IInv, TypeOK, LoopInv
    <2>2. PICK m \in {"metric", "offline", "disconnect"} : 
            /\ queue' = Append(queue, m)
            /\ \/ m = "metric" /\ pc = "publish" /\ pc' = "publish"
               \/ m = "offline" /\ pc = "offline" /\ pc' = "disconnect"
               \/ m = "disconnect" /\ pc = "disconnect" /\ pc' = "join_last"
      BY <1>6, <2>1 DEF Publish, Offline, Disconnect, Accepted, Refused
    <2>3. m \in Messages
      BY DEF Messages
    <2>4. /\ Len(queue') = Len(queue) + 1 /\ queue' # <<>>
          /\ queue'[1] = IF queue = <<>> THEN m ELSE queue[1]
      BY <1>1, <2>2, <2>3, QueueFacts
    <2>5. Announcing' <=> Announcing
      BY <2>2, <2>4 DEF Announcing
    <2>6. Present' <=> Present
      <3>1. queue = <<>> <=> Len(queue) = 0
        BY <1>1, QueueFacts
      <3> QED BY <1>1, <2>2, <2>4, <3>1 DEF Present
    <2>7. pc # "online" /\ pc' # "online"
      BY <2>2
    <2> QED BY <2>1, <2>5, <2>6, <2>7 DEF IInv, HeardInv
  <1>7. ASSUME \/ Setup \/ Create \/ OnlineErr \/ SelectCancel \/ SelectLost \/ Tick
               \/ PublishEnd \/ JoinLast \/ Join \/ WaitOver \/ WaitCancel,
               net' # FALSE
        PROVE  HeardInv'
    <2>1. UNCHANGED <<net, queue, last, session>> /\ net
      BY <1>7 DEF Setup, Create, OnlineErr, SelectCancel, SelectLost, Tick, PublishEnd, JoinLast, Join,
                  WaitOver, WaitCancel, Refused, IInv, TypeOK
    <2>2. loop = "running"
      BY <2>1 DEF IInv, LoopInv, TypeOK
    <2>3. pc \in {"select", "publish"} /\ pc' \in {"select", "publish", "offline"}
           /\ ~(SelectLost)
      BY <1>7, <2>2 DEF Setup, Create, OnlineErr, SelectCancel, SelectLost, Tick, PublishEnd, JoinLast, Join,
                  WaitOver, WaitCancel, Refused, IInv, LoopInv
    <2>4. Present /\ Present' /\ (Announcing' <=> Announcing) /\ pc # "online" /\ pc' # "online"
      BY <2>1, <2>3 DEF Present, Announcing
    <2>5. last' = last /\ (Announcing => last = "none") /\ (~Announcing => last \in {"online", "metric"})
      BY <2>1, <2>4 DEF IInv, HeardInv
    <2> QED BY <2>4, <2>5 DEF HeardInv
  <1>8. CASE RequestCancel \/ UNCHANGED vars
    <2>1. UNCHANGED <<pc, net, queue, last, session>>
      BY <1>8 DEF RequestCancel, vars
    <2>2. (Present' <=> Present) /\ (Announcing' <=> Announcing)
      BY <2>1 DEF Present, Announcing
    <2> QED BY <2>1, <2>2 DEF IInv, HeardInv
  <1>9. CASE LoopErr \/ LoopCancel \/ WillPublished
    BY <1>4, <1>9 DEF LoopErr, LoopCancel, WillPublished, Stop, IInv, TypeOK
  <1> QED
    BY <1>2, <1>3, <1>4, <1>5, <1>6, <1>7, <1>8, <1>9 DEF Next, Exporter, EventLoop, SelectClosed, Stopped

-------------------------------------------------------------------------------
\* Every reachable state satisfies IInv: run_mqtt_exporter joins its event loop
\* before it makes the next one, and tells the broker online before all else.
THEOREM InductiveInvariant == Spec => []IInv
  <1>1. Init => IInv
    <2>5. Init => HeardInv
      BY DEF Init, HeardInv
    <2>1. <<>> \in Seq(Messages) /\ Len(<<>>) = 0 /\ DOMAIN <<>> = {}
      OBVIOUS
    <2>2. Init => TypeOK
      <3> SUFFICES ASSUME Init PROVE TypeOK
        OBVIOUS
      <3>1. queue \in Seq(Messages) /\ Len(queue) <= QueueCap
        BY <2>1, MqttAssumption DEF Init
      <3>2. todo \in 0 .. MaxMetrics /\ backoff \in 1 .. MaxBackoff
        BY MqttAssumption DEF Init
      <3> QED BY <3>1, <3>2 DEF Init, TypeOK
    <2>3. Init => LoopInv /\ QueueInv
      BY <2>1 DEF Init, LoopInv, QueueInv
    <2>4. Init => BrokerInv
      BY DEF Init, BrokerInv, OnlineHasWill
    <2> QED BY <2>2, <2>3, <2>4, <2>5 DEF IInv
  <1>2. IInv /\ [Next]_vars => IInv'
    <2> SUFFICES ASSUME IInv, [Next]_vars PROVE IInv'
      OBVIOUS
    <2>1. TypeOK'
      BY TypeStep DEF IInv
    <2>2. CASE EventLoop \/ WillPublished \/ RequestCancel
      BY <2>1, <2>2, LoopStep, HeardStep DEF IInv
    <2>3. CASE OnlineOk \/ Publish \/ Offline \/ Disconnect
      BY <2>1, <2>3, RequestStep, HeardStep DEF IInv
    <2>4. CASE \/ Setup \/ Create \/ OnlineErr \/ SelectCancel \/ SelectLost \/ Tick
               \/ PublishEnd \/ JoinLast \/ Join \/ WaitOver \/ WaitCancel
      BY <2>1, <2>4, QuietStep, HeardStep DEF IInv
    <2>5. CASE UNCHANGED vars
      <3>1. TypeOK' /\ LoopInv' /\ QueueInv' /\ HeardInv'
        BY <2>5 DEF vars, task, client, broker, IInv, TypeOK, LoopInv, QueueInv, HeardInv, Announcing, Present
      <3>2. BrokerInv'
        BY <2>5 DEF vars, task, client, broker, IInv, BrokerInv, Announcing, Present, OnlineHasWill
      <3> QED BY <3>1, <3>2 DEF IInv
    <2> QED BY <2>2, <2>3, <2>4, <2>5 DEF Next, Exporter, SelectClosed, Stopped
  <1> QED BY <1>1, <1>2, PTL DEF Spec

\* The variables keep their types; in particular the backoff of the reconnects
\* stays between one and its cap, and the request queue within its capacity.
THEOREM TypeCorrect == Spec => []TypeOK
  <1>1. IInv => TypeOK
    BY DEF IInv
  <1> QED BY <1>1, InductiveInvariant, PTL

\* However run_mqtt_exporter and its event loops end, a retained "online" has a
\* session behind it, whose will set_last_will made "offline".
THEOREM OnlineIsBacked == Spec => []OnlineHasWill
  <1>1. IInv => OnlineHasWill
    BY DEF IInv, BrokerInv
  <1> QED BY <1>1, InductiveInvariant, PTL

\* A metric that publish queued reaches the broker only after the online status of
\* the same connection.
THEOREM AnnouncedFirst == Spec => MetricsOnlyOnline
  <1>1. IInv /\ [Next]_vars =>
          [queue # <<>> /\ Head(queue) = "metric" /\ queue' = Tail(queue) /\ net'
             => status = "online"]_vars
    <2> SUFFICES ASSUME IInv, queue # <<>>, Head(queue) = "metric", queue' = Tail(queue), net',
                        Next
                 PROVE  status = "online"
      OBVIOUS
    <2>1. queue \in Seq(Messages)
      BY DEF IInv, TypeOK
    <2>2. queue[1] = "metric" /\ 1 \in DOMAIN queue /\ Len(queue) >= 1
      BY <2>1, QueueFacts
    <2>3. loop = "running" /\ pc # "online"
      BY DEF IInv, TypeOK, LoopInv, QueueInv
    <2>4. pc \in {"select", "publish", "offline", "disconnect", "join_last"}
      BY <2>3 DEF IInv, TypeOK, LoopInv
    <2>5. ~Announcing /\ Present
      <3>1. pc = "join_last" => Len(queue) >= 2
        BY <2>1, <2>2, QueueFacts DEF IInv, QueueInv
      <3> QED BY <2>2, <2>4, <3>1 DEF Announcing, Present
    <2> QED BY <2>3, <2>5 DEF IInv, BrokerInv
  <1> QED BY <1>1, InductiveInvariant, PTL DEF Spec, MetricsOnlyOnline

\* Whatever is lost and cancelled, the broker sees connections of the form that
\* Presence describes: announced before they are used, left after a good-bye or
\* declared dead.
THEOREM Refinement == Spec => ImplementsPresence
  <1>1. Init => AtBroker!PresenceInit
    BY DEF Init, AtBroker!PresenceInit
  <1>2. IInv /\ [Next]_vars => [AtBroker!PresenceNext]_(AtBroker!presenceVars)
    <2> SUFFICES ASSUME IInv, [Next]_vars PROVE [AtBroker!PresenceNext]_(AtBroker!presenceVars)
      OBVIOUS
    <2>1. CASE LoopConnect
      BY <2>1 DEF LoopConnect, AtBroker!PresenceNext, AtBroker!Arrive
    <2>2. CASE LoopSend
      BY <2>2, SendFollows DEF AtBroker!PresenceNext, Messages
    <2>3. CASE WillPublished
      BY <2>3 DEF WillPublished, AtBroker!PresenceNext, AtBroker!Vanish
    <2>4. CASE UNCHANGED broker
      BY <2>4 DEF broker, AtBroker!presenceVars
    <2>5. CASE Exporter \/ LoopErr \/ LoopCancel \/ RequestCancel \/ UNCHANGED vars
      <3>1. UNCHANGED broker
        BY <2>5 DEF Exporter, Setup, Create, OnlineOk, OnlineErr, SelectCancel, SelectLost, SelectClosed,
                    Tick, Publish, PublishEnd, Offline, Disconnect, JoinLast, Join, WaitOver, WaitCancel,
                    LoopErr, LoopCancel, RequestCancel, vars
      <3> QED BY <2>4, <3>1
    <2> QED BY <2>1, <2>2, <2>3, <2>5 DEF Next, EventLoop, Stopped
  <1> QED BY <1>1, <1>2, InductiveInvariant, PTL DEF Spec, ImplementsPresence, AtBroker!PresenceSpec

\* A new client is made only when the event loop of the old one has ended, after
\* any failure: the exporter never takes its own session over.
THEOREM OneEventLoop == Spec => [][Create => loop = "stopped" /\ ~net]_vars
  <1>1. IInv /\ [Next]_vars => [Create => loop = "stopped" /\ ~net]_vars
    BY DEF IInv, LoopInv, Create
  <1> QED BY <1>1, InductiveInvariant, PTL DEF Spec

\* Whoever waits for an event loop to end has seen it end, or it has been told to:
\* the exporter and its event loop never wait for each other (the two loop_handle
\* awaits of run_mqtt_exporter).
THEOREM JoinsEnd == Spec => [](pc \in {"join", "join_last"} => loop = "stopped" \/ cancel)
  <1> DEFINE Leaving == pc \in {"offline", "disconnect", "join_last"} => cancel
  <1>1. Init => Leaving
    BY DEF Init
  <1>2. Leaving /\ [Next]_vars => Leaving'
    BY DEF Next, Exporter, EventLoop, RequestCancel, Stopped, vars, task, client, broker, Setup,
           Create, OnlineOk, OnlineErr, SelectCancel, SelectLost, SelectClosed, Tick, Publish,
           PublishEnd, Offline, Disconnect, JoinLast, Join, WaitOver, WaitCancel, LoopConnect,
           LoopSend, LoopErr, LoopCancel, WillPublished
  <1>3. IInv /\ Leaving => (pc \in {"join", "join_last"} => loop = "stopped" \/ cancel)
    BY DEF IInv, LoopInv
  <1> QED BY <1>1, <1>2, <1>3, InductiveInvariant, PTL DEF Spec

-------------------------------------------------------------------------------
(***************************************************************************)
(* Shutdown.  How far the exporter is from its end once it is cancelled: a  *)
(* tick is finished, a client that is being made is announced, and then it  *)
(* takes its leave.                                                         *)
(***************************************************************************)
Distance(p) ==
  CASE p = "setup" -> 9
    [] p = "create" -> 8
    [] p \in {"online", "publish"} -> 7
    [] p = "select" -> 6
    [] p = "offline" -> 5
    [] p = "disconnect" -> 4
    [] p = "join_last" -> 3
    [] p = "join" -> 2
    [] p = "wait" -> 1
    [] p = "done" -> 0
ToTheEnd == Distance(pc) + IF pc = "publish" THEN todo ELSE 0

\* Its values, one by one.
LEMMA Distances ==
  /\ Distance("setup") = 9 /\ Distance("create") = 8 /\ Distance("online") = 7
  /\ Distance("publish") = 7 /\ Distance("select") = 6 /\ Distance("offline") = 5
  /\ Distance("disconnect") = 4 /\ Distance("join_last") = 3 /\ Distance("join") = 2
  /\ Distance("wait") = 1 /\ Distance("done") = 0
  BY DEF Distance

\* After a cancellation every step of run_mqtt_exporter brings it nearer to its end,
\* save for a select in which the interval or the backoff is over too and wins.
THEOREM WindsDown ==
  Spec => /\ [](ToTheEnd \in 0 .. 9 + MaxMetrics)
          /\ [][cancel => \/ ToTheEnd' < ToTheEnd
                          \/ Tick \/ WaitOver \/ EventLoop \/ WillPublished]_vars
  <1>1. TypeOK /\ Next /\ cancel =>
          ToTheEnd' < ToTheEnd \/ Tick \/ WaitOver \/ EventLoop \/ WillPublished \/ UNCHANGED vars
    <2> SUFFICES ASSUME TypeOK, Next, cancel
                 PROVE  ToTheEnd' < ToTheEnd \/ Tick \/ WaitOver \/ EventLoop \/ WillPublished
                          \/ UNCHANGED vars
      OBVIOUS
    <2> USE Distances DEF ToTheEnd
    <2>1. CASE Setup BY <2>1 DEF Setup
    <2>2. CASE Create BY <2>2 DEF Create
    <2>3. CASE OnlineOk BY <2>3 DEF OnlineOk
    <2>4. CASE OnlineErr BY <2>4 DEF OnlineErr
    <2>5. CASE SelectCancel BY <2>5 DEF SelectCancel
    <2>6. CASE SelectLost BY <2>6 DEF SelectLost
    <2>7. CASE SelectClosed BY <2>7 DEF SelectClosed
    <2>8. CASE Publish BY <2>8 DEF Publish, TypeOK
    <2>9. CASE PublishEnd BY <2>9 DEF PublishEnd
    <2>10. CASE Offline BY <2>10 DEF Offline
    <2>11. CASE Disconnect BY <2>11 DEF Disconnect
    <2>12. CASE JoinLast BY <2>12 DEF JoinLast
    <2>13. CASE Join BY <2>13 DEF Join
    <2>14. CASE WaitCancel BY <2>14 DEF WaitCancel
    <2>15. CASE RequestCancel BY <2>15 DEF RequestCancel
    <2>16. CASE Stopped BY <2>16 DEF Stopped
    <2> QED
      BY <2>1, <2>2, <2>3, <2>4, <2>5, <2>6, <2>7, <2>8, <2>9, <2>10, <2>11, <2>12, <2>13, <2>14, <2>15, <2>16
         DEF Next, Exporter
  <1>2. TypeOK => ToTheEnd \in 0 .. 9 + MaxMetrics
    BY Distances, MqttAssumption DEF TypeOK, ToTheEnd
  <1> QED BY <1>1, <1>2, TypeCorrect, PTL DEF Spec
===============================================================================
