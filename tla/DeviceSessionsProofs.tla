------------------------ MODULE DeviceSessionsProofs ------------------------
(***************************************************************************)
(* Proofs about DeviceSessions, for any nodes, connections, clients and    *)
(* topics.  What needs it says that a node has one loop (OneLoopPerNode),  *)
(* that a connection sends one CONNECT or that client ids are used by one  *)
(* connection at a time (Discipline), or that the loop that serves the     *)
(* connections of a node serves its timers as well (MainLoopServes).       *)
(***************************************************************************)
EXTENDS DeviceSessions, TLAPS

USE ConstantsAssumption

\* The invariant of the handlers holds initially.
LEMMA SessionInit == Init => SessionInv
BY DEF Init, SessionInv, TypeOK, CurrentIsLocal, FetchedIsRecord, ParsingIsOpen

\* What HSETs or HDELs of node n for the clients D leave behind: each record is
\* written, or it is as before and the client is among the missed ones.
Records(n, D, node) ==
  /\ \A d \in Client : d \notin D => registry'[d] = registry[d]
  /\ \A d \in D : \/ registry'[d] = node /\ <<n, d>> \notin missed'
                  \/ registry'[d] = registry[d] /\ <<n, d>> \in missed'
  /\ \A m \in Node, d \in Client :
       m # n \/ d \notin D => (<<m, d>> \in missed' <=> <<m, d>> \in missed)

\* The HSETs and HDELs keep the types and do nothing else than that.
LEMMA WriteEffect ==
  ASSUME TypeOK, NEW n \in Node, NEW D \in SUBSET Client,
         NEW node \in Node \cup {NoNode}, WriteRegistry(n, D, node)
  PROVE  /\ registry' \in [Client -> Node \cup {NoNode}]
         /\ redisLink' \in [Node -> {"ok", "broken", "down"}]
         /\ missed' \in SUBSET (Node \X Client)
         /\ Records(n, D, node)
<1>1. PICK R \in SUBSET D :
        /\ registry' = [d \in Client |-> IF d \in R THEN node ELSE registry[d]]
        /\ missed' = (missed \ ({n} \X R)) \cup ({n} \X (D \ R))
        /\ redisLink' = [redisLink EXCEPT ![n] =
             IF @ = "ok" /\ R # D THEN "broken" ELSE @]
  BY DEF WriteRegistry
<1>2. registry' \in [Client -> Node \cup {NoNode}]
  BY <1>1 DEF TypeOK
<1>3. redisLink' \in [Node -> {"ok", "broken", "down"}]
  BY <1>1 DEF TypeOK
<1>4. missed' \in SUBSET (Node \X Client)
  BY <1>1 DEF TypeOK
<1>5. \A d \in Client : registry'[d] = IF d \in R THEN node ELSE registry[d]
  BY <1>1
<1>6. \A m \in Node, d \in Client :
        <<m, d>> \in missed' <=> \/ <<m, d>> \in missed /\ ~(m = n /\ d \in R)
                                 \/ m = n /\ d \in D /\ d \notin R
  <2> TAKE m \in Node, d \in Client
  <2>1. /\ <<m, d>> \in {n} \X R <=> m = n /\ d \in R
        /\ <<m, d>> \in {n} \X (D \ R) <=> m = n /\ d \in D /\ d \notin R
    OBVIOUS
  <2> QED
    BY <1>1, <2>1
<1>7. \A d \in Client : d \notin D => registry'[d] = registry[d]
  BY <1>1, <1>5
<1>8. \A d \in D : \/ registry'[d] = node /\ <<n, d>> \notin missed'
                   \/ registry'[d] = registry[d] /\ <<n, d>> \in missed'
  <2> TAKE d \in D
  <2>1. d \in Client
    OBVIOUS
  <2>2. <<n, d>> \in missed' <=> d \notin R
    BY <1>6, <2>1, Zenon
  <2>3. registry'[d] = IF d \in R THEN node ELSE registry[d]
    BY <1>5, <2>1
  <2> QED
    BY <2>2, <2>3
<1>9. \A m \in Node, d \in Client :
        m # n \/ d \notin D => (<<m, d>> \in missed' <=> <<m, d>> \in missed)
  BY <1>1, <1>6
<1> QED
  BY <1>2, <1>3, <1>4, <1>7, <1>8, <1>9 DEF Records

\* deviceOffline keeps the types of the tables.
LEMMA OfflineTypes ==
  ASSUME TypeOK, NEW n \in Node, NEW D \in SUBSET Client, DeviceOffline(n, D)
  PROVE  /\ devices' \in [Node -> [Client -> Conn \cup {NoConn}]]
         /\ overdue' \in SUBSET (Node \X Client)
         /\ subscriptions' \in [Node -> [Client -> SUBSET Topic]]
         /\ topicSubscribers' \in [Node -> [Topic -> SUBSET Client]]
         /\ registry' \in [Client -> Node \cup {NoNode}]
         /\ redisLink' \in [Node -> {"ok", "broken", "down"}]
         /\ missed' \in SUBSET (Node \X Client)
<1>1. devices' \in [Node -> [Client -> Conn \cup {NoConn}]]
  BY DEF TypeOK, DeviceOffline
<1>2. overdue' \in SUBSET (Node \X Client)
  BY DEF TypeOK, DeviceOffline
<1>3. subscriptions' \in [Node -> [Client -> SUBSET Topic]]
  BY DEF TypeOK, DeviceOffline
<1>4. topicSubscribers' \in [Node -> [Topic -> SUBSET Client]]
  BY DEF TypeOK, DeviceOffline
<1>5. /\ registry' \in [Client -> Node \cup {NoNode}]
      /\ redisLink' \in [Node -> {"ok", "broken", "down"}]
      /\ missed' \in SUBSET (Node \X Client)
  BY WriteEffect DEF DeviceOffline
<1> QED
  BY <1>1, <1>2, <1>3, <1>4, <1>5

\* The end of a session keeps the types of the tables and of the map.
LEMMA DropTypes ==
  ASSUME TypeOK, NEW c \in Conn, DropClient(c)
  PROVE  /\ devices' \in [Node -> [Client -> Conn \cup {NoConn}]]
         /\ overdue' \in SUBSET (Node \X Client)
         /\ subscriptions' \in [Node -> [Client -> SUBSET Topic]]
         /\ topicSubscribers' \in [Node -> [Topic -> SUBSET Client]]
         /\ registry' \in [Client -> Node \cup {NoNode}]
         /\ redisLink' \in [Node -> {"ok", "broken", "down"}]
         /\ missed' \in SUBSET (Node \X Client)
         /\ connClient' \in [Conn -> Client \cup {NoClient}]
         /\ acked' \in [Conn -> SUBSET Topic]
<1>1. CASE connClient[c] # NoClient
  <2>1. NodeOf[c] \in Node /\ {connClient[c]} \in SUBSET Client
    BY <1>1 DEF TypeOK
  <2>2. DeviceOffline(NodeOf[c], {connClient[c]})
    BY <1>1 DEF DropClient
  <2>3. /\ connClient' \in [Conn -> Client \cup {NoClient}]
        /\ acked' \in [Conn -> SUBSET Topic]
    BY <1>1 DEF DropClient, TypeOK
  <2> QED
    BY <2>1, <2>2, <2>3, OfflineTypes
<1>2. CASE connClient[c] = NoClient
  BY <1>2 DEF DropClient, TypeOK, tables
<1> QED
  BY <1>1, <1>2

\* Every handler and timer keeps the invariant, on whatever loops they run.
LEMMA SessionStep == SessionInv /\ [Next]_vars => SessionInv'
<1> SUFFICES ASSUME SessionInv, [Next]_vars PROVE SessionInv'
  OBVIOUS
<1> USE DEF SessionInv, CurrentIsLocal, FetchedIsRecord, ParsingIsOpen
<1>1. ASSUME NEW c \in Conn, OnConnection(c) PROVE SessionInv'
  BY <1>1 DEF OnConnection, TypeOK, tables, LoopFree
<1>2. ASSUME NEW c \in Conn, OnMessage(c) PROVE SessionInv'
  BY <1>2 DEF OnMessage, TypeOK, tables
<1>3. ASSUME NEW c \in Conn, NEW d \in Client, HandleConnect(c, d)
      PROVE SessionInv'
  <2>1. NodeOf[c] \in Node /\ currentConn[NodeOf[c]] \in Conn
    BY <1>3 DEF HandleConnect, TypeOK
  <2>2. /\ devices' \in [Node -> [Client -> Conn \cup {NoConn}]]
        /\ overdue' \in SUBSET (Node \X Client)
    BY <1>3, <2>1 DEF HandleConnect, DeviceOnline, TypeOK
  <2>3. WriteRegistry(NodeOf[c], {d}, NodeOf[c])
    BY <1>3 DEF HandleConnect, DeviceOnline
  <2>4. /\ registry' \in [Client -> Node \cup {NoNode}]
        /\ redisLink' \in [Node -> {"ok", "broken", "down"}]
        /\ missed' \in SUBSET (Node \X Client)
    BY <2>1, <2>3, WriteEffect
  <2> QED
    BY <1>3, <2>1, <2>2, <2>4 DEF HandleConnect, DeviceOnline, TypeOK
<1>4. ASSUME NEW c \in Conn, NEW t \in Topic, HandlePublish(c, t)
      PROVE SessionInv'
  <2>1. fanout' \in SUBSET Conn
    BY <1>4 DEF HandlePublish, GetSubscribers, IsOnline, TypeOK
  <2> QED
    BY <1>4, <2>1 DEF HandlePublish, TypeOK, tables
<1>5. ASSUME NEW c \in Conn, NEW t \in Topic, HandleSubscribe(c, t)
      PROVE SessionInv'
  <2>1. /\ NodeOf[c] \in Node /\ currentConn[NodeOf[c]] \in Conn
        /\ connClient[currentConn[NodeOf[c]]] \in Client
    BY <1>5 DEF HandleSubscribe, TypeOK
  <2>2. /\ subscriptions' \in [Node -> [Client -> SUBSET Topic]]
        /\ topicSubscribers' \in [Node -> [Topic -> SUBSET Client]]
        /\ acked' \in [Conn -> SUBSET Topic]
    BY <1>5, <2>1 DEF HandleSubscribe, Subscribe, TypeOK
  <2> QED
    BY <1>5, <2>1, <2>2 DEF HandleSubscribe, TypeOK
<1>6. ASSUME NEW c \in Conn, HandlePingReq(c) PROVE SessionInv'
  <2>1. /\ NodeOf[c] \in Node /\ currentConn[NodeOf[c]] \in Conn
        /\ connClient[currentConn[NodeOf[c]]] \in Client
    BY <1>6 DEF HandlePingReq, TypeOK
  <2>2. CASE UNCHANGED <<fetched, parsing>>
    BY <1>6, <2>1, <2>2 DEF HandlePingReq, TypeOK
  <2> DEFINE d == connClient[currentConn[NodeOf[c]]]
  <2>3. CASE /\ registry[d] # NoNode
             /\ fetched' = [fetched EXCEPT ![c] = <<d, registry[d]>>]
             /\ parsing' = [parsing EXCEPT ![c] = "hset"]
    <3>1. <<d, registry[d]>> \in Client \X Node
      BY <2>1, <2>3 DEF TypeOK
    <3> HIDE DEF d
    <3>2. /\ fetched' \in [Conn -> (Client \cup {NoClient}) \X (Node \cup {NoNode})]
          /\ parsing' \in [Conn -> {"no", "yes", "hset"}]
      BY <2>3, <3>1 DEF TypeOK
    <3>3. FetchedIsRecord'
      BY <2>3, <3>1 DEF TypeOK
    <3>4. ParsingIsOpen' /\ CurrentIsLocal'
      BY <1>6, <2>3 DEF HandlePingReq, TypeOK
    <3> QED
      BY <1>6, <3>2, <3>3, <3>4 DEF HandlePingReq, TypeOK
  <2> QED
    BY <1>6, <2>2, <2>3 DEF HandlePingReq
<1>7. ASSUME NEW c \in Conn, UpdateDeviceHeartbeat(c) PROVE SessionInv'
  <2>1. fetched[c][1] \in Client /\ fetched[c][2] \in Node
    BY <1>7 DEF UpdateDeviceHeartbeat
  <2>2. registry' \in [Client -> Node \cup {NoNode}]
    BY <1>7, <2>1 DEF UpdateDeviceHeartbeat, TypeOK
  <2> QED
    BY <1>7, <2>2 DEF UpdateDeviceHeartbeat, TypeOK, tables
<1>8. ASSUME NEW c \in Conn, OnDisconnect(c) PROVE SessionInv'
  <2>1. currentConn[NodeOf[c]] \in Conn
    BY <1>8 DEF OnDisconnect, TypeOK
  <2>2. DropClient(currentConn[NodeOf[c]])
    BY <1>8 DEF OnDisconnect
  <2> QED
    BY <1>8, <2>1, <2>2, DropTypes DEF OnDisconnect, TypeOK
<1>9. ASSUME NEW c \in Conn, ParseError(c) \/ OnMessageReturns(c)
      PROVE SessionInv'
  <2>1. CASE ParseError(c)
    BY <2>1 DEF ParseError, TypeOK, tables
  <2>2. CASE OnMessageReturns(c)
    BY <2>2 DEF OnMessageReturns, TypeOK, tables
  <2> QED
    BY <1>9, <2>1, <2>2
<1>10. ASSUME NEW c \in Conn, OnClose(c) PROVE SessionInv'
  <2>1. parsing[c] = "no"
    BY <1>10 DEF OnClose, LoopFree
  <2> QED
    BY <1>10, <2>1, DropTypes DEF OnClose, TypeOK
<1>11. ASSUME NEW n \in Node, NEW d \in Client, KeepAliveElapses(n, d)
       PROVE SessionInv'
  BY <1>11 DEF KeepAliveElapses, TypeOK
<1>12. ASSUME NEW n \in Node, StartHeartbeatCheck(n) PROVE SessionInv'
  <2> DEFINE late == {d \in Client : <<n, d>> \in overdue}
  <2>1. DeviceOffline(n, late) /\ late \in SUBSET Client
    BY <1>12 DEF StartHeartbeatCheck
  <2>2. session' \in [Conn -> {"no", "live", "evicted"}]
    BY <1>12 DEF StartHeartbeatCheck, TypeOK
  <2> HIDE DEF late
  <2> QED
    BY <1>12, <2>1, <2>2, OfflineTypes DEF StartHeartbeatCheck, TypeOK
<1>13. ASSUME NEW n \in Node, BreakRedis(n) \/ Reconnect(n) PROVE SessionInv'
  <2>1. PICK l \in {"ok", "broken", "down"} : redisLink' = [redisLink EXCEPT ![n] = l]
    BY <1>13 DEF BreakRedis, Reconnect
  <2>2. redisLink' \in [Node -> {"ok", "broken", "down"}]
    BY <2>1 DEF TypeOK
  <2> QED
    BY <1>13, <2>2 DEF BreakRedis, Reconnect, TypeOK, tables
<1>14. CASE UNCHANGED vars
  BY <1>14 DEF vars, TypeOK
<1> QED
  BY <1>1, <1>2, <1>3, <1>4, <1>5, <1>6, <1>7, <1>8, <1>9, <1>10, <1>11,
     <1>12, <1>13, <1>14 DEF Next, Packet

\* The handlers' invariant: types, and that currentConn_ is a connection of its
\* node whenever a packet is handled, with worker threads too.
THEOREM SessionInvariant == Spec => []SessionInv
BY SessionInit, SessionStep, PTL DEF Spec
\* Type correctness of the session model.
THEOREM TypeCorrect == Spec => []TypeOK
BY SessionInvariant, PTL DEF SessionInv

-----------------------------------------------------------------------------
\* deviceOffline removes a client from both subscription tables.
LEMMA OfflineIndex ==
  ASSUME TypeOK, IndexInverse, NEW n \in Node, NEW D \in SUBSET Client,
         DeviceOffline(n, D)
  PROVE  IndexInverse'
<1> SUFFICES ASSUME NEW m \in Node, NEW d \in Client, NEW t \in Topic
             PROVE  t \in subscriptions'[m][d] <=> d \in topicSubscribers'[m][t]
  BY DEF IndexInverse
<1>1. t \in subscriptions[m][d] <=> d \in topicSubscribers[m][t]
  BY DEF IndexInverse
<1>2. CASE m = n
  <2>1. subscriptions'[m][d] = IF d \in D THEN {} ELSE subscriptions[n][d]
    BY <1>2 DEF DeviceOffline, TypeOK
  <2>2. topicSubscribers'[m][t]
          = topicSubscribers[n][t] \ {e \in D : t \in subscriptions[n][e]}
    BY <1>2 DEF DeviceOffline, TypeOK
  <2> QED
    BY <1>1, <1>2, <2>1, <2>2
<1>3. CASE m # n
  BY <1>1, <1>3 DEF DeviceOffline, TypeOK
<1> QED
  BY <1>2, <1>3

\* The end of a session keeps the subscription tables inverse.
LEMMA DropIndex ==
  ASSUME TypeOK, IndexInverse, NEW c \in Conn, DropClient(c)
  PROVE  IndexInverse'
<1>1. CASE connClient[c] # NoClient
  <2>1. NodeOf[c] \in Node /\ {connClient[c]} \in SUBSET Client
    BY <1>1 DEF TypeOK
  <2> QED
    BY <1>1, <2>1, OfflineIndex DEF DropClient
<1>2. CASE connClient[c] = NoClient
  BY <1>2 DEF DropClient, tables, IndexInverse
<1> QED
  BY <1>1, <1>2

\* Every step keeps the two subscription tables inverse.
LEMMA IndexStep == SessionInv /\ IndexInverse /\ [Next]_vars => IndexInverse'
<1> SUFFICES ASSUME SessionInv, IndexInverse, [Next]_vars PROVE IndexInverse'
  OBVIOUS
<1> USE DEF SessionInv, CurrentIsLocal
<1>1. CASE UNCHANGED <<subscriptions, topicSubscribers>>
  BY <1>1 DEF IndexInverse
<1>2. ASSUME NEW c \in Conn, NEW t \in Topic, HandleSubscribe(c, t)
      PROVE IndexInverse'
  <2> DEFINE n == NodeOf[c]  d == connClient[currentConn[n]]
  <2>1. n \in Node /\ d \in Client
    BY <1>2 DEF HandleSubscribe, TypeOK
  <2>2. /\ subscriptions' = [subscriptions EXCEPT ![n][d] = @ \cup {t}]
        /\ topicSubscribers' = [topicSubscribers EXCEPT ![n][t] = @ \cup {d}]
    BY <1>2 DEF HandleSubscribe, Subscribe
  <2> HIDE DEF n, d
  <2> QED
    BY <2>1, <2>2 DEF IndexInverse, TypeOK
<1>3. ASSUME NEW c \in Conn, OnDisconnect(c) PROVE IndexInverse'
  <2>1. currentConn[NodeOf[c]] \in Conn
    BY <1>3 DEF OnDisconnect, TypeOK
  <2> QED
    BY <1>3, <2>1, DropIndex DEF OnDisconnect
<1>4. ASSUME NEW c \in Conn, OnClose(c) PROVE IndexInverse'
  BY <1>4, DropIndex DEF OnClose
<1>5. ASSUME NEW n \in Node, StartHeartbeatCheck(n) PROVE IndexInverse'
  <2> DEFINE late == {d \in Client : <<n, d>> \in overdue}
  <2>1. DeviceOffline(n, late) /\ late \in SUBSET Client
    BY <1>5 DEF StartHeartbeatCheck
  <2> HIDE DEF late
  <2> QED
    BY <2>1, OfflineIndex
<1>6. ASSUME NEW c \in Conn,
             \/ OnConnection(c) \/ OnMessage(c) \/ HandlePingReq(c)
             \/ UpdateDeviceHeartbeat(c) \/ ParseError(c) \/ OnMessageReturns(c)
             \/ \E d \in Client : HandleConnect(c, d)
             \/ \E t \in Topic : HandlePublish(c, t)
      PROVE UNCHANGED <<subscriptions, topicSubscribers>>
  BY <1>6 DEF OnConnection, OnMessage, HandlePingReq, UpdateDeviceHeartbeat,
              ParseError, OnMessageReturns, HandleConnect, DeviceOnline,
              HandlePublish, tables
<1>7. ASSUME NEW n \in Node,
             BreakRedis(n) \/ Reconnect(n) \/ \E d \in Client : KeepAliveElapses(n, d)
      PROVE UNCHANGED <<subscriptions, topicSubscribers>>
  BY <1>7 DEF BreakRedis, Reconnect, KeepAliveElapses, tables
<1>8. CASE UNCHANGED vars
  BY <1>8 DEF vars, IndexInverse
<1> QED
  BY <1>1, <1>2, <1>3, <1>4, <1>5, <1>6, <1>7, <1>8 DEF Next, Packet

\* getSubscribers' index is exact, for any clients and with worker threads:
\* takeovers, timeouts and second CONNECTs never let the tables drift apart.
THEOREM IndexStaysInverse == Spec => []IndexInverse
<1>1. Init => IndexInverse
  BY DEF Init, IndexInverse
<1> QED
  BY <1>1, IndexStep, SessionInvariant, PTL DEF Spec

-----------------------------------------------------------------------------
\* With one loop per node a handler runs to its end before the next starts, so
\* currentConn_ is the connection whose packets are parsed.
LEMMA SenderStep ==
  OneLoopPerNode /\ SessionInv /\ SenderIsCurrent /\ [Next]_vars
    => SenderIsCurrent'
<1> SUFFICES ASSUME OneLoopPerNode, SessionInv, SenderIsCurrent, [Next]_vars,
                    NEW k \in Conn, parsing'[k] # "no"
             PROVE  currentConn'[NodeOf[k]] = k
  BY DEF SenderIsCurrent
<1> USE DEF SessionInv, SenderIsCurrent, TypeOK
<1>1. ASSUME NEW c \in Conn, OnMessage(c)
      PROVE currentConn'[NodeOf[k]] = k
  <2>1. CASE NodeOf[k] = NodeOf[c]
    <3>1. parsing[k] = "no"
      BY <1>1, <2>1 DEF OnMessage, LoopFree, OneLoopPerNode
    <3> QED
      BY <1>1, <2>1, <3>1 DEF OnMessage
  <2>2. CASE NodeOf[k] # NodeOf[c]
    BY <1>1, <2>2 DEF OnMessage
  <2> QED
    BY <2>1, <2>2
<1>2. ASSUME NEW c \in Conn, HandlePingReq(c) \/ UpdateDeviceHeartbeat(c)
      PROVE currentConn'[NodeOf[k]] = k
  BY <1>2 DEF HandlePingReq, UpdateDeviceHeartbeat
<1>3. ASSUME NEW c \in Conn,
             \/ OnConnection(c) \/ OnDisconnect(c) \/ OnClose(c)
             \/ ParseError(c) \/ OnMessageReturns(c)
             \/ \E d \in Client : HandleConnect(c, d)
             \/ \E t \in Topic : HandlePublish(c, t) \/ HandleSubscribe(c, t)
      PROVE currentConn' = currentConn /\ parsing[k] # "no"
  BY <1>3 DEF OnConnection, OnDisconnect, OnClose, ParseError,
              OnMessageReturns, HandleConnect, HandlePublish, HandleSubscribe
<1>4. ASSUME NEW n \in Node,
             \/ StartHeartbeatCheck(n) \/ BreakRedis(n) \/ Reconnect(n)
             \/ \E d \in Client : KeepAliveElapses(n, d)
      PROVE currentConn' = currentConn /\ parsing[k] # "no"
  BY <1>4 DEF StartHeartbeatCheck, BreakRedis, Reconnect, KeepAliveElapses
<1>5. CASE UNCHANGED vars
  BY <1>5 DEF vars
<1> QED
  BY <1>1, <1>2, <1>3, <1>4, <1>5 DEF Next, Packet

\* With "-t 0" no packet is attributed to another device.
THEOREM SenderAlwaysCurrent ==
  ASSUME OneLoopPerNode PROVE Spec => []SenderIsCurrent
<1>1. Init => SenderIsCurrent
  BY DEF Init, SenderIsCurrent
<1>2. SessionInv /\ SenderIsCurrent /\ [Next]_vars => SenderIsCurrent'
  BY SenderStep
<1> QED
  BY <1>1, <1>2, SessionInvariant, PTL DEF Spec

-----------------------------------------------------------------------------
\* With one loop per node only open connections enter the map, and every end
\* of a connection leaves it.
LEMMA DanglingStep ==
  SessionInv /\ SenderIsCurrent /\ NoDanglingConn /\ [Next]_vars
    => NoDanglingConn'
<1> SUFFICES ASSUME SessionInv, SenderIsCurrent, NoDanglingConn, [Next]_vars,
                    NEW k \in Conn, connClient'[k] # NoClient
             PROVE  connState'[k] \in {"open", "closing"}
  BY DEF NoDanglingConn
<1> USE DEF SessionInv, ParsingIsOpen, SenderIsCurrent, NoDanglingConn, TypeOK
<1>1. ASSUME NEW c \in Conn, NEW d \in Client, HandleConnect(c, d)
      PROVE connState'[k] \in {"open", "closing"}
  BY <1>1 DEF HandleConnect
<1>2. ASSUME NEW c \in Conn, OnDisconnect(c)
      PROVE connState'[k] \in {"open", "closing"}
  BY <1>2 DEF OnDisconnect, DropClient
<1>3. ASSUME NEW c \in Conn, OnClose(c)
      PROVE connState'[k] \in {"open", "closing"}
  BY <1>3 DEF OnClose, DropClient
<1>4. ASSUME NEW c \in Conn,
             \/ OnConnection(c) \/ OnMessage(c) \/ HandlePingReq(c)
             \/ UpdateDeviceHeartbeat(c) \/ ParseError(c) \/ OnMessageReturns(c)
             \/ \E t \in Topic : HandlePublish(c, t) \/ HandleSubscribe(c, t)
      PROVE connState'[k] \in {"open", "closing"}
  BY <1>4 DEF OnConnection, OnMessage, HandlePingReq, UpdateDeviceHeartbeat,
              ParseError, OnMessageReturns, HandlePublish, HandleSubscribe
<1>5. ASSUME NEW n \in Node,
             \/ StartHeartbeatCheck(n) \/ BreakRedis(n) \/ Reconnect(n)
             \/ \E d \in Client : KeepAliveElapses(n, d)
      PROVE connState'[k] \in {"open", "closing"}
  BY <1>5 DEF StartHeartbeatCheck, BreakRedis, Reconnect, KeepAliveElapses
<1>6. CASE UNCHANGED vars
  BY <1>6 DEF vars
<1> QED
  BY <1>1, <1>2, <1>3, <1>4, <1>5, <1>6 DEF Next, Packet

\* With "-t 0" the address-keyed map never holds a connection that is gone,
\* whatever client ids the connections carry.
THEOREM NothingDangles ==
  ASSUME OneLoopPerNode PROVE Spec => []NoDanglingConn
<1>1. Init => NoDanglingConn
  BY DEF Init, NoDanglingConn
<1> QED
  BY <1>1, DanglingStep, SenderAlwaysCurrent, SessionInvariant, PTL DEF Spec

-----------------------------------------------------------------------------
\* The end of a session takes the client's subscriptions at the node with it.
LEMMA DropOrphan ==
  ASSUME TypeOK, NoOrphanSubscription, NEW c \in Conn, DropClient(c)
  PROVE  NoOrphanSubscription'
<1> SUFFICES ASSUME NEW n \in Node, NEW d \in Client, subscriptions'[n][d] # {}
             PROVE  \E k \in Conn : NodeOf[k] = n /\ connClient'[k] = d
  BY DEF NoOrphanSubscription
<1>1. CASE connClient[c] = NoClient
  BY <1>1 DEF DropClient, tables, NoOrphanSubscription
<1>2. CASE connClient[c] # NoClient
  <2>1. subscriptions'[n][d] = IF n = NodeOf[c] /\ d = connClient[c]
                                 THEN {} ELSE subscriptions[n][d]
    BY <1>2 DEF DropClient, DeviceOffline, TypeOK
  <2>2. PICK k \in Conn : NodeOf[k] = n /\ connClient[k] = d
    BY <2>1 DEF NoOrphanSubscription
  <2>3. k # c
    BY <2>1, <2>2
  <2> QED
    BY <1>2, <2>2, <2>3 DEF DropClient, TypeOK
<1> QED
  BY <1>1, <1>2

\* No step of a client that sends one CONNECT per connection leaves
\* subscriptions behind.
LEMMA OrphanStep ==
  Discipline # "none" /\ SessionInv /\ SenderIsCurrent /\ NoOrphanSubscription
    /\ [Next]_vars => NoOrphanSubscription'
<1> SUFFICES ASSUME Discipline # "none", SessionInv, SenderIsCurrent,
                    NoOrphanSubscription, [Next]_vars
             PROVE  NoOrphanSubscription'
  OBVIOUS
<1> USE DEF SessionInv, SenderIsCurrent
<1>1. CASE UNCHANGED <<subscriptions, connClient>>
  BY <1>1 DEF NoOrphanSubscription
<1>2. ASSUME NEW c \in Conn, NEW d \in Client, HandleConnect(c, d)
      PROVE NoOrphanSubscription'
  <2>1. /\ connClient[c] = NoClient
        /\ connClient' = [connClient EXCEPT ![c] = d]
        /\ subscriptions' = subscriptions
    BY <1>2 DEF HandleConnect, MayConnect, DeviceOnline
  <2>2. \A k \in Conn : connClient[k] # NoClient => connClient'[k] = connClient[k]
    BY <2>1 DEF TypeOK
  <2> QED
    BY <2>1, <2>2 DEF NoOrphanSubscription
<1>3. ASSUME NEW c \in Conn, NEW t \in Topic, HandleSubscribe(c, t)
      PROVE NoOrphanSubscription'
  <2>1. currentConn[NodeOf[c]] = c /\ NodeOf[c] \in Node
    BY <1>3 DEF HandleSubscribe
  <2>2. /\ connClient' = connClient /\ connClient[c] \in Client
        /\ subscriptions' =
             [subscriptions EXCEPT ![NodeOf[c]][connClient[c]] = @ \cup {t}]
    BY <1>3, <2>1 DEF HandleSubscribe, Subscribe, TypeOK
  <2>3. \A n \in Node, d \in Client :
          n # NodeOf[c] \/ d # connClient[c]
            => subscriptions'[n][d] = subscriptions[n][d]
    BY <2>1, <2>2 DEF TypeOK
  <2> QED
    BY <2>1, <2>2, <2>3 DEF NoOrphanSubscription
<1>4. ASSUME NEW c \in Conn, OnDisconnect(c) PROVE NoOrphanSubscription'
  <2>1. DropClient(c)
    BY <1>4 DEF OnDisconnect
  <2> QED
    BY <2>1, DropOrphan
<1>5. ASSUME NEW c \in Conn, OnClose(c) PROVE NoOrphanSubscription'
  BY <1>5, DropOrphan DEF OnClose
<1>6. ASSUME NEW n \in Node, StartHeartbeatCheck(n) PROVE NoOrphanSubscription'
  <2>1. /\ connClient' = connClient
        /\ \A m \in Node, d \in Client :
             subscriptions'[m][d] # {} => subscriptions[m][d] # {}
    BY <1>6 DEF StartHeartbeatCheck, DeviceOffline, TypeOK
  <2> QED
    BY <2>1 DEF NoOrphanSubscription
<1>7. ASSUME NEW c \in Conn,
             \/ OnConnection(c) \/ OnMessage(c) \/ HandlePingReq(c)
             \/ UpdateDeviceHeartbeat(c) \/ ParseError(c) \/ OnMessageReturns(c)
             \/ \E t \in Topic : HandlePublish(c, t)
      PROVE UNCHANGED <<subscriptions, connClient>>
  BY <1>7 DEF OnConnection, OnMessage, HandlePingReq, UpdateDeviceHeartbeat,
              ParseError, OnMessageReturns, HandlePublish, tables
<1>8. ASSUME NEW n \in Node,
             BreakRedis(n) \/ Reconnect(n) \/ \E d \in Client : KeepAliveElapses(n, d)
      PROVE UNCHANGED <<subscriptions, connClient>>
  BY <1>8 DEF BreakRedis, Reconnect, KeepAliveElapses, tables
<1>9. CASE UNCHANGED vars
  BY <1>1, <1>9 DEF vars
<1> QED
  BY <1>1, <1>2, <1>3, <1>4, <1>5, <1>6, <1>7, <1>8, <1>9 DEF Next, Packet

\* With "-t 0" and one CONNECT per connection subscriptions never leak, also
\* when a client id is taken over by another connection.
THEOREM NoSubscriptionLeaks ==
  ASSUME OneLoopPerNode, Discipline # "none"
  PROVE  Spec => []NoOrphanSubscription
<1>1. Init => NoOrphanSubscription
  BY DEF Init, NoOrphanSubscription
<1>2. SessionInv /\ SenderIsCurrent /\ NoOrphanSubscription /\ [Next]_vars
        => NoOrphanSubscription'
  BY OrphanStep
<1> QED
  BY <1>1, <1>2, SenderAlwaysCurrent, SessionInvariant, PTL DEF Spec
-----------------------------------------------------------------------------
(* Client ids used by one connection at a time (Discipline = "exclusive"). *)

\* What deviceOffline leaves in the tables and in the registry.
LEMMA OfflineEffect ==
  ASSUME TypeOK, NEW n \in Node, NEW D \in SUBSET Client, DeviceOffline(n, D)
  PROVE  /\ \A m \in Node, d \in Client :
              devices'[m][d] = IF m = n /\ d \in D THEN NoConn ELSE devices[m][d]
         /\ \A m \in Node, d \in Client :
              subscriptions'[m][d] = IF m = n /\ d \in D THEN {} ELSE subscriptions[m][d]
         /\ \A m \in Node, d \in Client :
              <<m, d>> \in overdue' <=> <<m, d>> \in overdue /\ ~(m = n /\ d \in D)
<1>1. \A m \in Node, d \in Client :
        devices'[m][d] = IF m = n /\ d \in D THEN NoConn ELSE devices[m][d]
  BY DEF TypeOK, DeviceOffline
<1>2. \A m \in Node, d \in Client :
        subscriptions'[m][d] = IF m = n /\ d \in D THEN {} ELSE subscriptions[m][d]
  BY DEF TypeOK, DeviceOffline
<1>3. \A m \in Node, d \in Client :
        <<m, d>> \in overdue' <=> <<m, d>> \in overdue /\ ~(m = n /\ d \in D)
  BY DEF TypeOK, DeviceOffline
<1> QED
  BY <1>1, <1>2, <1>3

\* What the end of a session leaves: the client of the connection, if it has
\* one, is offline at the connection's node.
LEMMA DropEffect ==
  ASSUME TypeOK, NEW c \in Conn, DropClient(c)
  PROVE  /\ \A m \in Node, d \in Client :
              devices'[m][d] = IF m = NodeOf[c] /\ d = connClient[c] THEN NoConn
                                                                     ELSE devices[m][d]
         /\ \A m \in Node, d \in Client :
              subscriptions'[m][d] = IF m = NodeOf[c] /\ d = connClient[c]
                                       THEN {} ELSE subscriptions[m][d]
         /\ \A m \in Node, d \in Client :
              <<m, d>> \in overdue' <=>
                <<m, d>> \in overdue /\ ~(m = NodeOf[c] /\ d = connClient[c])
         /\ \A k \in Conn : connClient'[k] = IF k = c THEN NoClient ELSE connClient[k]
         /\ \A k \in Conn : acked'[k] = IF k = c THEN {} ELSE acked[k]
<1>1. CASE connClient[c] # NoClient
  <2>1. NodeOf[c] \in Node /\ {connClient[c]} \in SUBSET Client
    BY <1>1 DEF TypeOK
  <2>2. /\ DeviceOffline(NodeOf[c], {connClient[c]})
        /\ connClient' = [connClient EXCEPT ![c] = NoClient]
        /\ acked' = [acked EXCEPT ![c] = {}]
    BY <1>1 DEF DropClient
  <2>3. \A k \in Conn : /\ connClient'[k] = IF k = c THEN NoClient ELSE connClient[k]
                        /\ acked'[k] = IF k = c THEN {} ELSE acked[k]
    BY <2>2 DEF TypeOK
  <2> QED
    BY <2>1, <2>2, <2>3, OfflineEffect
<1>2. CASE connClient[c] = NoClient
  <2>1. /\ UNCHANGED <<devices, subscriptions, overdue, connClient>>
        /\ acked' = [acked EXCEPT ![c] = {}]
    BY <1>2 DEF DropClient, tables
  <2>2. \A d \in Client : d # connClient[c]
    BY <1>2
  <2>3. \A k \in Conn : /\ connClient'[k] = IF k = c THEN NoClient ELSE connClient[k]
                        /\ acked'[k] = IF k = c THEN {} ELSE acked[k]
    BY <1>2, <2>1 DEF TypeOK
  <2> QED
    BY <2>1, <2>2, <2>3
<1> QED
  BY <1>1, <1>2

\* ... and the record of that client, and no other, is deleted or missed.
LEMMA DropRecords ==
  ASSUME TypeOK, NEW c \in Conn, DropClient(c)
  PROVE  Records(NodeOf[c], {connClient[c]} \cap Client, NoNode)
<1>1. CASE connClient[c] # NoClient
  <2>1. /\ NodeOf[c] \in Node /\ {connClient[c]} \in SUBSET Client
        /\ {connClient[c]} \cap Client = {connClient[c]}
    BY <1>1 DEF TypeOK
  <2>2. WriteRegistry(NodeOf[c], {connClient[c]}, NoNode)
    BY <1>1 DEF DropClient, DeviceOffline
  <2> QED
    BY <2>1, <2>2, WriteEffect DEF Records
<1>2. CASE connClient[c] = NoClient
  <2>1. UNCHANGED <<registry, missed>>
    BY <1>2 DEF DropClient
  <2>2. {connClient[c]} \cap Client = {}
    BY <1>2
  <2> QED
    BY <2>1, <2>2 DEF Records
<1> QED
  BY <1>1, <1>2

\* What an accepted CONNECT leaves, when the handlers act for the sender.
LEMMA ConnectEffect ==
  ASSUME TypeOK, SenderIsCurrent, NEW c \in Conn, NEW d \in Client, HandleConnect(c, d)
  PROVE  /\ \A m \in Node, e \in Client :
              devices'[m][e] = IF m = NodeOf[c] /\ e = d THEN c ELSE devices[m][e]
         /\ \A m \in Node, e \in Client :
              <<m, e>> \in overdue' <=> <<m, e>> \in overdue /\ ~(m = NodeOf[c] /\ e = d)
         /\ \A k \in Conn : /\ connClient'[k] = IF k = c THEN d ELSE connClient[k]
                            /\ session'[k] = IF k = c THEN "live" ELSE session[k]
                            /\ acked'[k] = IF k = c THEN {} ELSE acked[k]
         /\ UNCHANGED <<subscriptions, parsing, fetched, connState>>
<1>1. currentConn[NodeOf[c]] = c /\ NodeOf[c] \in Node
  BY DEF SenderIsCurrent, HandleConnect
<1>2. /\ connClient' = [connClient EXCEPT ![c] = d]
      /\ session' = [session EXCEPT ![c] = "live"]
      /\ acked' = [acked EXCEPT ![c] = {}]
      /\ UNCHANGED <<subscriptions, parsing, fetched, connState>>
      /\ devices' = [devices EXCEPT ![NodeOf[c]][d] = c]
      /\ overdue' = overdue \ {<<NodeOf[c], d>>}
  BY <1>1 DEF HandleConnect, DeviceOnline
<1>3. \A m \in Node, e \in Client :
        devices'[m][e] = IF m = NodeOf[c] /\ e = d THEN c ELSE devices[m][e]
  BY <1>1, <1>2 DEF TypeOK
<1>5. \A k \in Conn : /\ connClient'[k] = IF k = c THEN d ELSE connClient[k]
                      /\ session'[k] = IF k = c THEN "live" ELSE session[k]
                      /\ acked'[k] = IF k = c THEN {} ELSE acked[k]
  BY <1>2 DEF TypeOK
<1>6. \A m \in Node, e \in Client :
        <<m, e>> \in overdue' <=> <<m, e>> \in overdue /\ ~(m = NodeOf[c] /\ e = d)
  BY <1>2
<1> QED
  BY <1>2, <1>3, <1>5, <1>6

\* ... and the record of the client names the node, or was missed.
LEMMA ConnectRecords ==
  ASSUME TypeOK, NEW c \in Conn, NEW d \in Client, HandleConnect(c, d)
  PROVE  Records(NodeOf[c], {d}, NodeOf[c])
<1>1. WriteRegistry(NodeOf[c], {d}, NodeOf[c]) /\ NodeOf[c] \in Node
  BY DEF HandleConnect, DeviceOnline
<1> QED
  BY <1>1, WriteEffect DEF Records

\* What a heartbeat check leaves: the overdue clients of the node are offline,
\* and their sessions are evicted.
LEMMA CheckEffect ==
  ASSUME TypeOK, NEW n \in Node, StartHeartbeatCheck(n)
  PROVE  /\ \A m \in Node, d \in Client :
              devices'[m][d] = IF m = n /\ <<n, d>> \in overdue THEN NoConn
                                                                ELSE devices[m][d]
         /\ \A m \in Node, d \in Client :
              subscriptions'[m][d] = IF m = n /\ <<n, d>> \in overdue
                                       THEN {} ELSE subscriptions[m][d]
         /\ \A m \in Node, d \in Client :
              <<m, d>> \in overdue' <=> <<m, d>> \in overdue /\ m # n
         /\ \A c \in Conn :
              session'[c] = IF /\ NodeOf[c] = n /\ connClient[c] # NoClient
                               /\ <<n, connClient[c]>> \in overdue
                              THEN "evicted" ELSE session[c]
         /\ UNCHANGED <<connState, parsing, connClient, fetched, acked>>
         /\ LoopFree(MainLoop[n])
<1> DEFINE late == {d \in Client : <<n, d>> \in overdue}
<1>1. /\ DeviceOffline(n, late) /\ late \in SUBSET Client
      /\ session' = [c \in Conn |-> IF NodeOf[c] = n /\ connClient[c] \in late
                                     THEN "evicted" ELSE session[c]]
  BY DEF StartHeartbeatCheck
<1>2. \A d \in Client : d \in late <=> <<n, d>> \in overdue
  OBVIOUS
<1>3. \A c \in Conn : connClient[c] \in late <=>
                        connClient[c] # NoClient /\ <<n, connClient[c]>> \in overdue
  BY DEF TypeOK
<1>4. /\ UNCHANGED <<connState, parsing, connClient, fetched, acked>>
      /\ LoopFree(MainLoop[n])
  BY DEF StartHeartbeatCheck
<1> HIDE DEF late
<1>5. \A c \in Conn :
        session'[c] = IF /\ NodeOf[c] = n /\ connClient[c] # NoClient
                         /\ <<n, connClient[c]>> \in overdue
                        THEN "evicted" ELSE session[c]
  BY <1>1, <1>3
<1>6. /\ \A m \in Node, d \in Client :
           devices'[m][d] = IF m = n /\ d \in late THEN NoConn ELSE devices[m][d]
      /\ \A m \in Node, d \in Client :
           subscriptions'[m][d] = IF m = n /\ d \in late THEN {} ELSE subscriptions[m][d]
      /\ \A m \in Node, d \in Client :
           <<m, d>> \in overdue' <=> <<m, d>> \in overdue /\ ~(m = n /\ d \in late)
  BY <1>1, OfflineEffect
<1>7. \A m \in Node, d \in Client : <<m, d>> \in overdue' <=> <<m, d>> \in overdue /\ m # n
  BY <1>2, <1>6
<1>8. \A m \in Node, d \in Client :
        /\ devices'[m][d] = IF m = n /\ <<n, d>> \in overdue THEN NoConn
                                                              ELSE devices[m][d]
        /\ subscriptions'[m][d] = IF m = n /\ <<n, d>> \in overdue
                                     THEN {} ELSE subscriptions[m][d]
  BY <1>2, <1>6
<1> QED
  BY <1>4, <1>5, <1>7, <1>8

\* ... and their records are deleted, except those that were missed.
LEMMA CheckRecords ==
  ASSUME TypeOK, NEW n \in Node, StartHeartbeatCheck(n)
  PROVE  Records(n, {d \in Client : <<n, d>> \in overdue}, NoNode)
<1>1. WriteRegistry(n, {d \in Client : <<n, d>> \in overdue}, NoNode)
  BY DEF StartHeartbeatCheck, DeviceOffline
<1> QED
  BY <1>1, WriteEffect DEF Records

\* A client id stays with one connection, and the map follows the sessions.
LEMMA UsedOnceStep ==
  Discipline = "exclusive" /\ SessionInv /\ SenderIsCurrent /\ ClientUsedOnce
    /\ [Next]_vars => ClientUsedOnce'
<1> SUFFICES ASSUME Discipline = "exclusive", SessionInv, SenderIsCurrent,
                    ClientUsedOnce, [Next]_vars
             PROVE  ClientUsedOnce'
  OBVIOUS
<1> USE DEF SessionInv
<1>1. CASE UNCHANGED <<connClient, session>>
  BY <1>1 DEF ClientUsedOnce
<1>2. ASSUME NEW c \in Conn, NEW d \in Client, HandleConnect(c, d) PROVE ClientUsedOnce'
  <2>1. \A k \in Conn : connClient[k] # d
    BY <1>2 DEF HandleConnect, MayConnect
  <2>2. \A k \in Conn : /\ connClient'[k] = IF k = c THEN d ELSE connClient[k]
                        /\ session'[k] = IF k = c THEN "live" ELSE session[k]
    BY <1>2, ConnectEffect
  <2> QED
    BY <2>1, <2>2 DEF ClientUsedOnce
<1>3. ASSUME NEW c \in Conn, DropClient(c),
             session' = [session EXCEPT ![c] = "no"]
      PROVE ClientUsedOnce'
  <2>1. \A k \in Conn : /\ connClient'[k] = IF k = c THEN NoClient ELSE connClient[k]
                        /\ session'[k] = IF k = c THEN "no" ELSE session[k]
    BY <1>3, DropEffect DEF TypeOK
  <2> QED
    BY <2>1 DEF ClientUsedOnce
<1>4. ASSUME NEW c \in Conn, OnDisconnect(c) \/ OnClose(c) PROVE ClientUsedOnce'
  BY <1>3, <1>4 DEF OnDisconnect, OnClose, SenderIsCurrent
<1>5. ASSUME NEW n \in Node, StartHeartbeatCheck(n) PROVE ClientUsedOnce'
  <2>1. /\ connClient' = connClient
        /\ \A c \in Conn : session'[c] = session[c]
                           \/ (connClient[c] # NoClient /\ session'[c] = "evicted")
    BY <1>5, CheckEffect
  <2> QED
    BY <2>1 DEF ClientUsedOnce
<1>6. ASSUME NEW c \in Conn,
             \/ OnConnection(c) \/ OnMessage(c) \/ HandlePingReq(c)
             \/ UpdateDeviceHeartbeat(c) \/ ParseError(c) \/ OnMessageReturns(c)
             \/ \E t \in Topic : HandlePublish(c, t) \/ HandleSubscribe(c, t)
      PROVE UNCHANGED <<connClient, session>>
  BY <1>6 DEF OnConnection, OnMessage, HandlePingReq, UpdateDeviceHeartbeat,
              ParseError, OnMessageReturns, HandlePublish, HandleSubscribe
<1>7. ASSUME NEW n \in Node,
             BreakRedis(n) \/ Reconnect(n) \/ \E d \in Client : KeepAliveElapses(n, d)
      PROVE UNCHANGED <<connClient, session>>
  BY <1>7 DEF BreakRedis, Reconnect, KeepAliveElapses
<1>8. CASE UNCHANGED vars
  BY <1>1, <1>8 DEF vars
<1> QED
  BY <1>1, <1>2, <1>4, <1>5, <1>6, <1>7, <1>8 DEF Next, Packet

\* Device tables and live sessions stay the same set.
LEMMA LiveStep ==
  Discipline = "exclusive" /\ SessionInv /\ SenderIsCurrent /\ ClientUsedOnce
    /\ LiveIsDevice /\ [Next]_vars => LiveIsDevice'
<1> SUFFICES ASSUME Discipline = "exclusive", SessionInv, SenderIsCurrent,
                    ClientUsedOnce, LiveIsDevice, [Next]_vars
             PROVE  LiveIsDevice'
  OBVIOUS
<1> USE DEF SessionInv
<1>0. \A k \in Conn : /\ NodeOf[k] \in Node
                      /\ session[k] = "live" => connClient[k] \in Client
  BY DEF ClientUsedOnce, TypeOK
<1>1. ASSUME UNCHANGED <<connClient, session, devices>>,
             \A n \in Node, d \in Client :
               <<n, d>> \in overdue' => <<n, d>> \in overdue \/ devices[n][d] # NoConn
      PROVE  LiveIsDevice'
  BY <1>1 DEF LiveIsDevice
<1>2. ASSUME NEW c \in Conn, NEW d \in Client, HandleConnect(c, d) PROVE LiveIsDevice'
  <2>1. connClient[c] = NoClient /\ \A k \in Conn : connClient[k] # d
    BY <1>2 DEF HandleConnect, MayConnect
  <2>2. \A k \in Conn : /\ connClient'[k] = IF k = c THEN d ELSE connClient[k]
                        /\ session'[k] = IF k = c THEN "live" ELSE session[k]
    BY <1>2, ConnectEffect
  <2>3. \A m \in Node, e \in Client :
          devices'[m][e] = IF m = NodeOf[c] /\ e = d THEN c ELSE devices[m][e]
    BY <1>2, ConnectEffect
  <2>7. \A m \in Node, e \in Client :
          <<m, e>> \in overdue' <=> <<m, e>> \in overdue /\ ~(m = NodeOf[c] /\ e = d)
    BY <1>2, ConnectEffect, ZenonT(30)
  <2>4. ASSUME NEW k \in Conn, session'[k] = "live"
        PROVE  devices'[NodeOf[k]][connClient'[k]] = k
    <3>1. CASE k = c
      BY <3>1, <1>0, <2>2, <2>3
    <3>2. CASE k # c
      BY <3>2, <2>4, <1>0, <2>1, <2>2, <2>3 DEF LiveIsDevice
    <3> QED
      BY <3>1, <3>2
  <2>5. ASSUME NEW m \in Node, NEW e \in Client, devices'[m][e] # NoConn
        PROVE  /\ NodeOf[devices'[m][e]] = m
               /\ connClient'[devices'[m][e]] = e
               /\ session'[devices'[m][e]] = "live"
    <3>1. CASE m = NodeOf[c] /\ e = d
      BY <3>1, <2>2, <2>3
    <3>2. CASE ~(m = NodeOf[c] /\ e = d)
      <4>1. devices'[m][e] = devices[m][e] /\ devices[m][e] \in Conn
        BY <2>3, <2>5, <3>2 DEF TypeOK
      <4>2. devices[m][e] # c
        BY <2>1, <4>1, <2>5 DEF LiveIsDevice
      <4> QED
        BY <4>1, <4>2, <2>2, <2>5 DEF LiveIsDevice
    <3> QED
      BY <3>1, <3>2
  <2>6. ASSUME NEW m \in Node, NEW e \in Client, <<m, e>> \in overdue'
        PROVE  devices'[m][e] # NoConn
    <3>1. <<m, e>> \in overdue
      BY <2>6, <2>7
    <3>2. devices[m][e] # NoConn
      BY <3>1 DEF LiveIsDevice
    <3> QED
      BY <2>3, <3>2
  <2> QED
    BY <2>4, <2>5, <2>6 DEF LiveIsDevice
<1>3. ASSUME NEW c \in Conn, DropClient(c),
             session' = [session EXCEPT ![c] = "no"]
      PROVE LiveIsDevice'
  <2>1. \A k \in Conn : /\ connClient'[k] = IF k = c THEN NoClient ELSE connClient[k]
                        /\ session'[k] = IF k = c THEN "no" ELSE session[k]
    BY <1>3, DropEffect DEF TypeOK
  <2>2. \A m \in Node, d \in Client :
          devices'[m][d] = IF m = NodeOf[c] /\ d = connClient[c] THEN NoConn
                                                                 ELSE devices[m][d]
    BY <1>3, DropEffect
  <2>6. \A m \in Node, d \in Client :
          <<m, d>> \in overdue' <=>
            <<m, d>> \in overdue /\ ~(m = NodeOf[c] /\ d = connClient[c])
    BY <1>3, DropEffect
  <2>3. ASSUME NEW k \in Conn, session'[k] = "live"
        PROVE  devices'[NodeOf[k]][connClient'[k]] = k
    <3>1. k # c /\ session[k] = "live" /\ connClient'[k] = connClient[k]
      BY <2>1, <2>3
    <3>2. connClient[k] # connClient[c] /\ connClient[k] \in Client
      BY <3>1, <1>0 DEF ClientUsedOnce
    <3> QED
      BY <3>1, <3>2, <1>0, <2>2 DEF LiveIsDevice
  <2>4. ASSUME NEW m \in Node, NEW e \in Client, devices'[m][e] # NoConn
        PROVE  /\ NodeOf[devices'[m][e]] = m
               /\ connClient'[devices'[m][e]] = e
               /\ session'[devices'[m][e]] = "live"
    <3>1. devices'[m][e] = devices[m][e] /\ devices[m][e] \in Conn
          /\ ~(m = NodeOf[c] /\ e = connClient[c])
      BY <2>2, <2>4 DEF TypeOK
    <3>2. devices[m][e] # c
      BY <3>1, <2>4 DEF LiveIsDevice
    <3> QED
      BY <3>1, <3>2, <2>1, <2>4 DEF LiveIsDevice
  <2>5. ASSUME NEW m \in Node, NEW e \in Client, <<m, e>> \in overdue'
        PROVE  devices'[m][e] # NoConn
    <3>1. <<m, e>> \in overdue
      BY <2>5, <2>6
    <3>2. devices[m][e] # NoConn
      BY <3>1 DEF LiveIsDevice
    <3> QED
      BY <2>2, <2>5, <2>6, <3>2
  <2> QED
    BY <2>3, <2>4, <2>5 DEF LiveIsDevice
<1>4. ASSUME NEW c \in Conn, OnDisconnect(c) \/ OnClose(c) PROVE LiveIsDevice'
  BY <1>3, <1>4 DEF OnDisconnect, OnClose, SenderIsCurrent
<1>5. ASSUME NEW n \in Node, StartHeartbeatCheck(n) PROVE LiveIsDevice'
  <2>1. /\ connClient' = connClient
        /\ \A c \in Conn :
             session'[c] = IF /\ NodeOf[c] = n /\ connClient[c] # NoClient
                              /\ <<n, connClient[c]>> \in overdue
                             THEN "evicted" ELSE session[c]
    BY <1>5, CheckEffect
  <2>2. \A m \in Node, d \in Client :
          devices'[m][d] = IF m = n /\ <<n, d>> \in overdue THEN NoConn ELSE devices[m][d]
    BY <1>5, CheckEffect
  <2>6. \A m \in Node, d \in Client : <<m, d>> \in overdue' <=> <<m, d>> \in overdue /\ m # n
    BY <1>5, CheckEffect
  <2>3. ASSUME NEW k \in Conn, session'[k] = "live"
        PROVE  devices'[NodeOf[k]][connClient'[k]] = k
    <3>1. session[k] = "live" /\ connClient[k] \in Client
      BY <2>1, <2>3, <1>0
    <3>2. ~(NodeOf[k] = n /\ <<n, connClient[k]>> \in overdue)
      BY <2>1, <2>3, <3>1
    <3> QED
      BY <3>1, <3>2, <1>0, <2>1, <2>2 DEF LiveIsDevice
  <2>4. ASSUME NEW m \in Node, NEW e \in Client, devices'[m][e] # NoConn
        PROVE  /\ NodeOf[devices'[m][e]] = m
               /\ connClient'[devices'[m][e]] = e
               /\ session'[devices'[m][e]] = "live"
    <3>1. devices'[m][e] = devices[m][e] /\ devices[m][e] \in Conn
          /\ ~(m = n /\ <<n, e>> \in overdue)
      BY <2>2, <2>4 DEF TypeOK
    <3> QED
      BY <3>1, <2>1, <2>4 DEF LiveIsDevice
  <2>5. ASSUME NEW m \in Node, NEW e \in Client, <<m, e>> \in overdue'
        PROVE  devices'[m][e] # NoConn
    <3>1. <<m, e>> \in overdue
      BY <2>5, <2>6
    <3>2. devices[m][e] # NoConn
      BY <3>1 DEF LiveIsDevice
    <3> QED
      BY <2>2, <2>5, <2>6, <3>2
  <2> QED
    BY <2>3, <2>4, <2>5 DEF LiveIsDevice
<1>6. ASSUME NEW c \in Conn,
             \/ OnConnection(c) \/ OnMessage(c) \/ HandlePingReq(c)
             \/ UpdateDeviceHeartbeat(c) \/ ParseError(c) \/ OnMessageReturns(c)
             \/ \E t \in Topic : HandlePublish(c, t) \/ HandleSubscribe(c, t)
      PROVE /\ UNCHANGED <<connClient, session, devices>>
            /\ overdue' \subseteq overdue
  BY <1>6 DEF OnConnection, OnMessage, HandlePingReq, UpdateDeviceHeartbeat,
              ParseError, OnMessageReturns, HandlePublish, HandleSubscribe, tables
<1>7. ASSUME NEW n \in Node, NEW d \in Client, KeepAliveElapses(n, d) PROVE LiveIsDevice'
  <2>1. /\ UNCHANGED <<connClient, session, devices>>
        /\ overdue' = overdue \cup {<<n, d>>} /\ devices[n][d] # NoConn
    BY <1>7 DEF KeepAliveElapses
  <2> QED
    BY <1>1, <2>1
<1>8. ASSUME NEW n \in Node, BreakRedis(n) \/ Reconnect(n) PROVE LiveIsDevice'
  BY <1>1, <1>8 DEF BreakRedis, Reconnect, tables
<1>9. CASE UNCHANGED vars
  BY <1>1, <1>9 DEF vars
<1>10. ASSUME UNCHANGED <<connClient, session, devices>>, overdue' \subseteq overdue
       PROVE  LiveIsDevice'
  BY <1>1, <1>10
<1> QED
  BY <1>10, <1>2, <1>4, <1>5, <1>6, <1>7, <1>8, <1>9 DEF Next, Packet

\* The tables hold what was acknowledged to the live sessions.
LEMMA AckedStep ==
  Discipline = "exclusive" /\ SessionInv /\ SenderIsCurrent /\ ClientUsedOnce
    /\ AckedIsSubscribed /\ [Next]_vars => AckedIsSubscribed'
<1> SUFFICES ASSUME Discipline = "exclusive", SessionInv, SenderIsCurrent,
                    ClientUsedOnce, AckedIsSubscribed, [Next]_vars
             PROVE  AckedIsSubscribed'
  OBVIOUS
<1> USE DEF SessionInv
<1>0. \A k \in Conn : /\ NodeOf[k] \in Node
                      /\ session[k] = "live" => connClient[k] \in Client
  BY DEF ClientUsedOnce, TypeOK
<1>1. CASE UNCHANGED <<connClient, session, subscriptions, acked>>
  BY <1>1 DEF AckedIsSubscribed
<1>2. ASSUME NEW c \in Conn, NEW d \in Client, HandleConnect(c, d) PROVE AckedIsSubscribed'
  <2>1. /\ subscriptions' = subscriptions
        /\ \A k \in Conn : /\ connClient'[k] = IF k = c THEN d ELSE connClient[k]
                           /\ session'[k] = IF k = c THEN "live" ELSE session[k]
                           /\ acked'[k] = IF k = c THEN {} ELSE acked[k]
    BY <1>2, ConnectEffect
  <2> QED
    BY <2>1 DEF AckedIsSubscribed
<1>3. ASSUME NEW c \in Conn, NEW t \in Topic, HandleSubscribe(c, t) PROVE AckedIsSubscribed'
  <2> DEFINE n == NodeOf[c]
             d == connClient[c]
  <2>1. currentConn[n] = c /\ n \in Node /\ d \in Client
    BY <1>3 DEF HandleSubscribe, SenderIsCurrent, TypeOK
  <2>2. /\ subscriptions' = [subscriptions EXCEPT ![n][d] = @ \cup {t}]
        /\ acked' = [acked EXCEPT ![c] = @ \cup {t}]
        /\ UNCHANGED <<connClient, session>>
    BY <1>3, <2>1 DEF HandleSubscribe, Subscribe
  <2>3. /\ \A m \in Node, e \in Client : subscriptions[m][e] \subseteq subscriptions'[m][e]
        /\ t \in subscriptions'[n][d]
        /\ \A k \in Conn : acked'[k] = IF k = c THEN acked[k] \cup {t} ELSE acked[k]
    <3> HIDE DEF n, d
    <3>1. \A m \in Node, e \in Client : subscriptions[m][e] \subseteq subscriptions'[m][e]
      BY <2>1, <2>2 DEF TypeOK
    <3>2. t \in subscriptions'[n][d]
      BY <2>1, <2>2 DEF TypeOK
    <3>3. \A k \in Conn : acked'[k] = IF k = c THEN acked[k] \cup {t} ELSE acked[k]
      BY <2>2 DEF TypeOK
    <3> QED
      BY <3>1, <3>2, <3>3
  <2>4. ASSUME NEW k \in Conn, session[k] = "live"
        PROVE  acked'[k] \subseteq subscriptions'[NodeOf[k]][connClient[k]]
    <3>1. acked[k] \subseteq subscriptions'[NodeOf[k]][connClient[k]]
      BY <1>0, <2>3, <2>4 DEF AckedIsSubscribed
    <3>2. CASE k = c
      <4>1. acked'[k] = acked[k] \cup {t} /\ t \in subscriptions'[NodeOf[k]][connClient[k]]
        BY <2>3, <3>2
      <4> QED
        BY <3>1, <4>1
    <3>3. CASE k # c
      BY <2>3, <3>1, <3>3
    <3> QED
      BY <3>2, <3>3
  <2> QED
    BY <2>2, <2>4 DEF AckedIsSubscribed
<1>4. ASSUME NEW c \in Conn, DropClient(c), session' = [session EXCEPT ![c] = "no"]
      PROVE AckedIsSubscribed'
  <2>1. \A k \in Conn : /\ connClient'[k] = IF k = c THEN NoClient ELSE connClient[k]
                        /\ session'[k] = IF k = c THEN "no" ELSE session[k]
                        /\ acked'[k] = IF k = c THEN {} ELSE acked[k]
    BY <1>4, DropEffect DEF TypeOK
  <2>2. \A m \in Node, d \in Client :
          subscriptions'[m][d] = IF m = NodeOf[c] /\ d = connClient[c]
                                   THEN {} ELSE subscriptions[m][d]
    BY <1>4, DropEffect
  <2>3. ASSUME NEW k \in Conn, session'[k] = "live"
        PROVE  acked'[k] \subseteq subscriptions'[NodeOf[k]][connClient'[k]]
    <3>1. k # c /\ session[k] = "live" /\ connClient'[k] = connClient[k] /\ acked'[k] = acked[k]
      BY <2>1, <2>3
    <3>2. connClient[k] # connClient[c] /\ connClient[k] \in Client
      BY <3>1, <1>0 DEF ClientUsedOnce
    <3> QED
      BY <3>1, <3>2, <1>0, <2>2 DEF AckedIsSubscribed
  <2> QED
    BY <2>3 DEF AckedIsSubscribed
<1>5. ASSUME NEW c \in Conn, OnDisconnect(c) \/ OnClose(c) PROVE AckedIsSubscribed'
  BY <1>4, <1>5 DEF OnDisconnect, OnClose, SenderIsCurrent
<1>6. ASSUME NEW n \in Node, StartHeartbeatCheck(n) PROVE AckedIsSubscribed'
  <2>1. /\ connClient' = connClient /\ acked' = acked
        /\ \A c \in Conn :
             session'[c] = IF /\ NodeOf[c] = n /\ connClient[c] # NoClient
                              /\ <<n, connClient[c]>> \in overdue
                             THEN "evicted" ELSE session[c]
    BY <1>6, CheckEffect
  <2>2. \A m \in Node, d \in Client :
          subscriptions'[m][d] = IF m = n /\ <<n, d>> \in overdue
                                   THEN {} ELSE subscriptions[m][d]
    BY <1>6, CheckEffect
  <2>3. ASSUME NEW k \in Conn, session'[k] = "live"
        PROVE  acked'[k] \subseteq subscriptions'[NodeOf[k]][connClient'[k]]
    <3>1. session[k] = "live" /\ connClient[k] \in Client
      BY <2>1, <2>3, <1>0
    <3>2. ~(NodeOf[k] = n /\ <<n, connClient[k]>> \in overdue)
      BY <2>1, <2>3, <3>1
    <3> QED
      BY <3>1, <3>2, <1>0, <2>1, <2>2 DEF AckedIsSubscribed
  <2> QED
    BY <2>3 DEF AckedIsSubscribed
<1>7. ASSUME NEW c \in Conn,
             \/ OnConnection(c) \/ OnMessage(c) \/ HandlePingReq(c)
             \/ UpdateDeviceHeartbeat(c) \/ ParseError(c) \/ OnMessageReturns(c)
             \/ \E t \in Topic : HandlePublish(c, t)
      PROVE UNCHANGED <<connClient, session, subscriptions, acked>>
  BY <1>7 DEF OnConnection, OnMessage, HandlePingReq, UpdateDeviceHeartbeat,
              ParseError, OnMessageReturns, HandlePublish, tables
<1>8. ASSUME NEW n \in Node,
             BreakRedis(n) \/ Reconnect(n) \/ \E d \in Client : KeepAliveElapses(n, d)
      PROVE UNCHANGED <<connClient, session, subscriptions, acked>>
  BY <1>8 DEF BreakRedis, Reconnect, KeepAliveElapses, tables
<1>9. CASE UNCHANGED vars
  BY <1>1, <1>9 DEF vars
<1> QED
  BY <1>1, <1>2, <1>3, <1>5, <1>6, <1>7, <1>8, <1>9 DEF Next, Packet

\* A client that is in a node's table is in no other node's.
LEMMA OneEntry ==
  ASSUME TypeOK, ClientUsedOnce, LiveIsDevice, NEW d \in Client,
         NEW n \in Node, devices[n][d] # NoConn
  PROVE  \A m \in Node : devices[m][d] # NoConn => m = n
<1> SUFFICES ASSUME NEW m \in Node, devices[m][d] # NoConn PROVE m = n
  OBVIOUS
<1>1. devices[n][d] \in Conn /\ devices[m][d] \in Conn
  BY DEF TypeOK
<1>2. /\ connClient[devices[n][d]] = d /\ NodeOf[devices[n][d]] = n
      /\ connClient[devices[m][d]] = d /\ NodeOf[devices[m][d]] = m
  BY DEF LiveIsDevice
<1>3. devices[n][d] = devices[m][d]
  BY <1>1, <1>2 DEF ClientUsedOnce
<1> QED
  BY <1>2, <1>3

\* The entry of a connection's client is that connection, at its node.
LEMMA EntryOfConn ==
  ASSUME TypeOK, ClientUsedOnce, LiveIsDevice, NEW c \in Conn, connClient[c] # NoClient,
         NEW m \in Node, devices[m][connClient[c]] # NoConn
  PROVE  m = NodeOf[c]
<1>1. connClient[c] \in Client /\ devices[m][connClient[c]] \in Conn
  BY DEF TypeOK
<1>2. /\ connClient[devices[m][connClient[c]]] = connClient[c]
      /\ NodeOf[devices[m][connClient[c]]] = m
  BY <1>1 DEF LiveIsDevice
<1> QED
  BY <1>1, <1>2 DEF ClientUsedOnce

\* The HSET of a heartbeat puts back the record that is there.
LEMMA HeartbeatPutsBack ==
  ASSUME TypeOK, FetchedIsFresh, NEW c \in Conn, UpdateDeviceHeartbeat(c)
  PROVE  registry' = registry
<1>1. /\ fetched[c] = <<connClient[c], registry[connClient[c]]>>
      /\ connClient[c] \in Client
  BY DEF UpdateDeviceHeartbeat, FetchedIsFresh, TypeOK
<1>2. \/ registry' = [registry EXCEPT ![connClient[c]] = registry[connClient[c]]]
      \/ registry' = registry
  BY <1>1 DEF UpdateDeviceHeartbeat
<1> QED
  BY <1>1, <1>2 DEF TypeOK

\* Nobody writes a record between the HGET and the HSET of a heartbeat.
LEMMA FreshStep ==
  MainLoopServes /\ Discipline = "exclusive" /\ SessionInv /\ SenderIsCurrent
    /\ ClientUsedOnce /\ LiveIsDevice /\ FetchedIsFresh /\ [Next]_vars
    => FetchedIsFresh'
<1> SUFFICES ASSUME MainLoopServes, Discipline = "exclusive", SessionInv, SenderIsCurrent,
                    ClientUsedOnce, LiveIsDevice, FetchedIsFresh, [Next]_vars
             PROVE  FetchedIsFresh'
  OBVIOUS
<1> USE DEF SessionInv
<1>0. \A k \in Conn : connClient[k] # NoClient => connClient[k] \in Client
  BY DEF TypeOK
<1>1. ASSUME UNCHANGED <<connClient, registry, fetched>>,
             \A k \in Conn : parsing'[k] = "hset" => parsing[k] = "hset"
      PROVE  FetchedIsFresh'
  BY <1>1 DEF FetchedIsFresh
<1>2. ASSUME NEW c \in Conn, NEW d \in Client, HandleConnect(c, d) PROVE FetchedIsFresh'
  <2>1. \A k \in Conn : connClient[k] # d
    BY <1>2 DEF HandleConnect, MayConnect
  <2>2. /\ \A k \in Conn : connClient'[k] = IF k = c THEN d ELSE connClient[k]
        /\ UNCHANGED <<parsing, fetched>>
    BY <1>2, ConnectEffect
  <2>5. \A e \in Client : e # d => registry'[e] = registry[e]
    BY <1>2, ConnectRecords DEF Records
  <2>3. parsing[c] = "yes"
    BY <1>2 DEF HandleConnect
  <2>4. ASSUME NEW k \in Conn, parsing[k] = "hset"
        PROVE  /\ connClient'[k] = connClient[k] /\ connClient[k] \in Client
               /\ registry'[connClient[k]] = registry[connClient[k]]
    BY <1>0, <2>1, <2>2, <2>3, <2>4, <2>5 DEF FetchedIsFresh
  <2> QED
    BY <2>2, <2>4 DEF FetchedIsFresh
<1>3. ASSUME NEW c \in Conn, DropClient(c), parsing[c] # "hset", UNCHANGED <<parsing, fetched>>
      PROVE FetchedIsFresh'
  <2>1. /\ \A k \in Conn : connClient'[k] = IF k = c THEN NoClient ELSE connClient[k]
        /\ \A d \in Client : d # connClient[c] => registry'[d] = registry[d]
    BY <1>3, DropEffect, DropRecords DEF Records
  <2>2. ASSUME NEW k \in Conn, parsing[k] = "hset"
        PROVE  /\ connClient'[k] = connClient[k]
               /\ registry'[connClient[k]] = registry[connClient[k]]
    <3>1. k # c /\ connClient[k] # NoClient
      BY <1>3, <2>2 DEF FetchedIsFresh
    <3>2. connClient[k] # connClient[c] /\ connClient[k] \in Client
      BY <1>0, <3>1 DEF ClientUsedOnce
    <3> QED
      BY <2>1, <3>1, <3>2
  <2> QED
    BY <1>3, <2>2 DEF FetchedIsFresh
<1>4. ASSUME NEW c \in Conn, OnDisconnect(c) PROVE FetchedIsFresh'
  <2>1. DropClient(c) /\ parsing[c] # "hset" /\ UNCHANGED <<parsing, fetched>>
    BY <1>4 DEF OnDisconnect, SenderIsCurrent
  <2> QED
    BY <1>3, <2>1
<1>5. ASSUME NEW c \in Conn, OnClose(c) PROVE FetchedIsFresh'
  <2>1. DropClient(c) /\ parsing[c] # "hset" /\ UNCHANGED <<parsing, fetched>>
    BY <1>5 DEF OnClose, LoopFree
  <2> QED
    BY <1>3, <2>1
<1>6. ASSUME NEW n \in Node, StartHeartbeatCheck(n) PROVE FetchedIsFresh'
  <2>1. /\ \A d \in Client : <<n, d>> \notin overdue => registry'[d] = registry[d]
        /\ UNCHANGED <<parsing, connClient, fetched>> /\ LoopFree(MainLoop[n])
    BY <1>6, CheckEffect, CheckRecords DEF Records
  <2>2. ASSUME NEW k \in Conn, parsing[k] = "hset"
        PROVE  registry'[connClient[k]] = registry[connClient[k]]
    <3>1. connClient[k] # NoClient /\ connClient[k] \in Client /\ NodeOf[k] \in Node
      BY <1>0, <2>2 DEF FetchedIsFresh
    <3>2. NodeOf[k] # n
      BY <2>1, <2>2 DEF LoopFree, MainLoopServes
    <3>3. devices[n][connClient[k]] = NoConn
      BY <3>1, <3>2, EntryOfConn
    <3>4. <<n, connClient[k]>> \notin overdue
      BY <3>1, <3>3 DEF LiveIsDevice
    <3> QED
      BY <2>1, <3>1, <3>4
  <2> QED
    BY <2>1, <2>2 DEF FetchedIsFresh
<1>7. ASSUME NEW c \in Conn, HandlePingReq(c) PROVE FetchedIsFresh'
  <2>1. currentConn[NodeOf[c]] = c
    BY <1>7 DEF HandlePingReq, SenderIsCurrent
  <2>2. UNCHANGED <<connClient, registry>> /\ connClient[c] # NoClient
    BY <1>7, <2>1 DEF HandlePingReq
  <2>3. CASE UNCHANGED <<fetched, parsing>>
    BY <1>1, <2>2, <2>3
  <2>4. CASE /\ fetched' = [fetched EXCEPT ![c] = <<connClient[c], registry[connClient[c]]>>]
             /\ parsing' = [parsing EXCEPT ![c] = "hset"]
    <3>1. \A k \in Conn : k # c => fetched'[k] = fetched[k] /\ parsing'[k] = parsing[k]
      BY <2>4 DEF TypeOK
    <3>2. fetched'[c] = <<connClient[c], registry[connClient[c]]>>
      BY <2>4 DEF TypeOK
    <3> QED
      BY <2>2, <3>1, <3>2 DEF FetchedIsFresh
  <2> QED
    BY <1>7, <2>1, <2>3, <2>4 DEF HandlePingReq
<1>8. ASSUME NEW c \in Conn, UpdateDeviceHeartbeat(c) PROVE FetchedIsFresh'
  <2>1. registry' = registry
    BY <1>8, HeartbeatPutsBack
  <2>2. /\ connClient' = connClient
        /\ \A k \in Conn : k # c => fetched'[k] = fetched[k] /\ parsing'[k] = parsing[k]
        /\ parsing'[c] = "yes"
    BY <1>8 DEF UpdateDeviceHeartbeat, TypeOK
  <2> QED
    BY <2>1, <2>2 DEF FetchedIsFresh
<1>9. ASSUME NEW c \in Conn,
             \/ OnConnection(c) \/ OnMessage(c) \/ ParseError(c) \/ OnMessageReturns(c)
             \/ \E t \in Topic : HandlePublish(c, t) \/ HandleSubscribe(c, t)
      PROVE  /\ UNCHANGED <<connClient, registry, fetched>>
             /\ \A k \in Conn : parsing'[k] = "hset" => parsing[k] = "hset"
  <2>1. CASE OnMessage(c)
    BY <2>1 DEF OnMessage, TypeOK
  <2>2. CASE ParseError(c)
    BY <2>2 DEF ParseError, TypeOK
  <2>3. CASE OnMessageReturns(c)
    BY <2>3 DEF OnMessageReturns, TypeOK
  <2>4. CASE OnConnection(c) \/ \E t \in Topic : HandlePublish(c, t) \/ HandleSubscribe(c, t)
    BY <2>4 DEF OnConnection, HandlePublish, HandleSubscribe
  <2> QED
    BY <1>9, <2>1, <2>2, <2>3, <2>4
<1>10. ASSUME NEW n \in Node,
              BreakRedis(n) \/ Reconnect(n) \/ \E d \in Client : KeepAliveElapses(n, d)
       PROVE  UNCHANGED <<connClient, registry, fetched, parsing>>
  BY <1>10 DEF BreakRedis, Reconnect, KeepAliveElapses
<1>11. CASE UNCHANGED <<connClient, registry, fetched, parsing>>
  BY <1>1, <1>11
<1>12. CASE UNCHANGED vars
  BY <1>11, <1>12 DEF vars
<1> QED
  BY <1>1, <1>2, <1>4, <1>5, <1>6, <1>7, <1>8, <1>9, <1>10, <1>11, <1>12 DEF Next, Packet

\* Every step keeps the registry in line with the device tables, for the clients
\* whose last write reached Redis.
LEMMA MirrorStep ==
  Discipline = "exclusive" /\ SessionInv /\ SenderIsCurrent /\ ClientUsedOnce
    /\ LiveIsDevice /\ FetchedIsFresh /\ RegistryMirrorsDevices /\ [Next]_vars
    => RegistryMirrorsDevices'
<1> SUFFICES ASSUME Discipline = "exclusive", SessionInv, SenderIsCurrent, ClientUsedOnce,
                    LiveIsDevice, FetchedIsFresh, RegistryMirrorsDevices, [Next]_vars
             PROVE  RegistryMirrorsDevices'
  OBVIOUS
<1> USE DEF SessionInv, Records
<1>1. CASE UNCHANGED <<devices, registry, missed>>
  BY <1>1 DEF RegistryMirrorsDevices
<1>2. ASSUME NEW c \in Conn, NEW d \in Client, HandleConnect(c, d)
      PROVE RegistryMirrorsDevices'
  <2> DEFINE n == NodeOf[c]
  <2>1. n \in Node /\ \A k \in Conn : connClient[k] # d
    BY <1>2 DEF HandleConnect, MayConnect
  <2>2. \A m \in Node : devices[m][d] = NoConn
    BY <2>1 DEF LiveIsDevice, TypeOK
  <2>3. /\ \A m \in Node, e \in Client :
             devices'[m][e] = IF m = n /\ e = d THEN c ELSE devices[m][e]
        /\ Records(n, {d}, n)
    BY <1>2, ConnectEffect, ConnectRecords
  <2> HIDE DEF n
  <2>4. ASSUME NEW m \in Node, NEW e \in Client, <<m, e>> \notin missed'
        PROVE  registry'[e] = m <=> devices'[m][e] # NoConn
    <3>1. CASE e # d
      BY <2>3, <2>4, <3>1 DEF RegistryMirrorsDevices
    <3>2. CASE e = d /\ m = n
      <4>1. registry'[e] = n /\ devices'[m][e] = c
        BY <2>1, <2>3, <2>4, <3>2
      <4> QED
        BY <4>1, <3>2
    <3>3. CASE e = d /\ m # n
      <4>1. devices'[m][e] = NoConn /\ registry[e] # m
        BY <2>2, <2>3, <2>4, <3>3 DEF RegistryMirrorsDevices
      <4> QED
        BY <2>3, <3>3, <4>1
    <3> QED
      BY <3>1, <3>2, <3>3
  <2> QED
    BY <2>3, <2>4 DEF RegistryMirrorsDevices
<1>3. ASSUME NEW c \in Conn, DropClient(c) PROVE RegistryMirrorsDevices'
  <2> DEFINE n == NodeOf[c]
             d == connClient[c]
  <2>1. /\ \A m \in Node, e \in Client :
             devices'[m][e] = IF m = n /\ e = d THEN NoConn ELSE devices[m][e]
        /\ Records(n, {d} \cap Client, NoNode)
    BY <1>3, DropEffect, DropRecords
  <2>2. \A m \in Node : d \in Client /\ m # n => devices[m][d] = NoConn
    BY EntryOfConn
  <2> HIDE DEF n, d
  <2>3. ASSUME NEW m \in Node, NEW e \in Client, <<m, e>> \notin missed'
        PROVE  registry'[e] = m <=> devices'[m][e] # NoConn
    <3>1. CASE e # d
      BY <2>1, <2>3, <3>1 DEF RegistryMirrorsDevices
    <3>2. CASE e = d /\ m = n
      BY <2>1, <2>3, <3>2
    <3>3. CASE e = d /\ m # n
      <4>1. devices'[m][e] = NoConn /\ registry[e] # m
        BY <2>1, <2>2, <2>3, <3>3 DEF RegistryMirrorsDevices
      <4> QED
        BY <2>1, <3>3, <4>1
    <3> QED
      BY <3>1, <3>2, <3>3
  <2> QED
    BY <1>3, <2>3 DEF RegistryMirrorsDevices
<1>4. ASSUME NEW c \in Conn, OnDisconnect(c) \/ OnClose(c) PROVE RegistryMirrorsDevices'
  BY <1>3, <1>4 DEF OnDisconnect, OnClose, SenderIsCurrent
<1>5. ASSUME NEW n \in Node, StartHeartbeatCheck(n) PROVE RegistryMirrorsDevices'
  <2>1. /\ \A m \in Node, d \in Client :
             devices'[m][d] = IF m = n /\ <<n, d>> \in overdue THEN NoConn
                                                               ELSE devices[m][d]
        /\ Records(n, {d \in Client : <<n, d>> \in overdue}, NoNode)
    BY <1>5, CheckEffect, CheckRecords
  <2>2. ASSUME NEW m \in Node, NEW d \in Client, <<m, d>> \notin missed'
        PROVE  registry'[d] = m <=> devices'[m][d] # NoConn
    <3>1. CASE <<n, d>> \notin overdue
      BY <2>1, <2>2, <3>1 DEF RegistryMirrorsDevices
    <3>2. CASE <<n, d>> \in overdue /\ m = n
      BY <2>1, <2>2, <3>2
    <3>3. CASE <<n, d>> \in overdue /\ m # n
      <4>1. devices[n][d] # NoConn
        BY <3>3 DEF LiveIsDevice
      <4>2. devices[m][d] = NoConn
        BY <3>3, <4>1, OneEntry
      <4>3. devices'[m][d] = NoConn /\ registry[d] # m
        BY <2>1, <2>2, <3>3, <4>2 DEF RegistryMirrorsDevices
      <4> QED
        BY <2>1, <4>3, ZenonT(30)
    <3> QED
      BY <3>1, <3>2, <3>3
  <2> QED
    BY <2>1, <2>2 DEF RegistryMirrorsDevices
<1>6. ASSUME NEW c \in Conn, UpdateDeviceHeartbeat(c) PROVE RegistryMirrorsDevices'
  BY <1>1, <1>6, HeartbeatPutsBack DEF UpdateDeviceHeartbeat, tables
<1>7. ASSUME NEW n \in Node, BreakRedis(n) \/ Reconnect(n)
      PROVE  UNCHANGED <<devices, registry, missed>>
  BY <1>7 DEF BreakRedis, Reconnect, tables
<1>8. ASSUME NEW c \in Conn,
             \/ OnConnection(c) \/ OnMessage(c) \/ HandlePingReq(c)
             \/ ParseError(c) \/ OnMessageReturns(c)
             \/ \E t \in Topic : HandlePublish(c, t) \/ HandleSubscribe(c, t)
      PROVE UNCHANGED <<devices, registry, missed>>
  BY <1>8 DEF OnConnection, OnMessage, HandlePingReq, ParseError, OnMessageReturns,
              HandlePublish, HandleSubscribe, tables
<1>9. ASSUME NEW n \in Node, NEW d \in Client, KeepAliveElapses(n, d)
      PROVE UNCHANGED <<devices, registry, missed>>
  BY <1>9 DEF KeepAliveElapses
<1>10. CASE UNCHANGED vars
  BY <1>1, <1>10 DEF vars
<1> QED
  BY <1>1, <1>2, <1>4, <1>5, <1>6, <1>7, <1>8, <1>9, <1>10 DEF Next, Packet

\* Sessions, device tables and subscriptions agree, with "-t 0" and client ids
\* used by one connection at a time.
THEOREM SessionsAgree ==
  ASSUME OneLoopPerNode, Discipline = "exclusive"
  PROVE  Spec => [](/\ SessionInv /\ SenderIsCurrent /\ IndexInverse /\ ClientUsedOnce
                    /\ LiveIsDevice /\ AckedIsSubscribed)
<1> DEFINE Inv == SessionInv /\ SenderIsCurrent
<1>1. Init => ClientUsedOnce /\ LiveIsDevice /\ AckedIsSubscribed
  BY DEF Init, ClientUsedOnce, LiveIsDevice, AckedIsSubscribed
<1>2. Inv /\ ClientUsedOnce /\ [Next]_vars => ClientUsedOnce'
  BY UsedOnceStep
<1>3. Inv /\ ClientUsedOnce /\ LiveIsDevice /\ [Next]_vars => LiveIsDevice'
  BY LiveStep
<1>4. Inv /\ ClientUsedOnce /\ AckedIsSubscribed /\ [Next]_vars => AckedIsSubscribed'
  BY AckedStep
<1>5. Spec => []SenderIsCurrent
  BY SenderAlwaysCurrent
<1> QED
  BY <1>1, <1>2, <1>3, <1>4, <1>5, SessionInvariant, IndexStaysInverse, PTL DEF Spec

\* The device table points from a live session's client to its connection: what
\* commands and publications for the client are sent to.
THEOREM LiveSessionsRegistered ==
  ASSUME OneLoopPerNode, Discipline = "exclusive"
  PROVE  Spec => []SessionRegistered
<1>1. ClientUsedOnce /\ LiveIsDevice => SessionRegistered
  BY DEF ClientUsedOnce, LiveIsDevice, SessionRegistered
<1> QED
  BY <1>1, SessionsAgree, PTL

\* Device tables and the registry in Redis tell the same story of every client
\* whose last write reached Redis: no takeover, timeout or heartbeat in flight on
\* another node, and no link that breaks and comes back, leaves its record wrong.
THEOREM RegistryStaysExact ==
  ASSUME MainLoopServes, Discipline = "exclusive"
  PROVE  Spec => []RegistryMirrorsDevices
<1> DEFINE Inv == SessionInv /\ SenderIsCurrent /\ ClientUsedOnce /\ LiveIsDevice
<1>1. OneLoopPerNode
  BY DEF MainLoopServes, OneLoopPerNode
<1>2. Spec => []Inv
  BY <1>1, SessionsAgree, PTL
<1>3. Init => FetchedIsFresh /\ RegistryMirrorsDevices
  BY DEF Init, FetchedIsFresh, RegistryMirrorsDevices
<1>4. Inv /\ FetchedIsFresh /\ [Next]_vars => FetchedIsFresh'
  BY FreshStep
<1>5. Inv /\ FetchedIsFresh /\ RegistryMirrorsDevices /\ [Next]_vars
        => RegistryMirrorsDevices'
  BY MirrorStep
<1> QED
  BY <1>2, <1>3, <1>4, <1>5, PTL DEF Spec

\* A publication goes to every other live session of the node that was
\* acknowledged the topic.
THEOREM PublicationsReach ==
  ASSUME OneLoopPerNode, Discipline = "exclusive"
  PROVE  Spec => PublishReachesSubscribers
<1> DEFINE Reached(c, t) ==
             {k \in Conn \ {c} : /\ NodeOf[k] = NodeOf[c] /\ connState[k] = "open"
                                 /\ session[k] = "live" /\ t \in acked[k]}
           Inv == /\ SessionInv /\ SenderIsCurrent /\ IndexInverse /\ ClientUsedOnce
                  /\ LiveIsDevice /\ AckedIsSubscribed
<1>1. ASSUME Inv, NEW c \in Conn, NEW t \in Topic, HandlePublish(c, t)
      PROVE  Reached(c, t) \subseteq fanout'
  <2> SUFFICES ASSUME NEW k \in Conn, k # c, NodeOf[k] = NodeOf[c],
                      connState[k] = "open", session[k] = "live", t \in acked[k]
               PROVE  k \in fanout'
    OBVIOUS
  <2> DEFINE n == NodeOf[c]
             d == connClient[k]
  <2>1. n \in Node /\ d \in Client /\ devices[n][d] = k /\ t \in subscriptions[n][d]
    BY <1>1 DEF ClientUsedOnce, LiveIsDevice, AckedIsSubscribed, SessionInv, TypeOK
  <2>2. d \in topicSubscribers[n][t]
    BY <1>1, <2>1 DEF IndexInverse
  <2>3. IsOnline(n, d)
    BY <2>1 DEF IsOnline
  <2>4. k \in GetSubscribers(n, t)
    BY <2>1, <2>2, <2>3 DEF GetSubscribers
  <2>5. currentConn[n] = c /\ fanout' = GetSubscribers(n, t) \ {currentConn[n]}
    BY <1>1 DEF HandlePublish, SenderIsCurrent
  <2> QED
    BY <2>4, <2>5
<1>2. Inv /\ [Next]_vars
        => [\A c \in Conn, t \in Topic :
              HandlePublish(c, t) => Reached(c, t) \subseteq fanout']_vars
  BY <1>1
<1>3. Spec => []Inv
  BY SessionsAgree
<1>4. Spec => [][Next]_vars
  BY DEF Spec
<1> QED
  BY <1>2, <1>3, <1>4, PTL DEF PublishReachesSubscribers
=============================================================================
