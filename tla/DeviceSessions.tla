--------------------------- MODULE DeviceSessions ---------------------------
(***************************************************************************)
(* MQTT sessions of the gateway nodes: the packet handlers of              *)
(* src/gateway/GatewayServer.cpp, the tables of src/gateway/               *)
(* DeviceManager.cpp, and the device registry iot:devices the nodes share  *)
(* through src/storage/RedisClient.cpp.                                    *)
(*                                                                         *)
(* A connection belongs to a node and is served by one event loop of it    *)
(* (LoopOf).  With "-t 0" that is the node's main loop; with worker        *)
(* threads two connections of a node may be served concurrently.  What a   *)
(* device sends is chosen freely; Discipline restricts it to what a well   *)
(* behaved MQTT client does.  Elapsed keep-alive time is the event that a  *)
(* device becomes overdue.                                                 *)
(***************************************************************************)
EXTENDS Naturals

CONSTANTS
  Node, Conn, Client, Topic, Loop,
  NoNode, NoConn, NoClient,
  NodeOf,     \* Conn -> Node
  LoopOf,     \* Conn -> Loop, TcpServer::newConnection's choice
  MainLoop,   \* Node -> Loop, runs the timers
  Fallible,   \* bound: the nodes whose link to Redis may fail
  Discipline  \* "none", "connect-once" or "exclusive", see MayConnect

ASSUME ConstantsAssumption ==
  /\ NoNode \notin Node /\ NoConn \notin Conn /\ NoClient \notin Client
  /\ NodeOf \in [Conn -> Node] /\ LoopOf \in [Conn -> Loop]
  /\ MainLoop \in [Node -> Loop]
  /\ \A c, k \in Conn : LoopOf[c] = LoopOf[k] => NodeOf[c] = NodeOf[k]
  /\ Fallible \subseteq Node
  /\ Discipline \in {"none", "connect-once", "exclusive"}

VARIABLES
  connState,        \* TcpConnection::state_
  parsing,          \* "yes" inside onMessage, "hset" inside updateDeviceHeartbeat
  currentConn,      \* GatewayServer::currentConn_ of each node
  connClient,       \* g_connClientMap
  devices,          \* DeviceManager::devices_ of each node: client -> connection
  overdue,          \* <<node, client>> with elapsed > 1.5 * keepAlive
  subscriptions,    \* DeviceManager::subscriptions_
  topicSubscribers, \* DeviceManager::topicSubscribers_
  registry,         \* Redis iot:devices: client -> gateway node
  fetched,          \* what the HGET of updateDeviceHeartbeat returned
  redisLink,        \* conn_ of each node: "ok"; "broken" while connected_ is
                    \* still true; "down" when connected_ is false
  missed,           \* history: <<node, client>> whose last HSET or HDEL by that
                    \* node did not reach Redis
  fanout,           \* connections the PUBLISH just handled was forwarded to
  acked,            \* history: topics SUBACKed on a connection's session
  session           \* history: "no", "live" or "evicted" (heartbeat timeout)

vars == <<connState, parsing, currentConn, connClient, devices, overdue,
          subscriptions, topicSubscribers, registry, fetched, redisLink,
          missed, fanout, acked, session>>

tables == <<devices, overdue, subscriptions, topicSubscribers>>

TypeOK ==
  /\ connState \in [Conn -> {"none", "open", "closing", "closed"}]
  /\ parsing \in [Conn -> {"no", "yes", "hset"}]
  /\ currentConn \in [Node -> Conn \cup {NoConn}]
  /\ connClient \in [Conn -> Client \cup {NoClient}]
  /\ devices \in [Node -> [Client -> Conn \cup {NoConn}]]
  /\ overdue \in SUBSET (Node \X Client)
  /\ subscriptions \in [Node -> [Client -> SUBSET Topic]]
  /\ topicSubscribers \in [Node -> [Topic -> SUBSET Client]]
  /\ registry \in [Client -> Node \cup {NoNode}]
  /\ fetched \in [Conn -> (Client \cup {NoClient}) \X (Node \cup {NoNode})]
  /\ redisLink \in [Node -> {"ok", "broken", "down"}]
  /\ missed \in SUBSET (Node \X Client)
  /\ fanout \in SUBSET Conn
  /\ acked \in [Conn -> SUBSET Topic]
  /\ session \in [Conn -> {"no", "live", "evicted"}]

Init ==
  /\ connState = [c \in Conn |-> "none"]
  /\ parsing = [c \in Conn |-> "no"]
  /\ currentConn = [n \in Node |-> NoConn]
  /\ connClient = [c \in Conn |-> NoClient]
  /\ devices = [n \in Node |-> [d \in Client |-> NoConn]]
  /\ overdue = {}
  /\ subscriptions = [n \in Node |-> [d \in Client |-> {}]]
  /\ topicSubscribers = [n \in Node |-> [t \in Topic |-> {}]]
  /\ registry = [d \in Client |-> NoNode]
  /\ fetched = [c \in Conn |-> <<NoClient, NoNode>>]
  /\ redisLink = [n \in Node |-> "ok"]
  /\ missed = {}
  /\ fanout = {}
  /\ acked = [c \in Conn |-> {}]
  /\ session = [c \in Conn |-> "no"]

-----------------------------------------------------------------------------
(* DeviceManager, on node n. *)

IsOnline(n, d) == devices[n][d] # NoConn /\ connState[devices[n][d]] = "open"

\* registerDevice or unregisterDevice of the clients D by node n, one HSET or
\* HDEL each.  A NULL reply is ignored: over a broken link nothing is written,
\* and a link that breaks on the way lets only some commands R through.
WriteRegistry(n, D, node) ==
  \E R \in SUBSET D :
    /\ redisLink[n] # "ok" => R = {}
    /\ n \notin Fallible => R = D
    /\ registry' = [d \in Client |-> IF d \in R THEN node ELSE registry[d]]
    /\ missed' = (missed \ ({n} \X R)) \cup ({n} \X (D \ R))
    /\ redisLink' = [redisLink EXCEPT ![n] =
         IF @ = "ok" /\ R # D THEN "broken" ELSE @]

\* deviceOnline: local entry, then HSET when Redis is connected.
DeviceOnline(n, d, c) ==
  /\ devices' = [devices EXCEPT ![n][d] = c]
  /\ overdue' = overdue \ {<<n, d>>}
  /\ WriteRegistry(n, {d}, n)
  /\ UNCHANGED <<subscriptions, topicSubscribers>>

\* Variant: the registry record is not deleted.
DeviceOfflineKeepsRecord(n, D) ==
  /\ devices' = [devices EXCEPT ![n] =
       [d \in Client |-> IF d \in D THEN NoConn ELSE devices[n][d]]]
  /\ overdue' = overdue \ ({n} \X D)
  /\ topicSubscribers' = [topicSubscribers EXCEPT ![n] =
       [t \in Topic |-> topicSubscribers[n][t] \ {d \in D : t \in subscriptions[n][d]}]]
  /\ subscriptions' = [subscriptions EXCEPT ![n] =
       [d \in Client |-> IF d \in D THEN {} ELSE subscriptions[n][d]]]
  /\ UNCHANGED <<registry, redisLink, missed>>

\* deviceOfflineLocked for every client of D, then HDEL of each.
DeviceOffline(n, D) ==
  /\ devices' = [devices EXCEPT ![n] =
       [d \in Client |-> IF d \in D THEN NoConn ELSE devices[n][d]]]
  /\ overdue' = overdue \ ({n} \X D)
  /\ topicSubscribers' = [topicSubscribers EXCEPT ![n] =
       [t \in Topic |-> topicSubscribers[n][t] \ {d \in D : t \in subscriptions[n][d]}]]
  /\ subscriptions' = [subscriptions EXCEPT ![n] =
       [d \in Client |-> IF d \in D THEN {} ELSE subscriptions[n][d]]]
  /\ WriteRegistry(n, D, NoNode)

\* Variant: a new subscriber replaces the others in the index.
SubscribeReplaces(n, d, t) ==
  /\ subscriptions' = [subscriptions EXCEPT ![n][d] = @ \cup {t}]
  /\ topicSubscribers' = [topicSubscribers EXCEPT ![n][t] = {d}]

Subscribe(n, d, t) ==
  /\ subscriptions' = [subscriptions EXCEPT ![n][d] = @ \cup {t}]
  /\ topicSubscribers' = [topicSubscribers EXCEPT ![n][t] = @ \cup {d}]

GetSubscribers(n, t) ==
  {devices[n][d] : d \in {e \in topicSubscribers[n][t] : IsOnline(n, e)}}

-----------------------------------------------------------------------------
(* GatewayServer.  A loop runs one handler at a time: inside onMessage of a *)
(* connection, no other handler of the same loop runs.                      *)

LoopFree(l) == \A k \in Conn : LoopOf[k] = l => parsing[k] = "no"

\* onConnection, established.
OnConnection(c) ==
  /\ connState[c] = "none" /\ LoopFree(LoopOf[c])
  /\ connState' = [connState EXCEPT ![c] = "open"]
  /\ UNCHANGED <<tables, parsing, currentConn, connClient, registry, fetched,
                 redisLink, missed, fanout, acked, session>>

\* Variant: the shared member is set only by the first message.
OnMessageKeepsCurrent(c) ==
  /\ connState[c] = "open" /\ LoopFree(LoopOf[c])
  /\ parsing' = [parsing EXCEPT ![c] = "yes"]
  /\ currentConn' = [currentConn EXCEPT ![NodeOf[c]] = IF @ = NoConn THEN c ELSE @]
  /\ UNCHANGED <<tables, connState, connClient, registry, fetched, redisLink,
                 missed, fanout, acked, session>>

\* onMessage starts: the connection is remembered in the shared member.
OnMessage(c) ==
  /\ connState[c] = "open" /\ LoopFree(LoopOf[c])
  /\ parsing' = [parsing EXCEPT ![c] = "yes"]
  /\ currentConn' = [currentConn EXCEPT ![NodeOf[c]] = c]
  /\ UNCHANGED <<tables, connState, connClient, registry, fetched, redisLink,
                 missed, fanout, acked, session>>

\* What the device may send: any CONNECT; or at most one per connection; or,
\* besides, none while another open connection carries the same client id.
MayConnect(c, d) ==
  /\ Discipline # "none" => connClient[c] = NoClient /\ session[c] = "no"
  /\ Discipline = "exclusive" => \A k \in Conn : connClient[k] # d

\* The handlers act for the connection in currentConn_, not for c itself.
HandleConnect(c, d) ==
  LET n == NodeOf[c]
      conn == currentConn[n]
  IN /\ parsing[c] = "yes" /\ MayConnect(c, d)
     /\ DeviceOnline(n, d, conn)
     /\ connClient' = [connClient EXCEPT ![conn] = d]
     /\ session' = [session EXCEPT ![conn] = "live"]
     /\ acked' = [acked EXCEPT ![conn] = {}]
     /\ UNCHANGED <<connState, parsing, currentConn, fetched, fanout>>

\* A PUBLISH of t goes to the online subscribers but the sender.  (The
\* telemetry writes of handlePublish touch nothing modelled here.)
HandlePublish(c, t) ==
  LET n == NodeOf[c]
  IN /\ parsing[c] = "yes"
     /\ fanout' = GetSubscribers(n, t) \ {currentConn[n]}
     /\ UNCHANGED <<tables, connState, parsing, currentConn, connClient,
                    registry, fetched, redisLink, missed, acked, session>>

\* A SUBSCRIBE from a connection without CONNECT is dropped.
HandleSubscribe(c, t) ==
  LET n == NodeOf[c]
      conn == currentConn[n]
  IN /\ parsing[c] = "yes" /\ connClient[conn] # NoClient
     /\ Subscribe(n, connClient[conn], t)
     /\ acked' = [acked EXCEPT ![conn] = @ \cup {t}]
     /\ UNCHANGED <<devices, overdue, connState, parsing, currentConn,
                    connClient, registry, fetched, redisLink, missed,
                    fanout, session>>

\* handlePingReq: the local heartbeat, and the HGET of updateDeviceHeartbeat.
\* A client that was evicted has no entry to refresh; it is answered anyway.
HandlePingReq(c) ==
  LET n == NodeOf[c]
      d == connClient[currentConn[n]]
  IN /\ parsing[c] = "yes" /\ d # NoClient
     /\ overdue' = overdue \ {<<n, d>>}
     /\ IF redisLink[n] = "ok" /\ registry[d] # NoNode
          THEN /\ fetched' = [fetched EXCEPT ![c] = <<d, registry[d]>>]
               /\ parsing' = [parsing EXCEPT ![c] = "hset"]
          ELSE UNCHANGED <<fetched, parsing>>
     /\ UNCHANGED <<devices, subscriptions, topicSubscribers, connState,
                    currentConn, connClient, registry, redisLink, missed,
                    fanout, acked, session>>

\* The HSET that puts the record back with a new heartbeat field, unless the
\* link broke after the HGET.
UpdateDeviceHeartbeat(c) ==
  /\ parsing[c] = "hset"
  /\ registry' = IF redisLink[NodeOf[c]] = "ok"
                   THEN [registry EXCEPT ![fetched[c][1]] = fetched[c][2]]
                   ELSE registry
  /\ parsing' = [parsing EXCEPT ![c] = "yes"]
  /\ fetched' = [fetched EXCEPT ![c] = <<NoClient, NoNode>>]
  /\ UNCHANGED <<tables, connState, currentConn, connClient, redisLink, missed,
                 fanout, acked, session>>

\* Variant: the map keeps the closed connection.
DropClientKeepsMap(conn) ==
  /\ IF connClient[conn] # NoClient
       THEN DeviceOffline(NodeOf[conn], {connClient[conn]})
       ELSE UNCHANGED <<tables, registry, redisLink, missed>>
  /\ acked' = [acked EXCEPT ![conn] = {}]
  /\ UNCHANGED connClient

\* Variant: the client of currentConn_ goes offline, whoever closed.
DropCurrentClient(conn) ==
  LET d == connClient[currentConn[NodeOf[conn]]]
  IN /\ IF connClient[conn] # NoClient /\ currentConn[NodeOf[conn]] # NoConn
          THEN /\ DeviceOffline(NodeOf[conn], {d} \cap Client)
               /\ connClient' = [connClient EXCEPT ![conn] = NoClient]
          ELSE UNCHANGED <<tables, registry, redisLink, missed, connClient>>
     /\ acked' = [acked EXCEPT ![conn] = {}]

\* Variant: a client that has timed out is not cleaned again.
DropClientIfOnline(conn) ==
  LET n == NodeOf[conn]
      d == connClient[conn]
  IN /\ IF d # NoClient
          THEN /\ IF devices[n][d] # NoConn
                    THEN DeviceOffline(n, {d})
                    ELSE UNCHANGED <<tables, registry, redisLink, missed>>
               /\ connClient' = [connClient EXCEPT ![conn] = NoClient]
          ELSE UNCHANGED <<tables, registry, redisLink, missed, connClient>>
     /\ acked' = [acked EXCEPT ![conn] = {}]

\* onDisconnect, and the second half of onConnection: the client the map
\* holds for the connection goes offline, and the map forgets it.
DropClient(conn) ==
  /\ IF connClient[conn] # NoClient
       THEN /\ DeviceOffline(NodeOf[conn], {connClient[conn]})
            /\ connClient' = [connClient EXCEPT ![conn] = NoClient]
       ELSE UNCHANGED <<tables, registry, redisLink, missed, connClient>>
  /\ acked' = [acked EXCEPT ![conn] = {}]

OnDisconnect(c) ==
  LET conn == currentConn[NodeOf[c]]
  IN /\ parsing[c] = "yes" /\ connClient[conn] # NoClient
     /\ DropClient(conn)
     /\ session' = [session EXCEPT ![conn] = "no"]
     /\ UNCHANGED <<connState, parsing, currentConn, fetched, fanout>>

\* ParseResult::ERROR: forceClose, and onMessage returns.
ParseError(c) ==
  /\ parsing[c] = "yes"
  /\ connState' = [connState EXCEPT ![c] = "closing"]
  /\ parsing' = [parsing EXCEPT ![c] = "no"]
  /\ fanout' = {}
  /\ UNCHANGED <<tables, currentConn, connClient, registry, fetched, redisLink,
                 missed, acked, session>>

\* INCOMPLETE, or the buffer is empty.
OnMessageReturns(c) ==
  /\ parsing[c] = "yes"
  /\ parsing' = [parsing EXCEPT ![c] = "no"]
  /\ fanout' = {}
  /\ UNCHANGED <<tables, connState, currentConn, connClient, registry, fetched,
                 redisLink, missed, acked, session>>

\* TcpConnection::handleClose calls onConnection with connected() false.
OnClose(c) ==
  /\ connState[c] \in {"open", "closing"} /\ LoopFree(LoopOf[c])
  /\ connState' = [connState EXCEPT ![c] = "closed"]
  /\ DropClient(c)
  /\ session' = [session EXCEPT ![c] = "no"]
  /\ UNCHANGED <<parsing, currentConn, fetched, fanout>>

\* The keep-alive time of a device has run out.
KeepAliveElapses(n, d) ==
  /\ devices[n][d] # NoConn /\ <<n, d>> \notin overdue
  /\ overdue' = overdue \cup {<<n, d>>}
  /\ UNCHANGED <<devices, subscriptions, topicSubscribers, connState, parsing,
                 currentConn, connClient, registry, fetched, redisLink,
                 missed, fanout, acked, session>>

\* checkHeartbeatTimeout: every overdue device goes offline. Connections and
\* g_connClientMap are left alone.
StartHeartbeatCheck(n) ==
  LET late == {d \in Client : <<n, d>> \in overdue}
  IN /\ late # {} /\ LoopFree(MainLoop[n])
     /\ DeviceOffline(n, late)
     /\ session' = [c \in Conn |-> IF NodeOf[c] = n /\ connClient[c] \in late
                                     THEN "evicted" ELSE session[c]]
     /\ UNCHANGED <<connState, parsing, currentConn, connClient, fetched,
                    fanout, acked>>

\* The connection to Redis fails; connected_ stays true.
BreakRedis(n) ==
  /\ n \in Fallible /\ redisLink[n] = "ok"
  /\ redisLink' = [redisLink EXCEPT ![n] = "broken"]
  /\ UNCHANGED <<tables, connState, parsing, currentConn, connClient, registry,
                 fetched, missed, fanout, acked, session>>

\* consumeCommands, run by a timer of the main loop, got no reply: reconnect().
\* When connect() fails connected_ is false for good, as nobody calls it again.
Reconnect(n) ==
  /\ n \in Fallible /\ redisLink[n] # "down" /\ LoopFree(MainLoop[n])
  /\ \E l \in {"ok", "down"} : redisLink' = [redisLink EXCEPT ![n] = l]
  /\ UNCHANGED <<tables, connState, parsing, currentConn, connClient, registry,
                 fetched, missed, fanout, acked, session>>

-----------------------------------------------------------------------------
Packet(c) ==
  \/ \E d \in Client : HandleConnect(c, d)
  \/ \E t \in Topic : HandlePublish(c, t) \/ HandleSubscribe(c, t)
  \/ HandlePingReq(c) \/ UpdateDeviceHeartbeat(c)
  \/ OnDisconnect(c) \/ ParseError(c) \/ OnMessageReturns(c)

Next ==
  \/ \E c \in Conn : OnConnection(c) \/ OnMessage(c) \/ Packet(c) \/ OnClose(c)
  \/ \E n \in Node : \/ \E d \in Client : KeepAliveElapses(n, d)
                     \/ StartHeartbeatCheck(n)
                     \/ BreakRedis(n) \/ Reconnect(n)

Spec == Init /\ [][Next]_vars

-----------------------------------------------------------------------------
\* While a connection's packets are parsed, the member the handlers act on
\* is that connection: a packet is never attributed to another device.
SenderIsCurrent ==
  \A c \in Conn : parsing[c] # "no" => currentConn[NodeOf[c]] = c

\* The two subscription tables are inverse to each other on every node: the
\* index getSubscribers reads holds exactly what the devices subscribed to.
IndexInverse ==
  \A n \in Node, d \in Client, t \in Topic :
    t \in subscriptions[n][d] <=> d \in topicSubscribers[n][t]

\* g_connClientMap, keyed by address, holds no connection that is closed: a
\* later connection at the same address never inherits a client id.
NoDanglingConn ==
  \A c \in Conn : connClient[c] # NoClient => connState[c] \in {"open", "closing"}

\* Subscriptions do not leak: a client that has some has a connection at that
\* node whose end will remove them, even if a heartbeat timeout came between.
NoOrphanSubscription ==
  \A n \in Node, d \in Client :
    subscriptions[n][d] # {}
      => \E c \in Conn : NodeOf[c] = n /\ connClient[c] = d

\* Device table and registry tell the same story of every client whose last
\* write by the node reached Redis, when no client id is used twice at a time:
\* links that break and come back spoil nothing but the records of the clients
\* that came or went meanwhile, and the next write of such a client repairs it.
RegistryMirrorsDevices ==
  \A n \in Node, d \in Client :
    <<n, d>> \notin missed => (registry[d] = n <=> devices[n][d] # NoConn)

\* An open connection whose CONNECT was accepted and whose heartbeat did not
\* time out is the one commands and publications for its client go to.
SessionRegistered ==
  \A c \in Conn :
    session[c] = "live" /\ connState[c] = "open"
      => connClient[c] # NoClient /\ devices[NodeOf[c]][connClient[c]] = c

\* A publication reaches every other open connection of the node whose
\* subscription to the topic was acknowledged and whose session is live.
PublishReachesSubscribers ==
  [][\A c \in Conn, t \in Topic :
       HandlePublish(c, t) =>
         {k \in Conn \ {c} : /\ NodeOf[k] = NodeOf[c] /\ connState[k] = "open"
                             /\ session[k] = "live" /\ t \in acked[k]}
           \subseteq fanout']_vars

-----------------------------------------------------------------------------
(* The inductive invariants behind the safety properties. *)

\* The setting of "-t 0": the connections of a node share one loop.
OneLoopPerNode ==
  \A c, k \in Conn : NodeOf[c] = NodeOf[k] => LoopOf[c] = LoopOf[k]

\* currentConn_ is a connection of its node, and set when packets are parsed.
CurrentIsLocal ==
  /\ \A n \in Node : currentConn[n] # NoConn => NodeOf[currentConn[n]] = n
  /\ \A c \in Conn : parsing[c] # "no" => currentConn[NodeOf[c]] # NoConn

\* A record about to be written back was really fetched.
FetchedIsRecord ==
  \A c \in Conn : parsing[c] = "hset" => fetched[c] \in Client \X Node

\* Packets are parsed for open connections only.
ParsingIsOpen == \A c \in Conn : parsing[c] # "no" => connState[c] = "open"

SessionInv ==
  TypeOK /\ CurrentIsLocal /\ FetchedIsRecord /\ ParsingIsOpen

\* The setting of "-t 0" in full: the main loop, which runs the timers, also
\* serves the connections.
MainLoopServes == \A c \in Conn : LoopOf[c] = MainLoop[NodeOf[c]]

\* Client ids are used by one connection at a time, and the map holds a
\* connection exactly while it has a session, evicted or not.
ClientUsedOnce ==
  /\ \A c, k \in Conn : connClient[c] # NoClient /\ connClient[c] = connClient[k] => c = k
  /\ \A c \in Conn : session[c] = "no" <=> connClient[c] = NoClient

\* The live sessions are the entries of the device tables, and only those can
\* be overdue.
LiveIsDevice ==
  /\ \A c \in Conn : session[c] = "live" => devices[NodeOf[c]][connClient[c]] = c
  /\ \A n \in Node, d \in Client :
       devices[n][d] # NoConn => /\ NodeOf[devices[n][d]] = n
                                 /\ connClient[devices[n][d]] = d
                                 /\ session[devices[n][d]] = "live"
  /\ \A n \in Node, d \in Client : <<n, d>> \in overdue => devices[n][d] # NoConn

\* Every topic acknowledged to a live session is in its client's table.
AckedIsSubscribed ==
  \A c \in Conn :
    session[c] = "live" => acked[c] \subseteq subscriptions[NodeOf[c]][connClient[c]]

\* Between the HGET and the HSET of updateDeviceHeartbeat nobody else writes
\* the record: what is put back is what is there.
FetchedIsFresh ==
  \A c \in Conn :
    parsing[c] = "hset" => /\ connClient[c] # NoClient
                           /\ fetched[c] = <<connClient[c], registry[connClient[c]]>>

=============================================================================
