--------------------------- MODULE CommandDispatch ---------------------------
(***************************************************************************)
(* The way of a command from the HTTP API to a device: enqueueCommand,     *)
(* processCommand and sendCommandToDevice of src/gateway/GatewayServer.cpp,*)
(* forwardCommand and claimPendingMessages of src/gateway/                 *)
(* ClusterManager.cpp, and the Redis commands they issue                   *)
(* (src/storage/RedisClient.cpp).                                          *)
(*                                                                         *)
(* Redis is the stream device:commands with its consumer group (entries    *)
(* not yet delivered, and the pending entries list), the command status    *)
(* hashes, the device registry and the Pub/Sub route channels.  Every      *)
(* Redis command is atomic; nodes crash and connections break between two  *)
(* of them.  With worker threads the one hiredis context of a node is used *)
(* by all of them without a lock, so replies can be exchanged between      *)
(* threads.  Commands are enqueued at most once; a device is at one node   *)
(* at a time (DeviceSessions looks at the other case).                     *)
(***************************************************************************)
EXTENDS Naturals, Sequences

CONSTANTS
  Node, Device, Cmd,
  Target,    \* Cmd -> Device
  BatchSize, \* COUNT of XREADGROUP
  NoNode,
  Deployments \* how the cluster may be run and what may happen to it

FaultKind == {"crash", "break", "unreachable"}

\* workers: nodes that serve their connections with worker threads (-t > 0).
\* faults: what may happen to which node.
Deployment == [workers : SUBSET Node, faults : SUBSET (Node \X FaultKind)]

ASSUME DispatchAssumption ==
  /\ Target \in [Cmd -> Device]
  /\ BatchSize \in Nat \ {0}
  /\ NoNode \notin Node

ASSUME DeploymentAssumption == Deployments \subseteq Deployment

VARIABLES
  deployment, \* chosen once, at the start
  \* the gateway nodes
  alive,      \* the process runs
  link,       \* "ok", "broken" (connected_, commands fail), "down" (~connected_)
  batch,      \* commands processCommand has consumed and not finished
  stage,      \* where processCommand is with the first of them
  dest,       \* node forwardCommand has read from the registry
  where,      \* Device -> node with its session
  closing,    \* devices whose connection is kDisconnecting
  queued,     \* commands in a sendInLoop closure on a worker's loop
  unsaved,    \* <<n, d>>: a worker of n has still to write the record of d
  \* Redis
  stream,     \* entries not yet delivered to the group
  pel,        \* Cmd -> consumer that owns its pending entry
  acked,      \* entries that were XACKed
  status,     \* iot:cmd:{id}
  registry,   \* iot:devices
  subscribed, \* nodes whose subConn_ is subscribed to their route channel
  \* history
  accepted,   \* commands the API answered with an id
  sends,      \* Cmd -> times send() was called for it
  deliveries, \* Cmd -> times its bytes were written or buffered for the device
  publishes,  \* Cmd -> times Redis executed a PUBLISH of it
  forwarded,  \* commands a PUBLISH handed to a subscribed node
  lost,       \* commands in an XREADGROUP reply that processCommand never saw
  claimed     \* nodes for which claimPendingMessages was called after a crash

nodeVars == <<alive, link, subscribed>>
procVars == <<batch, stage, dest>>
devVars == <<where, closing, queued, unsaved, registry>>
entryVars == <<stream, pel, acked>>
tryVars == <<sends, deliveries, publishes, forwarded>>
pastVars == <<accepted, lost, claimed>>
vars == <<deployment, nodeVars, procVars, devVars, entryVars, status, tryVars,
          pastVars>>

Stage == {"idle", "wait", "next", "found", "send", "away", "route", "sent", "ack"}

TypeOK ==
  /\ deployment \in Deployments
  /\ alive \in SUBSET Node
  /\ link \in [Node -> {"ok", "broken", "down"}]
  /\ batch \in [Node -> Seq(Cmd)] /\ stage \in [Node -> Stage]
  /\ dest \in [Node -> Node \cup {NoNode}]
  /\ where \in [Device -> Node \cup {NoNode}]
  /\ closing \in SUBSET Device /\ queued \in SUBSET Cmd
  /\ unsaved \in SUBSET (Node \X Device)
  /\ stream \in Seq(Cmd)
  /\ pel \in [Cmd -> Node \cup {NoNode}]
  /\ acked \in SUBSET Cmd
  /\ status \in [Cmd -> {"none", "sent", "failed"}]
  /\ registry \in [Device -> Node \cup {NoNode}]
  /\ subscribed \in SUBSET Node
  /\ accepted \in SUBSET Cmd /\ forwarded \in SUBSET Cmd
  /\ lost \in SUBSET Cmd /\ claimed \in SUBSET Node
  /\ sends \in [Cmd -> Nat] /\ deliveries \in [Cmd -> Nat]
  /\ publishes \in [Cmd -> Nat]

Init ==
  /\ deployment \in Deployments
  /\ alive = Node
  /\ link = [n \in Node |-> "ok"]
  /\ batch = [n \in Node |-> <<>>] /\ stage = [n \in Node |-> "idle"]
  /\ dest = [n \in Node |-> NoNode]
  /\ where = [d \in Device |-> NoNode]
  /\ closing = {} /\ queued = {} /\ unsaved = {}
  /\ stream = <<>>
  /\ pel = [c \in Cmd |-> NoNode]
  /\ acked = {}
  /\ status = [c \in Cmd |-> "none"]
  /\ registry = [d \in Device |-> NoNode]
  /\ subscribed = Node
  /\ accepted = {} /\ forwarded = {} /\ lost = {} /\ claimed = {}
  /\ sends = [c \in Cmd |-> 0] /\ deliveries = [c \in Cmd |-> 0]
  /\ publishes = [c \in Cmd |-> 0]

Idle(n) == n \in alive /\ stage[n] = "idle"

\* DeviceInfo::isOnline: in the table, and the connection is kConnected.
IsOnline(n, d) == where[d] = n /\ d \notin closing

-----------------------------------------------------------------------------
(* The API side. *)

\* enqueueCommand returns an id whatever publishCommand did; the XADD takes
\* effect only over a working connection.
EnqueueCommand(n, c) ==
  /\ Idle(n) /\ c \notin accepted
  /\ accepted' = accepted \cup {c}
  /\ stream' = IF link[n] = "ok" THEN Append(stream, c) ELSE stream
  /\ UNCHANGED <<nodeVars, procVars, devVars, pel, acked, status, tryVars,
                 lost, claimed>>

-----------------------------------------------------------------------------
(* The consumer: processCommand, every half second on the main loop. *)

\* BLOCK 0 is not "do not block": on an empty stream Redis keeps the reply
\* back, and the main loop with it.
BlockOnStream(n) ==
  /\ Idle(n) /\ link[n] = "ok" /\ stream = <<>>
  /\ stage' = [stage EXCEPT ![n] = "wait"]
  /\ UNCHANGED <<nodeVars, batch, dest, devVars, entryVars, status, tryVars,
                 pastVars>>

\* What XREADGROUP does in Redis: the oldest new entries, BatchSize at most,
\* move to the pending entries list of consumer n.
NewEntries == SubSeq(stream, 1, IF Len(stream) < BatchSize THEN Len(stream) ELSE BatchSize)
IsNew(c) == \E i \in 1 .. Len(NewEntries) : NewEntries[i] = c

ReadGroup(n) ==
  /\ stream # <<>>
  /\ stream' = SubSeq(stream, Len(NewEntries) + 1, Len(stream))
  /\ pel' = [c \in Cmd |-> IF IsNew(c) THEN n ELSE pel[c]]

ConsumeCommands(n) ==
  /\ n \in alive /\ stage[n] \in {"idle", "wait"} /\ link[n] = "ok"
  /\ ReadGroup(n)
  /\ batch' = [batch EXCEPT ![n] = NewEntries]
  /\ stage' = [stage EXCEPT ![n] = "next"]
  /\ UNCHANGED <<nodeVars, dest, devVars, acked, status, tryVars, pastVars>>

\* reconnect() opens both connections again, but nothing subscribes the new
\* subConn_; if Redis cannot be reached, connected_ stays false.
Reconnect(n) ==
  /\ subscribed' = subscribed \ {n}
  /\ \/ link' = [link EXCEPT ![n] = "ok"]
     \/ /\ <<n, "unreachable">> \in deployment.faults
        /\ link' = [link EXCEPT ![n] = "down"]

\* Redis has executed the XREADGROUP and processCommand does not get the reply:
\* the socket timed out while another node's XADD answered the waiting call,
\* or the connection broke; reconnect() follows.  With worker threads another
\* thread may have taken the reply for its own.
ConsumeReplyLost(n) ==
  /\ n \in alive
  /\ \/ stage[n] = "wait" /\ link[n] # "down" /\ Reconnect(n)
     \/ /\ <<n, "break">> \in deployment.faults
        /\ stage[n] = "idle" /\ link[n] = "ok" /\ Reconnect(n)
     \/ /\ n \in deployment.workers
        /\ stage[n] \in {"idle", "wait"} /\ link[n] = "ok"
        /\ UNCHANGED <<link, subscribed>>
  /\ ReadGroup(n)
  /\ stage' = [stage EXCEPT ![n] = "idle"]
  /\ lost' = lost \cup {c \in Cmd : IsNew(c)}
  /\ UNCHANGED <<alive, batch, dest, devVars, acked, status, tryVars, accepted,
                 claimed>>

\* No reply and nothing read: the socket timed out on an empty stream, or the
\* connection is broken.
ConsumeReconnects(n) ==
  /\ n \in alive
  /\ \/ stage[n] = "wait" /\ stream = <<>>
     \/ stage[n] \in {"idle", "wait"} /\ link[n] = "broken"
  /\ Reconnect(n)
  /\ stage' = [stage EXCEPT ![n] = "idle"]
  /\ UNCHANGED <<alive, batch, dest, devVars, entryVars, status, tryVars,
                 pastVars>>

\* Variant: the rest of the batch is forgotten.
NextCommandDropsRest(n) ==
  /\ batch' = [batch EXCEPT ![n] = <<>>]
  /\ stage' = [stage EXCEPT ![n] = "idle"]
  /\ dest' = [dest EXCEPT ![n] = NoNode]

\* The loop over the batch goes on with the next command.
NextCommand(n) ==
  /\ batch' = [batch EXCEPT ![n] = Tail(@)]
  /\ stage' = [stage EXCEPT ![n] = IF Len(batch[n]) = 1 THEN "idle" ELSE "next"]
  /\ dest' = [dest EXCEPT ![n] = NoNode]

\* Is the device online here?
FindDevice(n) ==
  /\ stage[n] = "next"
  /\ stage' = [stage EXCEPT ![n] =
                 IF IsOnline(n, Target[Head(batch[n])]) THEN "found" ELSE "away"]
  /\ UNCHANGED <<nodeVars, batch, dest, devVars, entryVars, status, tryVars,
                 pastVars>>

\* sendCommandToDevice looks it up again ...
FindAgain(n) ==
  /\ stage[n] = "found" /\ IsOnline(n, Target[Head(batch[n])])
  /\ stage' = [stage EXCEPT ![n] = "send"]
  /\ UNCHANGED <<nodeVars, batch, dest, devVars, entryVars, status, tryVars,
                 pastVars>>

\* Variant: processCommand acknowledges whatever sendCommandToDevice returned.
DeviceGoneAcks(n) ==
  /\ stage[n] = "found" /\ ~IsOnline(n, Target[Head(batch[n])])
  /\ stage' = [stage EXCEPT ![n] = "ack"]
  /\ UNCHANGED <<nodeVars, batch, dest, devVars, entryVars, status, tryVars,
                 pastVars>>

\* ... and returns false, which processCommand ignores, if a worker has closed
\* it in between.
DeviceGone(n) ==
  /\ stage[n] = "found" /\ ~IsOnline(n, Target[Head(batch[n])])
  /\ NextCommand(n)
  /\ UNCHANGED <<nodeVars, devVars, entryVars, status, tryVars, pastVars>>

\* sendInLoop: the bytes are written or buffered, or dropped if write() fails
\* with EPIPE or ECONNRESET.
SendInLoop(c) == deliveries' \in {deliveries, [deliveries EXCEPT ![c] = @ + 1]}

\* send() does nothing unless the connection is kConnected, and tells nobody.
\* It writes at once on its own loop, and queues a closure for a worker's.
SendCommandToDevice(n) ==
  LET c == Head(batch[n])
  IN /\ stage[n] = "send"
     /\ sends' = [sends EXCEPT ![c] = @ + 1]
     /\ \/ /\ ~IsOnline(n, Target[c])
           /\ UNCHANGED <<deliveries, queued>>
        \/ /\ IsOnline(n, Target[c]) /\ n \notin deployment.workers
           /\ SendInLoop(c) /\ UNCHANGED queued
        \/ /\ IsOnline(n, Target[c]) /\ n \in deployment.workers
           /\ queued' = queued \cup {c} /\ UNCHANGED deliveries
     /\ stage' = [stage EXCEPT ![n] = "sent"]
     /\ UNCHANGED <<nodeVars, batch, dest, where, closing, unsaved, registry,
                    entryVars, status, publishes, forwarded, pastVars>>

\* The worker runs the closure; a connection that is closing still sends.
RunQueuedSend(c) ==
  /\ c \in queued
  /\ SendInLoop(c)
  /\ queued' = queued \ {c}
  /\ UNCHANGED <<nodeVars, procVars, where, closing, unsaved, registry,
                 entryVars, status, sends, publishes, forwarded, pastVars>>

\* markCommandSent follows, silent about a failed connection ...
MarkCommandSent(n) ==
  LET c == Head(batch[n])
  IN /\ stage[n] = "sent"
     /\ status' = IF link[n] = "ok" THEN [status EXCEPT ![c] = "sent"] ELSE status
     /\ stage' = [stage EXCEPT ![n] = "ack"]
     /\ UNCHANGED <<nodeVars, batch, dest, devVars, entryVars, tryVars,
                    pastVars>>

\* ... and ackCommand.
AckCommand(n) ==
  LET c == Head(batch[n])
  IN /\ stage[n] = "ack"
     /\ IF link[n] = "ok"
          THEN /\ acked' = acked \cup {c}
               /\ pel' = [pel EXCEPT ![c] = NoNode]
          ELSE UNCHANGED <<acked, pel>>
     /\ NextCommand(n)
     /\ UNCHANGED <<nodeVars, devVars, stream, status, tryVars, pastVars>>

\* The node the registry names, if it can be asked and is another one;
\* findDeviceNode asks it only if the device has not come online here.
RegisteredNode(n, d) ==
  IF ~IsOnline(n, d) /\ link[n] = "ok" /\ registry[d] # n THEN registry[d] ELSE NoNode

\* The device is not online here: HGET of its record.
FindDeviceNode(n) ==
  LET m == RegisteredNode(n, Target[Head(batch[n])])
  IN /\ stage[n] = "away" /\ m # NoNode
     /\ dest' = [dest EXCEPT ![n] = m]
     /\ stage' = [stage EXCEPT ![n] = "route"]
     /\ UNCHANGED <<nodeVars, batch, devVars, entryVars, status, tryVars,
                    pastVars>>

\* Not registered, registered at this very node, or Redis does not answer:
\* markCommandFailed.  The entry is not XACKed.  With worker threads the reply
\* may be that of another thread's command, which is no record.
MarkCommandFailed(n) ==
  LET c == Head(batch[n])
  IN /\ stage[n] = "away"
     /\ n \in deployment.workers \/ RegisteredNode(n, Target[c]) = NoNode
     /\ status' = IF link[n] = "ok" THEN [status EXCEPT ![c] = "failed"] ELSE status
     /\ NextCommand(n)
     /\ UNCHANGED <<nodeVars, devVars, entryVars, tryVars, pastVars>>

\* What a PUBLISH of c to node m does in Redis: whoever is subscribed gets it.
Publish(m, c) ==
  /\ publishes' = [publishes EXCEPT ![c] = @ + 1]
  /\ forwarded' = IF m \in subscribed THEN forwarded \cup {c} ELSE forwarded

\* Variant: one receiver is not enough.
ReceiversTooFew(n) == IF n \in deployment.workers THEN {0, 1} ELSE {0}

\* The numbers of receivers the reply may show: the right one, or with worker
\* threads that of another thread's command.
Receivers(n) == IF n \in deployment.workers THEN {0, 1}
                ELSE {IF dest[n] \in subscribed THEN 1 ELSE 0}

\* PUBLISH to that node.  With a receiver the command is acknowledged next;
\* with none it is marked as failed.
ForwardCommand(n) ==
  LET c == Head(batch[n])
  IN /\ stage[n] = "route" /\ link[n] = "ok"
     /\ Publish(dest[n], c)
     /\ \/ /\ 1 \in Receivers(n)
           /\ stage' = [stage EXCEPT ![n] = "ack"]
           /\ dest' = [dest EXCEPT ![n] = NoNode]
           /\ UNCHANGED <<batch, status>>
        \/ /\ 0 \in Receivers(n)
           /\ status' = [status EXCEPT ![c] = "failed"]
           /\ NextCommand(n)
     /\ UNCHANGED <<nodeVars, devVars, entryVars, sends, deliveries, pastVars>>

\* The connection is broken, or breaks under the PUBLISH when Redis may have
\* executed it already: forwardCommand returns false, and markCommandFailed
\* cannot write either.
ForwardFails(n) ==
  /\ stage[n] = "route"
  /\ \/ link[n] # "ok" /\ UNCHANGED <<link, publishes, forwarded>>
     \/ /\ <<n, "break">> \in deployment.faults /\ link[n] = "ok"
        /\ link' = [link EXCEPT ![n] = "broken"]
        /\ Publish(dest[n], Head(batch[n]))
  /\ NextCommand(n)
  /\ UNCHANGED <<alive, subscribed, devVars, entryVars, status, sends,
                 deliveries, pastVars>>

-----------------------------------------------------------------------------
(* Devices come and go, and the registry follows.  Without worker threads  *)
(* this waits until processCommand has returned, and the record is written *)
(* in the same step over a working connection.  A worker's HSET or HDEL    *)
(* waits behind the XREADGROUP the connection is blocked on, or is lost    *)
(* with that connection.                                                   *)

ServesDevices(n) == n \in alive /\ (n \in deployment.workers \/ stage[n] = "idle")

WriteRecord(n, d, node) ==
  IF n \in deployment.workers
    THEN unsaved' = unsaved \cup {<<n, d>>} /\ UNCHANGED registry
    ELSE /\ registry' = IF link[n] = "ok" THEN [registry EXCEPT ![d] = node] ELSE registry
         /\ UNCHANGED unsaved

DeviceOnline(n, d) ==
  /\ ServesDevices(n) /\ where[d] = NoNode
  /\ where' = [where EXCEPT ![d] = n]
  /\ WriteRecord(n, d, n)
  /\ UNCHANGED <<nodeVars, procVars, closing, queued, entryVars, status,
                 tryVars, pastVars>>

\* A parse error: forceClose, and handleClose comes later.
ForceClose(d) ==
  /\ where[d] # NoNode /\ ServesDevices(where[d]) /\ d \notin closing
  /\ closing' = closing \cup {d}
  /\ UNCHANGED <<nodeVars, procVars, where, queued, unsaved, registry,
                 entryVars, status, tryVars, pastVars>>

\* handleClose: the session ends, and sendInLoop finds kDisconnected.
DeviceOffline(d) ==
  /\ where[d] # NoNode /\ ServesDevices(where[d])
  /\ where' = [where EXCEPT ![d] = NoNode]
  /\ closing' = closing \ {d}
  /\ queued' = {c \in queued : Target[c] # d}
  /\ WriteRecord(where[d], d, NoNode)
  /\ UNCHANGED <<nodeVars, procVars, entryVars, status, tryVars, pastVars>>

\* The worker's command is executed, or is not.
SaveRecord(n, d) ==
  /\ <<n, d>> \in unsaved
  /\ unsaved' = unsaved \ {<<n, d>>}
  /\ \/ UNCHANGED registry
     \/ /\ link[n] = "ok" /\ stage[n] # "wait"
        /\ registry' = [registry EXCEPT ![d] = IF where[d] = n THEN n ELSE NoNode]
  /\ UNCHANGED <<nodeVars, procVars, where, closing, queued, entryVars, status,
                 tryVars, pastVars>>

-----------------------------------------------------------------------------
(* Faults. *)

\* The TCP connection to Redis breaks, alone or together with subConn_; the
\* client finds out later.
BreakLink(n) ==
  /\ <<n, "break">> \in deployment.faults
  /\ n \in alive /\ link[n] = "ok"
  /\ link' = [link EXCEPT ![n] = "broken"]
  /\ subscribed' \in {subscribed, subscribed \ {n}}
  /\ UNCHANGED <<alive, procVars, devVars, entryVars, status, tryVars,
                 pastVars>>

\* A crash forgets the batch and drops the sessions; Redis keeps everything.
Crash(n) ==
  /\ <<n, "crash">> \in deployment.faults
  /\ n \in alive
  /\ alive' = alive \ {n}
  /\ batch' = [batch EXCEPT ![n] = <<>>]
  /\ stage' = [stage EXCEPT ![n] = "idle"]
  /\ dest' = [dest EXCEPT ![n] = NoNode]
  /\ where' = [d \in Device |-> IF where[d] = n THEN NoNode ELSE where[d]]
  /\ closing' = {d \in closing : where[d] # n}
  /\ queued' = {c \in queued : where[Target[c]] # n}
  /\ unsaved' = {u \in unsaved : u[1] # n}
  /\ link' = [link EXCEPT ![n] = "down"]
  /\ subscribed' = subscribed \ {n}
  /\ UNCHANGED <<registry, entryVars, status, tryVars, pastVars>>

\* start(): connect, initConsumerGroup (the group exists), join, subscribe.
Start(n) ==
  /\ n \notin alive
  /\ alive' = alive \cup {n}
  /\ link' = [link EXCEPT ![n] = "ok"]
  /\ subscribed' = subscribed \cup {n}
  /\ claimed' = claimed \ {n}
  /\ UNCHANGED <<procVars, devVars, entryVars, status, tryVars, accepted,
                 lost>>

\* Redis cannot be reached at start: "running in single-node mode".
StartAlone(n) ==
  /\ <<n, "unreachable">> \in deployment.faults
  /\ n \notin alive
  /\ alive' = alive \cup {n}
  /\ claimed' = claimed \ {n}
  /\ UNCHANGED <<link, subscribed, procVars, devVars, entryVars, status,
                 tryVars, accepted, lost>>

\* Failure detection of node n calls claimPendingMessages for a dead node m:
\* XPENDING and a log line.
ClaimPendingMessages(n, m) ==
  /\ Idle(n) /\ link[n] = "ok" /\ m \notin alive /\ m \notin claimed
  /\ claimed' = claimed \cup {m}
  /\ UNCHANGED <<nodeVars, procVars, devVars, entryVars, status, tryVars,
                 accepted, lost>>

-----------------------------------------------------------------------------
Dispatch(n) ==
  \/ BlockOnStream(n) \/ ConsumeCommands(n)
  \/ FindDevice(n) \/ FindAgain(n) \/ DeviceGone(n)
  \/ SendCommandToDevice(n) \/ MarkCommandSent(n) \/ AckCommand(n)
  \/ FindDeviceNode(n) \/ MarkCommandFailed(n)
  \/ ForwardCommand(n) \/ ForwardFails(n)

Fault(n) == BreakLink(n) \/ Crash(n)

Step ==
  \/ \E n \in Node :
       \/ \E c \in Cmd : EnqueueCommand(n, c)
       \/ Dispatch(n)
       \/ ConsumeReplyLost(n) \/ ConsumeReconnects(n)
       \/ \E d \in Device : DeviceOnline(n, d) \/ SaveRecord(n, d)
       \/ Fault(n)
       \/ Start(n) \/ StartAlone(n)
       \/ \E m \in Node : ClaimPendingMessages(n, m)
  \/ \E d \in Device : ForceClose(d) \/ DeviceOffline(d)
  \/ \E c \in Cmd : RunQueuedSend(c)

Next == Step /\ UNCHANGED deployment

Spec == Init /\ [][Next]_vars

\* processCommand is a periodic timer of a loop that always gets on: a node
\* that can take its next step of it does, and a call that gets no reply times
\* out.  Users, devices and faults are free.
FairSpec ==
  /\ Spec
  /\ \A n \in Node : /\ WF_vars(Dispatch(n) /\ UNCHANGED deployment)
                    /\ WF_vars(ConsumeReconnects(n) /\ UNCHANGED deployment)

-----------------------------------------------------------------------------
InStream(c) == \E i \in 1 .. Len(stream) : stream[i] = c
InBatch(n, c) == \E i \in 1 .. Len(batch[n]) : batch[n][i] = c

\* A command that reached Redis is in one place: new, pending or acknowledged.
\* What a node is working on is its own pending entry, and no two nodes work
\* on the same command.
OnePlace ==
  /\ \A c \in Cmd :
       /\ ~(InStream(c) /\ pel[c] # NoNode)
       /\ ~(InStream(c) /\ c \in acked)
       /\ ~(pel[c] # NoNode /\ c \in acked)
  /\ \A n \in Node, c \in Cmd : InBatch(n, c) => pel[c] = n

\* An entry is acknowledged only after an attempt: send() was called for it on
\* a connection that was connected at the lookup, or Redis executed a PUBLISH
\* of it.  A crash before that leaves it pending.  It does not say that the
\* command arrived: send() may drop it.
AckAfterAttempt ==
  \A c \in acked : sends[c] + publishes[c] > 0

\* No command is sent or published twice, nor both sent and published, across
\* crashes, restarts, lost replies and broken acknowledgements; what waits in
\* a closure has been sent and not been delivered.
AtMostOnce ==
  \A c \in Cmd :
    /\ sends[c] + publishes[c] <= 1
    /\ deliveries[c] + (IF c \in queued THEN 1 ELSE 0) <= sends[c]
    /\ c \in forwarded => publishes[c] = 1

\* The status shown for a command does not contradict what was done with it.
\* "sent": send() was called for it, once, and it went to no other node.
\* "failed": it was not sent and stays pending, and no other node received it,
\* unless worker threads exchanged the reply of the PUBLISH.
StatusTruthful ==
  \A c \in Cmd :
    /\ status[c] = "sent" => sends[c] = 1 /\ c \notin forwarded
    /\ status[c] = "failed" => /\ sends[c] = 0 /\ pel[c] # NoNode
                               /\ c \in forwarded => pel[c] \in deployment.workers

\* Without faults and worker threads every command in the stream is sent,
\* published or marked failed, however the nodes compete for it, unless it was
\* in a reply that came as the socket timed out: such a command stays pending.
EveryCommandSettled ==
  \A c \in Cmd :
    (deployment = [workers |-> {}, faults |-> {}] /\ InStream(c))
      ~> (sends[c] > 0 \/ c \in forwarded \/ status[c] = "failed" \/ c \in lost)

-----------------------------------------------------------------------------
(* The nodes and Redis together implement a CommandQueue. *)

Attempts(c) == sends[c] + publishes[c]
Arrivals(c) == deliveries[c] + (IF c \in forwarded THEN 1 ELSE 0)

Q == INSTANCE CommandQueue WITH
       Item <- Cmd,
       new <- stream,
       pending <- {c \in Cmd : pel[c] # NoNode},
       tried <- [c \in Cmd |-> Attempts(c)],
       arrived <- [c \in Cmd |-> Arrivals(c)],
       acked <- acked

\* However the nodes compete, crash, restart, lose and exchange replies, the
\* cluster treats its commands as one queue would: it takes them in order and
\* once, tries each at most once, lets none arrive twice, and acknowledges only
\* what it has tried.
RefinesCommandQueue == Q!Spec

-----------------------------------------------------------------------------
(* The inductive invariant behind the safety properties. *)

\* A node works on a batch exactly while processCommand is past XREADGROUP.
BatchInStage ==
  \A n \in Node : stage[n] \in {"idle", "wait"} <=> Len(batch[n]) = 0

\* No command is twice in the stream or twice in a batch, and only commands
\* that were accepted are anywhere.
NoRepeats ==
  /\ \A i, j \in 1 .. Len(stream) : stream[i] = stream[j] => i = j
  /\ \A n \in Node : \A i, j \in 1 .. Len(batch[n]) :
       batch[n][i] = batch[n][j] => i = j
  /\ \A c \in Cmd : InStream(c) \/ pel[c] # NoNode \/ c \in acked => c \in accepted

\* Nothing has happened to a command before its turn comes.
Untouched(c) == sends[c] = 0 /\ publishes[c] = 0 /\ status[c] = "none"

Before == {"next", "found", "send", "away", "route"}

UntouchedBefore ==
  /\ \A c \in Cmd : c \notin accepted \/ InStream(c) => Untouched(c)
  /\ \A n \in Node : \A i \in 1 .. Len(batch[n]) :
       i > 1 \/ stage[n] \in Before => Untouched(batch[n][i])

\* What has happened to the first command of a batch after the attempt.
Tried ==
  \A n \in Node :
    /\ stage[n] = "sent" => sends[batch[n][1]] = 1
    /\ stage[n] = "ack" => Attempts(batch[n][1]) = 1
    /\ stage[n] \in {"sent", "ack"} => status[batch[n][1]] # "failed"

DispatchInv ==
  /\ TypeOK /\ BatchInStage /\ OnePlace /\ NoRepeats
  /\ UntouchedBefore /\ Tried
  /\ AckAfterAttempt /\ AtMostOnce /\ StatusTruthful

-----------------------------------------------------------------------------
(* What comments and documents of the repository say. *)

\* "XREADGROUP + XACK guarantee at-least-once delivery": a command that another
\* node received and that is acknowledged reaches its device.
AckedIsDelivered ==
  \A c \in Cmd : (c \in acked /\ c \in forwarded) ~> (deliveries[c] > 0)
=============================================================================
