# Specifications of the IoT gateway

TLA+ modules for the C++17 gateway in this repository, with TLC configurations
and TLAPS proofs. Paths below are relative to the repository root; line numbers
are in `PROJECT.json`, which maps every definition to the code it models.

## 1. The system

A *gateway node* is one process (`apps/gateway_main.cpp`). It accepts MQTT
connections of devices, keeps their sessions, takes commands from a Redis
stream and hands them to devices. Several nodes share one Redis; Nginx spreads
device connections over them. An HTTP API on every node puts commands into the
stream.

| Component | State | Operations | Talks to |
|---|---|---|---|
| `EventLoop`, `EventLoopThread` | `pendingFunctors_`, `quit_`, `looping_`, eventfd counter | `loop`, `quit`, `runInLoop`, `queueInLoop`, `wakeup`, `doPendingFunctors`, start, destruction | every thread that queues a closure |
| timers of `EventLoop` | `timers_`, `timerCancelTokens_`, timerfd | `runAt`, `runAfter`, `runEvery`, `cancelTimer`, `processTimers` | user callbacks, other threads cancelling |
| `TcpConnection`, `TcpServer`, `Channel` | `state_`, `outputBuffer_`, `events_`, `connections_` | establish, read, write, close, `send`, `shutdown`, `forceClose`, destroy | base loop and io loop by closures |
| `Acceptor`, `EventLoopThreadPool` | `idleFd_`, `loops_`, `next_` | `listen`, `handleRead`, `start`, `getNextLoop` | kernel, `TcpServer`; the process's descriptor table |
| `Buffer` | vector, two indices | `readFd`, append, retrieve, `findCRLF` | connections, parsers |
| `MqttCodec` | callbacks only | `parse`, encoders | `GatewayServer` by callbacks |
| `GatewayServer` (sessions) | `currentConn_`, `g_connClientMap` | `onConnection`, `onMessage`, CONNECT, PUBLISH, SUBSCRIBE, PINGREQ, DISCONNECT | `DeviceManager` |
| `DeviceManager` | `devices_`, `subscriptions_`, `topicSubscribers_` | online, offline, heartbeat, subscribe, timeout check | Redis registry `iot:devices` |
| `GatewayServer` (commands) | counters | `enqueueCommand`, `processCommand`, `sendCommandToDevice` | `RedisClient`, `ClusterManager` |
| `RedisClient` | hiredis context, `connected_` | stream, group, status, registry, node hashes, pub/sub | Redis |
| `ClusterManager` | `joined_`, `knownNodes_`, timers | `join`, `leave`, heartbeat, discovery, failure detection, forwarding, claiming | Redis hashes `iot:nodes`, `iot:nodes:heartbeat` |
| `ApiServer`, `WebDashboard` | none of their own, not even between reads | request parsing, HTTP routes, responses | `GatewayServer`, connections |
| `AlertEngine`, `MetricsCollector`, `TsdbClient` | rules, samples, batch | evaluate, record, write | not wired into the gateway, or a stub |

What is hard here:

- *Concurrency.* One base loop and (by default four) worker loops. Closures,
  quit flags, timers and connections cross threads; the gateway's own tables
  are touched by all workers without a lock.
- *Failure.* Nodes crash and restart under the same consumer name; the Redis
  connection breaks with a request under way, and what the server did is not
  known; connections are closed or reset while closures for them are queued.
- *Ordering.* A client's new connection may be served before the end of its old
  one; heartbeats, expiry and detection rounds of different nodes interleave.
- *Limits.* All servers of a process share a descriptor table that may run full.
- *Time.* Timers are re-armed from callbacks; heartbeats race the time to live.

What makes each component correct:

- task queue: no closure waits behind a blocked `epoll_wait`, none is lost,
  doubled or overtaken, the destructor leaves none half-way;
- timers: every timer fires or is cancelled; a cancelled timer is not queued again;
- acceptors: a full descriptor table neither costs the reserve nor lets a peer
  wait for ever; no descriptor is lost;
- HTTP: a request that arrives whole is answered as such, one response leaves a
  connection, and no read boundary makes a command up;
- connection: output leaves in order and before the FIN, callbacks come once,
  what is closed is removed from the table and from epoll;
- sessions: packets are attributed to the connection that sent them; tables,
  registry and subscriptions agree with the connections that exist;
- commands: an entry is in one place, tried at most once, acknowledged only after
  that, and its status says what was done;
- membership: a live node is listed, a dead one is not, and only nodes that were
  silent or have left are suspected.

`PROJECT.json` lists the hazards line by line with the properties that cover
them.

## 2. Modules

| Module | Models | Composes |
|---|---|---|
| `Executor` | what a loop thread promises: one queue, one server | abstract |
| `EventLoop` | task queue, wakeups, start, quit and destruction of a loop thread | owner thread, loop thread, client threads; implements `Executor` |
| `TimerQueue` | timers of one loop | loop thread, callbacks, a cancelling thread, the timerfd |
| `Acceptors` | how connections come in: `Acceptor`, `EventLoopThreadPool`, the table of `TcpServer` | all servers of a process, their pools, the descriptor table, the Redis client as its other user |
| `TcpConnection` | one connection | base loop, io loop, other threads, the peer, epoll |
| `MqttFraming` | input buffer, MQTT codec, the loop of `onMessage` | a byte stream in chunks, `Buffer`, `MqttCodec` |
| `HttpRequests` | the request parsers, routes and responses of `ApiServer` and `WebDashboard` | a stream of requests in chunks, the connection's state, `enqueueCommand` |
| `DeviceSessions` | sessions, device table, subscriptions, registry | connections on loops of several nodes, Redis |
| `CommandQueue` | what the command stream promises | abstract |
| `CommandDispatch` | commands from the API to the device | nodes, the stream and its group, status keys, the route channel; implements `CommandQueue` |
| `ClusterMembership` | node membership | nodes with their timers, the heartbeat hash and its expiry |
| `EventLoopProofs` (with `TimerQueue`), `AcceptorsProofs`, `TcpConnectionProofs`, `MqttFramingProofs`, `HttpRequestsProofs`, `DeviceSessionsProofs`, `CommandDispatchProofs`, `ClusterMembershipProofs` | theorems about the module they are named after | |
| `MC*` | model values, functions and streams for the constants | |

Definitions called *Variant* change one definition the way a slip in the code
would. No specification uses them: they are the material for mutation, where
each property has to notice one.

### EventLoop

`loopPc` is the loop thread's place in `loop()` and `doPendingFunctors()`, with a
step wherever another thread can get between: the test of `quit_`, `epoll_wait`,
the swap under the mutex, each closure. `QueueInLoop` and `Wakeup` are the two
steps of `queueInLoop` (push under the mutex, then the write to the eventfd);
`QuitStore` and `QuitWakeup` those of `quit`. Nothing holds the other clients back
then: worker loops send on each other's connections, and a worker goes on queueing
while the loop quits, after it has left `loop()` and after it is destroyed.
`UseDestroyed` is that last case, undefined behaviour: the thread goes on as if
nothing had happened, is lost (`"astray"`), or takes the process with it.
Closures and I/O handlers may queue further closures. `epoll_wait` may return on its timeout, but fairness does not
promise it, so no property rests on the 10 s.

`Executor` is the same without threads: jobs are handed over while the server
runs or when it has ended, in which case they stay in the queue; the oldest runs
next while the server runs, possibly handing over another, the server ends on
request only, and its owner lets go of it after that. The refinement mapping
takes the queue to be the rest of the swapped batch followed by
`pendingFunctors_`, the phase from the loop thread's place and the request to
stop from the owner's. Pushes, closures, `quit`, the exit from `loop()` and the
join are steps of the executor; wakeups, polls, swaps and flags are stutters.

### TimerQueue

`timers` holds the entries of `timers_` with the ticks left until each is due,
`expired` the ids taken out of it in this round, `current` the one whose wrapper
is on the stack; `armed` and `fdLeft` are the timerfd. A callback is a sequence
of steps (load the token, run, load again, re-queue) so that a cancel from
another thread comes between any two. Time is relative: `Tick` lowers what is
left, which keeps the state space finite without a horizon.

### Acceptors

Every server has a pool, a backlog in the kernel and a reserve descriptor;
`free` counts the free entries of the process's table. `handleRead` is one step
while there is a descriptor. When there is none it is five, `accept` failing with
EMFILE and the four calls of lines 63 to 66, because worker loops close
connections in between. Only the base loop opens descriptors: by accepting,
by reopening the reserve and by reconnecting to Redis. A closed connection keeps
its descriptor until its last reference is gone: for a worker's connection after
a round trip over the base loop and `connectDestroyed`, and for the last one that
sent a packet to the gateway when `currentConn_` is given to another. The action
`ConnectDestroyed` is this release, at any time from the first on. `lead` is a history
variable: how many connections each loop of a pool was given, above the one
with the fewest. Accept errors other than EMFILE return without effect and are
not distinguished from a poll that reports nothing; a system-wide table that is
full (ENFILE) while the reserve is open is assumed not to happen. Servers start
in any order, the gateway's in fact before the API's.

### TcpConnection

An iteration of the io loop polls, handles the reported events in the order of
`handleEventWithGuard`, runs the swapped batch. Handlers of other channels may
send on this connection before and after. The variable `server` is chosen
initially and never changes: a connection of the `"gateway"` belongs to a
worker loop, one of the `"http"` servers to the base loop. `Debug` says
whether assertions are compiled in: a failed one ends the process, in Release
the handler goes on. A write to a broken socket ends the process as SIGPIPE is
not ignored; `failed` and `killed` record that. Messages stand for the bytes of
one `send`; one that is partly written counts as buffered.

### MqttFraming

A peer's whole byte stream is chosen initially: arbitrary bytes (`Raw`) or the
encoding of a sequence of packets (`Sent`, through the model of
`encodeRemainingLength`, `encodePublish` and the simulator's CONNECT).
`DevicePackets` says what a device can send: strings whose length fits into two
bytes, a body whose length fits into the length field, no packet id with QoS 0.
`HandleRead` takes a chunk of any size
from it into the `Buffer`, whose vector and two indices are modelled with
growing, compacting and the stack buffer of `readFd`; the loop of `onMessage`
then parses until a packet is incomplete or bad. A byte is a number below
`2 * Base`, and the size of the length field, of the prepend area, of the
initial buffer and of the stack buffer are constants, so that a small instance
meets the carries, wraps and boundaries that the real numbers have much further
out. The reference for the handlers' calls is `InOneGo`: what the codec makes of
the bytes received so far when they arrive in one piece (`ParsedFrom`: from an
offset on).

### HttpRequests

A client's requests are chosen initially; the stream is their tokens: words,
quoted strings, CR and LF. A read may end at any token, also between CR and LF.
The handlers take the lines of the buffer away as they find them, so
`Unfinished` is what is left of a buffer without an empty line, and the body is
all that follows the empty line. `ExtractJsonStr` is the search of
`handlePostCommand`: the quoted string after the first occurrence of the quoted
key. `split` and `covered` record where reads ended in the first request. A path that goes on behind the prefix of a route carries what
follows as a sequence of characters, and `Stoll` reads it as `std::stoll` does: a
sign, digits up to the first other character, numbers up to `MaxLong`. An
exception of `substr` (nothing follows) or `stoll` (no digit, too large) is not
caught and ends the process (`"terminated"`). The gateway sets neither `deviceDetailFn_` nor
`commandStatusFn_`, so these routes answer "unknown" with the id they cut out.
`Requests` says what clients are taken to send: a request line of three words,
whole header lines of which none is empty, looks like the request line of a POST
to `/api/v1/commands` or has a quoted key in it, and a body of quoted strings that
does not end with a key. Everything else is free: texts, number of headers,
strings and requests. The server checks none of this, so the properties of
this module are about such clients only.

### DeviceSessions

Connections belong to loops (`LoopOf`) and nodes (`NodeOf`). Handling a read is
split into taking over `currentConn_` and the packets, so that workers
interleave; on one loop, `onMessage` is not interrupted. Redis commands are
atomic, their sequences are not. `redisLink` is a node's connection: `"broken"`
while `connected_` is still true, when every HSET and HDEL is lost and its NULL
reply ignored; the next `consumeCommands` reconnects, or sets `connected_` to false
for good. A link may also break between the HDELs of one heartbeat check.
`missed` records the clients whose last write by a node was lost that way.
`Fallible` bounds the nodes to which this happens. A command sent before a
reconnect is taken not to be executed after one sent on the new connection.
`Discipline` says what clients may do:
`exclusive` keeps a client id on one connection at a time, `connect-once` lets
an id appear on several connections, one CONNECT each.

### CommandDispatch

One action per Redis command and per lookup of `processCommand`; `stage` says
where it is with the first command of its batch: read (`"wait"` while XREADGROUP
blocks on an empty stream), find the device, find it again, `send`, mark,
acknowledge; or ask the registry, PUBLISH, acknowledge or mark as failed. A
connection may be `closing`, and `send()` then does nothing and says nothing.
On its own loop it writes at once; for a worker's connection the message is
`queued` in a closure, which `handleClose` may come before. The write itself fails
with EPIPE or ECONNRESET at any time.

A `deployment` is chosen initially. Its `faults` allow, node by node, crashes,
broken links (the server may or may not have executed the command, a PUBLISH
included) and an unreachable Redis. Its `workers` are nodes with worker
threads. There, connections come and close between any two steps of
`processCommand`; the record of a device is written later or not at all
(`unsaved`), as the workers share the hiredis context that is blocked in
XREADGROUP; and replies are exchanged between threads: that of XREADGROUP may be
lost, that of HGET may look like no record, that of PUBLISH like any number of
receivers. The socket timeout needs no fault: XREADGROUP BLOCK 0 waits for ever,
the socket for 3 s, and an XADD that comes just then is answered into a
connection that is being closed (`ConsumeReplyLost`; history variable `lost`).

`CommandQueue` is the same without nodes: items are put, taken in order, some at
a time, tried at most once, arrive at most once and only then, and are
acknowledged only when tried. An acknowledgement promises an attempt, never the
arrival, and a taken item may stay pending for ever: both are less than the
comments of the code promise (section 5), and all the code does. The mapping takes
the undelivered part of the stream as the queue, the group's pending list as
taken, a call of `send()` or an executed PUBLISH as the attempt, and a write to the
device's connection or a PUBLISH with a subscriber as the arrival. Crashes,
status records and reconnects are stutters.

### ClusterMembership

The heartbeat hash is a set of fields with one expiry time for the whole key,
as `EXPIRE` sets it. Two history variables tell `quiet`, the ticks since a
node's heartbeat reached Redis, from `left`, the nodes that deleted their field
themselves. Timers of a node fire at most `Lateness` late. Failure
detection reads the hash twice, as the code does. `faults`, chosen initially
from `Weather`, says whether nodes crash, connections break and Redis is out of
reach.

## 3. Runs

| Run | Checks | Shows |
|---|---|---|
| `eventloop` | `NoLostWakeup`, `RefinesExecutor`, `QueuedRuns`, `QuitIsHeeded` | holds while clients queue at all times; closures run without the help of the 10 s poll timeout, unless the loop quits; a quit that `loop()` has not undone ends in a joined thread, unless a client of the destroyed loop ends the process |
| `timers` | `TimerfdCoversTimers`, `TokensMatchTimers`, `CancelIsFinal`, `TimerFires`, `CancelTakesEffect` | holds |
| `acceptors` | `IdleFdKept`, `DescriptorsAccounted`, `BacklogServed` | holds, also if no connection ever closes |
| `connections` | `SendsInOrder`, `BufferedIsAwaited`, `FinAfterOutput`, `ChannelHasOwner`, `UpThenDown`, `PeerCloseCleansUp`, `ShutdownSendsFin` | holds in a Release build, with resets; that the end is heard of once, and no assertion is false, for the single reactor only |
| `framing` | `BufferHoldsTail`, `ChunkingIrrelevant`, `PacketsAsSent` | holds |
| `http` | `WholeRequestAnswered`, `OneAnswer`, `EnqueuedWasPosted` | holds; with the exemptions the properties name |
| `sessions` | `SenderIsCurrent`, `RegistryMirrorsDevices`, `SessionRegistered`, `NoDanglingConn`, `NoOrphanSubscription`, `PublishReachesSubscribers` | holds for single-reactor nodes (`-t 0`) and clients that use an id on one connection at a time; the registry but for records whose write a broken link swallowed |
| `sessions_workers` | `SenderIsCurrent` | violated with worker threads, the default |
| `dispatch` | `StatusTruthful`, `RefinesCommandQueue`, `EveryCommandSettled` | the first two hold under all faults and with worker threads; the third without either, but for replies lost to the socket timeout |
| `dispatch_acked_lost` | `AckedIsDelivered` | violated: a forwarded command is acknowledged and read by nobody |
| `membership` | `BeatKeepsVisible`, `LeftIsUnlisted`, `JoinedIsListed`, `SuspectedIsSilent`, `NodesDiscovered`, `LeaverForgotten` | the first two hold whatever fails, `SuspectedIsSilent` for detectors that reach Redis, the others while connections hold |
| `membership_dead` | `DeadIsRemoved` | violated: any other node's heartbeat keeps a dead one listed |

A violated run states what a comment or a document of the repository says; the
finding in `PROJECT.json` quotes it. Type invariants that are proved (section 4)
are not repeated in the runs.

### Bounds

- Closures (4), timers (2, with delays of 1 to 3 ticks), messages (3): two of
  them interleave in every order, a third message shows what happens to one
  that comes after a wait, and a fourth closure lets a closure of a closure
  queue once more. Each is used once, a periodic timer for ever.
- Threads: the owner, the loop and one more client. Two clients are symmetric
  beyond what the order of their pushes says.
- Nodes: two. Registry, group, and membership conflicts are between a node and
  another one. Three connections let a client move between nodes while another
  device stays.
- `Interval` 1, `Lateness` 1, `TTL` 3: the smallest numbers with
  `Interval + Lateness < TTL`, as 5 s and 15 s.
- `BatchSize` 2 and two commands: batches of one and of two, split over two
  nodes or not. Larger numbers are the theorems' part. Three deployments: no
  faults; every fault at one node while the other one crashes; worker threads
  at one node, which crashes, beside a single-reactor one. A node with faults and
  workers at once is left to the proofs, which cover every deployment.
- `Fallible`: the links of one node of two fail, again and again (`sessions`);
  none where the run is about threads (`sessions_workers`).
- Descriptors: two servers, one with two workers and one on the base loop, three
  clients and one entry besides the reserves and the Redis client's two. Both
  acceptors find the table full in one iteration, descriptors are freed between
  any two of the four calls, and a reconnect of Redis takes or gives entries.
- HTTP: one or two requests out of thirteen (POSTs with all keys, with swapped
  keys and without parameters, with a key missing; GETs of every kind of route;
  command ids that are numbers, negative, followed by a letter, empty, no number
  and, `MaxLong` being 99, too large; a method without route) and three POSTs, cut
  at every token.
- `MaxRemovals` 2: a base loop that lags behind by a repeated close. History
  counters of the connection stop at two, which stands for more than one.
- Framing: `Base` 4, `LenBytes` 2, an initial buffer of 4 bytes and a stack
  buffer of 5; all streams of up to four bytes, some longer ones with a
  SUBSCRIBE, and CONNECT, PUBLISH, PUBLISH as a device encodes them. Length
  fields of one and two bytes and one that is too long occur, the buffer grows,
  is compacted and spills into the stack buffer.

Deadlock is checked for `EventLoop`, where only a thread that has been joined
rests, and for `Acceptors`, where somebody can always connect or close. Elsewhere the system may stop: all messages sent, all connections
closed, all nodes down.

### Fairness

Weak fairness of a loop thread's own steps: the scheduler runs threads, and
`epoll_wait` returns when a watched descriptor is ready. For the acceptors only
the base loop is fair: no connection need ever close. Weak fairness of time.
Weak fairness of a node's timers while it runs. For connections, strong
fairness of reading the end of the stream (the data before a FIN is finite) and
of a poll that finds room in the socket (the peer takes what is written).
Nothing makes clients send, devices connect, peers close, nodes join or faults
happen.

## 4. Proofs

Proved by TLAPS for every value of the constants that satisfies the named
assumptions of the modules (which TLC evaluates on every run):

- `EventLoopProofs`: `LoopInvariant`, from which `TypeCorrect`, `WakeupNeverLost`,
  `QueueIsFifo`, `OwnerAlwaysFindsLoop`, `JoinWaitsForBatch` follow, and
  `LoopImplementsExecutor`. The invariant
  `LoopInv` adds to the properties `LoopFlags` (what the loop thread's place says
  of its flags and of the batch) and `Lifecycle` (which places of the owner and
  the loop go together). `NoLostWakeup` is not inductive without the first: the step into
  `epoll_wait` keeps it only because closures pushed after the swap come with a
  wakeup, which depends on who pushed them and on `callingPendingFunctors_`.
  The refinement needs both: that the batch is empty at a swap, that nobody
  queues before `startLoop` has returned, and that a loop ends on its owner's
  request only. It does not need clients to stop: what they queue after
  the end stays in the executor's queue.
- `EventLoopProofs`, second half, about `TimerQueue`: `TimerInvariant`, from which
  `TimerTypeCorrect`, `NoTimerStranded`, `TokensExact` and `CancelHolds` follow.
  `TimerInv` adds
  `OneWrapper`, `OneEntryPerTimer`, `OnlyStarted` (a fresh id is nowhere yet) and
  `CallNotLate`: a wrapper that found its token clear has not begun late before,
  which is what limits the callbacks after a cancel to one.
- `AcceptorsProofs`: `TypeCorrect`, `ReserveAlwaysKept`, `NoDescriptorLeaks` and
  `PoolIsFair`, for any number of servers, workers and clients and any size of
  the table. `IdleFdKept` needs `ReserveInHand`: from `close(idleFd_)` on there is
  a free entry or the spare connection holds it, since only the base loop
  opens. The count of descriptors needs `QueuedOnce` (a connection is in one
  backlog, once) and `SpareIsIdleFd`, so that accepting and turning away move
  exactly one. `RoundRobinFair` follows from `PoolOrder`: the loops before
  `next_` are one connection ahead of the others.
- `DeviceSessionsProofs`: `SessionInvariant`, `TypeCorrect` and
  `IndexStaysInverse` for any deployment; `SenderAlwaysCurrent` and
  `NothingDangles` when a node has one loop (`OneLoopPerNode`, the `-t 0`
  deployment); `NoSubscriptionLeaks` when, besides, a connection sends one CONNECT
  (`Discipline # "none"`), also if clients take over ids. With worker threads the
  second group is false: `sessions_workers`. When, besides, an id is on one
  connection at a time (`Discipline = "exclusive"`): `SessionsAgree`,
  `LiveSessionsRegistered`, the action property `PublicationsReach`, and
  `RegistryStaysExact`, which also takes that the node's one loop serves its
  timers (`MainLoopServes`). `SessionRegistered` is inductive only together with
  `ClientUsedOnce` (no two open connections stand for a client) and
  `LiveIsDevice`; the publications also need `AckedIsSubscribed` (what was
  acknowledged is still in the tables) and `IndexInverse`. The registry needs
  `FetchedIsFresh`: between the two Redis commands of a heartbeat nobody else
  writes the record. With exclusive ids that is true, since only the node
  with the client's connection writes it; otherwise a late close deletes
  another node's record (section 5). Broken links and reconnects cost the records
  in `missed` and no others, also when a link breaks in the middle of a heartbeat
  check.
- `TcpConnectionProofs`: `LifeCorrect` and `ConnectionCorrect`, from which
  `TypeCorrect`, `ChannelIsOwned`, `LifeIsToldInOrder`, `MessagesInOrder`,
  `OutputIsAwaited` and `FinIsLast` follow, for any messages, both kinds of
  server, with and without resets and assertions, and any
  `MaxRemovals`. `LifeInv` says for every place of the io loop which closures
  are still to run: `BeforeUp` (before `connectEstablished` nothing else is
  queued, and nothing of the connection is used), `AfterDown` (it leaves the table only
  after a close, which is when its channel has stopped asking for events),
  `HttpEnd` (on a single reactor `connectDestroyed` runs in the iteration of the
  close, with no poll in between: this is why its assertions hold) and
  `RemovalsLag`. The data then needs little: the three output properties are
  inductive together.
- `MqttFramingProofs`: `FramingCorrect`, from which `TypeCorrect`,
  `BufferKeepsTail` and `ChunksDoNotMatter` follow, for every byte stream, every
  `Base`, size of the length field and of the buffers, and `CodecInvertsEncoders`,
  for every sequence of `DevicePackets`. The lemmas say what each
  operation of `Buffer` does to the bytes it `Holds`, that a length field's
  value is a number, and, at the centre, `ParseStable`: a packet that is not
  INCOMPLETE is parsed the same whatever bytes follow it. A field that
  ends with the chunk is why this is not obvious: it holds since
  `decodeRemainingLength` counts one byte more than such a field has. The invariant
  `CallsAgree` is about all continuations of the bytes received: parsing any
  of them in one go makes the calls made so far and goes on where `onMessage`
  stands. For the bytes received alone it is not inductive, as `InOneGo` of
  a longer stream is another recursion; `ParseStable` makes each step the same in
  all of them. That the recursive functions `Digits` and `ParsedFrom` are defined
  and well typed is proved by least counterexamples (`LeastNumber`, from the
  well-foundedness of `<`), which need no induction rule with an operator
  parameter. That the handlers see what was sent (`PacketsAsSent`) rests on
  `DecodeField` (`decodeRemainingLength` inverts `encodeRemainingLength`, whatever
  bytes follow), `ConnectRead` and `PublishRead` (the parsers invert the
  encoders) and `SentAt` (where a packet lies in the stream). The strengthening is
  `OnPacketBoundary`: between two calls, `onMessage` stands behind a whole number
  of packets and has made the calls of exactly these.
- `HttpRequestsProofs`: `HttpInvariant`, from which `TypeCorrect`, `AnswersOnce`,
  `FirstAsIfAlone` and `CommandsWerePosted` follow, for every text and every
  conversation of `Requests`, cut into reads in any way. `InputIsTail` says that
  the buffer is the end of what was read. A buffer that starts with a request has
  that request's line, and its empty line and body as far as it goes, whatever
  follows (`RequestLineFacts`, `BlankLineFacts`, `BodyFollows`). `FirstReads`
  tells when a buffer starts with the first request: until a read has got past
  its request line nothing was taken from the buffer, and a read that
  ends inside it later is a cut. For commands, `PostPlace` shows that the request
  line of a POST stands in the stream only where a POST starts, `OwnValue` that a key
  found both in the POST and in the buffer has one value, and `LaterValue` that a
  key found only in the buffer is the first of a later body. `EnqueuedWasPosted`
  is not inductive: nothing in it keeps a POST from being taken twice.
  `TakenIsGone` adds that the buffer starts behind every POST whose command
  was taken, so that the next one is a later request.
- `CommandDispatchProofs`: `DispatchInvariant`, from which `TypeCorrect`,
  `CommandInOnePlace`, `AckOnlyAfterAttempt`, `CommandAtMostOnce` and
  `StatusTellsAttempt` follow, with all faults and worker threads, and
  `DispatchImplementsQueue`, the refinement. `DispatchInv` adds
  `BatchInStage`, `NoRepeats`, `UntouchedBefore` (nothing has happened to a command
  before its turn, wherever it waits) and `Tried` (what has happened to the
  one a node is at, by stage). At-most-once needs the whole: a command
  enters a batch once because `XREADGROUP ">"` gives every entry out once, and
  no code re-reads or claims a pending entry.
- `ClusterMembershipProofs`: `TypeCorrect` (which includes that timers of a
  running node are at most `Lateness` late), `BeatVisible`, `LeaverUnlisted`,
  `JoinedAlwaysListed`, about behaviours in which connections do not break, and
  `SuspicionIsSound`, about every detector whose own link works. The argument: the hash's expiry is
  never earlier than `TTL` after the last heartbeat of any listed node; with
  `Interval + Lateness < TTL` a joined node beats again before.

Only model-checked: all liveness (fairness and ENABLED are beyond the prover).
Every invariant and every action property of a passing run is proved, as are
both refinements. `FifoExactlyOnce`,
`OwnerFindsLoop`, `JoinedAfterBatch`, `OnePlace`, `AckAfterAttempt`, `AtMostOnce`,
`IndexInverse` and `RoundRobinFair` are proved and no longer part of a run: the
refinements say as much.

## 5. Known divergences

Behaviours of the code that the models contain and that contradict a document,
a comment or what a caller would expect. The first three have a run of their
own; the others limit what the properties claim, as noted.

- Worker threads share `currentConn_`, the codec and the tables
  (`GatewayServer.cpp:155`): run `sessions_workers`.
- A forwarded command is acknowledged although nobody reads `subConn_`
  (`GatewayServer.cpp:334`): run `dispatch_acked_lost`.
- The heartbeat hash expires as a whole (`RedisClient.cpp:557`): run
  `membership_dead`.
- `loop()` resets `quit_` (`EventLoop.cpp:95`): a `quit()` that comes between
  publishing the loop and that line is lost, and `~EventLoopThread` waits for
  ever. `QuitIsHeeded` promises that the destructor returns for a `quit_` that is
  set when `loop()` is past that line.
- `quit()` stores the flag and then calls `wakeup()` (`EventLoop.cpp:150`): the loop
  may see the flag, return and be destroyed in between.
- Neither `quit()` nor `~EventLoopThread` waits for the other threads that hold the
  loop (`EventLoopThread.cpp:11`): a closure that another worker queues late
  (`GatewayServer.cpp:219`, `TcpConnection.cpp:201`) never runs, and one queued
  still later goes to a destroyed loop. `QueuedRuns` promises nothing once the loop
  is told to quit, `QuitIsHeeded` exempts a process that ends this way.
- On a worker loop the channel stays in epoll from `handleClose` until the base
  loop's answer; `EPOLLHUP` then leads to a second `handleClose`
  (`TcpConnection.cpp:139`). A Debug build aborts at the assertion, a Release
  build repeats the disconnect callback. `UpThenDown` promises one end for the
  single reactor only.
- A close that is handled late deletes the registry record another node has
  written for the same device (`RedisClient.cpp:437`). `RegistryMirrorsDevices`
  assumes that a client id is on one connection at a time.
- HSET and HDEL over a link that broke unnoticed are lost and their NULL replies
  ignored (`RedisClient.cpp:423`, `RedisClient.cpp:436`). After the reconnect the
  registry still names the node for a device that is gone, or does not know one
  that is there, until that device comes or goes again.
  `RegistryMirrorsDevices` exempts these records (`missed`).
- `send()` drops the message when the connection is no longer connected
  (`TcpConnection.cpp:195`), `sendInLoop` when it is closed or the write fails
  (`TcpConnection.cpp:223`, `TcpConnection.cpp:244`); the caller does not learn of it,
  and the command is marked sent and acknowledged (`GatewayServer.cpp:371`).
  `StatusTruthful` and the queue speak of the attempt only.
- XREADGROUP BLOCK 0, which `GatewayServer.cpp:305` takes for "non-blocking", runs
  into the socket timeout whenever the stream is empty (`RedisClient.cpp:184`): the
  main loop stands still for 3 s, the link is opened anew, the subscription is
  lost, and commands that were being delivered just then stay pending.
  `EveryCommandSettled` exempts them (`lost`).
- Worker threads use the hiredis context of the main loop without a lock
  (`RedisClient.h:178`): with replies exchanged, a command that another node
  received may be marked failed, and one that nobody received acknowledged.
  A PUBLISH that Redis executed may lose its reply as well (`RedisClient.cpp:651`).
- A command that is marked failed is never acknowledged (`GatewayServer.cpp:340`)
  and stays in the pending list; `StatusTruthful` states it that way.
- `claimPendingMessages` looks at the pending list of a dead node and claims
  nothing (`ClusterManager.cpp:394`), although `GatewayServer.cpp:294`,
  `RedisClient.h:63` and `ClusterManager.h:86` say that other nodes take its
  entries over. Entries stay pending for ever; `CommandQueue` allows it.
- `reconnect()` opens a new `subConn_` and does not subscribe it again; when it
  fails once, `connected_` stays false and nothing tries again.
- `enqueueCommand` returns an id, and the API answers "enqueued", when `XADD` failed
  (`GatewayServer.cpp:407`).
- With worker threads a device may go between the two lookups of
  `processCommand` (`GatewayServer.cpp:319`): the command is neither sent, marked
  nor acknowledged. `EveryCommandSettled` is checked without workers.
- A failed `HGETALL` counts as an empty cluster (`ClusterManager.cpp:368`): every
  other node is suspected. `SuspectedIsSilent` is about detectors whose link works.
- A node that leaves deletes its field, and the next detection round of another
  declares it failed at once, though it was heard a moment ago and
  `ClusterManager.cpp:374` reports 15 s without a heartbeat. `SuspectedIsSilent`
  names it as the one other reason.
- The detection round reads the hash a second time before it compares
  (`ClusterManager.cpp:350`): a node that vanishes between the two reads is
  forgotten without a failover.

- A request that a read cuts after its request line is lost or answered with
  404: the lines retrieved so far are forgotten (`ApiServer.cpp:58`,
  `WebDashboard.cpp:55`). `Content-Length` is not looked at: a body cut before its
  end is used as it is. `WholeRequestAnswered` exempts such requests;
  `EnqueuedWasPosted` says what is still true of them: device and command come
  from one POST, the parameters may fall back to `{}`.
- Requests that follow in the same read are taken as part of the body
  (`ApiServer.cpp:64`) and dropped; a key that the body does not have may be found
  there. A later read still enqueues commands after the response and the FIN.
- `extractJsonStr` takes the first quoted string after the key: a value that
  equals a key's name is mistaken for it, and the example of `README.md:41`,
  `"params":{"delay":5}`, becomes the parameters `delay`.
- `GET /api/v1/commands/:id` cuts the path at 18 although the prefix has 17
  characters (`ApiServer.cpp:102`): the first digit is lost. What is left goes to
  `std::stoll`: an empty id, an id of one digit, one that does not go on with a
  digit and one too large end the process by an uncaught exception.

## 6. Not modelled

JSON texts, HTML and line protocol, the fixed-size MQTT acknowledgements,
logging, metrics for display, `DeviceManager::unsubscribe` and
`scanTimeoutCommands` (no callers), the write-complete and high-water callbacks
(never set), the destructors of the servers at the end of the process, the
growth of epoll's event array, memory itself: data races appear as
interleavings of the statements, not as torn values. The races on the hiredis
context appear as exchanged and lost replies; a context freed by `reconnect()` while
a worker uses it, a table entry freed between lookup and use, and the second
`redisGetReply` of `markCommandSent`, which frees the first reply again when the link
breaks there, are undefined behaviour that is not followed further. A crash is
that of the process: the kernel closes its sockets. `TsdbClient` is a stub.
`AlertEngine` and `MetricsCollector` are not instantiated by the gateway: nothing
calls them, so a model would have to invent the order of calls. The simulator
is modelled as far as it encodes packets. Command ids are distinct in
`CommandDispatch`, though they are microsecond timestamps.

## 7. Plan

Done: the modules above, in the order in which a failure would hurt most: the
loop, its timers, sessions, command dispatch, membership, connections, framing,
the two abstract specifications and their refinements, acceptors, HTTP; and the
proofs of section 4.

Left: `AlertEngine` and `MetricsCollector`, once the gateway uses them; the liveness
properties, which stay with TLC; and the hazards that `PROJECT.json` lists without
a property, where the code does what section 5 says of it.
