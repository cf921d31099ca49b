------------------------------ MODULE Acceptors ------------------------------
(***************************************************************************)
(* How connections come in: Acceptor, EventLoopThreadPool and the          *)
(* connection table of TcpServer (src/net), for all servers of a process.  *)
(* Their acceptors share the base loop and the process's descriptor table. *)
(* When the table is full, an acceptor gives up its reserve, idleFd_, to   *)
(* accept and close one connection, and takes it back.                     *)
(*                                                                         *)
(* Worker loops run beside the base loop and close connections at any      *)
(* moment; only the base loop opens descriptors.  epoll is level-triggered *)
(* and an iteration handles every listening socket that was reported.      *)
(***************************************************************************)
EXTENDS Integers, Sequences, FiniteSets

CONSTANTS
  Server,   \* the TcpServers of the process
  Threads,  \* setThreadNum; 0 when it is not called
  Client,   \* peers, each with one connection at a time
  Room      \* descriptors beside the acceptors' idleFd_ and the two of Redis

ASSUME AcceptorsAssumption ==
  /\ Threads \in [Server -> Nat]
  /\ Room \in Nat

ASSUME FiniteAssumption == IsFiniteSet(Server) /\ IsFiniteSet(Client)

VARIABLES
  pc,         \* where the base loop is
  serving,    \* the server whose handleRead found the table full
  ready,      \* listening sockets reported and not yet handled
  loops,      \* loops_.size() of the pools
  next,       \* next_ of the pools
  listening,  \* servers whose acceptor listens
  backlog,    \* connections the kernel holds for a listening socket
  idleFd,     \* what idleFd_ is: "devnull", "spare" (a connection) or "none"
  free,       \* free entries of the descriptor table
  redis,      \* descriptors of the Redis client, conn_ and subConn_
  place,      \* where a client's connection is
  home,       \* its server and its loop, 0 being the base loop
  lead        \* history: connections given to a loop, above the least one

vars == <<pc, serving, ready, loops, next, listening, backlog, idleFd, free,
          redis, place, home, lead>>

Pc == {"starting", "poll", "handle",
       "emfile", "spare", "refuse", "reopen"}  \* the steps of a full table

Place == {"away", "queued", "open",
          "closing",  \* handleClose done, removal queued to the base loop
          "erased",   \* out of connections_, connectDestroyed queued
          "spare"}    \* accepted into idleFd_

\* The worker loops of a pool, counted from 1, and of all pools.
Pool(s) == 1 .. Threads[s]
Worker == UNION {Pool(s) : s \in Server}

TypeOK ==
  /\ pc \in Pc
  /\ serving \in Server
  /\ ready \in SUBSET Server
  /\ loops \in [Server -> Nat]
  /\ next \in [Server -> Nat]
  /\ listening \in SUBSET Server
  /\ backlog \in [Server -> Seq(Client)]
  /\ idleFd \in [Server -> {"devnull", "spare", "none"}]
  /\ free \in Nat
  /\ redis \in 0 .. 2
  /\ place \in [Client -> Place]
  /\ home \in [Client -> Server \X Nat]
  /\ lead \in [Server -> [Worker -> Nat]]

Init ==
  /\ pc = "starting"
  /\ serving \in Server
  /\ ready = {} /\ listening = {}
  /\ loops = [s \in Server |-> 0]
  /\ next = [s \in Server |-> 0]
  /\ backlog = [s \in Server |-> << >>]
  /\ idleFd = [s \in Server |-> "devnull"]
  /\ redis \in 0 .. 2  \* the subscription connection may fail alone
  /\ free = Room + 2 - redis
  /\ place = [c \in Client |-> "away"]
  /\ home = [c \in Client |-> <<serving, 0>>]
  /\ lead = [s \in Server |-> [l \in Worker |-> 0]]

-----------------------------------------------------------------------------
(* Start, before the base loop runs. *)

\* EventLoopThreadPool::start, one turn of its loop: startLoop returns when the
\* thread's loop exists.
StartLoop(s) ==
  /\ pc = "starting" /\ loops[s] < Threads[s]
  /\ loops' = [loops EXCEPT ![s] = @ + 1]
  /\ UNCHANGED <<pc, serving, ready, next, listening, backlog, idleFd, free,
                 redis, place, home, lead>>

\* TcpServer::start goes on to Acceptor::listen.
Listen(s) ==
  /\ pc = "starting" /\ loops[s] = Threads[s]
  /\ s \notin listening
  /\ listening' = listening \cup {s}
  /\ UNCHANGED <<pc, serving, ready, loops, next, backlog, idleFd, free, redis,
                 place, home, lead>>

\* main: mainLoop.loop() after every server has started.
EnterLoop ==
  /\ pc = "starting" /\ listening = Server
  /\ pc' = "poll"
  /\ UNCHANGED <<serving, ready, loops, next, listening, backlog, idleFd, free,
                 redis, place, home, lead>>

-----------------------------------------------------------------------------
(* The kernel: a peer connects.  It waits in the backlog until it is accepted. *)

Connect(c, s) ==
  /\ place[c] = "away" /\ s \in listening
  /\ place' = [place EXCEPT ![c] = "queued"]
  /\ backlog' = [backlog EXCEPT ![s] = Append(@, c)]
  /\ UNCHANGED <<pc, serving, ready, loops, next, listening, idleFd, free, redis,
                 home, lead>>

-----------------------------------------------------------------------------
(* The base loop *)

Poll ==
  /\ pc = "poll"
  /\ ready' = {s \in Server : backlog[s] # << >>}
  /\ ready' # {}
  /\ pc' = "handle"
  /\ UNCHANGED <<serving, loops, next, listening, backlog, idleFd, free, redis,
                 place, home, lead>>

\* Where the base loop goes on when it has handled s.
Handled(s) ==
  /\ ready' = ready \ {s}
  /\ pc' = IF ready' = {} THEN "poll" ELSE "handle"

\* getNextLoop: the loop (counted from 1, 0 is the base loop) and next_ after it.
GetNextLoop(s) ==
  IF loops[s] = 0 THEN [loop |-> 0, next |-> next[s]]
  ELSE [loop |-> next[s] + 1,
        next |-> IF next[s] + 1 >= loops[s] THEN 0 ELSE next[s] + 1]

\* One more connection for loop l of s, counted above the loop with the fewest.
Given(s, l) ==
  IF l = 0 THEN lead[s]
  ELSE LET more == [i \in Worker |-> IF i = l THEN lead[s][i] + 1 ELSE lead[s][i]]
       IN  IF \A i \in Pool(s) : more[i] > 0
             THEN [i \in Worker |-> IF i \in Pool(s) THEN more[i] - 1 ELSE more[i]]
             ELSE more

\* newConnection: a loop is chosen and the connection entered into connections_.
NewConnection(c, s) ==
  LET chosen == GetNextLoop(s)
  IN  /\ next' = [next EXCEPT ![s] = chosen.next]
      /\ lead' = [lead EXCEPT ![s] = Given(s, chosen.loop)]
      /\ place' = [place EXCEPT ![c] = "open"]
      /\ home' = [home EXCEPT ![c] = <<s, chosen.loop>>]

\* Acceptor::handleRead: accept gives the oldest connection a descriptor.
HandleRead(s) ==
  /\ pc = "handle" /\ s \in ready
  /\ free > 0
  /\ free' = free - 1
  /\ backlog' = [backlog EXCEPT ![s] = Tail(@)]
  /\ NewConnection(Head(backlog[s]), s)
  /\ Handled(s)
  /\ UNCHANGED <<serving, loops, listening, idleFd, redis>>

\* ... or fails with EMFILE and leaves it in the backlog.
HandleReadFull(s) ==
  /\ pc = "handle" /\ s \in ready
  /\ free = 0
  /\ serving' = s
  /\ pc' = "emfile"
  /\ UNCHANGED <<ready, loops, next, listening, backlog, idleFd, free, redis,
                 place, home, lead>>

\* Variant: the reserve is kept.
CloseIdleKept ==
  /\ pc = "emfile"
  /\ pc' = "spare"
  /\ UNCHANGED <<serving, ready, loops, next, listening, backlog, idleFd, free,
                 redis, place, home, lead>>

\* close(idleFd_)
CloseIdle ==
  /\ pc = "emfile"
  /\ pc' = "spare"
  /\ free' = IF idleFd[serving] = "none" THEN free ELSE free + 1
  /\ idleFd' = [idleFd EXCEPT ![serving] = "none"]
  /\ UNCHANGED <<serving, ready, loops, next, listening, backlog, redis, place,
                 home, lead>>

\* idleFd_ = accept(): the connection takes the place, -1 when there is none.
AcceptSpare ==
  /\ pc = "spare"
  /\ pc' = "refuse"
  /\ IF free > 0 /\ backlog[serving] # << >>
       THEN /\ idleFd' = [idleFd EXCEPT ![serving] = "spare"]
            /\ free' = free - 1
            /\ place' = [place EXCEPT ![Head(backlog[serving])] = "spare"]
            /\ home' = [home EXCEPT ![Head(backlog[serving])] = <<serving, 0>>]
            /\ backlog' = [backlog EXCEPT ![serving] = Tail(@)]
       ELSE /\ idleFd' = [idleFd EXCEPT ![serving] = "none"]
            /\ UNCHANGED <<free, place, home, backlog>>
  /\ UNCHANGED <<serving, ready, loops, next, listening, redis, lead>>

\* Variant: the descriptor is forgotten, not closed.
CloseSpareForgotten ==
  /\ pc = "refuse"
  /\ pc' = "reopen"
  /\ place' = [c \in Client |-> IF place[c] = "spare" THEN "away" ELSE place[c]]
  /\ idleFd' = [idleFd EXCEPT ![serving] = "none"]
  /\ UNCHANGED <<serving, ready, loops, next, listening, backlog, free, redis,
                 home, lead>>

\* close(idleFd_): the peer is turned away.
CloseSpare ==
  /\ pc = "refuse"
  /\ pc' = "reopen"
  /\ free' = IF idleFd[serving] = "none" THEN free ELSE free + 1
  /\ place' = [c \in Client |-> IF place[c] = "spare" THEN "away" ELSE place[c]]
  /\ idleFd' = [idleFd EXCEPT ![serving] = "none"]
  /\ UNCHANGED <<serving, ready, loops, next, listening, backlog, redis, home, lead>>

\* idleFd_ = open("/dev/null")
ReopenIdle ==
  /\ pc = "reopen"
  /\ IF free > 0
       THEN idleFd' = [idleFd EXCEPT ![serving] = "devnull"] /\ free' = free - 1
       ELSE idleFd' = [idleFd EXCEPT ![serving] = "none"] /\ UNCHANGED free
  /\ Handled(serving)
  /\ UNCHANGED <<serving, loops, next, listening, backlog, redis, place, home, lead>>

\* consumeCommands, from a timer, finds the Redis connection broken: both are
\* freed, and opened again if Redis answers and there are descriptors.  When
\* conn_ cannot be opened the client stays disconnected.
RedisReconnect ==
  /\ pc \in {"poll", "handle"}
  /\ redis > 0
  /\ redis' \in 0 .. 2
  /\ free + redis >= redis'
  /\ free' = free + redis - redis'
  /\ UNCHANGED <<pc, serving, ready, loops, next, listening, backlog, idleFd,
                 place, home, lead>>

-----------------------------------------------------------------------------
(* The end of a connection *)

\* handleClose on the connection's loop.  removeConnection runs at once on the
\* base loop and is queued to it from a worker loop.
HandleClose(c) ==
  /\ place[c] = "open"
  /\ \/ home[c][2] # 0 /\ place' = [place EXCEPT ![c] = "closing"]
     \/ /\ home[c][2] = 0 /\ pc \in {"poll", "handle"}
        /\ place' = [place EXCEPT ![c] = "erased"]
  /\ UNCHANGED <<pc, serving, ready, loops, next, listening, backlog, idleFd,
                 free, redis, home, lead>>

\* removeConnectionInLoop: out of the table, connectDestroyed queued.
RemoveConnection(c) ==
  /\ place[c] = "closing" /\ pc = "poll"
  /\ place' = [place EXCEPT ![c] = "erased"]
  /\ UNCHANGED <<pc, serving, ready, loops, next, listening, backlog, idleFd,
                 free, redis, home, lead>>

\* The descriptor is released.  connectDestroyed, a queued closure of the
\* connection's loop, drops the last reference, unless it is the one that sent
\* the gateway its last packet: then currentConn_ holds it until onMessage of
\* another connection replaces it, in a handler of some later iteration.
ConnectDestroyed(c) ==
  /\ place[c] = "erased"
  /\ home[c][2] # 0 \/ pc \in {"poll", "handle"}
  /\ place' = [place EXCEPT ![c] = "away"]
  /\ free' = free + 1
  /\ UNCHANGED <<pc, serving, ready, loops, next, listening, backlog, idleFd,
                 redis, home, lead>>

-----------------------------------------------------------------------------
BaseLoop ==
  \/ \E s \in Server : StartLoop(s) \/ Listen(s) \/ HandleRead(s) \/ HandleReadFull(s)
  \/ EnterLoop \/ Poll \/ CloseIdle \/ AcceptSpare \/ CloseSpare \/ ReopenIdle

Next ==
  \/ BaseLoop
  \/ RedisReconnect
  \/ \E c \in Client : \/ \E s \in Server : Connect(c, s)
                       \/ HandleClose(c) \/ RemoveConnection(c) \/ ConnectDestroyed(c)

Spec == Init /\ [][Next]_vars

\* The base loop never stops for good; nothing is assumed of peers, workers and
\* Redis, so that no descriptor need ever become free.
FairSpec == Spec /\ WF_vars(BaseLoop)

-----------------------------------------------------------------------------
(* Properties *)

\* Whenever the base loop is not in the middle of a handler, every acceptor has
\* its reserve: nobody takes the descriptor between close and open, also while
\* another acceptor of the process is short of descriptors.
IdleFdKept ==
  \A s \in Server : \/ idleFd[s] = "devnull"
                    \/ s = serving /\ pc \in {"spare", "refuse", "reopen"}

\* The connections and the acceptors that have a descriptor.
Holding == {c \in Client : place[c] \in {"open", "closing", "erased", "spare"}}
Reserves == {s \in Server : idleFd[s] = "devnull"}

\* No descriptor is lost: what is missing in the table is a reserve, one of the
\* Redis client or of a connection that some server still has to close.
DescriptorsAccounted ==
  free + Cardinality(Holding) + Cardinality(Reserves) + redis
    = Room + Cardinality(Server) + 2

\* A peer in the backlog is accepted or turned away, even if no connection ever
\* ends and both acceptors find the table full: a level-triggered listening
\* socket does not keep the base loop busy for ever.
BacklogServed ==
  \A c \in Client : place[c] = "queued" ~> place[c] # "queued"

\* Of the loops of a pool, none ever gets two connections more than another,
\* whatever is turned away or closed in between.
RoundRobinFair ==
  \A s \in Server : \A l \in Pool(s) : lead[s][l] <= 1

-----------------------------------------------------------------------------
(* The inductive invariants behind them. *)

\* A connection is in one backlog, once, and only as long as it is queued.
QueuedOnce ==
  \A s, t \in Server : \A i \in 1 .. Len(backlog[s]), j \in 1 .. Len(backlog[t]) :
    /\ place[backlog[s][i]] = "queued"
    /\ backlog[s][i] = backlog[t][j] => s = t /\ i = j

\* The spare connection is the one in idleFd_.
SpareIsIdleFd ==
  /\ \A c, d \in Client : place[c] = "spare" /\ place[d] = "spare" => c = d
  /\ (\E c \in Client : place[c] = "spare") <=> idleFd[serving] = "spare"
  /\ idleFd[serving] = "spare" => pc = "refuse"

\* A reported socket has a connection until its handler has taken it.
ReadyHasBacklog ==
  \A s \in ready : \/ backlog[s] # << >>
                   \/ s = serving /\ pc \in {"refuse", "reopen"}

\* The entry that was freed for the spare connection stays the base loop's.
ReserveInHand ==
  /\ pc \in {"spare", "reopen"} => idleFd[serving] = "none" /\ free > 0
  /\ pc = "refuse" => \/ idleFd[serving] = "spare"
                      \/ idleFd[serving] = "none" /\ free > 0

\* Pools are complete before anything is accepted, next_ is in their range, and
\* the loops before it are one connection ahead.
PoolOrder ==
  /\ pc # "starting" => loops = Threads
  /\ \A s \in listening : loops[s] = Threads[s]
  /\ \A s \in Server :
       /\ loops[s] <= Threads[s]
       /\ next[s] = 0 \/ next[s] < loops[s]
       /\ \A l \in Pool(s) : lead[s][l] = IF l <= next[s] THEN 1 ELSE 0
=============================================================================
