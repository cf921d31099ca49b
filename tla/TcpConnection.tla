---------------------------- MODULE TcpConnection ----------------------------
(***************************************************************************)
(* The life of one connection between the base loop, which owns the table  *)
(* connections_ (src/net/TcpServer.cpp), and its io loop, which serves its *)
(* channel (src/net/TcpConnection.cpp, Channel.cpp, the epoll part of      *)
(* EventLoop.cpp).  EventLoop models the loop itself; here an iteration    *)
(* polls, handles what epoll reported for the channel, among the handlers  *)
(* of other channels, and runs the swapped batch of closures.              *)
(*                                                                         *)
(* A message stands for the bytes of one send(); one that was written in   *)
(* part counts as buffered.  epoll reports EPOLLERR and EPOLLHUP whatever  *)
(* events the channel asks for.  An assertion that fails ends the process  *)
(* of a Debug build and is passed over in Release.  A write() to a socket  *)
(* that cannot be written any more ends the process: the program leaves    *)
(* SIGPIPE at its default.                                                 *)
(***************************************************************************)
EXTENDS Naturals, Sequences

CONSTANTS
  Msg,       \* messages given to send(), each once
  NoMsg,     \* stands for no message
  Servers,   \* which servers are looked at: "gateway", "http"
  Resets,    \* the peer may reset the connection
  Debug,     \* the build has assertions
  MaxRemovals \* bound: removals the base loop may lag behind

ASSUME ConnAssumption ==
  /\ NoMsg \notin Msg
  /\ Servers \subseteq {"gateway", "http"}
  /\ Resets \in BOOLEAN /\ Debug \in BOOLEAN /\ MaxRemovals \in Nat \ {0}

VARIABLES
  server,     \* the connection's server: the gateway has worker loops, the
              \* HTTP servers serve their connections on the base loop
  state,      \* state_
  inTable,    \* the connection is in connections_
  events,     \* events_ of its channel
  revents,    \* revents_: what epoll reported and is still to be handled;
              \* "more" when packets that were read are still to be parsed
  registered, \* the channel is in epoll
  pc,         \* io loop: "poll"; "events", at other channels; "channel", in
              \* handleEvent of this one or past it; "run", in the batch
  tasks,      \* pendingFunctors_ of the io loop, as far as they hold conn
  batch,      \* the closures swapped out
  removals,   \* removeConnectionInLoop closures queued on the base loop
  output,     \* outputBuffer_
  wire,       \* messages written to the socket
  fin,        \* shutdownWrite was called
  peer,       \* "open", "fin", "reset", or "dead": reset and the error read
  failed,     \* the condition of an assertion was false
  killed,     \* SIGPIPE ended the process
  sent,       \* history: messages sendInLoop accepted
  ups, downs  \* history: connectionCallback_ calls, connected and not; two
              \* stands for more

chanVars == <<state, events, registered>>
loopVars == <<pc, revents, tasks, batch>>
dataVars == <<output, wire, sent>>
tableVars == <<inTable, removals>>
histVars == <<ups, downs>>
vars == <<server, chanVars, loopVars, dataVars, tableVars, histVars, fin, peer, failed,
          killed>>

Do(op) == [op |-> op, msg |-> NoMsg]
Task == {Do(op) : op \in {"established", "forceClose", "destroyed"}}
          \cup {[op |-> "send", msg |-> m] : m \in Msg}

\* The types of the connection's, the loop's and the table's state.
TypeOK ==
  /\ server \in Servers
  /\ state \in {"none", "connecting", "connected", "disconnecting",
               "disconnected"}
  /\ inTable \in BOOLEAN /\ removals \in 0 .. MaxRemovals
  /\ events \in SUBSET {"read", "write"} /\ registered \in BOOLEAN
  /\ revents \in SUBSET {"in", "more", "out", "err", "hup"}
  /\ pc \in {"poll", "events", "channel", "run"}
  /\ tasks \in Seq(Task) /\ batch \in Seq(Task)
  /\ output \in Seq(Msg) /\ wire \in Seq(Msg) /\ sent \in Seq(Msg)
  /\ fin \in BOOLEAN /\ peer \in {"open", "fin", "reset", "dead"}
  /\ failed \in BOOLEAN /\ killed \in BOOLEAN
  /\ ups \in 0 .. 2 /\ downs \in 0 .. 2

Init ==
  /\ server \in Servers
  /\ state = "none" /\ inTable = FALSE /\ removals = 0
  /\ events = {} /\ revents = {} /\ registered = FALSE
  /\ pc = "poll" /\ tasks = <<>> /\ batch = <<>>
  /\ output = <<>> /\ wire = <<>> /\ sent = <<>> /\ fin = FALSE
  /\ peer = "open" /\ failed = FALSE /\ killed = FALSE /\ ups = 0 /\ downs = 0

-----------------------------------------------------------------------------
(* The parts of handlers. *)

SameLoop == server = "http"

Alive == ~killed /\ (Debug => ~failed)

\* Where the io loop's thread is.
At(p) == Alive /\ pc = p

\* One more call of the owner's callback.
Once(n) == IF n < 2 THEN n + 1 ELSE n

\* An assertion of the code.
Require(P) == failed' = (failed \/ ~P)

\* Variant: nobody tells the io loop to drop the channel.
RemoveFromTableOnly == inTable' = FALSE /\ UNCHANGED tasks

\* TcpServer::removeConnectionInLoop, on the base loop.  A connection that is
\* not in the table any more is left alone.
RemoveFromTable ==
  /\ inTable' = FALSE
  /\ tasks' = IF inTable THEN Append(tasks, Do("destroyed")) ELSE tasks

\* Variant: setState(kDisconnected) is missing.
HandleCloseKeepsState ==
  /\ Require(state \in {"connected", "disconnecting"})
  /\ events' = {}
  /\ downs' = Once(downs)
  /\ IF SameLoop
       THEN RemoveFromTable /\ UNCHANGED removals
       ELSE removals' = removals + 1 /\ UNCHANGED <<inTable, tasks>>
  /\ UNCHANGED <<state, registered, ups, killed>>

\* handleClose, with its assertion; closeCallback_ is removeConnection, which
\* runs at once when the io loop is the base loop.
HandleClose ==
  /\ Require(state \in {"connected", "disconnecting"})
  /\ state' = "disconnected"
  /\ events' = {}
  /\ downs' = Once(downs)
  /\ IF SameLoop
       THEN RemoveFromTable /\ UNCHANGED removals
       ELSE removals' = removals + 1 /\ UNCHANGED <<inTable, tasks>>
  /\ UNCHANGED <<registered, ups, killed>>

Writable == ~fin /\ peer \in {"open", "fin"}

Accept(ms) == sent' = sent \o ms

\* Variant: enableWriting() is missing.
WriteDirectlyUnawaited(ms, k) ==
  /\ wire' = wire \o SubSeq(ms, 1, k)
  /\ output' = output \o SubSeq(ms, k + 1, Len(ms))
  /\ UNCHANGED <<events, peer, killed>>

\* k of the messages go to the socket, the others to the buffer.
WriteDirectly(ms, k) ==
  /\ wire' = wire \o SubSeq(ms, 1, k)
  /\ output' = output \o SubSeq(ms, k + 1, Len(ms))
  /\ events' = IF k = Len(ms) THEN events ELSE events \cup {"write"}
  /\ UNCHANGED <<peer, killed>>

\* write() fails: the first after a reset reads the error, ECONNRESET; any
\* other is EPIPE, with its signal.
WriteFails(ms) ==
  /\ peer' = IF peer = "reset" THEN "dead" ELSE peer
  /\ killed' = ~(peer = "reset" /\ ~fin /\ Len(ms) = 1)
  /\ UNCHANGED <<events, dataVars>>

\* Variant: the messages are written although others wait in the buffer.
SendOvertakes(ms) ==
  \/ state = "disconnected" /\ UNCHANGED <<events, dataVars, peer, killed>>
  \/ /\ state # "disconnected" /\ Writable
     /\ \E k \in 0 .. Len(ms) : WriteDirectly(ms, k)
     /\ Accept(ms)
  \/ /\ state # "disconnected" /\ ~Writable
     /\ WriteFails(ms)

\* sendInLoop, for messages sent one after the other: abandoned after the
\* close; behind what waits for the socket; else written as far as it takes
\* them; dropped when the socket is broken.
SendInLoop(ms) ==
  LET waits == "write" \in events \/ output # <<>> IN
  \/ state = "disconnected" /\ UNCHANGED <<events, dataVars, peer, killed>>
  \/ /\ state # "disconnected" /\ waits
     /\ WriteDirectly(ms, 0)
     /\ Accept(ms)
  \/ /\ state # "disconnected" /\ ~waits /\ Writable
     /\ \E k \in 0 .. Len(ms) : WriteDirectly(ms, k)
     /\ Accept(ms)
  \/ /\ state # "disconnected" /\ ~waits /\ ~Writable
     /\ WriteFails(ms)

\* Variant: the write side is closed at once.
ShutdownInLoopNow == fin' = TRUE

\* shutdownInLoop, after what the handler has sent: FIN, unless output is
\* still to be written.
ShutdownInLoop == fin' = (fin \/ "write" \notin events')

Unsent(m) ==
  /\ \A i \in 1 .. Len(sent) : sent[i] # m
  /\ \A i \in 1 .. Len(tasks) : tasks[i].msg # m
  /\ \A i \in 1 .. Len(batch) : batch[i].msg # m

-----------------------------------------------------------------------------
(* Base loop. *)

Established ==
  /\ state' = "connected" /\ events' = {"read"} /\ registered' = TRUE
  /\ ups' = Once(ups)

\* newConnection: into the table, connectEstablished on the io loop.  In a
\* single reactor it runs at once, in the acceptor's handler.
NewConnection ==
  /\ Alive /\ state = "none"
  /\ inTable' = TRUE
  /\ IF SameLoop
       THEN At("events") /\ Established /\ UNCHANGED tasks
       ELSE /\ state' = "connecting"
            /\ tasks' = Append(tasks, Do("established"))
            /\ UNCHANGED <<events, registered, ups>>
  /\ UNCHANGED <<server, pc, revents, batch, dataVars, downs, removals, fin,
                 peer, failed, killed>>

RemoveConnectionInLoop ==
  /\ Alive /\ removals > 0
  /\ removals' = removals - 1
  /\ RemoveFromTable
  /\ UNCHANGED <<server, chanVars, pc, revents, batch, dataVars, histVars,
                 fin, peer,
                 failed, killed>>

\* send() from another thread: the state is checked there, the rest is queued.
SendElsewhere(m) ==
  /\ Alive /\ ~SameLoop /\ server = "gateway"
  /\ state = "connected" /\ Unsent(m)
  /\ tasks' = Append(tasks, [op |-> "send", msg |-> m])
  /\ UNCHANGED <<server, chanVars, pc, revents, batch, dataVars, tableVars,
                 histVars, fin, peer, failed, killed>>

-----------------------------------------------------------------------------
(* Io loop: one poll and its handlers. *)

\* epoll_wait: there may be data to read, and room in the socket's buffer.
Poll(data, room) ==
  /\ At("poll") /\ removals < MaxRemovals
  /\ revents' = IF ~registered THEN {} ELSE
       (IF "read" \in events /\ (data \/ peer # "open") THEN {"in"} ELSE {})
       \cup (IF "write" \in events /\ room THEN {"out"} ELSE {})
       \cup (IF peer = "reset" THEN {"err"} ELSE {})
       \cup (IF peer \in {"reset", "dead"} \/ (fin /\ peer = "fin")
               THEN {"hup"} ELSE {})
  /\ pc' = "events"
  /\ UNCHANGED <<server, chanVars, tasks, batch, dataVars, tableVars,
                 histVars, fin,
                 peer, failed, killed>>

\* A handler of another channel of this loop sends on this connection.
SendFromLoop(m) ==
  /\ server = "gateway" /\ state = "connected" /\ Unsent(m)
  /\ At("events") \/ (At("channel") /\ revents = {})
  /\ SendInLoop(<<m>>)
  /\ UNCHANGED <<server, state, registered, loopVars, tableVars, histVars,
                 fin, failed>>

\* handleEventWithGuard: EPOLLHUP without EPOLLIN; nothing else is looked at.
HandleHup ==
  /\ At("events") /\ "hup" \in revents /\ "in" \notin revents
  /\ HandleClose
  /\ pc' = "channel" /\ revents' = {}
  /\ UNCHANGED <<server, batch, dataVars, fin, peer>>

\* handleEventWithGuard otherwise; handleError reads the error.
HandleEvent ==
  /\ At("events") /\ revents # {} /\ ("hup" \in revents => "in" \in revents)
  /\ pc' = "channel"
  /\ revents' = revents \ {"err", "hup"}
  /\ peer' = IF "err" \in revents /\ peer = "reset" THEN "dead" ELSE peer
  /\ UNCHANGED <<server, chanVars, tasks, batch, dataVars, tableVars,
                 histVars, fin,
                 failed, killed>>

\* read() in handleRead; what it does not return at once waits in the socket.
Reading ==
  /\ At("channel") /\ "in" \in revents
  /\ revents' = revents \ {"in"}
  /\ UNCHANGED <<server, pc, batch, registered>>

\* messageCallback_, when read() returned data: up to its last packet.
Parsing ==
  /\ At("channel") /\ revents \cap {"in", "more"} # {}
  /\ revents' = revents \ {"in", "more"}
  /\ UNCHANGED <<server, pc, batch, registered>>

\* The last packet makes no use of the connection, or is incomplete.
HandleReadData ==
  /\ Parsing
  /\ UNCHANGED <<state, events, tasks, dataVars, tableVars, histVars, fin, peer,
                 failed, killed>>

\* A packet is answered, and another may follow.
HandleReadReplies(m) ==
  /\ At("channel") /\ revents \cap {"in", "more"} # {}
  /\ server = "gateway" /\ state = "connected" /\ Unsent(m)
  /\ revents' = (revents \ {"in"}) \cup {"more"}
  /\ SendInLoop(<<m>>)
  /\ UNCHANGED <<server, state, registered, pc, tasks, batch, tableVars,
                 histVars, fin,
                 failed>>

\* An HTTP request: sendHttpResponse sends header and body and
\* shuts down.
HandleReadResponds(header, body) ==
  /\ Parsing /\ server = "http" /\ state = "connected"
  /\ header # body /\ Unsent(header) /\ Unsent(body)
  /\ SendInLoop(<<header, body>>)
  /\ state' = "disconnecting"
  /\ ShutdownInLoop
  /\ UNCHANGED <<tasks, tableVars, histVars, failed>>

\* A packet that cannot be parsed: forceClose().
HandleReadForceCloses ==
  /\ Parsing /\ server = "gateway" /\ state \in {"connected", "disconnecting"}
  /\ state' = "disconnecting"
  /\ tasks' = Append(tasks, Do("forceClose"))
  /\ UNCHANGED <<events, dataVars, tableVars, histVars, fin, peer, failed,
                 killed>>

\* handleRead, read() returned 0.
HandleReadEof ==
  /\ Reading /\ peer \in {"fin", "dead"}
  /\ HandleClose
  /\ UNCHANGED <<dataVars, fin, peer>>

\* handleRead, read() failed: a reset after the poll; the connection stays.
HandleReadError ==
  /\ Reading /\ peer = "reset"
  /\ peer' = "dead"
  /\ UNCHANGED <<state, events, tasks, dataVars, tableVars, histVars, fin,
                 failed, killed>>

Writing ==
  /\ At("channel") /\ "out" \in revents /\ revents \cap {"in", "more"} = {}
  /\ revents' = revents \ {"out"}
  /\ UNCHANGED <<server, state, registered, pc, tasks, batch, sent, tableVars,
                 histVars, failed>>

\* Variant: a shutdown that waited for the output is forgotten.
HandleWriteForgetsShutdown ==
  /\ Writing /\ "write" \in events /\ Writable
  /\ \E k \in 1 .. Len(output) :
       /\ wire' = wire \o SubSeq(output, 1, k)
       /\ output' = SubSeq(output, k + 1, Len(output))
       /\ events' = IF k = Len(output) THEN events \ {"write"} ELSE events
  /\ UNCHANGED <<fin, peer, killed>>

\* handleWrite; when the buffer is empty a pending shutdown closes the write
\* side.
HandleWrite ==
  /\ Writing /\ "write" \in events /\ Writable
  /\ \E k \in 1 .. Len(output) :
       /\ wire' = wire \o SubSeq(output, 1, k)
       /\ output' = SubSeq(output, k + 1, Len(output))
       /\ events' = IF k = Len(output) THEN events \ {"write"} ELSE events
       /\ fin' = (k = Len(output) /\ state = "disconnecting")
  /\ UNCHANGED <<peer, killed>>

\* handleWrite when the channel does not write any more, or when the socket
\* broke after the poll: the error is logged.
HandleWriteNothing ==
  /\ Writing
  /\ \/ "write" \notin events /\ UNCHANGED <<events, output, wire, peer,
                                             killed>>
     \/ "write" \in events /\ ~Writable /\ WriteFails(<<NoMsg>>)
  /\ UNCHANGED fin

\* doPendingFunctors: the swap.
SwapTasks ==
  /\ At("events") \/ At("channel")
  /\ revents = {}
  /\ batch' = tasks /\ tasks' = <<>>
  /\ pc' = "run"
  /\ UNCHANGED <<server, chanVars, revents, dataVars, tableVars, histVars,
                 fin, peer,
                 failed, killed>>

-----------------------------------------------------------------------------
(* Io loop: the closures of the batch. *)

TaskIs(op) ==
  /\ At("run") /\ batch # <<>> /\ Head(batch).op = op
  /\ batch' = Tail(batch)
  /\ UNCHANGED <<server, pc, revents>>

ConnectEstablished ==
  /\ TaskIs("established")
  /\ Require(state = "connecting")
  /\ Established
  /\ UNCHANGED <<tasks, dataVars, downs, tableVars, fin, peer, killed>>

SendTask ==
  /\ TaskIs("send")
  /\ SendInLoop(<<Head(batch).msg>>)
  /\ UNCHANGED <<state, registered, tasks, tableVars, histVars, fin, failed>>

ForceCloseInLoop ==
  /\ TaskIs("forceClose")
  /\ IF state \in {"connected", "disconnecting"}
       THEN HandleClose
       ELSE UNCHANGED <<chanVars, tableVars, histVars, tasks, failed, killed>>
  /\ UNCHANGED <<dataVars, fin, peer>>

\* Variant: the channel stays in epoll.
ConnectDestroyedKeepsChannel ==
  /\ TaskIs("destroyed")
  /\ state' = "disconnected" /\ events' = {}
  /\ downs' = IF state = "connected" THEN Once(downs) ELSE downs
  /\ UNCHANGED <<registered, tasks, dataVars, ups, tableVars, fin, peer, failed,
                 killed>>

\* connectDestroyed; Channel::remove asserts that no event is asked for.
ConnectDestroyed ==
  /\ TaskIs("destroyed")
  /\ registered' = FALSE
  /\ IF state = "connected"
       THEN /\ state' = "disconnected" /\ events' = {} /\ downs' = Once(downs)
            /\ UNCHANGED failed
       ELSE Require(events = {}) /\ UNCHANGED <<state, events, downs>>
  /\ UNCHANGED <<tasks, dataVars, ups, tableVars, fin, peer, killed>>

EndBatch ==
  /\ At("run") /\ batch = <<>>
  /\ pc' = "poll"
  /\ UNCHANGED <<server, chanVars, revents, tasks, batch, dataVars, tableVars,
                 histVars, fin, peer, failed, killed>>

-----------------------------------------------------------------------------
(* The peer. *)

PeerCloses ==
  /\ state # "none" /\ peer = "open"
  /\ peer' = "fin"
  /\ UNCHANGED <<server, chanVars, loopVars, dataVars, tableVars, histVars, fin,
                 failed, killed>>

PeerResets ==
  /\ Resets /\ state # "none" /\ peer \in {"open", "fin"}
  /\ peer' = "reset"
  /\ UNCHANGED <<server, chanVars, loopVars, dataVars, tableVars, histVars, fin,
                 failed, killed>>

-----------------------------------------------------------------------------
IoLoop ==
  \/ \E data, room \in BOOLEAN : Poll(data, room)
  \/ HandleHup \/ HandleEvent
  \/ HandleReadData \/ HandleReadForceCloses \/ HandleReadEof \/ HandleReadError
  \/ \E m \in Msg : HandleReadReplies(m)
  \/ \E header, body \in Msg : HandleReadResponds(header, body)
  \/ HandleWrite \/ HandleWriteNothing \/ SwapTasks
  \/ ConnectEstablished \/ SendTask \/ ForceCloseInLoop \/ ConnectDestroyed
  \/ EndBatch

Next ==
  \/ IoLoop
  \/ NewConnection \/ RemoveConnectionInLoop
  \/ \E m \in Msg : SendElsewhere(m) \/ SendFromLoop(m)
  \/ PeerCloses \/ PeerResets

Spec == Init /\ [][Next]_vars

\* Both loops get on with their work; data before a FIN is finite; the peer
\* takes what is written, so the socket has room again and again.
FairSpec ==
  /\ Spec
  /\ WF_vars(IoLoop)
  /\ WF_vars(RemoveConnectionInLoop)
  /\ SF_vars(HandleReadEof)
  /\ SF_vars(\E data \in BOOLEAN : Poll(data, TRUE))

-----------------------------------------------------------------------------
\* A closure of this kind is among those of q; it is still to be run.
HasOp(q, op) == \E i \in 1 .. Len(q) : q[i].op = op

Queued(op) == HasOp(tasks, op) \/ HasOp(batch, op)

\* What sendInLoop accepted goes out in that order and exactly once, whether
\* it was written directly, buffered, or came from another thread.
SendsInOrder == wire \o output = sent

\* FIN is sent only after all output: a response is never cut off.
FinAfterOutput == fin => output = <<>>

\* Output in the buffer is waited for: as long as the connection is not
\* closed, the channel asks for EPOLLOUT exactly when something is buffered.
BufferedIsAwaited ==
  state # "disconnected" => ("write" \in events <=> output # <<>>)

\* The owner of an HTTP connection hears of it once and of its end once, and
\* on the base loop the assertions of connectEstablished, handleClose and
\* Channel::remove hold: no order of requests, FINs and resets runs a handler
\* in a state it does not expect.  The gateway hears of the end at least once.
UpThenDown ==
  /\ ups <= 1 /\ (server = "http" => ~failed /\ downs <= ups)
  /\ state = "disconnected" <=> downs > 0

\* A channel in epoll belongs to a connection something still refers to, the
\* table or the closure that ends it; and once the connection is closed, the
\* channel's end is under way: a removal on the base loop, or that closure.
ChannelHasOwner ==
  registered =>
    /\ inTable \/ Queued("destroyed")
    /\ state = "disconnected" => removals > 0 \/ Queued("destroyed")

\* A peer's FIN leads to the end: out of the table and out of epoll.
PeerCloseCleansUp ==
  (registered /\ peer = "fin") ~> (~registered /\ ~inTable) \/ ~Alive

\* A graceful shutdown sends FIN in the end, however much is buffered.
ShutdownSendsFin ==
  (server = "http" /\ state = "disconnecting")
    ~> fin \/ state = "disconnected" \/ ~Alive

-----------------------------------------------------------------------------
(* What the induction needs, besides the properties. *)

Fresh == state \in {"none", "connecting"}

\* Handlers and closures run in their part of the iteration: reported events
\* are handled before the batch, and only a channel in epoll has any.
LoopPlace ==
  /\ pc # "run" => batch = <<>>
  /\ pc \in {"poll", "run"} => revents = {}
  /\ revents # {} => registered

\* Until connectEstablished has run the connection is in the table, nothing
\* else is queued for it, and neither its socket nor its channel is used.
BeforeUp ==
  /\ state = "none" => tasks = <<>> /\ batch = <<>>
  /\ state = "connecting" =>
       /\ server = "gateway"
       /\ \/ tasks = <<Do("established")>> /\ batch = <<>>
          \/ tasks = <<>> /\ batch = <<Do("established")>>
  /\ ~Fresh => ~Queued("established")
  /\ Fresh => events = {} /\ output = <<>> /\ ~fin /\ ~registered
  /\ ups = IF Fresh THEN 0 ELSE 1

\* The connection leaves the table only after the close, when its channel
\* asks for nothing.
AfterDown ==
  /\ state \in {"connecting", "connected", "disconnecting"} => inTable
  /\ state = "disconnected" => events = {}
  /\ removals > 0 \/ Queued("destroyed") => state = "disconnected"
  /\ state = "disconnected" <=> downs > 0

\* On a single reactor the close removes the connection in the handler that
\* finds it: between the close and the end of the channel there is no poll,
\* no read and no removal that lags behind.
HttpEnd ==
  server = "http" =>
    /\ removals = 0 /\ ~Queued("forceClose") /\ ~failed /\ downs <= 1
    /\ state = "disconnected" /\ registered =>
         /\ "in" \notin revents
         /\ \/ pc = "channel" /\ HasOp(tasks, "destroyed")
            \/ pc = "run" /\ HasOp(batch, "destroyed")

\* The gateway's io loop adds at most one removal in an iteration in which
\* the connection was already closed.
RemovalsLag ==
  pc = "events" \/ (pc = "channel" /\ "in" \in revents)
    => removals < MaxRemovals

\* The induction's invariant for the connection's and the loop's state.
LifeInv ==
  LoopPlace /\ BeforeUp /\ AfterDown /\ HttpEnd /\ RemovalsLag /\ ChannelHasOwner

=============================================================================
