------------------------------ MODULE EventLoop ------------------------------
(***************************************************************************)
(* The task queue, the wake-up eventfd, the quit flag and the life of one  *)
(* reactor thread: src/net/EventLoop.cpp with src/net/EventLoopThread.cpp. *)
(*                                                                         *)
(* The loop thread constructs an EventLoop on its stack, publishes its     *)
(* address, and iterates epoll_wait / handlers / doPendingFunctors.        *)
(* Clients (the other reactors, the main thread) hand it closures with     *)
(* queueInLoop; the Owner is the client that holds the EventLoopThread: it *)
(* starts the thread and, in the destructor, asks it to quit and joins it. *)
(* The destructor waits for no other client: a worker that publishes to a  *)
(* connection of another worker keeps queueing closures there while that   *)
(* loop ends, and after it is gone.                                        *)
(*                                                                         *)
(* A closure is an opaque member of Functor, queued at most once.  The     *)
(* sockets and the timerfd are one channel "io" that may become readable   *)
(* at any time; what its handler may do to the loop is to queue a closure. *)
(***************************************************************************)
EXTENDS Naturals, Sequences

CONSTANTS
  Functor,  \* the closures handed to the loop
  Client,   \* threads other than the loop thread
  Owner     \* the client that owns the EventLoopThread

ASSUME OwnerAssumption == Owner \in Client

VARIABLES
  loopPc,    \* where the loop thread is
  published, \* EventLoopThread::loop_ # nullptr
  quit,      \* quit_
  calling,   \* callingPendingFunctors_
  pending,   \* pendingFunctors_
  functors,  \* the local vector of doPendingFunctors, what is left to run
  active,    \* activeChannels_ still to be dispatched in this iteration
  wakeups,   \* the counter of the eventfd wakeupFd_
  clientPc,  \* where each client is
  accepted,  \* history: closures in the order mutex_ admitted them
  executed   \* history: closures in the order they ran

vars == <<loopPc, published, quit, calling, pending, functors, active, wakeups,
          clientPc, accepted, executed>>

LoopPc == {"none",      \* no thread yet
           "construct", \* EventLoop under construction
           "enter",     \* published, loop() not yet entered
           "check",     \* at while (!quit_)
           "poll",      \* in epoll_wait
           "dispatch",  \* calling handlers
           "swap",      \* in doPendingFunctors, before the swap
           "run",       \* in doPendingFunctors, running the batch
           "leave",     \* loop() returned
           "unwind",    \* loop_ = nullptr done, ~EventLoop not yet
           "gone"}      \* EventLoop destroyed, thread finished

ClientPc == {"off",    \* no pointer to the loop yet
             "wait",   \* Owner: startLoop() waits on cv_
             "idle",   \* holds the pointer, outside the loop's methods
             "wake",   \* queueInLoop pushed, wakeup() still to come
             "quit",   \* Owner: quit() stored quit_, wakeup() still to come
             "join",   \* Owner: in thread_.join()
             "done",   \* Owner: ~EventLoopThread finished
             "astray"} \* ended, or called a method of the destroyed loop

Channel == {"wakeup", "io"}

TypeOK ==
  /\ loopPc \in LoopPc
  /\ published \in BOOLEAN /\ quit \in BOOLEAN /\ calling \in BOOLEAN
  /\ pending \in Seq(Functor) /\ functors \in Seq(Functor)
  /\ active \in SUBSET Channel
  /\ wakeups \in Nat
  /\ clientPc \in [Client -> ClientPc]
  /\ accepted \in Seq(Functor) /\ executed \in Seq(Functor)

Init ==
  /\ loopPc = "none"
  /\ published = FALSE /\ quit = FALSE /\ calling = FALSE
  /\ pending = <<>> /\ functors = <<>>
  /\ active = {}
  /\ wakeups = 0
  /\ clientPc = [c \in Client |-> "off"]
  /\ accepted = <<>> /\ executed = <<>>

Fresh == {f \in Functor : \A i \in 1 .. Len(accepted) : accepted[i] # f}

-----------------------------------------------------------------------------
(* The body of a handler or closure, run by the loop thread. *)

\* Variant: the second half of queueInLoop's condition is missing.
LoopQueuesNoWake(f) ==
  /\ pending' = Append(pending, f)
  /\ accepted' = Append(accepted, f)
  /\ UNCHANGED wakeups

\* queueInLoop called by the loop thread: the wake-up is written only while
\* doPendingFunctors is active.
LoopQueues(f) ==
  /\ pending' = Append(pending, f)
  /\ accepted' = Append(accepted, f)
  /\ wakeups' = IF calling THEN wakeups + 1 ELSE wakeups

Body ==
  \/ UNCHANGED <<pending, accepted, wakeups>>
  \/ \E f \in Fresh : LoopQueues(f)

-----------------------------------------------------------------------------
(* The owner and the start of the thread. *)

\* EventLoopThread::startLoop up to cv_.wait.
StartLoop ==
  /\ clientPc[Owner] = "off" /\ loopPc = "none"
  /\ loopPc' = "construct"
  /\ clientPc' = [clientPc EXCEPT ![Owner] = "wait"]
  /\ UNCHANGED <<published, quit, calling, pending, functors, active, wakeups,
                 accepted, executed>>

\* startLoop returns once loop_ is published; from then on every client may
\* hold the pointer.
StartLoopReturns ==
  /\ clientPc[Owner] = "wait" /\ published
  /\ clientPc' = [c \in Client |-> "idle"]
  /\ UNCHANGED <<loopPc, published, quit, calling, pending, functors, active,
                 wakeups, accepted, executed>>

\* threadFunc publishes the address of its EventLoop.
Publish ==
  /\ loopPc = "construct"
  /\ published' = TRUE
  /\ loopPc' = "enter"
  /\ UNCHANGED <<quit, calling, pending, functors, active, wakeups, clientPc,
                 accepted, executed>>

-----------------------------------------------------------------------------
(* The loop thread. *)

\* loop(): quit_ is reset on entry.
EnterLoop ==
  /\ loopPc = "enter"
  /\ quit' = FALSE
  /\ loopPc' = "check"
  /\ UNCHANGED <<published, calling, pending, functors, active, wakeups,
                 clientPc, accepted, executed>>

\* while (!quit_)
CheckQuit ==
  /\ loopPc = "check"
  /\ loopPc' = IF quit THEN "leave" ELSE "poll"
  /\ UNCHANGED <<published, quit, calling, pending, functors, active, wakeups,
                 clientPc, accepted, executed>>

\* epoll_wait is level triggered: wakeupFd_ is reported whenever its counter
\* is not zero; the other descriptors are ready when the environment says so.
PollReady ==
  /\ loopPc = "poll"
  /\ \E io \in SUBSET {"io"} :
       /\ active' = io \cup (IF wakeups > 0 THEN {"wakeup"} ELSE {})
       /\ active' # {}
  /\ loopPc' = "dispatch"
  /\ UNCHANGED <<published, quit, calling, pending, functors, wakeups,
                 clientPc, accepted, executed>>

\* numEvents <= 0: kPollTimeMs elapsed, or a signal (EINTR).
PollTimeout ==
  /\ loopPc = "poll" /\ wakeups = 0
  /\ loopPc' = "dispatch"
  /\ UNCHANGED <<published, quit, calling, pending, functors, active, wakeups,
                 clientPc, accepted, executed>>

\* handleWakeupRead: reading an eventfd resets its counter.
HandleWakeupRead ==
  /\ loopPc = "dispatch" /\ "wakeup" \in active
  /\ active' = active \ {"wakeup"}
  /\ wakeups' = 0
  /\ UNCHANGED <<loopPc, published, quit, calling, pending, functors,
                 clientPc, accepted, executed>>

\* The handler of any other channel.
HandleIo ==
  /\ loopPc = "dispatch" /\ "io" \in active
  /\ active' = active \ {"io"}
  /\ Body
  /\ UNCHANGED <<loopPc, published, quit, calling, functors, clientPc, executed>>

\* doPendingFunctors is entered: callingPendingFunctors_ = true.
BeginPending ==
  /\ loopPc = "dispatch" /\ active = {}
  /\ calling' = TRUE
  /\ loopPc' = "swap"
  /\ UNCHANGED <<published, quit, pending, functors, active, wakeups,
                 clientPc, accepted, executed>>

\* Variant: the last closure is lost in the swap.
SwapDropsTail ==
  /\ loopPc = "swap"
  /\ functors' = SubSeq(pending, 1, Len(pending) - 1)
  /\ pending' = <<>>
  /\ loopPc' = "run"
  /\ UNCHANGED <<published, quit, calling, active, wakeups, clientPc,
                 accepted, executed>>

\* functors.swap(pendingFunctors_) under mutex_.
SwapPending ==
  /\ loopPc = "swap"
  /\ functors' = pending
  /\ pending' = <<>>
  /\ loopPc' = "run"
  /\ UNCHANGED <<published, quit, calling, active, wakeups, clientPc,
                 accepted, executed>>

RunFunctor ==
  /\ loopPc = "run" /\ functors # <<>>
  /\ executed' = Append(executed, Head(functors))
  /\ functors' = Tail(functors)
  /\ Body
  /\ UNCHANGED <<loopPc, published, quit, calling, active, clientPc>>

EndPending ==
  /\ loopPc = "run" /\ functors = <<>>
  /\ calling' = FALSE
  /\ loopPc' = "check"
  /\ UNCHANGED <<published, quit, pending, functors, active, wakeups, clientPc,
                 accepted, executed>>

\* threadFunc after loop(): loop_ = nullptr under mutex_ ...
Unpublish ==
  /\ loopPc = "leave"
  /\ published' = FALSE
  /\ loopPc' = "unwind"
  /\ UNCHANGED <<quit, calling, pending, functors, active, wakeups, clientPc,
                 accepted, executed>>

\* ... then ~EventLoop closes the descriptors and the thread ends.
Destroy ==
  /\ loopPc = "unwind"
  /\ loopPc' = "gone"
  /\ UNCHANGED <<published, quit, calling, pending, functors, active, wakeups,
                 clientPc, accepted, executed>>

-----------------------------------------------------------------------------
(* Clients. *)

\* queueInLoop (or runInLoop) from another thread: push under mutex_ ...
\* Nothing tells the caller that the loop has been asked to quit or has left
\* loop() already.
QueueInLoop(c) ==
  /\ clientPc[c] = "idle" /\ loopPc # "gone"
  /\ \E f \in Fresh :
       /\ pending' = Append(pending, f)
       /\ accepted' = Append(accepted, f)
  /\ clientPc' = [clientPc EXCEPT ![c] = "wake"]
  /\ UNCHANGED <<loopPc, published, quit, calling, functors, active, wakeups,
                 executed>>

\* Variant: queueInLoop forgets that the caller is another thread.
WakeupOnlyWhenCalling(c) ==
  /\ clientPc[c] = "wake" /\ loopPc # "gone"
  /\ wakeups' = IF calling THEN wakeups + 1 ELSE wakeups
  /\ clientPc' = [clientPc EXCEPT ![c] = "idle"]
  /\ UNCHANGED <<loopPc, published, quit, calling, pending, functors, active,
                 accepted, executed>>

\* ... then wakeup(), unconditional because the caller is not the loop thread.
Wakeup(c) ==
  /\ clientPc[c] = "wake" /\ loopPc # "gone"
  /\ wakeups' = wakeups + 1
  /\ clientPc' = [clientPc EXCEPT ![c] = "idle"]
  /\ UNCHANGED <<loopPc, published, quit, calling, pending, functors, active,
                 accepted, executed>>

\* Either half of queueInLoop on a loop that ~EventLoop has destroyed: the
\* mutex, the vector and the descriptor are gone with the stack of the thread,
\* and the behaviour is undefined.  The closure is lost; the thread may go on
\* as if nothing had happened (a stutter), never come back, or take the
\* process with it.
UseDestroyed(c) ==
  /\ clientPc[c] \in {"idle", "wake"} /\ loopPc = "gone"
  /\ \E lost \in {{c}, {d \in Client : clientPc[d] # "done"}} :
       clientPc' = [d \in Client |-> IF d \in lost THEN "astray" ELSE clientPc[d]]
  /\ UNCHANGED <<loopPc, published, quit, calling, pending, functors, active,
                 wakeups, accepted, executed>>

\* ~EventLoopThread finds loop_ set and calls quit(), which stores quit_ ...
\* Other clients may be anywhere in queueInLoop, and go on.
QuitStore ==
  /\ clientPc[Owner] = "idle" /\ published
  /\ quit' = TRUE
  /\ clientPc' = [clientPc EXCEPT ![Owner] = "quit"]
  /\ UNCHANGED <<loopPc, published, calling, pending, functors, active,
                 wakeups, accepted, executed>>

\* Variant: quit() leaves the loop asleep.
QuitWithoutWakeup ==
  /\ clientPc[Owner] = "quit"
  /\ clientPc' = [clientPc EXCEPT ![Owner] = "join"]
  /\ UNCHANGED <<loopPc, published, quit, calling, pending, functors, active,
                 wakeups, accepted, executed>>

\* ... and then wakes the loop.
QuitWakeup ==
  /\ clientPc[Owner] = "quit"
  /\ wakeups' = IF loopPc = "gone" THEN wakeups ELSE wakeups + 1
  /\ clientPc' = [clientPc EXCEPT ![Owner] = "join"]
  /\ UNCHANGED <<loopPc, published, quit, calling, pending, functors, active,
                 accepted, executed>>

Join ==
  /\ clientPc[Owner] = "join" /\ loopPc = "gone"
  /\ clientPc' = [clientPc EXCEPT ![Owner] = "done"]
  /\ UNCHANGED <<loopPc, published, quit, calling, pending, functors, active,
                 wakeups, accepted, executed>>

\* ~EventLoopThread has returned, or will not: nothing has to happen any more.
Finished ==
  /\ clientPc[Owner] \in {"done", "astray"}
  /\ UNCHANGED vars

-----------------------------------------------------------------------------
LoopThread ==
  \/ Publish \/ EnterLoop \/ CheckQuit \/ PollReady \/ PollTimeout
  \/ HandleWakeupRead \/ HandleIo
  \/ BeginPending \/ SwapPending \/ RunFunctor \/ EndPending
  \/ Unpublish \/ Destroy

OwnerThread == StartLoop \/ StartLoopReturns \/ QuitStore \/ QuitWakeup \/ Join

Next ==
  \/ LoopThread
  \/ OwnerThread
  \/ \E c \in Client : QueueInLoop(c) \/ Wakeup(c) \/ UseDestroyed(c)
  \/ Finished

Spec == Init /\ [][Next]_vars

\* The scheduler keeps running a thread that is inside the loop's methods.
\* epoll_wait must return when a watched descriptor is ready; nothing is
\* assumed about its timeout, so no property below rests on kPollTimeMs.
\* Nobody is obliged to start a loop, to queue a closure or to quit.
LoopProgress ==
  \/ Publish \/ EnterLoop \/ CheckQuit
  \/ (PollReady /\ wakeups > 0)
  \/ HandleWakeupRead \/ HandleIo
  \/ BeginPending \/ SwapPending \/ RunFunctor \/ EndPending
  \/ Unpublish \/ Destroy

Fairness ==
  /\ WF_vars(LoopProgress)
  /\ WF_vars(StartLoopReturns \/ QuitWakeup \/ Join)
  /\ \A c \in Client : WF_vars(Wakeup(c))

FairSpec == Spec /\ Fairness

-----------------------------------------------------------------------------
(* Safety. *)

\* A closure that waits in pendingFunctors_ while the loop thread is past this
\* iteration's swap has a wake-up written for it, or its queueInLoop is about
\* to write it: epoll_wait never sleeps on a non-empty queue, whichever thread
\* queued the closure and however handleWakeupRead interleaves with it.
NoLostWakeup ==
  /\ pending # <<>>
  /\ loopPc \notin {"dispatch", "swap", "gone"}
  => wakeups > 0 \/ \E c \in Client : clientPc[c] = "wake"

\* Every closure mutex_ admitted is in exactly one place and in its order:
\* already run, in the batch doPendingFunctors swapped out, or pending. None
\* is lost, run twice or overtaken, also when closures queue closures.
FifoExactlyOnce == accepted = executed \o functors \o pending

\* As long as its destructor has not asked for it the loop does not end, so
\* ~EventLoopThread finds loop_ set: it always joins, and never destroys a
\* joinable std::thread.
OwnerFindsLoop ==
  clientPc[Owner] \in {"idle", "wake"}
  => published /\ loopPc \notin {"none", "construct", "leave", "unwind", "gone"}

\* Once ~EventLoopThread returned no closure is half-way: the thread has left
\* doPendingFunctors and finished its batch.
JoinedAfterBatch ==
  clientPc[Owner] = "done" => loopPc = "gone" /\ functors = <<>> /\ ~calling

-----------------------------------------------------------------------------
(* The loop implements an Executor. *)

Phase ==
  IF loopPc \in {"none", "construct"} THEN "starting"
  ELSE IF loopPc \in {"leave", "unwind", "gone"} THEN "ended"
  ELSE "running"

X == INSTANCE Executor WITH
       Job <- Functor,
       phase <- Phase,
       stop <- clientPc[Owner] \in {"quit", "join", "done", "astray"},
       released <- clientPc[Owner] = "done",
       log <- accepted,
       queue <- functors \o pending,
       done <- executed

\* Pending list, swapped batch, wake-ups and the two program counters together
\* behave as one queue with one server, although other threads go on handing
\* closures over while it is stopped: a closure runs once, in order, in the
\* running loop only; one that comes when the loop has ended stays in the
\* queue for ever.  The loop ends only when its owner asks for it, and
\* ~EventLoopThread returns after that.
RefinesExecutor == X!Spec

-----------------------------------------------------------------------------
(* The inductive invariant behind the safety properties. *)

\* Where the flags of the loop thread stand at each of its program points.
LoopFlags ==
  /\ (calling <=> loopPc \in {"swap", "run"})
  /\ functors # <<>> => loopPc = "run"
  /\ (published <=> loopPc \notin {"none", "construct", "unwind", "gone"})

\* How the owner's program points constrain the loop's: before startLoop
\* returns nobody queues, only the destructor sets quit_, and only a loop that
\* is gone leads a client astray.
Lifecycle ==
  /\ clientPc[Owner] = "off" => loopPc = "none"
  /\ clientPc[Owner] = "wait" => loopPc # "none"
  /\ loopPc = "construct" => clientPc[Owner] = "wait"
  /\ loopPc = "none" => clientPc[Owner] = "off"
  /\ clientPc[Owner] \in {"off", "wait"}
       => \A c \in Client : clientPc[c] \notin {"idle", "wake"}
  /\ quit => clientPc[Owner] \in {"quit", "join", "done", "astray"}
  /\ loopPc \in {"leave", "unwind", "gone"} => quit
  /\ clientPc[Owner] = "done" => loopPc = "gone"
  /\ \A c \in Client : clientPc[c] = "astray" => loopPc = "gone"

LoopInv ==
  TypeOK /\ LoopFlags /\ Lifecycle /\ NoLostWakeup /\ FifoExactlyOnce

-----------------------------------------------------------------------------
(* Liveness, under FairSpec. *)

\* A queued closure runs, without help from the poll timeout, unless the loop
\* is told to quit.
QueuedRuns ==
  \A f \in Functor :
    (\E i \in 1 .. Len(accepted) : accepted[i] = f)
      ~> (quit \/ \E i \in 1 .. Len(executed) : executed[i] = f)

\* A quit() that loop() does not overwrite when it is entered ends the thread
\* and lets ~EventLoopThread return, although quit_ and its wake-up are written
\* separately, the loop may sleep in between and other threads keep queueing.
\* Only a client that uses the destroyed loop may end the process before.
QuitIsHeeded ==
  (quit /\ loopPc # "enter") ~> (loopPc = "gone" /\ clientPc[Owner] \in {"done", "astray"})

=============================================================================
