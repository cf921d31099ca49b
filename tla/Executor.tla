------------------------------ MODULE Executor ------------------------------
(***************************************************************************)
(* What a reactor thread promises to those who hand it closures, without   *)
(* threads, locks, eventfd or batches: one queue, served in order by one   *)
(* server that its owner starts, stops and outlives.  EventLoop implements *)
(* it.  The promise is that of the comments in src/net/EventLoop.h and     *)
(* EventLoopThread.h, a closure handed over from any thread runs in the    *)
(* loop's thread, as far as it is true: what is handed over too late stays *)
(* where it is.  Nobody is told, and to use a server that was released is  *)
(* undefined.                                                              *)
(***************************************************************************)
EXTENDS Naturals, Sequences

CONSTANT Job

VARIABLES
  phase,    \* "starting", "running" or "ended"
  stop,     \* the owner has asked the server to end
  released, \* the owner has let go of the server
  log,      \* every job ever handed over, in order
  queue,    \* jobs still to be run
  done      \* jobs that ran, in order

vars == <<phase, stop, released, log, queue, done>>

Init ==
  /\ phase = "starting" /\ stop = FALSE /\ released = FALSE
  /\ log = <<>> /\ queue = <<>> /\ done = <<>>

New == {j \in Job : \A i \in 1 .. Len(log) : log[i] # j}

Open ==
  /\ phase = "starting"
  /\ phase' = "running"
  /\ UNCHANGED <<stop, released, log, queue, done>>

\* A job is handed over, by another thread or by a handler of this one.  The
\* server may have been asked to end, or have ended: then it never runs.
Submit(j) ==
  /\ phase \in {"running", "ended"} /\ ~released
  /\ log' = Append(log, j)
  /\ queue' = Append(queue, j)
  /\ UNCHANGED <<phase, stop, released, done>>

\* The oldest job runs ...
RunNext ==
  /\ phase = "running" /\ queue # <<>>
  /\ done' = Append(done, Head(queue))
  /\ queue' = Tail(queue)
  /\ UNCHANGED <<phase, stop, released, log>>

\* ... and may hand over another one.
RunAndSubmit(j) ==
  /\ phase = "running" /\ queue # <<>>
  /\ done' = Append(done, Head(queue))
  /\ queue' = Append(Tail(queue), j)
  /\ log' = Append(log, j)
  /\ UNCHANGED <<phase, stop, released>>

RequestStop ==
  /\ phase = "running" /\ ~stop
  /\ stop' = TRUE
  /\ UNCHANGED <<phase, released, log, queue, done>>

\* The server ends on request only.  What is queued then never runs.
End ==
  /\ phase = "running" /\ stop
  /\ phase' = "ended"
  /\ UNCHANGED <<stop, released, log, queue, done>>

Release ==
  /\ phase = "ended" /\ ~released
  /\ released' = TRUE
  /\ UNCHANGED <<phase, stop, log, queue, done>>

Next ==
  \/ Open \/ RunNext \/ RequestStop \/ End \/ Release
  \/ \E j \in New : Submit(j) \/ RunAndSubmit(j)

Spec == Init /\ [][Next]_vars
=============================================================================
