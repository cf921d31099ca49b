---------------------------- MODULE MCEventLoop ----------------------------
(* EventLoop for TLC: closures and threads are model values. *)
EXTENDS EventLoop, TLC
=============================================================================
