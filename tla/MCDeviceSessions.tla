-------------------------- MODULE MCDeviceSessions --------------------------
(* DeviceSessions for TLC.  Connections ca* are at node a, cb* at node b. *)
EXTENDS DeviceSessions, TLC

CONSTANTS a, b, ca1, ca2, cb1, main_a, main_b, worker1, worker2

\* Three connections, two of them at node a, all served by main loops (-t 0).
TwoNodes == (ca1 :> a) @@ (ca2 :> a) @@ (cb1 :> b)
SingleReactor == (ca1 :> main_a) @@ (ca2 :> main_a) @@ (cb1 :> main_b)

\* One node, two connections, a worker thread each.
OneNode == (ca1 :> a) @@ (ca2 :> a)
TwoWorkers == (ca1 :> worker1) @@ (ca2 :> worker2)

MainLoops == (a :> main_a) @@ (b :> main_b)
MainLoopA == a :> main_a
=============================================================================
