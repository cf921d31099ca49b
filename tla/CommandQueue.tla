---------------------------- MODULE CommandQueue ----------------------------
(***************************************************************************)
(* What the command stream promises to the API and to the devices, without *)
(* nodes, connections or batches: commands are taken in the order they     *)
(* were put; a taken one is tried at most once, by a send to its device or *)
(* a PUBLISH to another node; it arrives at most once and only after that; *)
(* and only what was tried is acknowledged.  An acknowledgement promises   *)
(* an attempt, never an arrival.  A taken command may stay pending for     *)
(* ever; it never becomes new again.  CommandDispatch implements it.       *)
(***************************************************************************)
EXTENDS Naturals, Sequences

CONSTANT Item

VARIABLES
  new,     \* items in the order they were put, not yet taken
  pending, \* items taken and not acknowledged
  tried,   \* Item -> number of attempts to hand it over
  arrived, \* Item -> number of times it got there
  acked    \* items acknowledged

vars == <<new, pending, tried, arrived, acked>>

Init ==
  /\ new = <<>> /\ pending = {} /\ acked = {}
  /\ tried = [i \in Item |-> 0] /\ arrived = [i \in Item |-> 0]

Put(i) ==
  /\ i \notin pending \cup acked /\ tried[i] = 0
  /\ \A k \in 1 .. Len(new) : new[k] # i
  /\ new' = Append(new, i)
  /\ UNCHANGED <<pending, tried, arrived, acked>>

\* The first k items are taken together.
Take(k) ==
  /\ new' = SubSeq(new, k + 1, Len(new))
  /\ pending' = pending \cup {new[j] : j \in 1 .. k}
  /\ UNCHANGED <<tried, arrived, acked>>

\* The attempt may succeed at once, later (Arrive) or never.
Try(i) ==
  /\ i \in pending /\ tried[i] = 0
  /\ tried' = [tried EXCEPT ![i] = 1]
  /\ arrived' \in {arrived, [arrived EXCEPT ![i] = 1]}
  /\ UNCHANGED <<new, pending, acked>>

Arrive(i) ==
  /\ tried[i] = 1 /\ arrived[i] = 0
  /\ arrived' = [arrived EXCEPT ![i] = 1]
  /\ UNCHANGED <<new, pending, tried, acked>>

Ack(i) ==
  /\ i \in pending /\ tried[i] = 1
  /\ pending' = pending \ {i}
  /\ acked' = acked \cup {i}
  /\ UNCHANGED <<new, tried, arrived>>

Next ==
  \/ \E i \in Item : Put(i) \/ Try(i) \/ Arrive(i) \/ Ack(i)
  \/ \E k \in 1 .. Len(new) : Take(k)

Spec == Init /\ [][Next]_vars
=============================================================================
