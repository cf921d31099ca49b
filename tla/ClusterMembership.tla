-------------------------- MODULE ClusterMembership --------------------------
(***************************************************************************)
(* Membership of the gateway cluster: join, leave, sendHeartbeat,          *)
(* detectFailedNodes and discoverNodes of src/gateway/ClusterManager.cpp   *)
(* over the Redis hash iot:nodes:heartbeat (src/storage/RedisClient.cpp).  *)
(*                                                                         *)
(* The hash has one field per node and ONE time to live, which every       *)
(* heartbeat of every node renews.  HSET and EXPIRE of a heartbeat travel  *)
(* in one pipeline and are one step.  Time is counted in ticks; a node's   *)
(* heartbeat timer fires Interval ticks after the last time, late by       *)
(* Lateness ticks at most (its main loop may be busy or wait for Redis).   *)
(***************************************************************************)
EXTENDS Naturals

CONSTANTS
  Node,
  Interval,  \* period of the heartbeat timer
  Lateness,  \* how late it may fire
  TTL,       \* EXPIRE of the heartbeat hash
  Weather    \* the sets of faults that may happen together

ASSUME TimingAssumption ==
  /\ Interval \in Nat \ {0} /\ Lateness \in Nat /\ TTL \in Nat
  /\ Interval + Lateness < TTL
  /\ Weather \subseteq SUBSET {"crash", "break", "unreachable"}

VARIABLES
  faults,    \* the faults of this behaviour, chosen once
  pc,        \* where the main loop of a node is
  link,      \* "ok", "broken" (connected_, commands fail), "down" (~connected_)
  state,     \* localNode_.state
  known,     \* knownNodes_
  due,       \* ticks since the heartbeat timer of a node fired
  heartbeat, \* fields of iot:nodes:heartbeat
  ttl,       \* ticks until the hash expires, 0 when there is none
  quiet,     \* history: ticks since a node's heartbeat reached Redis, up to TTL
  left,      \* history: nodes that deleted their field since that heartbeat
  claims     \* node -> lost nodes its failure detection is claiming for

vars == <<faults, pc, link, state, known, due, heartbeat, ttl, quiet, left,
          claims>>

Pc == {"off",        \* no process, or it has not joined
       "registered", \* join: HSET iot:nodes done
       "beaten",     \* join: first heartbeat done
       "idle",       \* joined, between two timers
       "discover",   \* failure detection: before its discoverNodes
       "leaving"}    \* leave: HDEL iot:nodes done

TypeOK ==
  /\ faults \in Weather
  /\ pc \in [Node -> Pc]
  /\ link \in [Node -> {"ok", "broken", "down"}]
  /\ state \in [Node -> {"starting", "online", "degraded", "offline"}]
  /\ known \in [Node -> SUBSET Node]
  /\ due \in [Node -> 0 .. Interval + Lateness]
  /\ heartbeat \in SUBSET Node
  /\ ttl \in 0 .. TTL
  /\ quiet \in [Node -> 0 .. TTL]
  /\ left \in SUBSET Node
  /\ claims \in [Node -> SUBSET Node]

Init ==
  /\ faults \in Weather
  /\ pc = [n \in Node |-> "off"]
  /\ link = [n \in Node |-> "down"]
  /\ state = [n \in Node |-> "starting"]
  /\ known = [n \in Node |-> {}]
  /\ due = [n \in Node |-> 0]
  /\ heartbeat = {} /\ ttl = 0
  /\ quiet = [n \in Node |-> TTL]
  /\ left = {}
  /\ claims = [n \in Node |-> {}]

Joined(n) == pc[n] \in {"idle", "discover"}

\* From the first heartbeat on, the next one is due.
Beating(n) == Joined(n) \/ pc[n] = "beaten"

-----------------------------------------------------------------------------
\* Variant: the hash gets no new time to live.
SendNodeHeartbeatNoExpire(n) ==
  IF link[n] = "ok"
    THEN /\ heartbeat' = heartbeat \cup {n}
         /\ ttl' = IF heartbeat = {} THEN TTL ELSE ttl
         /\ quiet' = [quiet EXCEPT ![n] = 0]
         /\ left' = left \ {n}
    ELSE UNCHANGED <<heartbeat, ttl, quiet, left>>

\* sendNodeHeartbeat: HSET of the field, EXPIRE of the whole hash.
SendNodeHeartbeat(n) ==
  IF link[n] = "ok"
    THEN /\ heartbeat' = heartbeat \cup {n}
         /\ ttl' = TTL
         /\ quiet' = [quiet EXCEPT ![n] = 0]
         /\ left' = left \ {n}
    ELSE UNCHANGED <<heartbeat, ttl, quiet, left>>

\* getOnlineNodes: the fields; nothing when HGETALL fails.
OnlineNodes(n) == IF link[n] = "ok" THEN heartbeat ELSE {}

\* Variant: discovery only notices losses.
DiscoverLossesOnly(n) ==
  known' = IF link[n] = "down" THEN known
                               ELSE [known EXCEPT ![n] = @ \cap OnlineNodes(n)]

\* discoverNodes: the answer becomes knownNodes_.  A node that is not
\* connected keeps what it knew.
DiscoverNodes(n) ==
  known' = IF link[n] = "down" THEN known
                               ELSE [known EXCEPT ![n] = OnlineNodes(n)]

\* The process is over and its memory with it.
Forget(n) ==
  /\ pc' = [pc EXCEPT ![n] = "off"]
  /\ known' = [known EXCEPT ![n] = {}]
  /\ due' = [due EXCEPT ![n] = 0]
  /\ claims' = [claims EXCEPT ![n] = {}]

-----------------------------------------------------------------------------
(* join, leave *)

\* start() and join(): connected, and HSET iot:nodes.
RegisterNode(n) ==
  /\ pc[n] = "off"
  /\ pc' = [pc EXCEPT ![n] = "registered"]
  /\ link' = [link EXCEPT ![n] = "ok"]
  /\ state' = [state EXCEPT ![n] = "starting"]
  /\ UNCHANGED <<known, due, heartbeat, ttl, quiet, left, claims>>

FirstHeartbeat(n) ==
  /\ pc[n] = "registered"
  /\ SendNodeHeartbeat(n)
  /\ pc' = [pc EXCEPT ![n] = "beaten"]
  /\ UNCHANGED <<link, state, known, due, claims>>

JoinDiscovers(n) ==
  /\ pc[n] = "beaten"
  /\ DiscoverNodes(n)
  /\ state' = [state EXCEPT ![n] = "online"]
  /\ pc' = [pc EXCEPT ![n] = "idle"]
  /\ UNCHANGED <<link, due, heartbeat, ttl, quiet, left, claims>>

\* leave(): both timers are cancelled, HDEL iot:nodes ...
LeaveNodes(n) ==
  /\ pc[n] = "idle"
  /\ pc' = [pc EXCEPT ![n] = "leaving"]
  /\ UNCHANGED <<link, state, known, due, heartbeat, ttl, quiet, left, claims>>

\* Variant: only the registration is deleted.
LeaveHeartbeatKept(n) ==
  /\ pc[n] = "leaving"
  /\ Forget(n)
  /\ state' = [state EXCEPT ![n] = "offline"]
  /\ UNCHANGED <<link, heartbeat, ttl, quiet, left>>

\* Variant: the key is deleted instead of the field.
LeaveDropsHash(n) ==
  /\ pc[n] = "leaving"
  /\ heartbeat' = IF link[n] = "ok" THEN {} ELSE heartbeat
  /\ ttl' = IF heartbeat' = {} THEN 0 ELSE ttl
  /\ Forget(n)
  /\ state' = [state EXCEPT ![n] = "offline"]
  /\ left' = IF link[n] = "ok" THEN left \cup {n} ELSE left
  /\ UNCHANGED <<link, quiet>>

\* ... and HDEL iot:nodes:heartbeat; Redis drops an empty hash.
LeaveHeartbeat(n) ==
  /\ pc[n] = "leaving"
  /\ heartbeat' = IF link[n] = "ok" THEN heartbeat \ {n} ELSE heartbeat
  /\ ttl' = IF heartbeat' = {} THEN 0 ELSE ttl
  /\ Forget(n)
  /\ state' = [state EXCEPT ![n] = "offline"]
  /\ left' = IF link[n] = "ok" THEN left \cup {n} ELSE left
  /\ UNCHANGED <<link, quiet>>

-----------------------------------------------------------------------------
(* The timers of a joined node. *)

\* sendHeartbeat.  Only connected_ decides between ONLINE and DEGRADED.
SendHeartbeat(n) ==
  /\ pc[n] = "idle" /\ due[n] >= Interval
  /\ due' = [due EXCEPT ![n] = 0]
  /\ state' = [state EXCEPT ![n] = IF link[n] = "down" THEN "degraded" ELSE "online"]
  /\ SendNodeHeartbeat(n)
  /\ UNCHANGED <<pc, link, known, claims>>

\* Variant: the nodes the hash names are suspected, not the missing ones.
DetectPresentNodes(n) ==
  /\ pc[n] = "idle"
  /\ claims' = IF link[n] = "down" THEN claims
                 ELSE [claims EXCEPT ![n] = (known[n] \cap OnlineNodes(n)) \ {n}]
  /\ pc' = [pc EXCEPT ![n] = "discover"]
  /\ UNCHANGED <<link, state, known, due, heartbeat, ttl, quiet, left>>

\* detectFailedNodes, and claimPendingMessages for each of them.
DetectFailedNodes(n) ==
  /\ pc[n] = "idle"
  /\ claims' = IF link[n] = "down" THEN claims
                 ELSE [claims EXCEPT ![n] = known[n] \ (OnlineNodes(n) \cup {n})]
  /\ pc' = [pc EXCEPT ![n] = "discover"]
  /\ UNCHANGED <<link, state, known, due, heartbeat, ttl, quiet, left>>

\* Variant: nodes that have gone stay known.
DetectionAccumulates(n) ==
  /\ pc[n] = "discover"
  /\ known' = IF link[n] = "down" THEN known
                                  ELSE [known EXCEPT ![n] = @ \cup OnlineNodes(n)]
  /\ claims' = [claims EXCEPT ![n] = {}]
  /\ pc' = [pc EXCEPT ![n] = "idle"]
  /\ UNCHANGED <<link, state, due, heartbeat, ttl, quiet, left>>

\* The discoverNodes at the end of the failure detection reads the hash again.
DetectionDiscovers(n) ==
  /\ pc[n] = "discover"
  /\ DiscoverNodes(n)
  /\ claims' = [claims EXCEPT ![n] = {}]
  /\ pc' = [pc EXCEPT ![n] = "idle"]
  /\ UNCHANGED <<link, state, due, heartbeat, ttl, quiet, left>>

-----------------------------------------------------------------------------
(* Time, the connection and crashes. *)

\* A tick, unless it would make a timer later than Lateness.  The hash
\* expires as a whole.
Tick ==
  /\ \A n \in Node : Beating(n) => due[n] < Interval + Lateness
  /\ due' = [n \in Node |-> IF Beating(n) THEN due[n] + 1 ELSE due[n]]
  /\ quiet' = [n \in Node |-> IF quiet[n] < TTL THEN quiet[n] + 1 ELSE TTL]
  /\ ttl' = IF ttl = 0 THEN 0 ELSE ttl - 1
  /\ heartbeat' = IF ttl <= 1 THEN {} ELSE heartbeat
  /\ UNCHANGED <<pc, link, state, known, left, claims>>

BreakLink(n) ==
  /\ "break" \in faults
  /\ pc[n] # "off" /\ link[n] = "ok"
  /\ link' = [link EXCEPT ![n] = "broken"]
  /\ UNCHANGED <<pc, state, known, due, heartbeat, ttl, quiet, left, claims>>

\* consumeCommands finds the connection broken and reconnects, or fails to.
Reconnect(n) ==
  /\ pc[n] = "idle" /\ link[n] = "broken"
  /\ \/ link' = [link EXCEPT ![n] = "ok"]
     \/ "unreachable" \in faults /\ link' = [link EXCEPT ![n] = "down"]
  /\ UNCHANGED <<pc, state, known, due, heartbeat, ttl, quiet, left, claims>>

Crash(n) ==
  /\ "crash" \in faults
  /\ pc[n] # "off"
  /\ Forget(n)
  /\ link' = [link EXCEPT ![n] = "down"]
  /\ UNCHANGED <<state, heartbeat, ttl, quiet, left>>

-----------------------------------------------------------------------------
MainLoop(n) ==
  \/ FirstHeartbeat(n) \/ JoinDiscovers(n) \/ LeaveHeartbeat(n)
  \/ SendHeartbeat(n) \/ DetectionDiscovers(n)

Step ==
  \/ \E n \in Node :
       \/ RegisterNode(n) \/ LeaveNodes(n)
       \/ MainLoop(n) \/ DetectFailedNodes(n)
       \/ BreakLink(n) \/ Reconnect(n) \/ Crash(n)
  \/ Tick

Next == Step /\ UNCHANGED faults

Spec == Init /\ [][Next]_vars

\* The timers of a running node fire for ever, and time passes.
FairSpec ==
  /\ Spec
  /\ WF_vars(Tick /\ UNCHANGED faults)
  /\ \A n \in Node : /\ WF_vars(MainLoop(n) /\ UNCHANGED faults)
                    /\ WF_vars(DetectFailedNodes(n) /\ UNCHANGED faults)

-----------------------------------------------------------------------------
\* A node whose heartbeat reached Redis less than TTL ago and that has not left
\* is in the hash: the common time to live never takes its field along.
BeatKeepsVisible ==
  \A n \in Node : quiet[n] < TTL /\ n \notin left => n \in heartbeat

\* As long as connections hold, a joined node is always in the hash: no other
\* node's crash, leave or silence makes it disappear.
JoinedIsListed ==
  "break" \notin faults => \A n \in Node : Joined(n) => n \in heartbeat

\* A node that has left and is not about to join again is out of the hash,
\* unless it could not reach Redis.
LeftIsUnlisted ==
  \A n \in Node : pc[n] = "off" /\ state[n] = "offline" /\ link[n] = "ok"
                    => n \notin heartbeat

\* A detector that reaches Redis goes to claim the messages of those nodes only
\* that were not heard for TTL or have left, whatever other links and nodes do.
\* (A node that has left counts as failed at once, without the 15 seconds; and a
\* detector whose HGETALL fails suspects everybody.)
SuspectedIsSilent ==
  [][\A n \in Node : \A m \in claims'[n] \ claims[n] :
       link[n] = "ok" => quiet[m] = TTL \/ m \in left]_vars

\* As long as connections hold, nodes that stay come to know each other, also
\* when both join at once.
NodesDiscovered ==
  \A n \in Node : \A m \in Node \ {n} :
    "break" \notin faults /\ Joined(n) /\ Joined(m)
      ~> (m \in known[n] \/ ~Joined(n) \/ ~Joined(m))

\* As long as connections hold, a node that has left is forgotten by those that
\* stay.
LeaverForgotten ==
  \A n \in Node : \A m \in Node \ {n} :
    "break" \notin faults /\ Joined(n) /\ pc[m] = "off" /\ state[m] = "offline"
      ~> (m \notin known[n] \/ pc[m] # "off" \/ ~Joined(n))

-----------------------------------------------------------------------------
(* The inductive invariants behind the safety properties. *)

\* The hash outlives every heartbeat it holds by TTL.
HashOutlivesBeats ==
  \A n \in Node : quiet[n] < TTL /\ n \notin left
                    => n \in heartbeat /\ ttl + quiet[n] >= TTL

\* The timer of a node that has not sent its first heartbeat has not started.
TimerStartsAtZero ==
  \A n \in Node : pc[n] \in {"off", "registered"} => due[n] = 0

\* While connections hold, a node that beats was heard when its timer fired.
BeatsAreHeard ==
  "break" \notin faults => \A n \in Node :
    /\ pc[n] # "off" => link[n] = "ok"
    /\ Beating(n) => quiet[n] = due[n] /\ n \notin left

-----------------------------------------------------------------------------
(* What comments and documents of the repository say. *)

\* "A node that times out is removed": a node that is gone leaves the hash.
DeadIsRemoved ==
  \A n \in Node : pc[n] = "off" ~> (n \notin heartbeat \/ pc[n] # "off")
=============================================================================
