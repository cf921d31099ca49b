----------------------- MODULE ClusterMembershipProofs -----------------------
(***************************************************************************)
(* Proofs about ClusterMembership, for any number of nodes and any period, *)
(* lateness and time to live that satisfy TimingAssumption.                *)
(***************************************************************************)
EXTENDS ClusterMembership, TLAPS

USE TimingAssumption

\* The types hold initially.
LEMMA TypeInit == Init => TypeOK
BY DEF Init, TypeOK, Pc

\* Every step keeps the types; in particular no timer of a running node gets
\* later than Lateness and the time to live stays within TTL.
LEMMA TypeStep == TypeOK /\ [Next]_vars => TypeOK'
<1> SUFFICES ASSUME TypeOK, [Next]_vars PROVE TypeOK'
  OBVIOUS
<1>0. faults' = faults
  BY DEF Next, vars
<1> USE <1>0 DEF TypeOK, Pc
<1>1. ASSUME NEW n \in Node, RegisterNode(n) PROVE TypeOK'
  BY <1>1 DEF RegisterNode
<1>2. ASSUME NEW n \in Node, FirstHeartbeat(n) PROVE TypeOK'
  BY <1>2 DEF FirstHeartbeat, SendNodeHeartbeat
<1>3. ASSUME NEW n \in Node, JoinDiscovers(n) PROVE TypeOK'
  BY <1>3 DEF JoinDiscovers, DiscoverNodes, OnlineNodes
<1>4. ASSUME NEW n \in Node, LeaveNodes(n) PROVE TypeOK'
  BY <1>4 DEF LeaveNodes
<1>5. ASSUME NEW n \in Node, LeaveHeartbeat(n) PROVE TypeOK'
  BY <1>5 DEF LeaveHeartbeat, Forget
<1>6. ASSUME NEW n \in Node, SendHeartbeat(n) PROVE TypeOK'
  BY <1>6 DEF SendHeartbeat, SendNodeHeartbeat
<1>7. ASSUME NEW n \in Node, DetectFailedNodes(n) PROVE TypeOK'
  BY <1>7 DEF DetectFailedNodes, OnlineNodes
<1>8. ASSUME NEW n \in Node, DetectionDiscovers(n) PROVE TypeOK'
  BY <1>8 DEF DetectionDiscovers, DiscoverNodes, OnlineNodes
<1>9. ASSUME NEW n \in Node, BreakLink(n) \/ Reconnect(n) \/ Crash(n) PROVE TypeOK'
  BY <1>9 DEF BreakLink, Reconnect, Crash, Forget
<1>10. CASE Tick
  <2>1. due' \in [Node -> 0 .. Interval + Lateness]
    BY <1>10 DEF Tick
  <2>2. quiet' \in [Node -> 0 .. TTL] /\ ttl' \in 0 .. TTL
    BY <1>10 DEF Tick
  <2> QED
    BY <1>10, <2>1, <2>2 DEF Tick
<1>11. CASE UNCHANGED vars
  BY <1>11 DEF vars
<1> QED
  BY <1>1, <1>2, <1>3, <1>4, <1>5, <1>6, <1>7, <1>8, <1>9, <1>10, <1>11
     DEF Next, Step, MainLoop

\* Type correctness of the membership model.
THEOREM TypeCorrect == Spec => []TypeOK
BY TypeInit, TypeStep, PTL DEF Spec

-----------------------------------------------------------------------------
\* No step lets the hash expire before a heartbeat it holds is TTL old.
LEMMA HashStep ==
  TypeOK /\ HashOutlivesBeats /\ [Next]_vars => HashOutlivesBeats'
<1> SUFFICES ASSUME TypeOK, HashOutlivesBeats, [Next]_vars,
                    NEW m \in Node, quiet'[m] < TTL, m \notin left'
             PROVE  m \in heartbeat' /\ ttl' + quiet'[m] >= TTL
  BY DEF HashOutlivesBeats
<1> USE DEF TypeOK, HashOutlivesBeats
<1>1. CASE UNCHANGED <<heartbeat, ttl, quiet, left>>
  BY <1>1
<1>2. ASSUME NEW n \in Node, SendNodeHeartbeat(n)
      PROVE  m \in heartbeat' /\ ttl' + quiet'[m] >= TTL
  BY <1>2 DEF SendNodeHeartbeat
<1>3. ASSUME NEW n \in Node, LeaveHeartbeat(n)
      PROVE  m \in heartbeat' /\ ttl' + quiet'[m] >= TTL
  <2>1. /\ quiet'[m] = quiet[m] /\ m \notin left
        /\ link[n] = "ok" => m # n
    BY <1>3 DEF LeaveHeartbeat
  <2>2. m \in heartbeat /\ ttl + quiet[m] >= TTL
    BY <2>1
  <2>3. m \in heartbeat'
    BY <1>3, <2>1, <2>2 DEF LeaveHeartbeat
  <2> QED
    BY <1>3, <2>1, <2>2, <2>3 DEF LeaveHeartbeat
<1>4. CASE Tick
  <2>1. quiet[m] < TTL /\ quiet'[m] = quiet[m] + 1
    BY <1>4 DEF Tick
  <2> QED
    BY <1>4, <2>1 DEF Tick
<1>5. ASSUME NEW n \in Node,
             \/ RegisterNode(n) \/ LeaveNodes(n) \/ JoinDiscovers(n)
             \/ DetectFailedNodes(n) \/ DetectionDiscovers(n)
             \/ BreakLink(n) \/ Reconnect(n) \/ Crash(n)
      PROVE  UNCHANGED <<heartbeat, ttl, quiet, left>>
  BY <1>5 DEF RegisterNode, LeaveNodes, JoinDiscovers, DetectFailedNodes,
              DetectionDiscovers, BreakLink, Reconnect, Crash
<1>6. CASE UNCHANGED vars
  BY <1>6 DEF vars
<1> QED
  BY <1>1, <1>2, <1>3, <1>4, <1>5, <1>6
     DEF Next, Step, MainLoop, FirstHeartbeat, SendHeartbeat

\* A heartbeat that reached Redis keeps its node in the hash for TTL, for any
\* number of nodes and whatever fails.
THEOREM BeatVisible == Spec => []BeatKeepsVisible
<1>1. Init => HashOutlivesBeats
  BY DEF Init, HashOutlivesBeats
<1>2. HashOutlivesBeats => BeatKeepsVisible
  BY DEF HashOutlivesBeats, BeatKeepsVisible
<1> QED
  BY <1>1, <1>2, TypeInit, TypeStep, HashStep, PTL DEF Spec

-----------------------------------------------------------------------------
\* A node that left stays out of the hash: only it can put itself back, and
\* its timers are cancelled.
THEOREM LeaverUnlisted == Spec => []LeftIsUnlisted
<1>1. Init => LeftIsUnlisted
  BY DEF Init, LeftIsUnlisted
<1>2. TypeOK /\ LeftIsUnlisted /\ [Next]_vars => LeftIsUnlisted'
  <2> SUFFICES ASSUME TypeOK, LeftIsUnlisted, [Next]_vars, NEW m \in Node,
                      pc'[m] = "off", state'[m] = "offline", link'[m] = "ok"
               PROVE  m \notin heartbeat'
    BY DEF LeftIsUnlisted
  <2> USE DEF TypeOK, Pc, LeftIsUnlisted
  <2>1. ASSUME NEW n \in Node, RegisterNode(n) PROVE m \notin heartbeat'
    BY <2>1 DEF RegisterNode
  <2>2. ASSUME NEW n \in Node, FirstHeartbeat(n) PROVE m \notin heartbeat'
    BY <2>2 DEF FirstHeartbeat, SendNodeHeartbeat
  <2>3. ASSUME NEW n \in Node, JoinDiscovers(n) PROVE m \notin heartbeat'
    BY <2>3 DEF JoinDiscovers
  <2>4. ASSUME NEW n \in Node, LeaveNodes(n) PROVE m \notin heartbeat'
    BY <2>4 DEF LeaveNodes
  <2>5. ASSUME NEW n \in Node, LeaveHeartbeat(n) PROVE m \notin heartbeat'
    BY <2>5 DEF LeaveHeartbeat, Forget
  <2>6. ASSUME NEW n \in Node, SendHeartbeat(n) PROVE m \notin heartbeat'
    BY <2>6 DEF SendHeartbeat, SendNodeHeartbeat
  <2>7. ASSUME NEW n \in Node, DetectFailedNodes(n) \/ DetectionDiscovers(n)
        PROVE  m \notin heartbeat'
    BY <2>7 DEF DetectFailedNodes, DetectionDiscovers
  <2>8. ASSUME NEW n \in Node, BreakLink(n) \/ Reconnect(n) \/ Crash(n)
        PROVE  m \notin heartbeat'
    BY <2>8 DEF BreakLink, Reconnect, Crash, Forget
  <2>9. CASE Tick
    BY <2>9 DEF Tick
  <2>10. CASE UNCHANGED vars
    BY <2>10 DEF vars
  <2> QED
    BY <2>1, <2>2, <2>3, <2>4, <2>5, <2>6, <2>7, <2>8, <2>9, <2>10
       DEF Next, Step, MainLoop
<1> QED
  BY <1>1, <1>2, TypeInit, TypeStep, PTL DEF Spec

-----------------------------------------------------------------------------
\* No step starts the timer of a node before its first heartbeat.
LEMMA TimerStep ==
  TypeOK /\ TimerStartsAtZero /\ [Next]_vars => TimerStartsAtZero'
<1> SUFFICES ASSUME TypeOK, TimerStartsAtZero, [Next]_vars, NEW m \in Node,
                    pc'[m] \in {"off", "registered"}
             PROVE  due'[m] = 0
  BY DEF TimerStartsAtZero
<1> USE DEF TypeOK, Pc, TimerStartsAtZero
<1>1. ASSUME NEW n \in Node, Forget(n) PROVE due'[m] = 0
  BY <1>1 DEF Forget
<1>2. ASSUME NEW n \in Node, RegisterNode(n) \/ FirstHeartbeat(n) PROVE due'[m] = 0
  BY <1>2 DEF RegisterNode, FirstHeartbeat
<1>3. ASSUME NEW n \in Node, JoinDiscovers(n) \/ LeaveNodes(n) PROVE due'[m] = 0
  BY <1>3 DEF JoinDiscovers, LeaveNodes
<1>4. ASSUME NEW n \in Node, SendHeartbeat(n) PROVE due'[m] = 0
  BY <1>4 DEF SendHeartbeat
<1>5. ASSUME NEW n \in Node, DetectFailedNodes(n) \/ DetectionDiscovers(n)
      PROVE  due'[m] = 0
  BY <1>5 DEF DetectFailedNodes, DetectionDiscovers
<1>6. ASSUME NEW n \in Node, BreakLink(n) \/ Reconnect(n) PROVE due'[m] = 0
  BY <1>6 DEF BreakLink, Reconnect
<1>7. CASE Tick
  BY <1>7 DEF Tick, Beating, Joined
<1>8. CASE UNCHANGED vars
  BY <1>8 DEF vars
<1> QED
  BY <1>1, <1>2, <1>3, <1>4, <1>5, <1>6, <1>7, <1>8
     DEF Next, Step, MainLoop, LeaveHeartbeat, Crash

\* Without broken connections, every step keeps the heartbeats heard.
LEMMA HeardStep ==
  TypeOK /\ TimerStartsAtZero /\ BeatsAreHeard /\ [Next]_vars => BeatsAreHeard'
<1>0. [Next]_vars => faults' = faults
  BY DEF Next, vars
<1> SUFFICES ASSUME TypeOK, TimerStartsAtZero, BeatsAreHeard, [Next]_vars,
                    "break" \notin faults, NEW m \in Node
             PROVE  /\ pc'[m] # "off" => link'[m] = "ok"
                    /\ Beating(m)' => quiet'[m] = due'[m] /\ m \notin left'
  BY <1>0 DEF BeatsAreHeard
<1> DEFINE Goal == /\ pc'[m] # "off" => link'[m] = "ok"
                   /\ Beating(m)' => quiet'[m] = due'[m] /\ m \notin left'
<1> SUFFICES Goal
  OBVIOUS
<1> USE DEF TypeOK, Pc, BeatsAreHeard, Beating, Joined
<1>1. ASSUME NEW n \in Node, RegisterNode(n) PROVE Goal
  BY <1>1 DEF RegisterNode
<1>2. ASSUME NEW n \in Node, FirstHeartbeat(n) PROVE Goal
  BY <1>2 DEF FirstHeartbeat, SendNodeHeartbeat, TimerStartsAtZero
<1>3. ASSUME NEW n \in Node, JoinDiscovers(n) PROVE Goal
  BY <1>3 DEF JoinDiscovers
<1>4. ASSUME NEW n \in Node, LeaveNodes(n) PROVE Goal
  BY <1>4 DEF LeaveNodes
<1>5. ASSUME NEW n \in Node, LeaveHeartbeat(n) PROVE Goal
  BY <1>5 DEF LeaveHeartbeat, Forget
<1>6. ASSUME NEW n \in Node, SendHeartbeat(n) PROVE Goal
  BY <1>6 DEF SendHeartbeat, SendNodeHeartbeat
<1>7. ASSUME NEW n \in Node, DetectFailedNodes(n) \/ DetectionDiscovers(n)
      PROVE  Goal
  BY <1>7 DEF DetectFailedNodes, DetectionDiscovers
<1>8. ASSUME NEW n \in Node, BreakLink(n) \/ Reconnect(n) \/ Crash(n) PROVE Goal
  BY <1>8 DEF BreakLink, Reconnect, Crash, Forget
<1>9. CASE Tick
  <2>1. Beating(m) => due[m] < Interval + Lateness
    BY <1>9 DEF Tick
  <2> QED
    BY <1>9, <2>1 DEF Tick
<1>10. CASE UNCHANGED vars
  BY <1>10 DEF vars
<1> HIDE DEF Goal
<1> QED
  BY <1>1, <1>2, <1>3, <1>4, <1>5, <1>6, <1>7, <1>8, <1>9, <1>10
     DEF Next, Step, MainLoop

\* Nodes crash, join and leave, but connections hold: then a joined node is
\* always in the hash, because its timer fires before the hash can expire.
THEOREM JoinedAlwaysListed == Spec => []JoinedIsListed
<1>1. Init => HashOutlivesBeats /\ TimerStartsAtZero /\ BeatsAreHeard
  BY DEF Init, HashOutlivesBeats, TimerStartsAtZero, BeatsAreHeard, Beating, Joined
<1>2. TypeOK /\ HashOutlivesBeats /\ BeatsAreHeard => JoinedIsListed
  BY DEF TypeOK, HashOutlivesBeats, BeatsAreHeard, JoinedIsListed, Beating, Joined
<1> QED
  BY <1>1, <1>2, TypeInit, TypeStep, HashStep, TimerStep, HeardStep, PTL DEF Spec

\* A detector that reaches Redis declares failed only nodes that were silent for
\* TTL or have left, for any number of nodes, crashes and broken links.
THEOREM SuspicionIsSound == Spec => SuspectedIsSilent
<1>1. Init => HashOutlivesBeats
  BY DEF Init, HashOutlivesBeats
<1>2. TypeOK /\ HashOutlivesBeats /\ [Next]_vars
      => [\A n \in Node : \A m \in claims'[n] \ claims[n] :
            link[n] = "ok" => quiet[m] = TTL \/ m \in left]_vars
  <2> SUFFICES ASSUME TypeOK, HashOutlivesBeats, Next,
                      NEW k \in Node, NEW m \in claims'[k] \ claims[k], link[k] = "ok"
               PROVE  quiet[m] = TTL \/ m \in left
    BY DEF vars
  <2> USE DEF TypeOK, Pc
  <2>1. ASSUME NEW n \in Node, DetectFailedNodes(n) PROVE quiet[m] = TTL \/ m \in left
    <3>1. k = n
      BY <2>1 DEF DetectFailedNodes
    <3>2. m \in known[n] /\ m \notin heartbeat
      BY <2>1, <3>1 DEF DetectFailedNodes, OnlineNodes
    <3>3. m \in Node
      BY <3>2
    <3> QED
      BY <3>2, <3>3 DEF HashOutlivesBeats
  <2>2. ASSUME NEW n \in Node, DetectionDiscovers(n) PROVE FALSE
    BY <2>2 DEF DetectionDiscovers
  <2>3. ASSUME NEW n \in Node, Forget(n) PROVE FALSE
    BY <2>3 DEF Forget
  <2>4. ASSUME claims' = claims PROVE FALSE
    BY <2>4
  <2> QED
    BY <2>1, <2>2, <2>3, <2>4
       DEF Next, Step, MainLoop, RegisterNode, FirstHeartbeat, JoinDiscovers,
           LeaveNodes, LeaveHeartbeat, SendHeartbeat, BreakLink, Reconnect,
           Crash, Tick
<1> QED
  BY <1>1, <1>2, TypeInit, TypeStep, HashStep, PTL DEF Spec, SuspectedIsSilent
=============================================================================
