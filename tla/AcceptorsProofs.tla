--------------------------- MODULE AcceptorsProofs ---------------------------
(***************************************************************************)
(* Proofs about Acceptors, for any number of servers, worker loops and     *)
(* clients and any size of the descriptor table.                           *)
(***************************************************************************)
EXTENDS Acceptors, FiniteSetTheorems, TLAPS

\* The types hold initially.
LEMMA TypeInit == Init => TypeOK
<1> SUFFICES ASSUME Init PROVE TypeOK
  OBVIOUS
<1>1. backlog \in [Server -> Seq(Client)]
  BY DEF Init
<1>2. lead \in [Server -> [Worker -> Nat]]
  BY DEF Init
<1> QED
  BY <1>1, <1>2, AcceptorsAssumption DEF Init, TypeOK, Pc, Place

\* The first connection of a backlog, and what follows it.
LEMMA FirstInBacklog ==
  ASSUME TypeOK, NEW s \in Server, backlog[s] # << >>
  PROVE  /\ Head(backlog[s]) \in Client /\ Tail(backlog[s]) \in Seq(Client)
         /\ Len(backlog[s]) \in Nat /\ Len(backlog[s]) > 0
         /\ Len(Tail(backlog[s])) = Len(backlog[s]) - 1
         /\ Head(backlog[s]) = backlog[s][1]
         /\ \A i \in 1 .. Len(backlog[s]) - 1 : Tail(backlog[s])[i] = backlog[s][i + 1]
<1>1. backlog[s] \in Seq(Client)
  BY DEF TypeOK
<1> QED
  BY <1>1

\* A backlog that has grown is not empty.
LEMMA AppendNotEmpty ==
  ASSUME NEW S, NEW q \in Seq(S), NEW e \in S PROVE Append(q, e) # << >>
<1>1. Len(Append(q, e)) = Len(q) + 1 /\ Len(q) \in Nat
  OBVIOUS
<1>2. Len(q) + 1 # 0
  BY <1>1
<1> QED
  BY <1>1, <1>2

\* What getNextLoop returns, and that the history stays a function on the loops.
LEMMA NextLoopType ==
  ASSUME TypeOK, NEW s \in Server
  PROVE  /\ GetNextLoop(s).loop \in Nat /\ GetNextLoop(s).next \in Nat
         /\ Given(s, GetNextLoop(s).loop) \in [Worker -> Nat]
<1>1. loops[s] \in Nat /\ next[s] \in Nat /\ lead[s] \in [Worker -> Nat]
  BY DEF TypeOK
<1>2. GetNextLoop(s).loop \in Nat /\ GetNextLoop(s).next \in Nat
  BY <1>1 DEF GetNextLoop
<1>3. ASSUME NEW l \in Nat PROVE Given(s, l) \in [Worker -> Nat]
  <2> DEFINE more == [i \in Worker |-> IF i = l THEN lead[s][i] + 1 ELSE lead[s][i]]
  <2>1. more \in [Worker -> Nat]
    BY <1>1
  <2>2. CASE l # 0 /\ \A i \in Pool(s) : more[i] > 0
    <3>1. ASSUME NEW i \in Worker
          PROVE  (IF i \in Pool(s) THEN more[i] - 1 ELSE more[i]) \in Nat
      <4>1. more[i] \in Nat /\ (i \in Pool(s) => more[i] > 0)
        BY <2>1, <2>2
      <4> HIDE DEF more
      <4> QED
        BY <4>1
    <3>2. Given(s, l) = [i \in Worker |-> IF i \in Pool(s) THEN more[i] - 1 ELSE more[i]]
      BY <2>2 DEF Given
    <3> QED
      BY <3>1, <3>2
  <2>3. CASE ~(l # 0 /\ \A i \in Pool(s) : more[i] > 0)
    BY <1>1, <2>1, <2>3 DEF Given
  <2> QED
    BY <2>2, <2>3
<1> QED
  BY <1>2, <1>3

\* Every step keeps the types.
LEMMA TypeStep == TypeOK /\ ReadyHasBacklog /\ [Next]_vars => TypeOK'
<1> SUFFICES ASSUME TypeOK, ReadyHasBacklog, [Next]_vars PROVE TypeOK'
  OBVIOUS
<1>0. /\ free \in Nat /\ redis \in 0 .. 2 /\ serving \in Server
      /\ backlog \in [Server -> Seq(Client)]
      /\ home \in [Client -> Server \X Nat]
  BY DEF TypeOK
<1>1. ASSUME NEW s \in Server, StartLoop(s) \/ Listen(s) PROVE TypeOK'
  <2>0. loops \in [Server -> Nat] /\ \A t \in Server : loops[t] + 1 \in Nat
    BY DEF TypeOK
  <2>1. loops' \in [Server -> Nat]
    BY <1>1, <2>0 DEF StartLoop, Listen
  <2> QED
    BY <1>1, <2>1 DEF StartLoop, Listen, TypeOK
<1>2. CASE EnterLoop \/ Poll
  BY <1>2 DEF EnterLoop, Poll, TypeOK, Pc
<1>3. ASSUME NEW s \in Server, HandleRead(s) PROVE TypeOK'
  <2>1. backlog[s] # << >>
    BY <1>3 DEF HandleRead, ReadyHasBacklog
  <2>2. backlog' \in [Server -> Seq(Client)]
    BY <1>3, <2>1, FirstInBacklog DEF HandleRead, TypeOK
  <2>3. next' \in [Server -> Nat] /\ home' \in [Client -> Server \X Nat]
        /\ lead' \in [Server -> [Worker -> Nat]]
    BY <1>3, NextLoopType DEF HandleRead, NewConnection, TypeOK
  <2>4. free' \in Nat
    BY <1>0, <1>3 DEF HandleRead
  <2>5. place' \in [Client -> Place]
    BY <1>3 DEF HandleRead, NewConnection, TypeOK, Place
  <2> QED
    BY <1>3, <2>2, <2>3, <2>4, <2>5 DEF HandleRead, Handled, TypeOK, Pc
<1>4. ASSUME NEW s \in Server, HandleReadFull(s) PROVE TypeOK'
  BY <1>4 DEF HandleReadFull, TypeOK, Pc
<1>5. CASE CloseIdle
  <2>1. free' \in Nat
    BY <1>0, <1>5 DEF CloseIdle
  <2> QED
    BY <1>5, <2>1 DEF CloseIdle, TypeOK, Pc
<1>6. CASE AcceptSpare
  <2>1. free' \in Nat
    BY <1>0, <1>6 DEF AcceptSpare
  <2>2. backlog' \in [Server -> Seq(Client)]
    <3>1. backlog[serving] # << >> => Tail(backlog[serving]) \in Seq(Client)
      BY <1>0
    <3> QED
      BY <1>0, <1>6, <3>1 DEF AcceptSpare
  <2>3. home' \in [Client -> Server \X Nat]
    <3>1. <<serving, 0>> \in Server \X Nat
      BY <1>0
    <3> QED
      BY <1>0, <1>6, <3>1 DEF AcceptSpare
  <2>4. place' \in [Client -> Place] /\ idleFd' \in [Server -> {"devnull", "spare", "none"}]
    BY <1>6 DEF AcceptSpare, TypeOK, Place
  <2> QED
    BY <1>6, <2>1, <2>2, <2>3, <2>4 DEF AcceptSpare, TypeOK, Pc
<1>7. CASE CloseSpare
  <2>1. free' \in Nat
    BY <1>0, <1>7 DEF CloseSpare
  <2> QED
    BY <1>7, <2>1 DEF CloseSpare, TypeOK, Pc, Place
<1>8. CASE ReopenIdle \/ RedisReconnect
  <2>1. free' \in Nat /\ redis' \in 0 .. 2
    BY <1>0, <1>8 DEF ReopenIdle, RedisReconnect
  <2>2. idleFd' \in [Server -> {"devnull", "spare", "none"}]
    BY <1>8 DEF ReopenIdle, RedisReconnect, TypeOK
  <2> QED
    BY <1>8, <2>1, <2>2 DEF ReopenIdle, RedisReconnect, Handled, TypeOK, Pc
<1>9. ASSUME NEW c \in Client, NEW s \in Server, Connect(c, s) PROVE TypeOK'
  BY <1>9, SMTT(30) DEF Connect, TypeOK, Place
<1>10. ASSUME NEW c \in Client,
              HandleClose(c) \/ RemoveConnection(c) \/ ConnectDestroyed(c)
       PROVE  TypeOK'
  <2>1. free' \in Nat
    BY <1>0, <1>10 DEF HandleClose, RemoveConnection, ConnectDestroyed
  <2>2. place' \in [Client -> Place]
    BY <1>10 DEF HandleClose, RemoveConnection, ConnectDestroyed, TypeOK, Place
  <2> QED
    BY <1>10, <2>1, <2>2 DEF HandleClose, RemoveConnection, ConnectDestroyed, TypeOK
<1>11. CASE UNCHANGED vars
  BY <1>11 DEF vars, TypeOK
<1> QED
  BY <1>1, <1>2, <1>3, <1>4, <1>5, <1>6, <1>7, <1>8, <1>9, <1>10, <1>11
     DEF Next, BaseLoop

\* A socket stays reported until its handler has taken its connection.
LEMMA ReadyStep ==
  TypeOK /\ ReadyHasBacklog /\ [Next]_vars => ReadyHasBacklog'
<1> SUFFICES ASSUME TypeOK, ReadyHasBacklog, [Next]_vars, NEW r \in ready'
             PROVE  backlog'[r] # << >> \/ (r = serving' /\ pc' \in {"refuse", "reopen"})
  BY DEF ReadyHasBacklog
<1> DEFINE Goal == backlog'[r] # << >> \/ (r = serving' /\ pc' \in {"refuse", "reopen"})
<1> SUFFICES Goal
  OBVIOUS
<1> USE DEF TypeOK, Pc, ReadyHasBacklog
<1>1. ASSUME NEW s \in Server, StartLoop(s) \/ Listen(s) PROVE Goal
  BY <1>1 DEF StartLoop, Listen
<1>2. CASE EnterLoop \/ Poll
  BY <1>2 DEF EnterLoop, Poll
<1>3. ASSUME NEW s \in Server, HandleRead(s) \/ HandleReadFull(s) PROVE Goal
  <2>1. pc = "handle" /\ r \in ready /\ backlog[r] # << >>
    BY <1>3 DEF HandleRead, HandleReadFull, Handled
  <2>2. backlog'[r] = backlog[r]
    BY <1>3, <2>1 DEF HandleRead, HandleReadFull, Handled
  <2> QED
    BY <2>1, <2>2
<1>4. CASE CloseIdle \/ AcceptSpare \/ CloseSpare
  <2>1. r \in ready /\ serving' = serving
    BY <1>4 DEF CloseIdle, AcceptSpare, CloseSpare
  <2>2. CASE AcceptSpare
    <3>1. pc' = "refuse" /\ (r # serving => backlog'[r] = backlog[r])
      BY <2>1, <2>2 DEF AcceptSpare
    <3>2. pc = "spare"
      BY <2>2 DEF AcceptSpare
    <3> QED
      BY <2>1, <3>1, <3>2
  <2>3. CASE CloseIdle \/ CloseSpare
    BY <2>1, <2>3 DEF CloseIdle, CloseSpare
  <2> QED
    BY <1>4, <2>2, <2>3
<1>5. CASE ReopenIdle
  BY <1>5 DEF ReopenIdle, Handled
<1>6. CASE RedisReconnect
  BY <1>6 DEF RedisReconnect
<1>7. ASSUME NEW c \in Client, NEW s \in Server, Connect(c, s) PROVE Goal
  <2>1. r \in ready /\ serving' = serving /\ pc' = pc
        /\ backlog' = [backlog EXCEPT ![s] = Append(@, c)]
    BY <1>7 DEF Connect
  <2>2. backlog[s] \in Seq(Client)
    OBVIOUS
  <2>3. Append(backlog[s], c) # << >>
    BY <2>2, AppendNotEmpty
  <2>4. r \in Server /\ (backlog[r] # << >> \/ (r = serving /\ pc \in {"refuse", "reopen"}))
    BY <2>1
  <2>5. CASE r = s
    BY <2>1, <2>3, <2>5
  <2>6. CASE r # s
    BY <2>1, <2>4, <2>6
  <2> QED
    BY <2>5, <2>6
<1>8. ASSUME NEW c \in Client,
             HandleClose(c) \/ RemoveConnection(c) \/ ConnectDestroyed(c)
      PROVE  Goal
  BY <1>8 DEF HandleClose, RemoveConnection, ConnectDestroyed
<1>9. CASE UNCHANGED vars
  BY <1>9 DEF vars
<1> HIDE DEF Goal
<1> QED
  BY <1>1, <1>2, <1>3, <1>4, <1>5, <1>6, <1>7, <1>8, <1>9 DEF Next, BaseLoop

\* Type correctness of the acceptors.
THEOREM TypeCorrect == Spec => [](TypeOK /\ ReadyHasBacklog)
<1>1. Init => ReadyHasBacklog
  BY DEF Init, ReadyHasBacklog
<1> QED
  BY <1>1, TypeInit, TypeStep, ReadyStep, PTL DEF Spec

-----------------------------------------------------------------------------
\* The reserve of every acceptor is in place, or its entry of the descriptor
\* table is free: workers only close descriptors, and the base loop is busy.
LEMMA ReserveStep ==
  TypeOK /\ ReadyHasBacklog /\ IdleFdKept /\ ReserveInHand /\ [Next]_vars
    => IdleFdKept' /\ ReserveInHand'
<1> SUFFICES ASSUME TypeOK, ReadyHasBacklog, IdleFdKept, ReserveInHand, [Next]_vars
             PROVE  IdleFdKept' /\ ReserveInHand'
  OBVIOUS
<1>0. /\ free \in Nat /\ redis \in 0 .. 2 /\ serving \in Server
      /\ idleFd \in [Server -> {"devnull", "spare", "none"}]
  BY DEF TypeOK
<1> USE <1>0 DEF IdleFdKept, ReserveInHand
<1>1. ASSUME NEW s \in Server, StartLoop(s) \/ Listen(s)
      PROVE  IdleFdKept' /\ ReserveInHand'
  BY <1>1 DEF StartLoop, Listen
<1>2. CASE EnterLoop \/ Poll
  BY <1>2 DEF EnterLoop, Poll
<1>3. ASSUME NEW s \in Server, HandleRead(s) PROVE IdleFdKept' /\ ReserveInHand'
  BY <1>3 DEF HandleRead, Handled
<1>4. ASSUME NEW s \in Server, HandleReadFull(s) PROVE IdleFdKept' /\ ReserveInHand'
  BY <1>4 DEF HandleReadFull
<1>5. CASE CloseIdle
  <2>1. idleFd[serving] = "devnull" /\ free' = free + 1
    BY <1>5 DEF CloseIdle
  <2> QED
    BY <1>5, <2>1 DEF CloseIdle
<1>6. CASE AcceptSpare
  BY <1>6 DEF AcceptSpare
<1>7. CASE CloseSpare
  BY <1>7 DEF CloseSpare
<1>8. CASE ReopenIdle
  BY <1>8 DEF ReopenIdle, Handled
<1>9. CASE RedisReconnect
  BY <1>9 DEF RedisReconnect
<1>10. ASSUME NEW c \in Client, NEW s \in Server, Connect(c, s)
       PROVE  IdleFdKept' /\ ReserveInHand'
  BY <1>10 DEF Connect
<1>11. ASSUME NEW c \in Client,
              HandleClose(c) \/ RemoveConnection(c) \/ ConnectDestroyed(c)
       PROVE  IdleFdKept' /\ ReserveInHand'
  BY <1>11 DEF HandleClose, RemoveConnection, ConnectDestroyed
<1>12. CASE UNCHANGED vars
  BY <1>12 DEF vars
<1> QED
  BY <1>1, <1>2, <1>3, <1>4, <1>5, <1>6, <1>7, <1>8, <1>9, <1>10, <1>11, <1>12
     DEF Next, BaseLoop

\* Acceptor::handleRead always leaves idleFd_ as it found it, for any number of
\* acceptors on one base loop and workers that close connections meanwhile.
THEOREM ReserveAlwaysKept == Spec => []IdleFdKept
<1>1. Init => ReadyHasBacklog /\ IdleFdKept /\ ReserveInHand
  BY DEF Init, ReadyHasBacklog, IdleFdKept, ReserveInHand
<1> QED
  BY <1>1, TypeInit, TypeStep, ReadyStep, ReserveStep, PTL DEF Spec

-----------------------------------------------------------------------------
\* The loop getNextLoop returns is one of the pool, and the one it is due: the
\* loops up to next_ are one connection ahead of the others, also behind it.
LEMMA NextLoopFair ==
  ASSUME TypeOK, PoolOrder, pc # "starting", NEW s \in Server, NEW l \in Pool(s)
  PROVE  Given(s, GetNextLoop(s).loop)[l] = IF l <= GetNextLoop(s).next THEN 1 ELSE 0
<1> DEFINE n == Threads[s]
           more == [i \in Worker |-> IF i = next[s] + 1 THEN lead[s][i] + 1 ELSE lead[s][i]]
<1>1. /\ n \in Nat /\ l \in 1 .. n /\ n > 0 /\ loops[s] = n
      /\ next[s] \in Nat /\ next[s] < n
      /\ lead[s] \in [Worker -> Nat]
  BY AcceptorsAssumption DEF TypeOK, PoolOrder, Pool
<1>2. /\ GetNextLoop(s).loop = next[s] + 1
      /\ GetNextLoop(s).next = IF next[s] + 1 >= n THEN 0 ELSE next[s] + 1
  BY <1>1 DEF GetNextLoop
<1>3. Pool(s) = 1 .. n /\ Pool(s) \subseteq Worker
  BY DEF Pool, Worker
<1>4. \A i \in Pool(s) : more[i] = IF i <= next[s] + 1 THEN 1 ELSE 0
  <2> SUFFICES ASSUME NEW i \in Pool(s) PROVE more[i] = IF i <= next[s] + 1 THEN 1 ELSE 0
    OBVIOUS
  <2>1. lead[s][i] = IF i <= next[s] THEN 1 ELSE 0
    BY DEF PoolOrder
  <2>2. i \in Worker /\ i \in 1 .. n
    BY <1>3
  <2> QED
    BY <1>1, <2>1, <2>2
<1>5. Given(s, next[s] + 1) = IF \A i \in Pool(s) : more[i] > 0
        THEN [i \in Worker |-> IF i \in Pool(s) THEN more[i] - 1 ELSE more[i]]
        ELSE more
  BY <1>1 DEF Given
<1> HIDE DEF more
<1>6. CASE next[s] + 1 >= n
  <2>1. \A i \in Pool(s) : more[i] = 1
    BY <1>1, <1>3, <1>4, <1>6
  <2>2. Given(s, next[s] + 1)[l] = more[l] - 1
    BY <1>3, <1>5, <2>1
  <2> QED
    BY <1>1, <1>2, <1>6, <2>1, <2>2
<1>7. CASE next[s] + 1 < n
  <2>1. n \in Pool(s) /\ more[n] = 0
    BY <1>1, <1>3, <1>4, <1>7
  <2>2. Given(s, next[s] + 1) = more
    BY <1>5, <2>1
  <2> QED
    BY <1>1, <1>2, <1>4, <1>7, <2>2
<1> QED
  BY <1>1, <1>6, <1>7

\* Every step keeps the pools in order.
LEMMA PoolStep == TypeOK /\ ReadyHasBacklog /\ PoolOrder /\ [Next]_vars => PoolOrder'
<1> SUFFICES ASSUME TypeOK, ReadyHasBacklog, PoolOrder, [Next]_vars PROVE PoolOrder'
  OBVIOUS
<1>1. CASE UNCHANGED <<pc, loops, next, lead, listening>>
  BY <1>1 DEF PoolOrder
<1>2. ASSUME pc # "starting", UNCHANGED <<loops, next, lead, listening>> PROVE PoolOrder'
  BY <1>2 DEF PoolOrder
<1>3. ASSUME NEW s \in Server, StartLoop(s) PROVE PoolOrder'
  <2>1. pc' = "starting" /\ next' = next /\ lead' = lead
        /\ loops' = [loops EXCEPT ![s] = @ + 1] /\ loops[s] < Threads[s]
        /\ listening' = listening /\ listening \in SUBSET Server
    BY <1>3 DEF StartLoop, TypeOK
  <2>2. \A t \in Server : loops[t] \in Nat /\ next[t] \in Nat /\ Threads[t] \in Nat
    BY AcceptorsAssumption DEF TypeOK
  <2>3. ASSUME NEW t \in Server
        PROVE  loops'[t] <= Threads[t] /\ (next[t] = 0 \/ next[t] < loops'[t])
    BY <2>1, <2>2 DEF TypeOK, PoolOrder
  <2>4. ASSUME NEW t \in listening PROVE loops'[t] = Threads[t]
    <3>1. loops[t] = Threads[t] /\ t # s /\ t \in Server
      BY <2>1, <2>2 DEF PoolOrder
    <3> QED
      BY <2>1, <3>1 DEF TypeOK
  <2> QED
    BY <2>1, <2>3, <2>4 DEF PoolOrder
<1>4. CASE EnterLoop
  <2>1. loops' = loops /\ next' = next /\ lead' = lead /\ listening = Server
        /\ listening' = listening
    BY <1>4 DEF EnterLoop
  <2>2. loops = Threads
    <3>1. loops \in [Server -> Nat] /\ Threads \in [Server -> Nat]
      BY AcceptorsAssumption DEF TypeOK
    <3>2. \A s \in Server : loops[s] = Threads[s]
      BY <2>1 DEF PoolOrder
    <3> QED
      BY <3>1, <3>2
  <2> QED
    BY <1>4, <2>1, <2>2 DEF PoolOrder
<1>5. ASSUME NEW s \in Server, HandleRead(s) PROVE PoolOrder'
  <2>1. pc # "starting" /\ pc' # "starting" /\ loops' = loops /\ loops = Threads
        /\ next' = [next EXCEPT ![s] = GetNextLoop(s).next]
        /\ lead' = [lead EXCEPT ![s] = Given(s, GetNextLoop(s).loop)]
        /\ listening' = listening
    BY <1>5 DEF HandleRead, Handled, NewConnection, PoolOrder
  <2>2. GetNextLoop(s).next = 0 \/ GetNextLoop(s).next < loops[s]
    BY DEF GetNextLoop, TypeOK, PoolOrder
  <2>3. \A l \in Pool(s) :
          Given(s, GetNextLoop(s).loop)[l] = IF l <= GetNextLoop(s).next THEN 1 ELSE 0
    BY <2>1, NextLoopFair
  <2>4. ASSUME NEW t \in Server
        PROVE  /\ loops'[t] <= Threads[t]
               /\ next'[t] = 0 \/ next'[t] < loops'[t]
               /\ \A l \in Pool(t) : lead'[t][l] = IF l <= next'[t] THEN 1 ELSE 0
    <3>1. CASE t = s
      BY <2>1, <2>2, <2>3, <3>1 DEF TypeOK, PoolOrder
    <3>2. CASE t # s
      BY <2>1, <3>2 DEF TypeOK, PoolOrder
    <3> QED
      BY <3>1, <3>2
  <2> QED
    BY <2>1, <2>4 DEF PoolOrder
<1>6. ASSUME NEW s \in Server, Listen(s) PROVE PoolOrder'
  BY <1>6 DEF Listen, PoolOrder
<1>7. ASSUME \/ \E s \in Server : HandleReadFull(s)
             \/ Poll \/ CloseIdle \/ AcceptSpare \/ CloseSpare \/ ReopenIdle
      PROVE  UNCHANGED <<loops, next, lead, listening>> /\ pc # "starting"
  BY <1>7 DEF HandleReadFull, Poll, CloseIdle, AcceptSpare, CloseSpare, ReopenIdle
<1>8. ASSUME NEW c \in Client,
             \/ \E s \in Server : Connect(c, s)
             \/ HandleClose(c) \/ RemoveConnection(c) \/ ConnectDestroyed(c)
      PROVE  UNCHANGED <<pc, loops, next, lead, listening>>
  BY <1>8 DEF Connect, HandleClose, RemoveConnection, ConnectDestroyed
<1>9. ASSUME RedisReconnect PROVE UNCHANGED <<pc, loops, next, lead, listening>>
  BY <1>9 DEF RedisReconnect
<1>10. CASE UNCHANGED vars
  BY <1>1, <1>10 DEF vars
<1> QED
  BY <1>1, <1>2, <1>3, <1>4, <1>5, <1>6, <1>7, <1>8, <1>9, <1>10 DEF Next, BaseLoop

\* getNextLoop spreads connections evenly over any number of worker loops.
THEOREM PoolIsFair == Spec => []RoundRobinFair
<1>1. Init => PoolOrder
  <2> SUFFICES ASSUME Init PROVE PoolOrder
    OBVIOUS
  <2>1. \A s \in Server : Pool(s) \subseteq Worker /\ Pool(s) \subseteq Nat \ {0}
    BY AcceptorsAssumption DEF Pool, Worker
  <2> QED
    BY <2>1, AcceptorsAssumption DEF Init, PoolOrder
<1>2. Init => ReadyHasBacklog
  BY DEF Init, ReadyHasBacklog
<1>3. PoolOrder => RoundRobinFair
  BY DEF PoolOrder, RoundRobinFair
<1> QED
  BY <1>1, <1>2, <1>3, TypeInit, TypeStep, ReadyStep, PoolStep, PTL DEF Spec

-----------------------------------------------------------------------------
\* A backlog that loses its first connection, which leaves the queue.
LEMMA FirstLeaves ==
  ASSUME TypeOK, QueuedOnce, NEW s \in Server, backlog[s] # << >>, NEW to \in Place,
         backlog' = [backlog EXCEPT ![s] = Tail(@)],
         place' = [place EXCEPT ![Head(backlog[s])] = to]
  PROVE  QueuedOnce'
<1>1. backlog \in [Server -> Seq(Client)] /\ place \in [Client -> Place]
  BY DEF TypeOK
<1>2. /\ Len(backlog[s]) \in Nat /\ Len(backlog[s]) > 0
      /\ Len(Tail(backlog[s])) = Len(backlog[s]) - 1
      /\ Head(backlog[s]) = backlog[s][1]
      /\ \A i \in 1 .. Len(backlog[s]) - 1 : Tail(backlog[s])[i] = backlog[s][i + 1]
  BY FirstInBacklog
<1>3. ASSUME NEW t \in Server, NEW i \in 1 .. Len(backlog'[t])
      PROVE  \E k \in 1 .. Len(backlog[t]) :
               /\ backlog'[t][i] = backlog[t][k]
               /\ k = IF t = s THEN i + 1 ELSE i
               /\ backlog[t][k] # Head(backlog[s])
  <2>1. CASE t = s
    <3>1. backlog'[t] = Tail(backlog[s])
      BY <1>1, <2>1
    <3>2. i \in 1 .. Len(backlog[s]) - 1 /\ i + 1 \in 1 .. Len(backlog[s])
      <4> DEFINE n == Len(backlog[s])
      <4>1. n \in Nat /\ Len(backlog'[t]) = n - 1
        BY <1>2, <3>1
      <4>2. i \in 1 .. n - 1
        BY <4>1
      <4> HIDE DEF n
      <4>3. i + 1 \in 1 .. n
        BY <4>1, <4>2
      <4> QED
        BY <4>2, <4>3 DEF n
    <3>3. 1 \in 1 .. Len(backlog[s]) /\ i + 1 # 1
      BY <1>2, <3>2
    <3>4. backlog[s][i + 1] # backlog[s][1]
      BY <3>2, <3>3 DEF QueuedOnce
    <3> QED
      BY <1>2, <2>1, <3>1, <3>2, <3>4
  <2>2. CASE t # s
    <3>1. backlog'[t] = backlog[t]
      BY <1>1, <2>2
    <3>2. backlog[t][i] # backlog[s][1]
      BY <1>1, <1>2, <2>2, <3>1 DEF QueuedOnce
    <3> QED
      BY <1>2, <2>2, <3>1, <3>2
  <2> QED
    BY <2>1, <2>2
<1>4. ASSUME NEW t \in Server, NEW u \in Server,
             NEW i \in 1 .. Len(backlog'[t]), NEW j \in 1 .. Len(backlog'[u])
      PROVE  /\ place'[backlog'[t][i]] = "queued"
             /\ backlog'[t][i] = backlog'[u][j] => t = u /\ i = j
  <2>1. PICK k \in 1 .. Len(backlog[t]) :
          /\ backlog'[t][i] = backlog[t][k] /\ k = (IF t = s THEN i + 1 ELSE i)
          /\ backlog[t][k] # Head(backlog[s])
    BY <1>3
  <2>2. PICK m \in 1 .. Len(backlog[u]) :
          /\ backlog'[u][j] = backlog[u][m] /\ m = (IF u = s THEN j + 1 ELSE j)
          /\ backlog[u][m] # Head(backlog[s])
    BY <1>3
  <2>3. place[backlog[t][k]] = "queued" /\ backlog[t][k] \in Client
    BY <1>1 DEF QueuedOnce
  <2>4. backlog[t][k] = backlog[u][m] => t = u /\ k = m
    BY DEF QueuedOnce
  <2>5. i \in Nat /\ j \in Nat
    OBVIOUS
  <2> QED
    BY <1>1, <2>1, <2>2, <2>3, <2>4, <2>5
<1> QED
  BY <1>4 DEF QueuedOnce

\* Every step keeps the backlogs free of duplicates.
LEMMA QueuedStep ==
  TypeOK /\ ReadyHasBacklog /\ QueuedOnce /\ [Next]_vars => QueuedOnce'
<1> SUFFICES ASSUME TypeOK, ReadyHasBacklog, QueuedOnce, [Next]_vars PROVE QueuedOnce'
  OBVIOUS
<1>0. place \in [Client -> Place] /\ backlog \in [Server -> Seq(Client)]
  BY DEF TypeOK
<1>1. ASSUME backlog' = backlog,
             \A c \in Client : place[c] = "queued" => place'[c] = "queued"
      PROVE  QueuedOnce'
  <2>1. ASSUME NEW s \in Server, NEW i \in 1 .. Len(backlog[s])
        PROVE  place'[backlog[s][i]] = "queued"
    <3>1. place[backlog[s][i]] = "queued" /\ backlog[s][i] \in Client
      BY <1>0 DEF QueuedOnce
    <3> QED
      BY <1>1, <3>1
  <2> QED
    BY <1>1, <2>1 DEF QueuedOnce
<1>2. ASSUME NEW s \in Server, HandleRead(s) PROVE QueuedOnce'
  <2>1. backlog[s] # << >> /\ "open" \in Place
        /\ backlog' = [backlog EXCEPT ![s] = Tail(@)]
        /\ place' = [place EXCEPT ![Head(backlog[s])] = "open"]
    BY <1>2 DEF HandleRead, NewConnection, Place, ReadyHasBacklog
  <2> QED
    BY <2>1, FirstLeaves
<1>3. CASE AcceptSpare
  <2>1. CASE free > 0 /\ backlog[serving] # << >>
    <3>1. serving \in Server /\ "spare" \in Place
          /\ backlog' = [backlog EXCEPT ![serving] = Tail(@)]
          /\ place' = [place EXCEPT ![Head(backlog[serving])] = "spare"]
      BY <1>3, <2>1 DEF AcceptSpare, Place, TypeOK
    <3> QED
      BY <2>1, <3>1, FirstLeaves
  <2>2. CASE ~(free > 0 /\ backlog[serving] # << >>)
    BY <1>3, <2>2 DEF AcceptSpare, QueuedOnce
  <2> QED
    BY <2>1, <2>2
<1>4. ASSUME NEW c \in Client, NEW s \in Server, Connect(c, s) PROVE QueuedOnce'
  <2>1. place[c] = "away" /\ place' = [place EXCEPT ![c] = "queued"]
        /\ backlog' = [backlog EXCEPT ![s] = Append(@, c)]
    BY <1>4 DEF Connect
  <2>2. ASSUME NEW t \in Server, NEW i \in 1 .. Len(backlog'[t])
        PROVE  \/ t = s /\ i = Len(backlog[s]) + 1 /\ backlog'[t][i] = c
               \/ i \in 1 .. Len(backlog[t]) /\ backlog'[t][i] = backlog[t][i]
    <3>1. backlog[s] \in Seq(Client) /\ backlog[t] \in Seq(Client)
      BY <1>0
    <3>2. /\ Len(Append(backlog[s], c)) = Len(backlog[s]) + 1 /\ Len(backlog[s]) \in Nat
          /\ Append(backlog[s], c)[Len(backlog[s]) + 1] = c
          /\ \A k \in 1 .. Len(backlog[s]) : Append(backlog[s], c)[k] = backlog[s][k]
      BY <3>1
    <3>3. CASE t = s
      <4>1. backlog'[t] = Append(backlog[s], c)
        BY <1>0, <2>1, <3>3
      <4>2. i = Len(backlog[s]) + 1 \/ i \in 1 .. Len(backlog[s])
        BY <3>2, <4>1
      <4> QED
        BY <3>2, <3>3, <4>1, <4>2
    <3>4. CASE t # s
      BY <1>0, <2>1, <3>4
    <3> QED
      BY <3>3, <3>4
  <2>3. \A t \in Server : \A i \in 1 .. Len(backlog[t]) :
          backlog[t][i] \in Client /\ backlog[t][i] # c /\ place[backlog[t][i]] = "queued"
    BY <1>0, <2>1 DEF QueuedOnce
  <2>4. ASSUME NEW t \in Server, NEW u \in Server,
               NEW i \in 1 .. Len(backlog'[t]), NEW j \in 1 .. Len(backlog'[u])
        PROVE  /\ place'[backlog'[t][i]] = "queued"
               /\ backlog'[t][i] = backlog'[u][j] => t = u /\ i = j
    <3>1. place'[backlog'[t][i]] = "queued"
      BY <1>0, <2>1, <2>2, <2>3
    <3>2. ASSUME backlog'[t][i] = backlog'[u][j] PROVE t = u /\ i = j
      <4>1. CASE backlog'[t][i] = c
        <5>1. t = s /\ i = Len(backlog[s]) + 1
          BY <2>2, <2>3, <4>1
        <5>2. u = s /\ j = Len(backlog[s]) + 1
          <6>1. backlog'[u][j] = c
            BY <3>2, <4>1
          <6> QED
            BY <2>2, <2>3, <6>1
        <5> QED
          BY <5>1, <5>2
      <4>2. CASE backlog'[t][i] # c
        <5>1. /\ i \in 1 .. Len(backlog[t]) /\ backlog'[t][i] = backlog[t][i]
              /\ j \in 1 .. Len(backlog[u]) /\ backlog'[u][j] = backlog[u][j]
          BY <2>2, <3>2, <4>2
        <5>2. backlog[t][i] = backlog[u][j]
          BY <3>2, <5>1
        <5> QED
          BY <5>1, <5>2 DEF QueuedOnce
      <4> QED
        BY <4>1, <4>2
    <3> QED
      BY <3>1, <3>2
  <2> QED
    BY <2>4 DEF QueuedOnce
<1>5. ASSUME NEW c \in Client,
             HandleClose(c) \/ RemoveConnection(c) \/ ConnectDestroyed(c)
      PROVE  QueuedOnce'
  <2>1. backlog' = backlog /\ \A d \in Client : place[d] = "queued" => place'[d] = "queued"
    BY <1>0, <1>5 DEF HandleClose, RemoveConnection, ConnectDestroyed
  <2> QED
    BY <1>1, <2>1
<1>6. CASE CloseSpare
  <2>1. backlog' = backlog /\ \A d \in Client : place[d] = "queued" => place'[d] = "queued"
    BY <1>6 DEF CloseSpare
  <2> QED
    BY <1>1, <2>1
<1>7. CASE UNCHANGED <<backlog, place>>
  BY <1>7 DEF QueuedOnce
<1>8. ASSUME \/ \E s \in Server : StartLoop(s) \/ Listen(s) \/ HandleReadFull(s)
             \/ EnterLoop \/ Poll \/ CloseIdle \/ ReopenIdle \/ RedisReconnect
             \/ UNCHANGED vars
      PROVE  UNCHANGED <<backlog, place>>
  BY <1>8 DEF StartLoop, Listen, HandleReadFull, EnterLoop, Poll, CloseIdle, ReopenIdle,
              RedisReconnect, vars
<1> QED
  BY <1>2, <1>3, <1>4, <1>5, <1>6, <1>7, <1>8 DEF Next, BaseLoop

\* The connection accepted into idleFd_ is the only spare one, until it is closed.
LEMMA SpareStep ==
  TypeOK /\ ReadyHasBacklog /\ QueuedOnce /\ IdleFdKept /\ ReserveInHand /\ SpareIsIdleFd
    /\ [Next]_vars => SpareIsIdleFd'
<1> SUFFICES ASSUME TypeOK, ReadyHasBacklog, QueuedOnce, IdleFdKept, ReserveInHand,
                    SpareIsIdleFd, [Next]_vars
             PROVE  SpareIsIdleFd'
  OBVIOUS
<1>0. /\ place \in [Client -> Place] /\ serving \in Server /\ free \in Nat
      /\ idleFd \in [Server -> {"devnull", "spare", "none"}]
  BY DEF TypeOK
<1>1. ASSUME UNCHANGED <<serving, idleFd>>, idleFd[serving] = "spare" => pc' = pc,
             \A c \in Client : place'[c] = "spare" <=> place[c] = "spare"
      PROVE  SpareIsIdleFd'
  BY <1>1 DEF SpareIsIdleFd
<1>2. ASSUME NEW s \in Server, HandleRead(s) PROVE SpareIsIdleFd'
  <2>1. pc = "handle" /\ UNCHANGED <<serving, idleFd>> /\ backlog[s] # << >>
        /\ place' = [place EXCEPT ![Head(backlog[s])] = "open"]
    BY <1>2 DEF HandleRead, NewConnection, ReadyHasBacklog
  <2>2. \A c \in Client : place[c] # "spare"
    BY <2>1 DEF SpareIsIdleFd
  <2>3. \A c \in Client : place'[c] # "spare"
    BY <1>0, <2>1, <2>2
  <2> QED
    BY <2>1, <2>3 DEF SpareIsIdleFd
<1>3. ASSUME NEW s \in Server, HandleReadFull(s) PROVE SpareIsIdleFd'
  <2>1. pc = "handle" /\ serving' = s /\ place' = place /\ idleFd' = idleFd
    BY <1>3 DEF HandleReadFull
  <2>2. idleFd[s] = "devnull" /\ \A c \in Client : place[c] # "spare"
    BY <2>1 DEF IdleFdKept, SpareIsIdleFd
  <2> QED
    BY <2>1, <2>2 DEF SpareIsIdleFd
<1>4. CASE CloseIdle
  <2>1. pc = "emfile" /\ serving' = serving /\ place' = place /\ idleFd'[serving] = "none"
    BY <1>0, <1>4 DEF CloseIdle
  <2>2. \A c \in Client : place[c] # "spare"
    BY <2>1 DEF SpareIsIdleFd
  <2> QED
    BY <2>1, <2>2 DEF SpareIsIdleFd
<1>5. CASE AcceptSpare
  <2>1. pc = "spare" /\ pc' = "refuse" /\ serving' = serving
    BY <1>5 DEF AcceptSpare
  <2>2. \A c \in Client : place[c] # "spare"
    BY <2>1 DEF SpareIsIdleFd
  <2>3. CASE free > 0 /\ backlog[serving] # << >>
    <3>1. Head(backlog[serving]) \in Client
      BY <1>0, <2>3, FirstInBacklog
    <3>2. idleFd'[serving] = "spare" /\ place' = [place EXCEPT ![Head(backlog[serving])] = "spare"]
      BY <1>0, <1>5, <2>3 DEF AcceptSpare
    <3> QED
      BY <1>0, <2>1, <2>2, <3>1, <3>2 DEF SpareIsIdleFd
  <2>4. CASE ~(free > 0 /\ backlog[serving] # << >>)
    <3>1. idleFd'[serving] = "none" /\ place' = place
      BY <1>0, <1>5, <2>4 DEF AcceptSpare
    <3> QED
      BY <2>1, <2>2, <3>1 DEF SpareIsIdleFd
  <2> QED
    BY <2>3, <2>4
<1>6. CASE CloseSpare
  <2>1. serving' = serving /\ idleFd'[serving] = "none" /\ \A c \in Client : place'[c] # "spare"
    BY <1>0, <1>6 DEF CloseSpare
  <2> QED
    BY <2>1 DEF SpareIsIdleFd
<1>7. CASE ReopenIdle
  <2>1. pc = "reopen" /\ serving' = serving /\ place' = place
        /\ idleFd'[serving] \in {"devnull", "none"}
    BY <1>0, <1>7 DEF ReopenIdle
  <2>2. \A c \in Client : place[c] # "spare"
    BY <2>1 DEF SpareIsIdleFd
  <2> QED
    BY <2>1, <2>2 DEF SpareIsIdleFd
<1>8. ASSUME NEW c \in Client,
             \/ \E s \in Server : Connect(c, s)
             \/ HandleClose(c) \/ RemoveConnection(c) \/ ConnectDestroyed(c)
      PROVE  SpareIsIdleFd'
  <2>1. UNCHANGED <<serving, idleFd, pc>>
        /\ \A d \in Client : place'[d] = "spare" <=> place[d] = "spare"
    BY <1>0, <1>8 DEF Connect, HandleClose, RemoveConnection, ConnectDestroyed
  <2> QED
    BY <1>1, <2>1
<1>9. ASSUME \/ \E s \in Server : StartLoop(s) \/ Listen(s)
             \/ RedisReconnect \/ UNCHANGED vars
      PROVE  SpareIsIdleFd'
  <2>1. UNCHANGED <<serving, idleFd, pc, place>>
    BY <1>9 DEF StartLoop, Listen, RedisReconnect, vars
  <2> QED
    BY <1>1, <2>1
<1>10. CASE EnterLoop \/ Poll
  <2>1. UNCHANGED <<serving, idleFd, place>> /\ pc # "refuse"
    BY <1>10 DEF EnterLoop, Poll
  <2>2. idleFd[serving] # "spare"
    BY <2>1 DEF SpareIsIdleFd
  <2> QED
    BY <1>1, <2>1, <2>2
<1> QED
  BY <1>2, <1>3, <1>4, <1>5, <1>6, <1>7, <1>8, <1>9, <1>10 DEF Next, BaseLoop

\* One more, or one less, in a finite set of connections or of acceptors.
LEMMA CountOne ==
  ASSUME NEW S, NEW T \in SUBSET S, NEW x \in S, IsFiniteSet(S)
  PROVE  /\ Cardinality(T) \in Nat
         /\ x \notin T => Cardinality(T \cup {x}) = Cardinality(T) + 1
         /\ x \in T => Cardinality(T \ {x}) = Cardinality(T) - 1
<1>1. IsFiniteSet(T)
  BY FS_Subset
<1> QED
  BY <1>1, FS_CardinalityType, FS_AddElement, FS_RemoveElement

\* Every step keeps the books of the descriptor table.
LEMMA AccountStep ==
  TypeOK /\ ReadyHasBacklog /\ QueuedOnce /\ IdleFdKept /\ ReserveInHand /\ SpareIsIdleFd
    /\ DescriptorsAccounted /\ [Next]_vars => DescriptorsAccounted'
<1> SUFFICES ASSUME TypeOK, ReadyHasBacklog, QueuedOnce, IdleFdKept, ReserveInHand,
                    SpareIsIdleFd, DescriptorsAccounted, [Next]_vars
             PROVE  DescriptorsAccounted'
  OBVIOUS
<1> DEFINE H == Cardinality(Holding)
           R == Cardinality(Reserves)
           total == Room + Cardinality(Server) + 2
<1>0. /\ place \in [Client -> Place] /\ serving \in Server /\ free \in Nat
      /\ redis \in 0 .. 2
      /\ idleFd \in [Server -> {"devnull", "spare", "none"}]
  BY DEF TypeOK
<1>a. Holding \in SUBSET Client /\ Reserves \in SUBSET Server
  BY DEF Holding, Reserves
<1>b. H \in Nat /\ R \in Nat /\ total \in Nat
  <2>1. IsFiniteSet(Holding) /\ IsFiniteSet(Reserves)
    BY <1>a, FiniteAssumption, FS_Subset
  <2> QED
    BY <2>1, FiniteAssumption, AcceptorsAssumption, FS_CardinalityType
<1>c. free + H + R + redis = total
  BY DEF DescriptorsAccounted
<1>d. ASSUME NEW h \in Nat, NEW r \in Nat, h = Cardinality(Holding'), r = Cardinality(Reserves'),
             free' + h + r + redis' = total
      PROVE  DescriptorsAccounted'
  BY <1>d DEF DescriptorsAccounted
<1>e. ASSUME NEW c \in Client, c \notin Holding, Holding' = Holding \cup {c},
             Reserves' = Reserves, free' = free - 1, redis' = redis
      PROVE  DescriptorsAccounted'
  <2>1. Cardinality(Holding') = H + 1
    BY <1>a, <1>e, FiniteAssumption, CountOne
  <2> HIDE DEF H, R, total
  <2>2. free' + (H + 1) + R + redis' = total /\ H + 1 \in Nat
    BY <1>0, <1>b, <1>c, <1>e
  <2> QED
    BY <1>b, <1>d, <1>e, <2>1, <2>2 DEF R
<1>f. ASSUME NEW c \in Client, c \in Holding, Holding' = Holding \ {c},
             Reserves' = Reserves, free' = free + 1, redis' = redis
      PROVE  DescriptorsAccounted'
  <2>1. Cardinality(Holding') = H - 1 /\ Cardinality(Holding') \in Nat
    <3>1. Holding' \in SUBSET Client
      BY <1>a, <1>f
    <3> QED
      BY <1>a, <1>f, <3>1, FiniteAssumption, CountOne
  <2> HIDE DEF H, R, total
  <2>2. free' + (H - 1) + R + redis' = total
    BY <1>0, <1>b, <1>c, <1>f
  <2> QED
    BY <1>b, <1>d, <1>f, <2>1, <2>2 DEF R
<1>g. ASSUME Holding' = Holding, Reserves' = Reserves, free' + redis' = free + redis,
             free' \in Nat, redis' \in 0 .. 2
      PROVE  DescriptorsAccounted'
  <2> DEFINE f == free' q == redis'
  <2>a. free \in Int /\ redis \in Int /\ f \in Int /\ q \in Int
    BY <1>0, <1>g
  <2>b. f + q = free + redis
    BY <1>g, Zenon
  <2> HIDE DEF H, R, total, f, q
  <2>1. f + H + R + q = total
    BY <1>b, <1>c, <2>a, <2>b
  <2>2. free' + H + R + redis' = total
    BY <2>1 DEF f, q
  <2> QED
    BY <1>b, <1>d, <1>g, <2>2 DEF H, R
<1>1. ASSUME NEW s \in Server, HandleRead(s) PROVE DescriptorsAccounted'
  <2>1. /\ backlog[s] # << >> /\ free' = free - 1 /\ redis' = redis /\ idleFd' = idleFd
        /\ place' = [place EXCEPT ![Head(backlog[s])] = "open"]
    BY <1>1 DEF HandleRead, NewConnection, ReadyHasBacklog
  <2>2. Head(backlog[s]) \in Client /\ place[Head(backlog[s])] = "queued"
    BY <2>1, FirstInBacklog DEF QueuedOnce
  <2>3. Head(backlog[s]) \notin Holding /\ Holding' = Holding \cup {Head(backlog[s])}
    BY <1>0, <2>1, <2>2 DEF Holding
  <2>4. Reserves' = Reserves
    BY <2>1 DEF Reserves
  <2> QED
    BY <1>e, <2>1, <2>2, <2>3, <2>4
<1>2. CASE CloseIdle
  <2>1. /\ idleFd[serving] = "devnull" /\ free' = free + 1 /\ redis' = redis
        /\ place' = place /\ idleFd' = [idleFd EXCEPT ![serving] = "none"]
    BY <1>0, <1>2 DEF CloseIdle, IdleFdKept
  <2>2. serving \in Reserves /\ Reserves' = Reserves \ {serving} /\ Holding' = Holding
    BY <1>0, <2>1 DEF Reserves, Holding
  <2>3. Cardinality(Reserves') = R - 1 /\ R - 1 \in Nat
    <3>1. Cardinality(Reserves \ {serving}) = R - 1
      BY <1>0, <1>a, <2>2, FiniteAssumption, CountOne
    <3>2. IsFiniteSet(Reserves \ {serving})
      BY <1>a, FiniteAssumption, FS_Subset, FS_RemoveElement
    <3> QED
      BY <2>2, <3>1, <3>2, FS_CardinalityType
  <2> HIDE DEF H, R, total
  <2>4. free' + H + (R - 1) + redis' = total
    BY <1>0, <1>b, <1>c, <2>1
  <2> QED
    BY <1>b, <1>d, <2>2, <2>3, <2>4 DEF H
<1>3. CASE AcceptSpare
  <2>0. pc = "spare" /\ idleFd[serving] = "none" /\ free > 0 /\ redis' = redis
    BY <1>3 DEF AcceptSpare, ReserveInHand
  <2>1. CASE backlog[serving] # << >>
    <3>1. /\ free' = free - 1 /\ idleFd' = [idleFd EXCEPT ![serving] = "spare"]
          /\ place' = [place EXCEPT ![Head(backlog[serving])] = "spare"]
      BY <1>3, <2>0, <2>1 DEF AcceptSpare
    <3>2. Head(backlog[serving]) \in Client /\ place[Head(backlog[serving])] = "queued"
      BY <1>0, <2>1, FirstInBacklog DEF QueuedOnce
    <3>3. /\ Head(backlog[serving]) \notin Holding
          /\ Holding' = Holding \cup {Head(backlog[serving])}
      BY <1>0, <3>1, <3>2 DEF Holding
    <3>4. Reserves' = Reserves
      BY <1>0, <2>0, <3>1 DEF Reserves
    <3> QED
      BY <1>e, <2>0, <3>1, <3>2, <3>3, <3>4
  <2>2. CASE backlog[serving] = << >>
    <3>1. free' = free /\ place' = place /\ idleFd' = [idleFd EXCEPT ![serving] = "none"]
      BY <1>3, <2>2 DEF AcceptSpare
    <3>2. Holding' = Holding /\ Reserves' = Reserves
      BY <1>0, <2>0, <3>1 DEF Holding, Reserves
    <3> QED
      BY <1>0, <1>g, <2>0, <3>1, <3>2
  <2> QED
    BY <2>1, <2>2
<1>4. CASE CloseSpare
  <2>0. /\ pc = "refuse" /\ redis' = redis
        /\ place' = [c \in Client |-> IF place[c] = "spare" THEN "away" ELSE place[c]]
        /\ idleFd' = [idleFd EXCEPT ![serving] = "none"]
        /\ free' = IF idleFd[serving] = "none" THEN free ELSE free + 1
    BY <1>4 DEF CloseSpare
  <2>1. idleFd[serving] \in {"none", "spare"} /\ Reserves' = Reserves
    BY <1>0, <2>0 DEF ReserveInHand, Reserves
  <2>2. CASE idleFd[serving] = "spare"
    <3>1. PICK c \in Client : place[c] = "spare"
      BY <2>2 DEF SpareIsIdleFd
    <3>2. \A d \in Client : place[d] = "spare" => d = c
      BY <3>1 DEF SpareIsIdleFd
    <3>3. c \in Holding /\ Holding' = Holding \ {c}
      BY <1>0, <2>0, <3>1, <3>2 DEF Holding
    <3> QED
      BY <1>f, <2>0, <2>1, <2>2, <3>3
  <2>3. CASE idleFd[serving] = "none"
    <3>1. \A d \in Client : place[d] # "spare"
      BY <2>3 DEF SpareIsIdleFd
    <3>2. Holding' = Holding
      BY <1>0, <2>0, <3>1 DEF Holding
    <3> QED
      BY <1>0, <1>g, <2>0, <2>1, <2>3, <3>2
  <2> QED
    BY <2>1, <2>2, <2>3
<1>5. CASE ReopenIdle
  <2>1. /\ idleFd[serving] = "none" /\ free > 0 /\ free' = free - 1 /\ redis' = redis
        /\ place' = place /\ idleFd' = [idleFd EXCEPT ![serving] = "devnull"]
    BY <1>5 DEF ReopenIdle, ReserveInHand
  <2>2. serving \notin Reserves /\ Reserves' = Reserves \cup {serving} /\ Holding' = Holding
    BY <1>0, <2>1 DEF Reserves, Holding
  <2>3. Cardinality(Reserves') = R + 1
    BY <1>0, <1>a, <2>2, FiniteAssumption, CountOne
  <2> HIDE DEF H, R, total
  <2>4. free' + H + (R + 1) + redis' = total /\ R + 1 \in Nat
    BY <1>0, <1>b, <1>c, <2>1
  <2> QED
    BY <1>b, <1>d, <2>2, <2>3, <2>4 DEF H
<1>6. CASE RedisReconnect
  <2>1. Holding' = Holding /\ Reserves' = Reserves
    BY <1>6 DEF RedisReconnect, Holding, Reserves
  <2>2. redis' \in 0 .. 2 /\ free + redis >= redis' /\ free' = free + redis - redis'
    BY <1>6 DEF RedisReconnect
  <2> DEFINE f == free' q == redis'
  <2>3. /\ free \in Int /\ redis \in Int /\ q \in Int
        /\ f = free + redis - q /\ free + redis >= q
    BY <1>0, <2>2
  <2> HIDE DEF f, q
  <2>4. f \in Nat /\ f + q = free + redis
    BY ONLY <2>3
  <2> QED
    BY <1>g, <2>1, <2>2, <2>4 DEF f, q
<1>7. ASSUME NEW c \in Client, ConnectDestroyed(c) PROVE DescriptorsAccounted'
  <2>1. /\ place[c] = "erased" /\ place' = [place EXCEPT ![c] = "away"]
        /\ free' = free + 1 /\ UNCHANGED <<redis, idleFd>>
    BY <1>7 DEF ConnectDestroyed
  <2>2. c \in Holding /\ Holding' = Holding \ {c} /\ Reserves' = Reserves
    BY <1>0, <2>1 DEF Holding, Reserves
  <2> QED
    BY <1>f, <2>1, <2>2
<1>8. ASSUME NEW c \in Client,
             (\E s \in Server : Connect(c, s)) \/ HandleClose(c) \/ RemoveConnection(c)
      PROVE  DescriptorsAccounted'
  <2>1. UNCHANGED <<free, redis, idleFd>>
    BY <1>8 DEF Connect, HandleClose, RemoveConnection
  <2>2. Holding' = Holding
    BY <1>0, <1>8 DEF Connect, HandleClose, RemoveConnection, Holding
  <2>3. Reserves' = Reserves
    BY <2>1 DEF Reserves
  <2> QED
    BY <1>0, <1>g, <2>1, <2>2, <2>3
<1>9. ASSUME \/ \E s \in Server : StartLoop(s) \/ Listen(s) \/ HandleReadFull(s)
             \/ EnterLoop \/ Poll \/ UNCHANGED vars
      PROVE  DescriptorsAccounted'
  <2>1. UNCHANGED <<free, redis, idleFd, place>>
    BY <1>9 DEF StartLoop, Listen, HandleReadFull, EnterLoop, Poll, vars
  <2> QED
    BY <2>1 DEF DescriptorsAccounted, Holding, Reserves
<1> QED
  BY <1>1, <1>2, <1>3, <1>4, <1>5, <1>6, <1>7, <1>8, <1>9 DEF Next, BaseLoop

\* No descriptor leaks, however acceptors, workers and the Redis connection
\* interleave, for any size of the table.
THEOREM NoDescriptorLeaks == Spec => []DescriptorsAccounted
<1>1. Init => /\ ReadyHasBacklog /\ IdleFdKept /\ ReserveInHand /\ QueuedOnce
              /\ SpareIsIdleFd
  BY DEF Init, ReadyHasBacklog, IdleFdKept, ReserveInHand, QueuedOnce, SpareIsIdleFd
<1>2. Init => DescriptorsAccounted
  <2> SUFFICES ASSUME Init PROVE DescriptorsAccounted
    OBVIOUS
  <2>1. /\ Holding = {} /\ Reserves = Server
        /\ redis \in 0 .. 2 /\ free = Room + 2 - redis
    BY DEF Init, Holding, Reserves
  <2>2. Cardinality(Holding) = 0 /\ Cardinality(Server) \in Nat
    BY <2>1, FiniteAssumption, FS_EmptySet, FS_CardinalityType
  <2> QED
    BY <2>1, <2>2, AcceptorsAssumption DEF DescriptorsAccounted
<1> QED
  BY <1>1, <1>2, TypeInit, TypeStep, ReadyStep, ReserveStep, QueuedStep, SpareStep,
     AccountStep, PTL DEF Spec
=============================================================================
