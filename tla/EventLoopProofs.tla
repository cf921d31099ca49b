--------------------------- MODULE EventLoopProofs ---------------------------
(***************************************************************************)
(* Proofs about the two halves of class EventLoop: about EventLoop, the    *)
(* task queue, for any set of closures and any set of clients, and about   *)
(* TimerQueue, for any timers and delays.  All safety properties follow    *)
(* from LoopInv and TimerInv, which are inductive.                         *)
(***************************************************************************)
EXTENDS EventLoop, TimerQueue, SequenceTheorems, TLAPS

\* Queueing at the end of the last part is queueing at the end of the whole:
\* what push_back does to the closures still to run.
LEMMA AppendLast ==
  \A a, b, c \in Seq(Functor) : \A x \in Functor :
    Append(a \o b \o c, x) = a \o b \o Append(c, x)
<1> TAKE a, b, c \in Seq(Functor)
<1> TAKE x \in Functor
<1>1. a \o b \in Seq(Functor)
  BY ConcatProperties
<1>2. /\ Append(c, x) = c \o <<x>>
      /\ <<x>> \in Seq(Functor)
      /\ Append(a \o b \o c, x) = (a \o b \o c) \o <<x>>
  <2>1. a \o b \o c \in Seq(Functor)
    BY <1>1, ConcatProperties
  <2> QED BY <2>1, AppendIsConcat
<1> QED BY <1>1, <1>2, ConcatAssociative

\* Running the head of the batch moves it to the end of what has run.
LEMMA MoveHead ==
  ASSUME NEW S, NEW a \in Seq(S), NEW b \in Seq(S), b # <<>>
  PROVE  Append(a, Head(b)) \o Tail(b) = a \o b
<1>1. /\ Head(b) \in S /\ Tail(b) \in Seq(S)
      /\ <<Head(b)>> \in Seq(S)
  BY HeadTailProperties
<1>2. b = <<Head(b)>> \o Tail(b)
  OBVIOUS
<1>3. Append(a, Head(b)) = a \o <<Head(b)>>
  BY <1>1, AppendIsConcat
<1> QED BY <1>1, <1>2, <1>3, ConcatAssociative

-----------------------------------------------------------------------------
(* The invariant. *)

\* The constructor and the starting thread establish the invariant.
LEMMA LoopInit == Init => LoopInv
<1> SUFFICES ASSUME Init PROVE LoopInv
  OBVIOUS
<1>1. TypeOK
  BY OwnerAssumption, EmptySeq DEF Init, TypeOK, LoopPc, ClientPc, Channel
<1>2. LoopFlags /\ Lifecycle /\ NoLostWakeup
  BY OwnerAssumption DEF Init, LoopFlags, Lifecycle, NoLostWakeup
<1>3. FifoExactlyOnce
  BY EmptySeq, ConcatEmptySeq DEF Init, FifoExactlyOnce
<1> QED BY <1>1, <1>2, <1>3 DEF LoopInv

\* A push extends the history by the closure it puts last in the queue.
LEMMA FifoPush ==
  ASSUME TypeOK, FifoExactlyOnce, NEW f \in Functor,
         pending' = Append(pending, f), accepted' = Append(accepted, f),
         executed' \o functors' = executed \o functors
  PROVE  FifoExactlyOnce'
<1>1. /\ executed \in Seq(Functor) /\ functors \in Seq(Functor)
      /\ pending \in Seq(Functor)
  BY DEF TypeOK
<1>2. Append(executed \o functors \o pending, f) = executed \o functors \o Append(pending, f)
  BY <1>1, AppendLast
<1> QED BY <1>2 DEF FifoExactlyOnce

\* What a handler or a closure may do to the queue.
LEMMA FifoBody ==
  ASSUME TypeOK, FifoExactlyOnce, Body,
         executed' \o functors' = executed \o functors
  PROVE  FifoExactlyOnce'
<1>1. CASE UNCHANGED <<pending, accepted, wakeups>>
  BY <1>1 DEF FifoExactlyOnce
<1>2. CASE \E f \in Fresh : LoopQueues(f)
  BY <1>2, FifoPush DEF LoopQueues, Fresh
<1> QED BY <1>1, <1>2 DEF Body

\* Every step keeps each admitted closure in its place.
LEMMA FifoStep ==
  ASSUME LoopInv, [Next]_vars
  PROVE  FifoExactlyOnce'
<1> USE DEF LoopInv
<1>1. CASE UNCHANGED <<pending, functors, accepted, executed>>
  BY <1>1 DEF FifoExactlyOnce
<1>2. CASE SwapPending
  <2>1. functors = <<>> /\ executed \in Seq(Functor) /\ pending \in Seq(Functor)
    BY <1>2 DEF SwapPending, LoopFlags, TypeOK
  <2>2. accepted = executed \o pending
    BY <2>1, ConcatEmptySeq DEF FifoExactlyOnce
  <2>3. (executed \o pending) \o <<>> = executed \o pending
    BY <2>1, ConcatProperties, ConcatEmptySeq
  <2> QED BY <1>2, <2>2, <2>3 DEF SwapPending, FifoExactlyOnce
<1>3. CASE RunFunctor
  <2>1. executed' \o functors' = executed \o functors
    BY <1>3, MoveHead DEF RunFunctor, TypeOK
  <2> QED BY <1>3, <2>1, FifoBody DEF RunFunctor
<1>4. CASE HandleIo
  BY <1>4, FifoBody DEF HandleIo
<1>5. CASE \E c \in Client : QueueInLoop(c)
  BY <1>5, FifoPush DEF QueueInLoop, Fresh
<1>6. CASE \E c \in Client : Wakeup(c) \/ UseDestroyed(c)
  BY <1>1, <1>6 DEF Wakeup, UseDestroyed
<1> QED
  BY <1>1, <1>2, <1>3, <1>4, <1>5, <1>6
  DEF Next, LoopThread, OwnerThread, Finished, vars,
      StartLoop, StartLoopReturns, Publish, EnterLoop, CheckQuit, PollReady,
      PollTimeout, HandleWakeupRead, BeginPending, EndPending, Unpublish,
      Destroy, QuitStore, QuitWakeup, Join

\* The types the sequence operations keep.
LEMMA PushTypes ==
  ASSUME NEW S, NEW s \in Seq(S), NEW x \in S
  PROVE  Append(s, x) \in Seq(S) /\ Append(s, x) # <<>>
BY AppendProperties

\* What a closure's body queues and wakes keeps the types.
LEMMA BodyTypes ==
  ASSUME TypeOK, Body
  PROVE  /\ pending' \in Seq(Functor) /\ accepted' \in Seq(Functor)
         /\ wakeups' \in Nat
         /\ wakeups' >= wakeups
         /\ calling /\ pending' # pending => wakeups' > 0
<1>1. CASE UNCHANGED <<pending, accepted, wakeups>>
  BY <1>1 DEF TypeOK
<1>2. CASE \E f \in Fresh : LoopQueues(f)
  <2>1. PICK f \in Functor : LoopQueues(f)
    BY <1>2 DEF Fresh
  <2>2. Append(pending, f) \in Seq(Functor) /\ Append(accepted, f) \in Seq(Functor)
    BY PushTypes DEF TypeOK
  <2> QED BY <2>1, <2>2 DEF LoopQueues, TypeOK
<1> QED BY <1>1, <1>2 DEF Body

\* Every step preserves the rest of the invariant: one case per action.
LEMMA LoopStep ==
  ASSUME LoopInv, [Next]_vars
  PROVE  TypeOK' /\ LoopFlags' /\ Lifecycle' /\ NoLostWakeup'
<1> USE OwnerAssumption
    DEF LoopInv, TypeOK, LoopPc, ClientPc, Channel, LoopFlags, Lifecycle, NoLostWakeup
<1>1. CASE StartLoop
  BY <1>1 DEF StartLoop
<1>2. CASE StartLoopReturns
  BY <1>2 DEF StartLoopReturns
<1>3. CASE Publish
  BY <1>3 DEF Publish
<1>4. CASE EnterLoop
  BY <1>4 DEF EnterLoop
<1>5. CASE CheckQuit
  BY <1>5 DEF CheckQuit
<1>6. CASE PollReady
  BY <1>6 DEF PollReady
<1>7. CASE PollTimeout
  BY <1>7 DEF PollTimeout
<1>8. CASE HandleWakeupRead
  BY <1>8 DEF HandleWakeupRead
<1>9. CASE BeginPending
  BY <1>9 DEF BeginPending
<1>10. CASE EndPending
  BY <1>10 DEF EndPending
<1>11. CASE Unpublish
  BY <1>11 DEF Unpublish
<1>12. CASE Destroy
  BY <1>12 DEF Destroy
<1>13. CASE QuitStore
  BY <1>13 DEF QuitStore
<1>14. CASE QuitWakeup
  BY <1>14 DEF QuitWakeup
<1>15. CASE Join
  BY <1>15 DEF Join
<1>16. CASE SwapPending
  BY <1>16, EmptySeq DEF SwapPending
<1>17. CASE RunFunctor
  <2>1. executed' \in Seq(Functor) /\ functors' \in Seq(Functor)
    BY <1>17, HeadTailProperties, PushTypes DEF RunFunctor
  <2> QED BY <1>17, <2>1, BodyTypes DEF RunFunctor
<1>18. CASE HandleIo
  BY <1>18, BodyTypes DEF HandleIo
<1>19. CASE \E c \in Client : QueueInLoop(c)
  <2>1. PICK c \in Client : QueueInLoop(c)
    BY <1>19
  <2>2. pending' \in Seq(Functor) /\ accepted' \in Seq(Functor)
    BY <2>1, PushTypes DEF QueueInLoop, Fresh
  <2>3. clientPc'[c] = "wake" /\ clientPc[c] = "idle"
    BY <2>1 DEF QueueInLoop
  <2>4. Lifecycle'
    BY <2>1, <2>3 DEF QueueInLoop
  <2> QED BY <2>1, <2>2, <2>3, <2>4 DEF QueueInLoop
<1>20. CASE \E c \in Client : Wakeup(c)
  BY <1>20 DEF Wakeup
<1>21. CASE \E c \in Client : UseDestroyed(c)
  BY <1>21 DEF UseDestroyed
<1>22. CASE UNCHANGED vars
  BY <1>22 DEF vars
<1> QED
  BY <1>1, <1>2, <1>3, <1>4, <1>5, <1>6, <1>7, <1>8, <1>9, <1>10, <1>11, <1>12, <1>13, <1>14, <1>15, <1>16, <1>17, <1>18, <1>19, <1>20, <1>21, <1>22
  DEF Next, LoopThread, OwnerThread, Finished

-----------------------------------------------------------------------------
(* The theorems. *)

\* LoopInv holds in every state the loop, its owner and its clients can reach.
THEOREM LoopInvariant == Spec => []LoopInv
<1>1. Init => LoopInv
  BY LoopInit
<1>2. LoopInv /\ [Next]_vars => LoopInv'
  BY LoopStep, FifoStep DEF LoopInv
<1> QED BY <1>1, <1>2, PTL DEF Spec

\* The variables keep their types.
THEOREM TypeCorrect == Spec => []TypeOK
<1>1. LoopInv => TypeOK
  BY DEF LoopInv
<1> QED BY <1>1, LoopInvariant, PTL

\* queueInLoop never leaves a closure behind a sleeping epoll_wait, for any
\* number of threads that queue.
THEOREM WakeupNeverLost == Spec => []NoLostWakeup
<1>1. LoopInv => NoLostWakeup
  BY DEF LoopInv
<1> QED BY <1>1, LoopInvariant, PTL

\* Closures run at most once and in the order mutex_ admitted them, none lost.
THEOREM QueueIsFifo == Spec => []FifoExactlyOnce
<1>1. LoopInv => FifoExactlyOnce
  BY DEF LoopInv
<1> QED BY <1>1, LoopInvariant, PTL

\* ~EventLoopThread always finds a loop to quit and a thread to join.
THEOREM OwnerAlwaysFindsLoop == Spec => []OwnerFindsLoop
<1>1. LoopInv => OwnerFindsLoop
  BY OwnerAssumption DEF LoopInv, TypeOK, LoopPc, ClientPc, LoopFlags, Lifecycle, OwnerFindsLoop
<1> QED BY <1>1, LoopInvariant, PTL

\* A joined loop has finished its batch.
THEOREM JoinWaitsForBatch == Spec => []JoinedAfterBatch
<1>1. LoopInv => JoinedAfterBatch
  BY DEF LoopInv, LoopFlags, Lifecycle, JoinedAfterBatch
<1> QED BY <1>1, LoopInvariant, PTL

-----------------------------------------------------------------------------
(* The loop implements Executor. *)

\* A push at the end of pendingFunctors_ is a push at the end of the
\* Executor's queue.
LEMMA QueuePush ==
  ASSUME NEW a \in Seq(Functor), NEW b \in Seq(Functor), NEW x \in Functor
  PROVE  a \o Append(b, x) = Append(a \o b, x)
<1>1. <<>> \in Seq(Functor) /\ <<>> \o a = a
  BY EmptySeq, ConcatEmptySeq
<1> QED BY <1>1, AppendLast

\* Taking the head of the batch takes the head of the queue.
LEMMA QueueHead ==
  ASSUME NEW a \in Seq(Functor), NEW b \in Seq(Functor), a # <<>>
  PROVE  /\ a \o b # <<>>
         /\ Head(a \o b) = Head(a)
         /\ Tail(a \o b) = Tail(a) \o b
         /\ Tail(a) \in Seq(Functor)
<1>1. /\ Head(a) \in Functor /\ Tail(a) \in Seq(Functor)
      /\ <<Head(a)>> \in Seq(Functor)
  BY HeadTailProperties
<1>2. a = <<Head(a)>> \o Tail(a)
  OBVIOUS
<1>3. a \o b = <<Head(a)>> \o (Tail(a) \o b)
  BY <1>1, <1>2, ConcatAssociative
<1>4. Tail(a) \o b \in Seq(Functor)
  BY <1>1, ConcatProperties
<1> QED BY <1>1, <1>3, <1>4

\* A step that leaves the queue alone and neither moves the loop to another
\* phase nor the owner to another stage of its stop is not visible.
LEMMA Invisible ==
  ASSUME UNCHANGED <<pending, functors, accepted, executed>>, Phase' = Phase,
         clientPc'[Owner] = clientPc[Owner]
           \/ {clientPc[Owner], clientPc'[Owner]} \subseteq {"off", "wait", "idle", "wake"}
           \/ {clientPc[Owner], clientPc'[Owner]} \subseteq {"quit", "join", "astray"}
  PROVE  UNCHANGED X!vars
BY DEF X!vars

\* What a handler or a closure hands over, it hands over to the Executor.
LEMMA BodySubmits ==
  ASSUME TypeOK, Body, NEW q \in Seq(Functor)
  PROVE  \/ q \o pending' = q \o pending /\ accepted' = accepted
         \/ \E j \in X!New : /\ q \o pending' = Append(q \o pending, j)
                             /\ accepted' = Append(accepted, j)
<1>1. CASE UNCHANGED <<pending, accepted, wakeups>>
  BY <1>1
<1>2. CASE \E f \in Fresh : LoopQueues(f)
  <2>1. PICK f \in Fresh : LoopQueues(f)
    BY <1>2
  <2>2. f \in X!New /\ f \in Functor
    BY DEF Fresh, X!New
  <2>3. q \o Append(pending, f) = Append(q \o pending, f)
    BY <2>2, QueuePush DEF TypeOK
  <2> QED BY <2>1, <2>2, <2>3 DEF LoopQueues
<1> QED BY <1>1, <1>2 DEF Body

\* Every step of the loop, its owner or a client is a step of the Executor or
\* invisible: one case per action.
LEMMA ExecutorStep ==
  ASSUME LoopInv, [Next]_vars
  PROVE  [X!Next]_(X!vars)
<1> USE OwnerAssumption DEF LoopInv
<1>a. TypeOK /\ LoopFlags /\ Lifecycle
  OBVIOUS
<1>1. CASE StartLoop
  BY <1>1, Invisible DEF StartLoop, Phase, TypeOK
<1>2. CASE StartLoopReturns
  BY <1>2, Invisible DEF StartLoopReturns, Phase
<1>3. CASE Publish
  <2> X!Open
    BY <1>3 DEF Publish, Phase, X!Open
  <2> QED BY DEF X!Next
<1>4. CASE EnterLoop
  BY <1>4, Invisible DEF EnterLoop, Phase
<1>5. CASE CheckQuit /\ ~quit
  BY <1>5, Invisible DEF CheckQuit, Phase
<1>6. CASE CheckQuit /\ quit
  <2> X!End
    BY <1>6, <1>a DEF CheckQuit, Phase, Lifecycle, X!End
  <2> QED BY DEF X!Next
<1>7. CASE PollReady \/ PollTimeout \/ HandleWakeupRead \/ BeginPending \/ EndPending
  BY <1>7, Invisible
  DEF PollReady, PollTimeout, HandleWakeupRead, BeginPending, EndPending, Phase
<1>8. CASE Unpublish \/ Destroy
  BY <1>8, Invisible DEF Unpublish, Destroy, Phase
<1>9. CASE QuitStore
  <2>1. Phase = "running"
    BY <1>9, <1>a DEF QuitStore, Phase, Lifecycle, LoopFlags, TypeOK, LoopPc
  <2>2. clientPc[Owner] = "idle" /\ clientPc'[Owner] = "quit"
    BY <1>9, <1>a DEF QuitStore, TypeOK
  <2> X!RequestStop
    BY <1>9, <2>1, <2>2 DEF QuitStore, Phase, X!RequestStop
  <2> QED BY DEF X!Next
<1>10. CASE QuitWakeup
  BY <1>10, Invisible DEF QuitWakeup, Phase, TypeOK
<1>11. CASE Join
  <2>1. clientPc[Owner] = "join" /\ clientPc'[Owner] = "done"
    BY <1>11, <1>a DEF Join, TypeOK
  <2> X!Release
    BY <1>11, <2>1 DEF Join, Phase, X!Release
  <2> QED BY DEF X!Next
<1>12. CASE SwapPending
  <2>1. functors = <<>> /\ pending \in Seq(Functor) /\ functors' = pending /\ pending' = <<>>
    BY <1>12, <1>a DEF SwapPending, LoopFlags, TypeOK
  <2>2. functors' \o pending' = functors \o pending
    BY <2>1, ConcatEmptySeq
  <2> QED BY <1>12, <2>2 DEF SwapPending, Phase, X!vars
<1>13. CASE RunFunctor
  <2>1. /\ functors \in Seq(Functor) /\ pending \in Seq(Functor) /\ functors # <<>>
        /\ functors' = Tail(functors) /\ Phase = "running" /\ Phase' = Phase
        /\ executed' = Append(executed, Head(functors)) /\ Body
        /\ clientPc' = clientPc
    BY <1>13, <1>a DEF RunFunctor, TypeOK, Phase
  <2>2. /\ functors \o pending # <<>>
        /\ Head(functors \o pending) = Head(functors)
        /\ Tail(functors \o pending) = Tail(functors) \o pending
        /\ Tail(functors) \in Seq(Functor)
    BY <2>1, QueueHead
  <2>3. CASE Tail(functors) \o pending' = Tail(functors) \o pending /\ accepted' = accepted
    <3> X!RunNext
      BY <2>1, <2>2, <2>3 DEF X!RunNext
    <3> QED BY DEF X!Next
  <2>4. CASE \E j \in X!New : /\ Tail(functors) \o pending' = Append(Tail(functors) \o pending, j)
                              /\ accepted' = Append(accepted, j)
    <3>1. PICK j \in X!New : /\ Tail(functors) \o pending' = Append(Tail(functors) \o pending, j)
                             /\ accepted' = Append(accepted, j)
      BY <2>4
    <3> X!RunAndSubmit(j)
      BY <2>1, <2>2, <3>1 DEF X!RunAndSubmit
    <3> QED BY DEF X!Next
  <2> QED BY <2>1, <2>2, <2>3, <2>4, <1>a, BodySubmits
<1>14. CASE HandleIo
  <2>1. /\ functors \in Seq(Functor) /\ Phase = "running" /\ Phase' = Phase
        /\ UNCHANGED <<functors, executed, clientPc>> /\ Body
        /\ clientPc[Owner] # "done"
    BY <1>14, <1>a DEF HandleIo, TypeOK, Phase, Lifecycle
  <2>2. CASE functors \o pending' = functors \o pending /\ accepted' = accepted
    BY <2>1, <2>2 DEF X!vars
  <2>3. CASE \E j \in X!New : /\ functors \o pending' = Append(functors \o pending, j)
                              /\ accepted' = Append(accepted, j)
    <3>1. PICK j \in X!New : /\ functors \o pending' = Append(functors \o pending, j)
                             /\ accepted' = Append(accepted, j)
      BY <2>3
    <3> X!Submit(j)
      BY <2>1, <3>1 DEF X!Submit
    <3> QED BY DEF X!Next
  <2> QED BY <2>1, <2>2, <2>3, <1>a, BodySubmits
<1>15. CASE \E c \in Client : QueueInLoop(c)
  <2>1. PICK c \in Client : QueueInLoop(c)
    BY <1>15
  <2>2. PICK f \in Fresh : pending' = Append(pending, f) /\ accepted' = Append(accepted, f)
    BY <2>1 DEF QueueInLoop
  <2>3. f \in X!New /\ f \in Functor
    BY DEF Fresh, X!New
  <2>4. functors \o pending' = Append(functors \o pending, f)
    BY <2>2, <2>3, <1>a, QueuePush DEF TypeOK
  <2>5. /\ Phase \in {"running", "ended"} /\ Phase' = Phase
        /\ UNCHANGED <<functors, executed>>
    BY <2>1, <1>a DEF QueueInLoop, Phase, Lifecycle, LoopFlags, TypeOK, LoopPc
  <2>6. /\ clientPc[c] = "idle" /\ clientPc' = [clientPc EXCEPT ![c] = "wake"]
        /\ loopPc # "gone"
    BY <2>1 DEF QueueInLoop
  <2>7. /\ clientPc[Owner] # "done"
        /\ \/ clientPc'[Owner] = clientPc[Owner]
           \/ {clientPc[Owner], clientPc'[Owner]} \subseteq {"idle", "wake"}
    BY <2>6, <1>a DEF Lifecycle, TypeOK
  <2>8. /\ (clientPc'[Owner] \in {"quit", "join", "done", "astray"})
             = (clientPc[Owner] \in {"quit", "join", "done", "astray"})
        /\ (clientPc'[Owner] = "done") = (clientPc[Owner] = "done")
    BY <2>7
  <2> X!Submit(f)
    BY <2>2, <2>4, <2>5, <2>7, <2>8 DEF X!Submit
  <2> QED BY <2>3 DEF X!Next
<1>16. CASE \E c \in Client : Wakeup(c)
  <2>1. PICK c \in Client : Wakeup(c)
    BY <1>16
  <2>2. \/ clientPc'[Owner] = clientPc[Owner]
        \/ {clientPc[Owner], clientPc'[Owner]} \subseteq {"off", "wait", "idle", "wake"}
    BY <2>1, <1>a DEF Wakeup, TypeOK
  <2> QED BY <2>1, <2>2, Invisible DEF Wakeup, Phase
<1>17. CASE \E c \in Client : UseDestroyed(c)
  <2>1. PICK c \in Client : UseDestroyed(c)
    BY <1>17
  <2>2. clientPc[Owner] \in {"quit", "join", "done", "astray"}
    BY <2>1, <1>a DEF UseDestroyed, Lifecycle
  <2>3. \/ clientPc'[Owner] = clientPc[Owner]
        \/ clientPc[Owner] \in {"quit", "join"} /\ clientPc'[Owner] = "astray"
    BY <2>1, <2>2 DEF UseDestroyed
  <2>4. \/ clientPc'[Owner] = clientPc[Owner]
        \/ {clientPc[Owner], clientPc'[Owner]} \subseteq {"quit", "join", "astray"}
    BY <2>3
  <2> QED BY <2>1, <2>4, Invisible DEF UseDestroyed, Phase
<1>18. CASE UNCHANGED vars
  BY <1>18, Invisible DEF vars, Phase
<1> QED
  BY <1>1, <1>2, <1>3, <1>4, <1>5, <1>6, <1>7, <1>8, <1>9, <1>10, <1>11, <1>12, <1>13, <1>14, <1>15, <1>16, <1>17, <1>18
  DEF Next, LoopThread, OwnerThread, Finished

\* EventLoop implements Executor: for any threads and closures the task queue,
\* its wake-ups and the life of its thread are one queue with one server.
THEOREM LoopImplementsExecutor == Spec => RefinesExecutor
<1>1. Init => X!Init
  BY OwnerAssumption, EmptySeq, ConcatEmptySeq DEF Init, Phase, X!Init
<1>2. LoopInv /\ [Next]_vars => [X!Next]_(X!vars)
  BY ExecutorStep
<1> QED BY <1>1, <1>2, LoopInvariant, PTL DEF Spec, RefinesExecutor, X!Spec

-----------------------------------------------------------------------------
(* The timers, for any set of timers and any delays. *)

USE DelayAssumption

\* The invariant holds initially.
LEMMA TimerInvInit == TimerInit => TimerInv
<1> SUFFICES ASSUME TimerInit PROVE TimerInv
  OBVIOUS
<1>1. pc = "idle" /\ timers = {} /\ expired = {} /\ current = {} /\ tokens = {}
      /\ cancelled = {} /\ final = {}
  BY DEF TimerInit
<1>2. TimerTypeOK
  BY DEF TimerInit, TimerTypeOK, Pc, Kind
<1>3. Scheduled = {}
  BY <1>1 DEF Scheduled
<1>4. CallNotLate /\ CancelIsFinal
  BY DEF TimerInit, CallNotLate, CancelIsFinal
<1>5. OneWrapper /\ OneEntryPerTimer /\ TimerfdCoversTimers
  BY <1>1 DEF OneWrapper, OneEntryPerTimer, TimerfdCoversTimers
<1>6. OnlyStarted /\ TokensMatchTimers
  BY <1>1, <1>3 DEF OnlyStarted, TokensMatchTimers
<1> QED
  BY <1>2, <1>4, <1>5, <1>6 DEF TimerInv

-----------------------------------------------------------------------------
\* timers_.emplace of an id that has no entry: one more id is scheduled, it
\* still has one entry only, and the timerfd covers the new entry whenever it
\* covered the others.
LEMMA EmplaceFresh ==
  ASSUME TimerInv, NEW id \in Timer, NEW left \in Nat, Emplace(id, left),
         id \notin Scheduled
  PROVE  /\ timers' \in SUBSET Entry /\ armed' \in BOOLEAN /\ fdLeft' \in Nat
         /\ {e.id : e \in timers'} = {e.id : e \in timers} \cup {id}
         /\ \A e, d \in timers' : e.id = d.id => e = d
         /\ pc = "idle" =>
              \A e \in timers' : armed' /\ (fdLeft' <= e.left \/ fdLeft' <= 1)
<1> DEFINE new == [id |-> id, left |-> left]
<1>1. timers' = timers \cup {new} /\ new \in Entry /\ new.id = id /\ new.left = left
  BY DEF Emplace, Entry
<1>2. timers \in SUBSET Entry /\ armed \in BOOLEAN /\ fdLeft \in Nat
  BY DEF TimerInv, TimerTypeOK
<1>3. \A e \in timers : e.id # id /\ e.left \in Nat
  BY <1>2 DEF Scheduled, Entry
<1>4. armed' \in BOOLEAN /\ fdLeft' \in Nat
  <2>1. CASE ResetTimerFd(left)
    BY <2>1 DEF ResetTimerFd
  <2>2. CASE UNCHANGED <<armed, fdLeft>>
    BY <1>2, <2>2
  <2> QED
    BY <2>1, <2>2 DEF Emplace
<1>5. \A e, d \in timers' : e.id = d.id => e = d
  BY <1>1, <1>3 DEF TimerInv, OneEntryPerTimer
<1>6. ASSUME pc = "idle", NEW e \in timers'
      PROVE  armed' /\ (fdLeft' <= e.left \/ fdLeft' <= 1)
  <2>1. \A d \in timers : armed /\ (fdLeft <= d.left \/ fdLeft <= 1)
    BY <1>6 DEF TimerInv, TimerfdCoversTimers
  <2>2. CASE \A d \in timers : left <= d.left
    <3>1. armed' /\ fdLeft' = (IF left < 1 THEN 1 ELSE left)
      BY <2>2 DEF Emplace, ResetTimerFd
    <3>2. e.left \in Nat /\ left <= e.left
      BY <1>1, <1>3, <2>2
    <3> QED
      BY <3>1, <3>2
  <2>3. CASE ~ \A d \in timers : left <= d.left
    <3>1. UNCHANGED <<armed, fdLeft>>
      BY <2>3 DEF Emplace
    <3>2. PICK d \in timers : ~(left <= d.left)
      BY <2>3
    <3>3. armed /\ (fdLeft <= left \/ fdLeft <= 1)
      BY <1>2, <1>3, <2>1, <3>2
    <3> QED
      BY <1>1, <2>1, <3>1, <3>3
  <2> QED
    BY <2>2, <2>3
<1> HIDE DEF new
<1>7. timers' \in SUBSET Entry
  BY <1>1, <1>2
<1>8. {e.id : e \in timers'} = {e.id : e \in timers} \cup {id}
  BY <1>1
<1> QED
  BY <1>4, <1>5, <1>6, <1>7, <1>8

\* runAt and runEvery.
LEMMA StartStep ==
  ASSUME TimerInv, NEW id \in Timer, NEW delay \in Delay,
         RunAt(id, delay) \/ RunEvery(id, delay)
  PROVE  TimerInv'
<1>1. /\ pc \in {"idle", "body"} /\ started[id] = "no" /\ Emplace(id, delay)
      /\ tokens' = tokens \cup {id}
      /\ UNCHANGED <<pc, expired, current, cancelled, reported, final, late>>
      /\ started'[id] # "no" /\ started' \in [Timer -> Kind]
      /\ \A t \in Timer \ {id} : started'[t] = started[t]
      /\ interval' \in [Timer -> Delay \cup {0}]
  BY DEF RunAt, RunEvery, InUserCode, TimerInv, TimerTypeOK, Kind
<1>2. id \notin Scheduled \cup current \cup cancelled
  BY <1>1 DEF TimerInv, OnlyStarted
<1>3. /\ timers' \in SUBSET Entry /\ armed' \in BOOLEAN /\ fdLeft' \in Nat
      /\ {e.id : e \in timers'} = {e.id : e \in timers} \cup {id}
      /\ \A e, d \in timers' : e.id = d.id => e = d
      /\ pc = "idle" =>
           \A e \in timers' : armed' /\ (fdLeft' <= e.left \/ fdLeft' <= 1)
  BY <1>1, <1>2, EmplaceFresh
<1>4. Scheduled' = Scheduled \cup {id}
  BY <1>1, <1>3 DEF Scheduled
<1>5. TimerTypeOK' /\ OneWrapper' /\ CallNotLate' /\ CancelIsFinal' /\ TimerfdCoversTimers'
  BY <1>1, <1>3 DEF TimerInv, TimerTypeOK, OneWrapper, CallNotLate, CancelIsFinal,
     TimerfdCoversTimers
<1>6. OneEntryPerTimer'
  <2>1. \A e \in timers' : e.id \in {d.id : d \in timers} \cup {id}
    BY <1>3
  <2> QED
    BY <1>1, <1>2, <1>3, <2>1 DEF TimerInv, OneEntryPerTimer, Scheduled
<1>7. OnlyStarted'
  BY <1>1, <1>2, <1>4 DEF TimerInv, TimerTypeOK, OnlyStarted, Scheduled, Entry
<1>8. TokensMatchTimers'
  BY <1>1, <1>2, <1>4 DEF TimerInv, TokensMatchTimers
<1> QED
  BY <1>5, <1>6, <1>7, <1>8 DEF TimerInv

\* cancelTimer, on the loop thread or on another one.
LEMMA CancelStep ==
  ASSUME TimerInv, NEW id \in Timer, CancelInLoop(id) \/ CancelElsewhere(id)
  PROVE  TimerInv'
<1>1. /\ id \in tokens /\ cancelled' = cancelled \cup {id} /\ tokens' = tokens \ {id}
      /\ UNCHANGED <<pc, started, interval, timers, expired, current, armed,
                     fdLeft, reported, late>>
      /\ final' = final \/ (final' = final \cup {id} /\ pc # "call")
  BY DEF CancelInLoop, CancelElsewhere, CancelTimer, InUserCode
<1>2. id \notin cancelled /\ id \in Scheduled \cup current
  BY <1>1 DEF TimerInv, TokensMatchTimers
<1>3. late[id] = 0
  BY <1>2 DEF TimerInv, CallNotLate, TimerTypeOK
<1>4. Scheduled' = Scheduled
  BY <1>1 DEF Scheduled
<1>5. TimerTypeOK' /\ OneWrapper' /\ OneEntryPerTimer' /\ TimerfdCoversTimers'
  BY <1>1 DEF TimerInv, TimerTypeOK, OneWrapper, OneEntryPerTimer, TimerfdCoversTimers
<1>6. OnlyStarted' /\ TokensMatchTimers'
  BY <1>1, <1>2, <1>4 DEF TimerInv, OnlyStarted, TokensMatchTimers
<1>7. CallNotLate' /\ CancelIsFinal'
  BY <1>1, <1>3 DEF TimerInv, CallNotLate, CancelIsFinal
<1> QED
  BY <1>5, <1>6, <1>7 DEF TimerInv

\* A tick brings every entry and the timerfd one tick nearer, and changes the
\* order of none of them.
LEMMA TickStep ==
  ASSUME TimerInv, Tick
  PROVE  TimerInv'
<1> DEFINE Older(e) == [e EXCEPT !.left = IF @ = 0 THEN 0 ELSE @ - 1]
<1>1. /\ timers' = {Older(e) : e \in timers}
      /\ fdLeft' = IF armed /\ fdLeft > 0 THEN fdLeft - 1 ELSE fdLeft
      /\ UNCHANGED <<pc, started, interval, expired, current, tokens, cancelled,
                     armed, reported, final, late>>
  BY DEF Tick
<1>2. \A e \in timers : /\ e \in Entry /\ Older(e) \in Entry
                        /\ Older(e).id = e.id /\ e.left \in Nat
                        /\ Older(e).left = IF e.left = 0 THEN 0 ELSE e.left - 1
  BY DEF TimerInv, TimerTypeOK, Entry
<1> HIDE DEF Older
<1>3. {e.id : e \in timers'} = {e.id : e \in timers}
  BY <1>1, <1>2
<1>4. Scheduled' = Scheduled
  BY <1>1, <1>3 DEF Scheduled
<1>5. timers' \in SUBSET Entry /\ fdLeft' \in Nat
  BY <1>1, <1>2 DEF TimerInv, TimerTypeOK
<1>6. OneEntryPerTimer'
  <2>1. ASSUME NEW e \in timers', NEW d \in timers', e.id = d.id PROVE e = d
    <3>1. PICK f \in timers : e = Older(f)
      BY <1>1
    <3>2. PICK g \in timers : d = Older(g)
      BY <1>1
    <3>3. f = g
      BY <1>2, <2>1, <3>1, <3>2 DEF TimerInv, OneEntryPerTimer
    <3> QED
      BY <3>1, <3>2, <3>3
  <2>2. \A e \in timers' : e.id \notin expired' \cup current'
    BY <1>1, <1>2 DEF TimerInv, OneEntryPerTimer
  <2> QED
    BY <1>1, <2>1, <2>2 DEF TimerInv, OneEntryPerTimer
<1>7. TimerfdCoversTimers'
  <2> SUFFICES ASSUME pc = "idle", NEW f \in timers'
               PROVE  armed /\ (fdLeft' <= f.left \/ fdLeft' <= 1)
    BY <1>1 DEF TimerfdCoversTimers
  <2>1. PICK e \in timers : f = Older(e)
    BY <1>1
  <2>2. armed /\ (fdLeft <= e.left \/ fdLeft <= 1) /\ fdLeft \in Nat
    BY DEF TimerInv, TimerTypeOK, TimerfdCoversTimers
  <2> QED
    BY <1>1, <1>2, <2>1, <2>2
<1> QED
  BY <1>1, <1>4, <1>5, <1>6, <1>7 DEF TimerInv, TimerTypeOK, OneWrapper, OnlyStarted,
     CallNotLate, TokensMatchTimers, CancelIsFinal

-----------------------------------------------------------------------------
\* The steps of processTimers that move an id between timers_, expiredTimers_
\* and the wrapper on the stack.
LEMMA ReadStep ==
  ASSUME TimerInv, HandleTimerRead
  PROVE  TimerInv'
<1>1. /\ expired' = {e.id : e \in {d \in timers : d.left = 0}}
      /\ timers' = {e \in timers : e.left > 0} /\ pc = "idle" /\ pc' = "next"
      /\ UNCHANGED <<started, interval, current, tokens, cancelled, fdLeft,
                     final, late>>
      /\ reported' = FALSE /\ armed' = FALSE
  BY DEF HandleTimerRead, CollectExpired
<1>2. current = {} /\ expired = {} /\ timers \in SUBSET Entry
  BY <1>1 DEF TimerInv, OneWrapper, TimerTypeOK
<1>3. \A e \in timers : e.left \in Nat /\ e.id \in Timer
  BY <1>2 DEF Entry
<1>4. Scheduled' = Scheduled
  <2>1. {e.id : e \in timers'} \cup expired' = {e.id : e \in timers}
    BY <1>1, <1>3
  <2> QED
    BY <1>2, <2>1 DEF Scheduled
<1>5. OneEntryPerTimer'
  BY <1>1, <1>2, <1>3 DEF TimerInv, OneEntryPerTimer
<1>6. TimerTypeOK'
  BY <1>1, <1>2, <1>3 DEF TimerInv, TimerTypeOK, Pc
<1> QED
  BY <1>1, <1>2, <1>4, <1>5, <1>6 DEF TimerInv, OneWrapper, OnlyStarted, CallNotLate,
     TimerfdCoversTimers, TokensMatchTimers, CancelIsFinal

\* LoadToken, EndOnce, ReloadToken and Requeue: one wrapper from its first
\* look at the token to its end.
LEMMA WrapperStep ==
  ASSUME TimerInv, NEW id \in Timer,
         LoadToken(id) \/ EndOnce(id) \/ ReloadToken(id) \/ Requeue(id)
  PROVE  TimerInv'
<1> USE DEF TimerInv
<1>1. CASE LoadToken(id)
  <2>1. Scheduled' \cup current' = Scheduled \cup current
    BY <1>1 DEF LoadToken, Scheduled, OneWrapper, OneEntryPerTimer
  <2>2. TimerTypeOK' /\ OneWrapper' /\ OneEntryPerTimer' /\ TimerfdCoversTimers'
    BY <1>1 DEF LoadToken, TimerTypeOK, Pc, OneWrapper, OneEntryPerTimer,
       TimerfdCoversTimers
  <2>3. CallNotLate' /\ CancelIsFinal'
    BY <1>1 DEF LoadToken, TimerTypeOK, CallNotLate, CancelIsFinal
  <2> QED
    BY <1>1, <2>1, <2>2, <2>3 DEF LoadToken, OnlyStarted, TokensMatchTimers
<1>2. CASE EndOnce(id) \/ Requeue(id) \/ (ReloadToken(id) /\ id \in cancelled)
  <2>1. /\ current = {id} /\ current' = {} /\ pc' = "next"
        /\ pc \in {"after", "requeue"}
        /\ UNCHANGED <<started, interval, expired, cancelled, reported, final, late>>
    BY <1>2 DEF EndOnce, Requeue, ReloadToken, OneWrapper
  <2>2. id \notin Scheduled
    BY <2>1 DEF Scheduled, OneEntryPerTimer
  <2>3. TimerTypeOK' /\ OneEntryPerTimer' /\ OnlyStarted' /\ TokensMatchTimers'
    <3>1. CASE Requeue(id)
      <4>1. /\ timers' \in SUBSET Entry /\ armed' \in BOOLEAN /\ fdLeft' \in Nat
            /\ {e.id : e \in timers'} = {e.id : e \in timers} \cup {id}
            /\ \A e, d \in timers' : e.id = d.id => e = d
        BY <2>2, <3>1, EmplaceFresh DEF Requeue, TimerTypeOK
      <4>2. Scheduled' \cup current' = Scheduled \cup current
        BY <2>1, <4>1 DEF Scheduled
      <4>3. \A e \in timers' : e.id \in {d.id : d \in timers} \cup {id}
        BY <4>1
      <4> QED
        BY <2>1, <2>2, <3>1, <4>1, <4>2, <4>3 DEF Requeue, TimerTypeOK, Pc, Scheduled,
           OneEntryPerTimer, OnlyStarted, TokensMatchTimers
    <3>2. CASE ~Requeue(id)
      <4>1. UNCHANGED <<timers, armed, fdLeft>> /\ tokens' = tokens \ {id}
        BY <1>2, <2>1, <3>2 DEF EndOnce, ReloadToken, TokensMatchTimers
      <4>2. Scheduled' = Scheduled
        BY <2>1, <4>1 DEF Scheduled
      <4> QED
        BY <2>1, <2>2, <4>1, <4>2 DEF TimerTypeOK, Pc, OneEntryPerTimer, OnlyStarted,
           TokensMatchTimers
    <3> QED
      BY <3>1, <3>2
  <2> QED
    BY <2>1, <2>3 DEF OneWrapper, CallNotLate, TimerfdCoversTimers, CancelIsFinal
<1>3. CASE ReloadToken(id) /\ id \notin cancelled
  BY <1>3 DEF ReloadToken, TimerTypeOK, Pc, OneWrapper, OneEntryPerTimer, OnlyStarted,
     CallNotLate, TimerfdCoversTimers, TokensMatchTimers, CancelIsFinal, Scheduled
<1> QED
  BY <1>1, <1>2, <1>3

\* The steps that touch no timer: the user's callback and the timerfd.
LEMMA TimerLoopStep ==
  ASSUME TimerInv,
         \/ Poll \/ LeaveCallback \/ EndProcessTimers
         \/ UNCHANGED timerVars
         \/ \E id \in Timer : EnterCallback(id)
  PROVE  TimerInv'
<1> USE DEF TimerInv
<1>1. /\ UNCHANGED <<started, interval, timers, expired, current, tokens,
                     cancelled, final>>
      /\ Scheduled' = Scheduled
  BY DEF Poll, LeaveCallback, EndProcessTimers, timerVars,
         EnterCallback, Scheduled
<1>2. OneEntryPerTimer' /\ OnlyStarted' /\ TokensMatchTimers'
  BY <1>1 DEF OneEntryPerTimer, OnlyStarted, TokensMatchTimers
<1>3. CASE Poll \/ LeaveCallback \/ UNCHANGED timerVars
  BY <1>1, <1>2, <1>3 DEF Poll, LeaveCallback, timerVars, TimerTypeOK,
     Pc, OneWrapper, CallNotLate, TimerfdCoversTimers, CancelIsFinal
<1>4. CASE EndProcessTimers
  <2>1. /\ pc = "next" /\ expired = {} /\ pc' = "idle" /\ UNCHANGED <<reported, late>>
        /\ armed' \in BOOLEAN /\ fdLeft' \in Nat
        /\ \A e \in timers : armed' /\ (fdLeft' <= e.left \/ fdLeft' <= 1)
    <3>1. /\ pc = "next" /\ expired = {} /\ pc' = "idle" /\ UNCHANGED <<reported, late>>
      BY <1>4 DEF EndProcessTimers
    <3>2. CASE timers = {} /\ UNCHANGED <<armed, fdLeft>>
      BY <3>1, <3>2 DEF TimerTypeOK
    <3>3. ASSUME NEW e \in timers, \A d \in timers : e.left <= d.left,
                 ResetTimerFd(e.left)
          PROVE  /\ armed' /\ fdLeft' \in Nat
                 /\ \A d \in timers : fdLeft' <= d.left \/ fdLeft' <= 1
      <4>1. \A d \in timers : d.left \in Nat
        BY DEF TimerTypeOK, Entry
      <4> QED
        BY <3>3, <4>1 DEF ResetTimerFd
    <3> QED
      BY <1>4, <3>1, <3>2, <3>3 DEF EndProcessTimers, ResetTimerFd
  <2> QED
    BY <1>1, <1>2, <2>1 DEF TimerTypeOK, Pc, OneWrapper, CallNotLate,
       TimerfdCoversTimers, CancelIsFinal
<1>5. ASSUME NEW id \in Timer, EnterCallback(id) PROVE TimerInv'
  <2>1. /\ pc = "call" /\ pc' = "body" /\ id \in current
        /\ UNCHANGED <<armed, fdLeft, reported>>
        /\ late' = IF id \in cancelled THEN [late EXCEPT ![id] = @ + 1] ELSE late
    BY <1>5 DEF EnterCallback
  <2>2. late[id] = 0 /\ id \notin final
    BY <2>1 DEF CallNotLate
  <2>3. CallNotLate' /\ CancelIsFinal'
    BY <1>1, <2>1, <2>2 DEF TimerTypeOK, CallNotLate, CancelIsFinal
  <2> QED
    BY <1>1, <1>2, <2>1, <2>3 DEF TimerTypeOK, Pc, OneWrapper, TimerfdCoversTimers
<1> QED
  BY <1>3, <1>4, <1>5

\* Every step preserves the invariant.
LEMMA TimerStep == TimerInv /\ [TimerNext]_timerVars => TimerInv'
BY StartStep, CancelStep, TickStep, ReadStep, WrapperStep, TimerLoopStep
   DEF TimerNext, ProcessTimers, UserCall

\* The invariant of the timers of a loop holds in every reachable state.
THEOREM TimerInvariant == TimerSpec => []TimerInv
BY TimerInvInit, TimerStep, PTL DEF TimerSpec

\* Every variable keeps to its type.
THEOREM TimerTypeCorrect == TimerSpec => []TimerTypeOK
<1>1. TimerInv => TimerTypeOK
  BY DEF TimerInv
<1> QED
  BY <1>1, TimerInvariant, PTL

\* Outside processTimers no waiting timer is left without a timerfd that
\* expires for it in time.
THEOREM NoTimerStranded == TimerSpec => []TimerfdCoversTimers
<1>1. TimerInv => TimerfdCoversTimers
  BY DEF TimerInv
<1> QED
  BY <1>1, TimerInvariant, PTL

\* timerCancelTokens_ holds a token for exactly the timers that can still
\* fire: it neither leaks nor loses one.
THEOREM TokensExact == TimerSpec => []TokensMatchTimers
<1>1. TimerInv => TokensMatchTimers
  BY DEF TimerInv
<1> QED
  BY <1>1, TimerInvariant, PTL

\* A cancelled callback begins at most once more, and never again when the
\* loop thread cancelled it.
THEOREM CancelHolds == TimerSpec => []CancelIsFinal
<1>1. TimerInv => CancelIsFinal
  BY DEF TimerInv
<1> QED
  BY <1>1, TimerInvariant, PTL
=============================================================================
