------------------------- MODULE TcpConnectionProofs -------------------------
(***************************************************************************)
(* Proofs about TcpConnection, for any set of messages, either server,     *)
(* with and without resets and assertions, and any lag of the base loop.   *)
(***************************************************************************)
EXTENDS TcpConnection, SequenceTheorems, TLAPS

-----------------------------------------------------------------------------
(* Closures in a queue. *)

\* A closure that is one of the model's.
LEMMA DoIsTask ==
  ASSUME NEW op \in {"established", "forceClose", "destroyed"}
  PROVE  Do(op) \in Task /\ Do(op).op = op
BY DEF Do, Task

\* A send closure carries its message.
LEMMA SendIsTask ==
  ASSUME NEW m \in Msg
  PROVE  [op |-> "send", msg |-> m] \in Task /\ [op |-> "send", msg |-> m].op = "send"
BY DEF Task

\* The message of a send closure is one of the messages.
LEMMA TaskMsg ==
  ASSUME NEW t \in Task, t.op = "send" PROVE t.msg \in Msg
BY DEF Task, Do

\* An empty queue holds no closure.
LEMMA HasOpEmpty == ASSUME NEW op PROVE ~HasOp(<< >>, op)
BY DEF HasOp

\* A queue of one closure.
LEMMA HasOpOne ==
  ASSUME NEW t \in Task, NEW op PROVE HasOp(<<t>>, op) <=> t.op = op
BY DEF HasOp

\* queueInLoop adds one closure behind the others.
LEMMA HasOpAppend ==
  ASSUME NEW q \in Seq(Task), NEW t \in Task, NEW op
  PROVE  /\ Append(q, t) \in Seq(Task)
         /\ HasOp(Append(q, t), op) <=> HasOp(q, op) \/ t.op = op
<1> DEFINE n == Len(q)
           a == Append(q, t)
<1>1. /\ n \in Nat /\ a \in Seq(Task) /\ Len(a) = n + 1 /\ a[n + 1] = t
      /\ \A i \in 1 .. n : a[i] = q[i]
  BY AppendProperties
<1>2. HasOp(a, op) <=> \E i \in 1 .. n + 1 : a[i].op = op
  BY <1>1 DEF HasOp
<1>3. HasOp(q, op) <=> \E i \in 1 .. n : q[i].op = op
  BY DEF HasOp
<1> HIDE DEF n, a
<1>4. HasOp(a, op) <=> HasOp(q, op) \/ t.op = op
  BY <1>1, <1>2, <1>3
<1> QED
  BY <1>1, <1>4 DEF a

\* Running the first closure leaves the others.
LEMMA HasOpHeadTail ==
  ASSUME NEW q \in Seq(Task), q # << >>, NEW op
  PROVE  /\ Head(q) \in Task /\ Tail(q) \in Seq(Task)
         /\ HasOp(q, op) <=> Head(q).op = op \/ HasOp(Tail(q), op)
<1> DEFINE n == Len(q)
           t == Tail(q)
<1>1. /\ n \in Nat /\ n # 0 /\ Head(q) \in Task /\ Head(q) = q[1] /\ t \in Seq(Task)
      /\ Len(t) = n - 1 /\ \A i \in 1 .. n - 1 : t[i] = q[i + 1]
  BY HeadTailProperties
<1>2. HasOp(t, op) <=> \E i \in 1 .. n - 1 : t[i].op = op
  BY <1>1 DEF HasOp
<1>3. HasOp(q, op) <=> \E i \in 1 .. n : q[i].op = op
  BY DEF HasOp
<1> HIDE DEF n, t
<1>4. ASSUME HasOp(q, op) PROVE Head(q).op = op \/ HasOp(t, op)
  <2>1. PICK i \in 1 .. n : q[i].op = op
    BY <1>4, <1>3
  <2>2. CASE i = 1
    BY <2>1, <2>2, <1>1
  <2>3. CASE i # 1
    <3>1. i - 1 \in 1 .. n - 1 /\ t[i - 1] = q[(i - 1) + 1] /\ (i - 1) + 1 = i
      BY <2>3, <1>1
    <3> QED
      BY <3>1, <2>1, <1>2
  <2> QED
    BY <2>2, <2>3
<1>5. ASSUME Head(q).op = op PROVE HasOp(q, op)
  BY <1>5, <1>1, <1>3
<1>6. ASSUME HasOp(t, op) PROVE HasOp(q, op)
  <2>1. PICK i \in 1 .. n - 1 : t[i].op = op
    BY <1>6, <1>2
  <2>2. i + 1 \in 1 .. n /\ q[i + 1].op = op
    BY <2>1, <1>1
  <2> QED
    BY <2>2, <1>3
<1> QED
  BY <1>1, <1>4, <1>5, <1>6 DEF t

-----------------------------------------------------------------------------
(* sendInLoop. *)

\* Concatenation, kept folded so that the provers use it by this law alone.
Cat(s, t) == s \o t

\* Messages appended in two portions are appended in order.
LEMMA CatAssociative ==
  \A s, t, u \in Seq(Msg) : Cat(Cat(s, t), u) = Cat(s, Cat(t, u))
BY DEF Cat

\* What is written and what is buffered, together, are the messages sent.
LEMMA SplitMessages ==
  ASSUME NEW ms \in Seq(Msg), NEW k \in 0 .. Len(ms)
  PROVE  /\ SubSeq(ms, 1, k) \in Seq(Msg) /\ SubSeq(ms, k + 1, Len(ms)) \in Seq(Msg)
         /\ SubSeq(ms, 1, k) \o SubSeq(ms, k + 1, Len(ms)) = ms
         /\ Len(SubSeq(ms, k + 1, Len(ms))) = Len(ms) - k
         /\ k = Len(ms) => SubSeq(ms, k + 1, Len(ms)) = << >>
         /\ k # Len(ms) => SubSeq(ms, k + 1, Len(ms)) # << >>
<1> DEFINE n == Len(ms)
           b == SubSeq(ms, k + 1, n)
           a == SubSeq(ms, 1, k)
<1>1. n \in Nat /\ k \in Nat /\ k <= n
  OBVIOUS
<1>2. a \in Seq(Msg) /\ b \in Seq(Msg) /\ Len(a) = k /\ Len(b) = n - k
      /\ (\A i \in 1 .. k : a[i] = ms[i])
      /\ (\A i \in 1 .. n - k : b[i] = ms[k + i])
  BY <1>1
<1>3. a \o b = ms
  <2> DEFINE c == a \o b
  <2> HIDE DEF a, b
  <2>1. /\ c \in Seq(Msg) /\ Len(c) = k + (n - k)
        /\ \A i \in 1 .. k + (n - k) : c[i] = IF i <= k THEN a[i] ELSE b[i - k]
    BY <1>1, <1>2, ConcatProperties
  <2> HIDE DEF c
  <2>2. Len(c) = n
    BY <2>1, <1>1
  <2>3. ASSUME NEW i \in 1 .. n PROVE c[i] = ms[i]
    <3>1. CASE i <= k
      BY <3>1, <2>1, <1>1, <1>2
    <3>2. CASE ~(i <= k)
      <4>1. i - k \in 1 .. n - k /\ k + (i - k) = i /\ i \in 1 .. k + (n - k)
        BY <3>2, <1>1
      <4> QED
        BY <3>2, <4>1, <2>1, <1>2
    <3> QED
      BY <3>1, <3>2
  <2> QED
    BY <2>1, <2>2, <2>3, SeqEqual DEF c, n
<1>4. k = n => b = << >>
  BY <1>1, <1>2, EmptySeq
<1>5. k # n => b # << >>
  <2> SUFFICES ASSUME k # n, b = << >> PROVE FALSE
    OBVIOUS
  <2> HIDE DEF a, b, n
  <2>1. Len(b) = 0
    OBVIOUS
  <2> QED
    BY <2>1, <1>1, <1>2
<1> QED
  BY <1>2, <1>3, <1>4, <1>5
\* The types of what sendInLoop changes; a closed connection is left alone, and
\* an open one asks at most for EPOLLOUT in addition.
LEMMA SendShape ==
  ASSUME TypeOK, NEW ms \in Seq(Msg), SendInLoop(ms)
  PROVE  /\ output' \in Seq(Msg) /\ wire' \in Seq(Msg) /\ sent' \in Seq(Msg)
         /\ events' \in SUBSET {"read", "write"}
         /\ events' = events \/ (state # "disconnected" /\ events' = events \cup {"write"})
         /\ peer' \in {"open", "fin", "reset", "dead"} /\ killed' \in BOOLEAN
<1>1. /\ output \in Seq(Msg) /\ wire \in Seq(Msg) /\ sent \in Seq(Msg)
      /\ events \in SUBSET {"read", "write"} /\ killed \in BOOLEAN
      /\ peer \in {"open", "fin", "reset", "dead"}
  BY DEF TypeOK
<1>2. ASSUME NEW k \in 0 .. Len(ms), WriteDirectly(ms, k), state # "disconnected", Accept(ms)
      PROVE  /\ output' \in Seq(Msg) /\ wire' \in Seq(Msg) /\ sent' \in Seq(Msg)
             /\ events' \in SUBSET {"read", "write"}
             /\ events' = events
                \/ (state # "disconnected" /\ events' = events \cup {"write"})
             /\ peer' = peer /\ killed' = killed
  <2>1. SubSeq(ms, 1, k) \in Seq(Msg) /\ SubSeq(ms, k + 1, Len(ms)) \in Seq(Msg)
    BY SplitMessages
  <2>2. output' \in Seq(Msg) /\ wire' \in Seq(Msg) /\ sent' \in Seq(Msg)
    BY <1>1, <1>2, <2>1, ConcatProperties DEF WriteDirectly, Accept
  <2>3. /\ events' \in SUBSET {"read", "write"}
        /\ events' = events \/ events' = events \cup {"write"}
        /\ peer' = peer /\ killed' = killed
    BY <1>1, <1>2 DEF WriteDirectly
  <2> QED
    BY <1>2, <2>2, <2>3
<1>3. 0 \in 0 .. Len(ms)
  BY LenProperties
<1>4. CASE state = "disconnected" /\ UNCHANGED <<events, dataVars, peer, killed>>
  BY <1>1, <1>4 DEF dataVars
<1>5. CASE state # "disconnected" /\ WriteDirectly(ms, 0) /\ Accept(ms)
  BY <1>1, <1>2, <1>3, <1>5
<1>6. CASE /\ state # "disconnected" /\ Accept(ms)
           /\ \E k \in 0 .. Len(ms) : WriteDirectly(ms, k)
  BY <1>1, <1>2, <1>6
<1>7. CASE WriteFails(ms)
  BY <1>1, <1>7 DEF WriteFails, dataVars
<1> QED
  BY <1>4, <1>5, <1>6, <1>7 DEF SendInLoop

\* sendInLoop keeps the order of the messages, asks for EPOLLOUT exactly when
\* something is left in the buffer, and buffers nothing behind a FIN.
LEMMA SendKeepsOrder ==
  ASSUME TypeOK, SendsInOrder, BufferedIsAwaited, FinAfterOutput,
         NEW ms \in Seq(Msg), SendInLoop(ms)
  PROVE  /\ wire' \o output' = sent'
         /\ state # "disconnected" => ("write" \in events' <=> output' # << >>)
         /\ fin => output' = << >>
<1>1. /\ output \in Seq(Msg) /\ wire \in Seq(Msg) /\ sent \in Seq(Msg)
      /\ wire \o output = sent
  BY DEF TypeOK, SendsInOrder
<1>2. CASE state = "disconnected" /\ UNCHANGED <<events, dataVars, peer, killed>>
  BY <1>1, <1>2 DEF dataVars, FinAfterOutput
<1>3. CASE WriteFails(ms)
  BY <1>1, <1>3 DEF WriteFails, dataVars, BufferedIsAwaited, FinAfterOutput
<1>4. CASE /\ state # "disconnected" /\ ("write" \in events \/ output # << >>)
           /\ WriteDirectly(ms, 0) /\ Accept(ms)
  <2> DEFINE a == SubSeq(ms, 1, 0)
             b == SubSeq(ms, 0 + 1, Len(ms))
  <2>1. 0 \in 0 .. Len(ms)
    BY LenProperties
  <2>2. a = << >>
    BY DEF a
  <2>3. b \in Seq(Msg) /\ a \in Seq(Msg) /\ a \o b = ms
    BY <2>1, SplitMessages
  <2>4. wire' = wire \o a /\ output' = output \o b /\ sent' = sent \o ms
        /\ ("write" \in events => "write" \in events')
    BY <1>4 DEF WriteDirectly, Accept
  <2> HIDE DEF a, b
  <2>5. b = ms /\ wire' = wire
    BY <1>1, <2>2, <2>3, <2>4, ConcatEmptySeq
  <2>6. wire' \o output' = sent'
    <3>1. Cat(wire', output') = Cat(wire, Cat(output, ms))
      BY <2>4, <2>5 DEF Cat
    <3>2. sent' = Cat(Cat(wire, output), ms)
      BY <1>1, <2>4 DEF Cat
    <3>3. Cat(wire', output') = sent'
      BY <1>1, <3>1, <3>2, CatAssociative
    <3> QED
      BY <3>3 DEF Cat
  <2>7. "write" \in events /\ output # << >>
    BY <1>4 DEF BufferedIsAwaited
  <2>8. output' # << >>
    <3>1. Len(output') = Len(output) + Len(ms) /\ Len(output) \in Nat /\ Len(ms) \in Nat
          /\ Len(output) # 0
      BY <1>1, <2>4, <2>5, <2>7, ConcatProperties, EmptySeq, LenProperties
    <3>2. Len(output) + Len(ms) # 0
      BY <3>1
    <3> QED
      BY <3>1, <3>2
  <2> QED
    BY <2>4, <2>6, <2>7, <2>8 DEF FinAfterOutput
<1>5. CASE /\ state # "disconnected" /\ ~("write" \in events \/ output # << >>)
           /\ Writable /\ Accept(ms) /\ \E k \in 0 .. Len(ms) : WriteDirectly(ms, k)
  <2>1. PICK k \in 0 .. Len(ms) : WriteDirectly(ms, k)
    BY <1>5
  <2> DEFINE a == SubSeq(ms, 1, k)
             b == SubSeq(ms, k + 1, Len(ms))
  <2>2. /\ b \in Seq(Msg) /\ a \in Seq(Msg) /\ a \o b = ms
        /\ k = Len(ms) => b = << >>
        /\ k # Len(ms) => b # << >>
    BY SplitMessages
  <2>3. /\ wire' = wire \o a /\ output' = output \o b /\ sent' = sent \o ms
        /\ events' = IF k = Len(ms) THEN events ELSE events \cup {"write"}
    BY <1>5, <2>1 DEF WriteDirectly, Accept
  <2> HIDE DEF a, b
  <2>4. output' = b /\ sent = wire
    BY <1>1, <1>5, <2>2, <2>3, ConcatEmptySeq
  <2>5. wire' \o output' = sent'
    <3>1. Cat(wire', output') = Cat(Cat(wire, a), b)
      BY <2>3, <2>4 DEF Cat
    <3>2. sent' = Cat(wire, Cat(a, b))
      BY <2>2, <2>3, <2>4 DEF Cat
    <3>3. Cat(wire', output') = sent'
      BY <1>1, <2>2, <3>1, <3>2, CatAssociative
    <3> QED
      BY <3>3 DEF Cat
  <2>6. "write" \in events' <=> output' # << >>
    BY <1>5, <2>2, <2>3, <2>4
  <2> QED
    BY <1>5, <2>5, <2>6 DEF Writable
<1> QED
  BY <1>2, <1>3, <1>4, <1>5 DEF SendInLoop

\* handleWrite moves the front of the buffer to the socket.
LEMMA WriteKeepsOrder ==
  ASSUME TypeOK, SendsInOrder, NEW k \in 1 .. Len(output),
         wire' = wire \o SubSeq(output, 1, k),
         output' = SubSeq(output, k + 1, Len(output))
  PROVE  /\ wire' \in Seq(Msg) /\ output' \in Seq(Msg)
         /\ wire' \o output' = sent
         /\ k = Len(output) <=> output' = << >>
<1> DEFINE a == SubSeq(output, 1, k)
           b == SubSeq(output, k + 1, Len(output))
<1>1. output \in Seq(Msg) /\ wire \in Seq(Msg) /\ wire \o output = sent
  BY DEF TypeOK, SendsInOrder
<1>2. k \in 0 .. Len(output)
  BY <1>1, LenProperties
<1>3. /\ b \in Seq(Msg) /\ a \in Seq(Msg) /\ a \o b = output
      /\ k = Len(output) <=> b = << >>
  BY <1>1, <1>2, SplitMessages
<1>4. wire' = wire \o a /\ output' = b
  OBVIOUS
<1> HIDE DEF a, b
<1>5. wire \o a \in Seq(Msg)
  BY <1>1, <1>3, ConcatProperties
<1>6. Cat(wire', output') = Cat(Cat(wire, a), b) /\ sent = Cat(wire, Cat(a, b))
  BY <1>1, <1>3, <1>4 DEF Cat
<1>7. Cat(wire', output') = sent
  BY <1>1, <1>3, <1>6, CatAssociative
<1>8. wire' \o output' = sent
  BY <1>7 DEF Cat
<1> QED
  BY <1>3, <1>4, <1>5, <1>8

-----------------------------------------------------------------------------
(* The closures of a batch. *)

\* What holds of the closures of a batch that is being run, and of the first.
LEMMA RunningBatch ==
  ASSUME TypeOK, LifeInv, NEW op, TaskIs(op)
  PROVE  /\ pc = "run" /\ pc' = "run" /\ revents = {} /\ revents' = {}
         /\ server' = server
         /\ batch \in Seq(Task) /\ Head(batch).op = op /\ Queued(op)
         /\ \A o : HasOp(batch, o) <=> op = o \/ HasOp(batch', o)
<1>1. batch \in Seq(Task) /\ batch # << >> /\ Head(batch).op = op /\ batch' = Tail(batch)
  BY DEF TaskIs, TypeOK
<1>2. \A o : HasOp(batch, o) <=> op = o \/ HasOp(batch', o)
  BY <1>1, HasOpHeadTail
<1> QED
  BY <1>1, <1>2 DEF TaskIs, At, LifeInv, LoopPlace, Queued

\* connectEstablished runs for a connection that waits for it, and it is then
\* the only closure queued for the connection: its assertion holds.
LEMMA EstablishedShape ==
  ASSUME TypeOK, LifeInv, ConnectEstablished
  PROVE  /\ state = "connecting" /\ server = "gateway" /\ tasks = << >>
         /\ batch' = << >> /\ failed' = failed
<1>1. TaskIs("established") /\ Queued("established") /\ batch # << >>
  BY RunningBatch DEF ConnectEstablished, TaskIs
<1>2. state = "connecting" /\ server = "gateway"
  BY <1>1 DEF LifeInv, BeforeUp, Fresh
<1>3. tasks = << >> /\ batch = <<Do("established")>>
  BY <1>1, <1>2 DEF LifeInv, BeforeUp
<1>4. batch' = << >>
  BY <1>1, <1>3 DEF TaskIs
<1>5. failed' = failed
  BY <1>2 DEF ConnectEstablished, Require, TypeOK
<1> QED
  BY <1>2, <1>3, <1>4, <1>5

\* connectDestroyed finds the connection closed and its channel without
\* events: the assertion of Channel::remove holds and the owner is not told again.
LEMMA DestroyedShape ==
  ASSUME TypeOK, LifeInv, ConnectDestroyed
  PROVE  /\ state = "disconnected" /\ registered' = FALSE
         /\ UNCHANGED <<state, events, downs, failed>>
<1>1. Queued("destroyed")
  BY RunningBatch DEF ConnectDestroyed
<1>2. state = "disconnected" /\ events = {}
  BY <1>1 DEF LifeInv, AfterDown
<1>3. failed' = failed
  BY <1>2 DEF ConnectDestroyed, Require, TypeOK
<1> QED
  BY <1>2, <1>3 DEF ConnectDestroyed

-----------------------------------------------------------------------------
(* Types. *)

\* What handleClose and the removal that follows it leave behind.
LEMMA CloseShape ==
  ASSUME TypeOK, HandleClose
  PROVE  /\ state' = "disconnected" /\ events' = {} /\ downs' \in 1 .. 2
         /\ tasks' \in Seq(Task) /\ inTable' \in BOOLEAN /\ failed' \in BOOLEAN
         /\ registered' = registered /\ ups' = ups /\ killed' = killed
         /\ removals' = IF SameLoop THEN removals ELSE removals + 1
<1>1. downs \in 0 .. 2 /\ tasks \in Seq(Task) /\ Do("destroyed") \in Task
  BY DoIsTask DEF TypeOK
<1>2. downs' \in 1 .. 2
  BY <1>1 DEF HandleClose, Once
<1>3. tasks' \in Seq(Task) /\ inTable' \in BOOLEAN
  <2>1. Append(tasks, Do("destroyed")) \in Seq(Task)
    BY <1>1, AppendProperties
  <2> QED
    BY <1>1, <2>1 DEF HandleClose, RemoveFromTable, TypeOK
<1>4. failed' \in BOOLEAN
  BY DEF HandleClose, Require
<1> QED
  BY <1>2, <1>3, <1>4 DEF HandleClose

\* The types hold initially.
LEMMA TypeInit == Init => TypeOK
<1> SUFFICES ASSUME Init PROVE TypeOK
  OBVIOUS
<1>1. 0 \in 0 .. MaxRemovals /\ 0 \in 0 .. 2
  BY ConnAssumption
<1>2. << >> \in Seq(Task) /\ << >> \in Seq(Msg)
  OBVIOUS
<1> QED
  BY <1>1, <1>2 DEF Init, TypeOK

\* Every step keeps the types.
LEMMA TypeStep == TypeOK /\ LifeInv /\ [Next]_vars => TypeOK'
<1> SUFFICES ASSUME TypeOK, LifeInv, [Next]_vars PROVE TypeOK'
  OBVIOUS
<1>0. /\ tasks \in Seq(Task) /\ batch \in Seq(Task) /\ removals \in 0 .. MaxRemovals
      /\ MaxRemovals \in Nat \ {0} /\ server \in {"gateway", "http"}
  BY ConnAssumption DEF TypeOK
<1>1. ASSUME NEW data \in BOOLEAN, NEW room \in BOOLEAN, Poll(data, room) PROVE TypeOK'
  <2>1. revents' \in SUBSET {"in", "more", "out", "err", "hup"} /\ pc' = "events"
    BY <1>1 DEF Poll
  <2> QED
    BY <1>1, <2>1 DEF Poll, TypeOK, chanVars, dataVars, tableVars, histVars
<1>2. CASE HandleHup
  <2>1. removals + 1 \in 0 .. MaxRemovals
    BY <1>0, <1>2 DEF HandleHup, At, LifeInv, RemovalsLag
  <2>2. removals' \in 0 .. MaxRemovals
    BY <1>0, <1>2, <2>1, CloseShape DEF HandleHup
  <2> QED
    BY <1>2, <2>2, CloseShape DEF HandleHup, TypeOK, dataVars
<1>3. CASE HandleEvent
  BY <1>3 DEF HandleEvent, TypeOK, chanVars, dataVars, tableVars, histVars
<1>4. CASE HandleReadData
  BY <1>4 DEF HandleReadData, Parsing, TypeOK, dataVars, tableVars, histVars
<1>5. CASE HandleReadForceCloses
  <2>1. tasks' \in Seq(Task)
    BY <1>0, <1>5, DoIsTask, AppendProperties DEF HandleReadForceCloses
  <2> QED
    BY <1>5, <2>1 DEF HandleReadForceCloses, Parsing, TypeOK, dataVars, tableVars, histVars
<1>6. CASE HandleReadEof
  <2>1. removals + 1 \in 0 .. MaxRemovals
    BY <1>0, <1>6 DEF HandleReadEof, Reading, At, LifeInv, RemovalsLag
  <2>2. removals' \in 0 .. MaxRemovals
    BY <1>0, <1>6, <2>1, CloseShape DEF HandleReadEof
  <2> QED
    BY <1>6, <2>2, CloseShape DEF HandleReadEof, Reading, TypeOK, dataVars
<1>7. CASE HandleReadError
  BY <1>7 DEF HandleReadError, Reading, TypeOK, dataVars, tableVars, histVars
<1>8. ASSUME NEW m \in Msg, HandleReadReplies(m) PROVE TypeOK'
  <2>1. <<m>> \in Seq(Msg) /\ SendInLoop(<<m>>)
    BY <1>8 DEF HandleReadReplies
  <2> QED
    BY <1>8, <2>1, SendShape DEF HandleReadReplies, TypeOK, tableVars, histVars
<1>9. ASSUME NEW header \in Msg, NEW body \in Msg, HandleReadResponds(header, body)
      PROVE TypeOK'
  <2>1. <<header, body>> \in Seq(Msg) /\ SendInLoop(<<header, body>>)
    BY <1>9 DEF HandleReadResponds
  <2>2. fin' \in BOOLEAN
    BY <1>9 DEF HandleReadResponds, ShutdownInLoop, TypeOK
  <2> QED
    BY <1>9, <2>1, <2>2, SendShape DEF HandleReadResponds, Parsing, TypeOK, tableVars,
       histVars
<1>10. CASE HandleWrite
  <2>1. PICK k \in 1 .. Len(output) :
              /\ wire' = wire \o SubSeq(output, 1, k)
              /\ output' = SubSeq(output, k + 1, Len(output))
              /\ events' = IF k = Len(output) THEN events \ {"write"} ELSE events
              /\ fin' = (k = Len(output) /\ state = "disconnecting")
    BY <1>10 DEF HandleWrite
  <2>2. output' \in Seq(Msg) /\ wire' \in Seq(Msg)
    <3>1. output \in Seq(Msg) /\ wire \in Seq(Msg) /\ k \in 0 .. Len(output)
      BY LenProperties DEF TypeOK
    <3> QED
      BY <2>1, <3>1, SplitMessages, ConcatProperties
  <2> QED
    BY <1>10, <2>1, <2>2 DEF HandleWrite, Writing, TypeOK, tableVars, histVars
<1>11. CASE HandleWriteNothing
  <2>1. CASE UNCHANGED <<events, output, wire, peer, killed>>
    BY <1>11, <2>1 DEF HandleWriteNothing, Writing, TypeOK, tableVars, histVars
  <2>2. CASE WriteFails(<<NoMsg>>)
    <3>1. killed' \in BOOLEAN /\ peer' \in {"open", "fin", "reset", "dead"}
      BY <2>2 DEF WriteFails, TypeOK
    <3> QED
      BY <1>11, <2>2, <3>1 DEF HandleWriteNothing, Writing, WriteFails, TypeOK, dataVars,
         tableVars, histVars
  <2> QED
    BY <1>11, <2>1, <2>2 DEF HandleWriteNothing
<1>12. CASE SwapTasks
  <2>1. tasks' \in Seq(Task) /\ batch' \in Seq(Task)
    BY <1>0, <1>12 DEF SwapTasks
  <2> QED
    BY <1>12, <2>1 DEF SwapTasks, TypeOK, chanVars, dataVars, tableVars, histVars
<1>13. CASE ConnectEstablished
  <2>1. batch' \in Seq(Task)
    BY <1>0, <1>13, HasOpHeadTail DEF ConnectEstablished, TaskIs
  <2> QED
    BY <1>13, <2>1 DEF ConnectEstablished, TaskIs, Require, Established, Once, TypeOK,
       dataVars, tableVars
<1>14. CASE SendTask
  <2>1. batch' \in Seq(Task) /\ Head(batch) \in Task /\ Head(batch).op = "send"
    BY <1>0, <1>14, HasOpHeadTail DEF SendTask, TaskIs
  <2>2. <<Head(batch).msg>> \in Seq(Msg) /\ SendInLoop(<<Head(batch).msg>>)
    BY <1>14, <2>1, TaskMsg DEF SendTask
  <2> QED
    BY <1>14, <2>1, <2>2, SendShape DEF SendTask, TaskIs, TypeOK, tableVars, histVars
<1>15. CASE ForceCloseInLoop
  <2>1. batch' \in Seq(Task)
    BY <1>0, <1>15, HasOpHeadTail DEF ForceCloseInLoop, TaskIs
  <2>2. CASE state \in {"connected", "disconnecting"}
    <3>1. removals = 0
      BY <1>0, <2>2 DEF LifeInv, AfterDown
    <3>2. HandleClose
      BY <1>15, <2>2 DEF ForceCloseInLoop
    <3>3. removals' \in 0 .. MaxRemovals
      BY <1>0, <3>1, <3>2, CloseShape
    <3> QED
      BY <1>15, <2>1, <3>2, <3>3, CloseShape DEF ForceCloseInLoop, TaskIs, TypeOK, dataVars
  <2>3. CASE ~(state \in {"connected", "disconnecting"})
    BY <1>15, <2>1, <2>3, ZenonT(30) DEF ForceCloseInLoop, TaskIs, TypeOK, chanVars, tableVars, histVars,
       dataVars
  <2> QED
    BY <2>2, <2>3
<1>16. CASE ConnectDestroyed
  <2>1. batch' \in Seq(Task)
    BY <1>0, <1>16, HasOpHeadTail DEF ConnectDestroyed, TaskIs
  <2>2. registered' = FALSE /\ UNCHANGED <<state, events, downs, failed>>
    BY <1>16, DestroyedShape
  <2> QED
    BY <1>16, <2>1, <2>2 DEF ConnectDestroyed, TaskIs, TypeOK, dataVars, tableVars
<1>17. CASE EndBatch
  BY <1>17 DEF EndBatch, TypeOK, chanVars, dataVars, tableVars, histVars
<1>18. CASE NewConnection
  <2>1. tasks' \in Seq(Task)
    BY <1>0, <1>18, DoIsTask, AppendProperties DEF NewConnection
  <2>2. ups' \in 0 .. 2
    <3>1. ups \in 0 .. 2
      BY DEF TypeOK
    <3> QED
      BY <1>18, <3>1 DEF NewConnection, Established, Once
  <2>3. /\ state' \in {"connected", "connecting"} /\ registered' \in BOOLEAN
        /\ events' \in SUBSET {"read", "write"} /\ inTable' = TRUE
    BY <1>18 DEF NewConnection, Established, TypeOK
  <2> QED
    BY <1>18, <2>1, <2>2, <2>3 DEF NewConnection, TypeOK, dataVars
<1>19. CASE RemoveConnectionInLoop
  <2>1. removals' \in 0 .. MaxRemovals
    <3>1. removals > 0 /\ removals' = removals - 1
      BY <1>19 DEF RemoveConnectionInLoop
    <3>2. removals - 1 \in 0 .. MaxRemovals
      BY <1>0, <3>1
    <3> QED
      BY <3>1, <3>2
  <2>2. tasks' \in Seq(Task) /\ inTable' = FALSE
    BY <1>0, <1>19, DoIsTask, AppendProperties DEF RemoveConnectionInLoop, RemoveFromTable
  <2> QED
    BY <1>19, <2>1, <2>2 DEF RemoveConnectionInLoop, TypeOK, chanVars, dataVars, histVars
<1>20. ASSUME NEW m \in Msg, SendElsewhere(m) PROVE TypeOK'
  <2>1. tasks' \in Seq(Task)
    BY <1>0, <1>20, SendIsTask, AppendProperties DEF SendElsewhere
  <2> QED
    BY <1>20, <2>1 DEF SendElsewhere, TypeOK, chanVars, dataVars, tableVars, histVars
<1>21. ASSUME NEW m \in Msg, SendFromLoop(m) PROVE TypeOK'
  <2>1. <<m>> \in Seq(Msg) /\ SendInLoop(<<m>>)
    BY <1>21 DEF SendFromLoop
  <2> QED
    BY <1>21, <2>1, SendShape DEF SendFromLoop, TypeOK, loopVars, tableVars, histVars
<1>22. CASE PeerCloses \/ PeerResets
  BY <1>22, ZenonT(30) DEF PeerCloses, PeerResets, TypeOK, chanVars, loopVars, dataVars, tableVars,
     histVars
<1>23. CASE UNCHANGED vars
  BY <1>23 DEF vars, TypeOK, chanVars, loopVars, dataVars, tableVars, histVars
<1> QED
  BY <1>1, <1>2, <1>3, <1>4, <1>5, <1>6, <1>7, <1>8, <1>9, <1>10, <1>11, <1>12, <1>13,
     <1>14, <1>15, <1>16, <1>17, <1>18, <1>19, <1>20, <1>21, <1>22, <1>23 DEF Next, IoLoop

-----------------------------------------------------------------------------
(* The life of the connection. *)

\* A step that leaves the connection's place in its life alone, reports no
\* event and adds at most EPOLLOUT to an open channel.
LEMMA LifeSame ==
  ASSUME LifeInv,
         UNCHANGED <<server, state, inTable, registered, pc, tasks, batch, removals, ups,
                     downs, failed>>,
         "in" \in revents' => "in" \in revents,
         revents' # {} => revents # {},
         Fresh => UNCHANGED <<events, output, fin>>,
         state = "disconnected" => events' = events
  PROVE  LifeInv'
<1>1. Queued("established")' = Queued("established")
      /\ Queued("destroyed")' = Queued("destroyed")
      /\ Queued("forceClose")' = Queued("forceClose")
      /\ HasOp(tasks, "destroyed")' = HasOp(tasks, "destroyed")
      /\ HasOp(batch, "destroyed")' = HasOp(batch, "destroyed")
      /\ Fresh' = Fresh
  BY DEF Queued, HasOp, Fresh
<1>2. LoopPlace'
  BY DEF LifeInv, LoopPlace
<1>3. BeforeUp'
  BY <1>1 DEF LifeInv, BeforeUp
<1>4. AfterDown'
  BY <1>1 DEF LifeInv, AfterDown
<1>5. HttpEnd'
  BY <1>1 DEF LifeInv, HttpEnd
<1>6. RemovalsLag'
  BY DEF LifeInv, RemovalsLag
<1>7. ChannelHasOwner'
  BY <1>1 DEF LifeInv, ChannelHasOwner
<1> QED
  BY <1>2, <1>3, <1>4, <1>5, <1>6, <1>7 DEF LifeInv

\* A channel in epoll is that of a connection that was established.
LEMMA RegisteredNotFresh ==
  ASSUME LifeInv, revents # {} \/ registered PROVE registered /\ ~Fresh
BY DEF LifeInv, LoopPlace, BeforeUp

\* A close found by the io loop: of an open connection, or, at the gateway,
\* once more while the removal is still under way.
LEMMA CloseKeepsLife ==
  ASSUME TypeOK, LifeInv, HandleClose, ~Fresh, server' = server,
         UNCHANGED <<output, fin>>,
         \/ pc' = "channel" /\ batch' = << >> /\ batch = << >>
         \/ pc = "run" /\ pc' = "run" /\ revents = {} /\ batch' \in Seq(Task)
            /\ server = "gateway"
            /\ \A o : o \in {"destroyed", "established"} =>
                 (HasOp(batch, o) <=> HasOp(batch', o)),
         "in" \notin revents', revents' \subseteq revents,
         server = "http" => state # "disconnected"
  PROVE  LifeInv'
<1>0. /\ tasks \in Seq(Task) /\ removals \in Nat /\ downs \in 0 .. 2
      /\ server \in {"gateway", "http"}
      /\ state' = "disconnected" /\ events' = {} /\ downs' \in 1 .. 2
      /\ registered' = registered /\ ups' = ups
      /\ removals' = IF SameLoop THEN removals ELSE removals + 1
  <2>1. removals \in Nat /\ server \in {"gateway", "http"}
    BY ConnAssumption DEF TypeOK
  <2> QED
    BY <2>1, CloseShape DEF TypeOK
<1>1. ~Fresh /\ ~Fresh'
  BY <1>0 DEF Fresh
<1>2. ~Queued("established")
  BY <1>1 DEF LifeInv, BeforeUp
<1>3. \A o : HasOp(tasks', o) <=>
               HasOp(tasks, o) \/ (o = "destroyed" /\ SameLoop /\ inTable)
  <2>1. CASE SameLoop /\ inTable
    <3>1. tasks' = Append(tasks, Do("destroyed"))
      BY <2>1 DEF HandleClose, RemoveFromTable
    <3> QED
      BY <1>0, <2>1, <3>1, DoIsTask, HasOpAppend
  <2>2. CASE ~(SameLoop /\ inTable)
    <3>1. tasks' = tasks
      BY <2>2 DEF HandleClose, RemoveFromTable
    <3> QED
      BY <2>2, <3>1
  <2> QED
    BY <2>1, <2>2
<1>4. \A o \in {"destroyed", "established"} :
        Queued(o)' <=> Queued(o) \/ (o = "destroyed" /\ SameLoop /\ inTable)
  <2>1. \A o \in {"destroyed", "established"} : HasOp(batch', o) <=> HasOp(batch, o)
    OBVIOUS
  <2> QED
    BY <1>3, <2>1 DEF Queued
<1>5. LoopPlace'
  BY <1>0 DEF LifeInv, LoopPlace
<1>6. BeforeUp'
  BY <1>0, <1>1, <1>2, <1>4 DEF LifeInv, BeforeUp, Fresh
<1>7. AfterDown'
  BY <1>0 DEF AfterDown
<1>8. HttpEnd'
  <2> SUFFICES ASSUME server = "http" PROVE HttpEnd'
    BY DEF HttpEnd
  <2>1. state \in {"connected", "disconnecting"} /\ inTable /\ SameLoop
    BY <1>1 DEF LifeInv, AfterDown, Fresh, TypeOK, SameLoop
  <2>2. removals' = 0 /\ ~Queued("forceClose")'
    <3>1. removals = 0 /\ ~HasOp(tasks, "forceClose")
      BY DEF LifeInv, HttpEnd, Queued
    <3>2. ~HasOp(batch', "forceClose")
      BY HasOpEmpty
    <3> QED
      BY <1>0, <1>3, <2>1, <3>1, <3>2 DEF Queued
  <2>3. ~failed'
    BY <2>1 DEF HandleClose, Require, LifeInv, HttpEnd
  <2>4. downs' = 1
    <3>1. downs = 0
      BY <1>0, <2>1 DEF LifeInv, AfterDown
    <3> QED
      BY <3>1 DEF HandleClose, Once
  <2>5. pc' = "channel" /\ HasOp(tasks', "destroyed")
    BY <1>3, <2>1
  <2> QED
    BY <2>2, <2>3, <2>4, <2>5 DEF HttpEnd, HasOp
<1>9. RemovalsLag'
  BY DEF RemovalsLag
<1>10. ChannelHasOwner'
  <2>1. CASE SameLoop
    <3>1. Queued("destroyed")'
      <4>1. state \in {"connected", "disconnecting"} /\ inTable
        BY <1>1, <2>1 DEF LifeInv, AfterDown, Fresh, TypeOK, SameLoop
      <4> QED
        BY <1>4, <2>1, <4>1
    <3> QED
      BY <3>1 DEF ChannelHasOwner
  <2>2. CASE ~SameLoop
    <3>1. removals' > 0
      BY <1>0, <2>2
    <3>2. inTable' = inTable /\ (Queued("destroyed")' <=> Queued("destroyed"))
      BY <1>4, <2>2 DEF HandleClose
    <3> QED
      BY <1>0, <3>1, <3>2 DEF LifeInv, ChannelHasOwner
  <2> QED
    BY <2>1, <2>2
<1> QED
  BY <1>5, <1>6, <1>7, <1>8, <1>9, <1>10 DEF LifeInv

\* The connection starts before its life.
LEMMA LifeInit == Init => LifeInv
<1> SUFFICES ASSUME Init PROVE LifeInv
  OBVIOUS
<1>1. \A op : ~Queued(op)
  BY HasOpEmpty DEF Init, Queued
<1>2. MaxRemovals > 0 /\ ~(0 > 0)
  BY ConnAssumption
<1>3. LoopPlace /\ BeforeUp /\ RemovalsLag /\ ChannelHasOwner
  BY <1>1, <1>2 DEF Init, LoopPlace, BeforeUp, Fresh, RemovalsLag, ChannelHasOwner
<1>4. AfterDown /\ HttpEnd
  BY <1>1, <1>2 DEF Init, AfterDown, HttpEnd
<1> QED
  BY <1>3, <1>4 DEF LifeInv

\* Every step keeps the connection's life in order.
LEMMA LifeStep == TypeOK /\ LifeInv /\ [Next]_vars => LifeInv'
<1> SUFFICES ASSUME TypeOK, LifeInv, [Next]_vars PROVE LifeInv'
  OBVIOUS
<1>0. /\ tasks \in Seq(Task) /\ batch \in Seq(Task) /\ removals \in Nat
      /\ MaxRemovals \in Nat \ {0} /\ server \in {"gateway", "http"}
  BY ConnAssumption DEF TypeOK
<1>1. ASSUME NEW data \in BOOLEAN, NEW room \in BOOLEAN, Poll(data, room) PROVE LifeInv'
  <2>1. /\ UNCHANGED <<server, state, inTable, registered, tasks, batch, removals, ups,
                       downs, failed, events, output, fin>>
        /\ pc = "poll" /\ pc' = "events" /\ removals < MaxRemovals
        /\ ~registered => revents' = {}
    BY <1>1 DEF Poll, At, chanVars, dataVars, tableVars, histVars
  <2>2. \A op : /\ Queued(op)' <=> Queued(op)
                /\ HasOp(tasks, op)' <=> HasOp(tasks, op)
                /\ HasOp(batch, op)' <=> HasOp(batch, op)
    BY <2>1 DEF Queued, HasOp
  <2>3. LoopPlace' /\ RemovalsLag'
    BY <2>1 DEF LifeInv, LoopPlace, RemovalsLag
  <2>4. BeforeUp'
    BY <2>1, <2>2 DEF LifeInv, BeforeUp, Fresh
  <2>5. AfterDown' /\ ChannelHasOwner'
    BY <2>1, <2>2 DEF LifeInv, AfterDown, ChannelHasOwner
  <2>6. HttpEnd'
    BY <2>1, <2>2 DEF LifeInv, HttpEnd
  <2> QED
    BY <2>3, <2>4, <2>5, <2>6 DEF LifeInv
<1>2. CASE HandleHup
  <2>1. ~Fresh /\ batch = << >> /\ (server = "http" => state # "disconnected")
    BY <1>2, RegisteredNotFresh DEF HandleHup, At, LifeInv, LoopPlace, HttpEnd
  <2> QED
    BY <1>2, <2>1, CloseKeepsLife DEF HandleHup, dataVars
<1>3. CASE HandleEvent
  <2>1. /\ UNCHANGED <<server, state, inTable, registered, tasks, batch, removals, ups,
                       downs, failed, events, output, fin>>
        /\ pc = "events" /\ pc' = "channel" /\ revents # {} /\ revents' \subseteq revents
    BY <1>3 DEF HandleEvent, At, chanVars, dataVars, tableVars, histVars
  <2>2. \A op : /\ Queued(op)' <=> Queued(op)
                /\ HasOp(tasks, op)' <=> HasOp(tasks, op)
                /\ HasOp(batch, op)' <=> HasOp(batch, op)
    BY <2>1 DEF Queued, HasOp
  <2>3. LoopPlace' /\ RemovalsLag'
    BY <2>1 DEF LifeInv, LoopPlace, RemovalsLag
  <2>4. BeforeUp'
    BY <2>1, <2>2 DEF LifeInv, BeforeUp, Fresh
  <2>5. AfterDown' /\ ChannelHasOwner'
    BY <2>1, <2>2 DEF LifeInv, AfterDown, ChannelHasOwner
  <2>6. HttpEnd'
    BY <2>1, <2>2 DEF LifeInv, LoopPlace, HttpEnd
  <2> QED
    BY <2>3, <2>4, <2>5, <2>6 DEF LifeInv
<1>4. CASE HandleReadData
  BY <1>4, LifeSame DEF HandleReadData, Parsing, dataVars, tableVars, histVars
<1>5. CASE HandleReadForceCloses
  <2>1. /\ UNCHANGED <<server, inTable, registered, batch, removals, ups, downs, failed, pc,
                       events, output, fin>>
        /\ pc = "channel" /\ revents' \subseteq revents /\ "in" \notin revents'
        /\ server = "gateway" /\ state \in {"connected", "disconnecting"}
        /\ state' = "disconnecting" /\ tasks' = Append(tasks, Do("forceClose"))
    BY <1>5 DEF HandleReadForceCloses, Parsing, At, dataVars, tableVars, histVars
  <2>2. \A op \in {"established", "destroyed"} : Queued(op)' <=> Queued(op)
    BY <1>0, <2>1, DoIsTask, HasOpAppend DEF Queued
  <2>3. LoopPlace' /\ RemovalsLag' /\ HttpEnd'
    BY <2>1 DEF LifeInv, LoopPlace, RemovalsLag, HttpEnd
  <2>4. BeforeUp'
    BY <2>1, <2>2 DEF LifeInv, BeforeUp, Fresh
  <2>5. AfterDown' /\ ChannelHasOwner'
    BY <2>1, <2>2 DEF LifeInv, AfterDown, ChannelHasOwner
  <2> QED
    BY <2>3, <2>4, <2>5 DEF LifeInv
<1>6. CASE HandleReadEof
  <2>1. /\ ~Fresh /\ pc = "channel" /\ batch = << >>
        /\ server = "http" => state # "disconnected"
    BY <1>6, RegisteredNotFresh DEF HandleReadEof, Reading, At, LifeInv, LoopPlace, HttpEnd
  <2> QED
    BY <1>6, <2>1, CloseKeepsLife DEF HandleReadEof, Reading, dataVars
<1>7. CASE HandleReadError
  BY <1>7, LifeSame DEF HandleReadError, Reading, dataVars, tableVars, histVars
<1>8. ASSUME NEW m \in Msg, HandleReadReplies(m) PROVE LifeInv'
  <2>1. <<m>> \in Seq(Msg) /\ SendInLoop(<<m>>) /\ state = "connected" /\ revents # {}
    BY <1>8 DEF HandleReadReplies
  <2> QED
    BY <1>8, <2>1, LifeSame DEF HandleReadReplies, tableVars, histVars, Fresh
<1>9. ASSUME NEW header \in Msg, NEW body \in Msg, HandleReadResponds(header, body)
      PROVE LifeInv'
  <2>1. /\ UNCHANGED <<server, inTable, registered, tasks, batch, removals, ups, downs,
                       failed, pc>>
        /\ pc = "channel" /\ revents' \subseteq revents /\ "in" \notin revents'
        /\ state = "connected" /\ state' = "disconnecting"
    BY <1>9 DEF HandleReadResponds, Parsing, At, tableVars, histVars
  <2>2. \A op : /\ Queued(op)' <=> Queued(op)
                /\ HasOp(tasks, op)' <=> HasOp(tasks, op)
                /\ HasOp(batch, op)' <=> HasOp(batch, op)
    BY <2>1 DEF Queued, HasOp
  <2>3. LoopPlace' /\ RemovalsLag'
    BY <2>1 DEF LifeInv, LoopPlace, RemovalsLag
  <2>4. BeforeUp'
    BY <2>1, <2>2 DEF LifeInv, BeforeUp, Fresh
  <2>5. AfterDown' /\ ChannelHasOwner'
    BY <2>1, <2>2 DEF LifeInv, AfterDown, ChannelHasOwner
  <2>6. HttpEnd'
    BY <2>1, <2>2 DEF LifeInv, HttpEnd
  <2> QED
    BY <2>3, <2>4, <2>5, <2>6 DEF LifeInv
<1>10. CASE HandleWrite \/ HandleWriteNothing
  <2>1. /\ UNCHANGED <<server, state, registered, pc, tasks, batch, inTable, removals,
                       ups, downs, failed>>
        /\ revents # {} /\ revents' \subseteq revents
    BY <1>10 DEF HandleWrite, HandleWriteNothing, Writing, tableVars, histVars
  <2>2. ~Fresh /\ (state = "disconnected" => events = {})
    BY <2>1, RegisteredNotFresh DEF LifeInv, AfterDown
  <2>3. state = "disconnected" => events' = events
    BY <1>10, <2>2 DEF HandleWrite, HandleWriteNothing, WriteFails
  <2> QED
    BY <2>1, <2>2, <2>3, LifeSame
<1>11. CASE SwapTasks
  <2>1. /\ UNCHANGED <<server, state, inTable, registered, revents, removals, ups, downs,
                       failed, events, output, fin>>
        /\ pc \in {"events", "channel"} /\ pc' = "run" /\ revents = {}
        /\ batch' = tasks /\ tasks' = << >>
    BY <1>11 DEF SwapTasks, At, chanVars, dataVars, tableVars, histVars
  <2>2. batch = << >>
    BY <2>1 DEF LifeInv, LoopPlace
  <2>3. \A op : /\ Queued(op)' <=> Queued(op)
                /\ HasOp(batch, op)' <=> HasOp(tasks, op)
    BY <2>1, <2>2, HasOpEmpty DEF Queued
  <2>4. LoopPlace' /\ RemovalsLag'
    BY <2>1 DEF LifeInv, LoopPlace, RemovalsLag
  <2>5. BeforeUp'
    BY <2>1, <2>2, <2>3 DEF LifeInv, BeforeUp, Fresh
  <2>6. AfterDown' /\ ChannelHasOwner'
    BY <2>1, <2>3 DEF LifeInv, AfterDown, ChannelHasOwner
  <2>7. HttpEnd'
    BY <2>1, <2>3 DEF LifeInv, HttpEnd
  <2> QED
    BY <2>4, <2>5, <2>6, <2>7 DEF LifeInv
<1>12. CASE ConnectEstablished
  <2>1. /\ state = "connecting" /\ server = "gateway" /\ tasks = << >> /\ batch' = << >>
        /\ failed' = failed /\ tasks' = << >>
    BY <1>12, EstablishedShape DEF ConnectEstablished
  <2>2. \A op : ~Queued(op)'
    BY <2>1, HasOpEmpty DEF Queued
  <2>3. ups = 0 /\ downs = 0 /\ removals = 0 /\ inTable
    BY <1>0, <2>1 DEF LifeInv, BeforeUp, Fresh, AfterDown, TypeOK
  <2>4. /\ UNCHANGED <<server, inTable, removals, downs>>
        /\ state' = "connected" /\ registered' = TRUE /\ ups' = 1
        /\ pc' = "run" /\ revents' = {}
    BY <1>12, <2>3, RunningBatch DEF ConnectEstablished, Established, Once, tableVars
  <2>5. LoopPlace' /\ BeforeUp' /\ RemovalsLag' /\ ChannelHasOwner' /\ HttpEnd'
    BY <2>1, <2>2, <2>3, <2>4 DEF LoopPlace, BeforeUp, Fresh, RemovalsLag, ChannelHasOwner,
       HttpEnd
  <2>6. AfterDown'
    BY <2>2, <2>3, <2>4 DEF AfterDown
  <2> QED
    BY <2>5, <2>6 DEF LifeInv
<1>13. CASE SendTask
  <2>1. /\ pc = "run" /\ pc' = "run" /\ revents = {} /\ revents' = {}
        /\ UNCHANGED <<server, state, registered, tasks, inTable, removals, ups, downs, fin,
                       failed>>
        /\ \A o : HasOp(batch, o) <=> "send" = o \/ HasOp(batch', o)
    BY <1>13, RunningBatch DEF SendTask, tableVars, histVars
  <2>2. /\ \A op \in {"established", "destroyed", "forceClose"} :
             /\ Queued(op)' <=> Queued(op)
             /\ HasOp(batch, op)' <=> HasOp(batch, op)
             /\ HasOp(tasks, op)' <=> HasOp(tasks, op)
    BY <2>1 DEF Queued
  <2>3. ~Fresh
    <3>1. batch # << >> /\ Head(batch).op = "send"
      BY <1>13 DEF SendTask, TaskIs
    <3>2. batch # <<Do("established")>>
      BY <3>1 DEF Do
    <3> QED
      BY <3>1, <3>2 DEF LifeInv, BeforeUp, Fresh
  <2>4. state = "disconnected" => events' = events
    BY <1>13 DEF SendTask, SendInLoop
  <2>5. LoopPlace' /\ RemovalsLag'
    BY <2>1 DEF LifeInv, LoopPlace, RemovalsLag
  <2>6. BeforeUp'
    BY <2>1, <2>2, <2>3 DEF LifeInv, BeforeUp, Fresh
  <2>7. AfterDown' /\ ChannelHasOwner'
    BY <2>1, <2>2, <2>4 DEF LifeInv, AfterDown, ChannelHasOwner
  <2>8. HttpEnd'
    BY <2>1, <2>2 DEF LifeInv, HttpEnd
  <2> QED
    BY <2>5, <2>6, <2>7, <2>8 DEF LifeInv
<1>14. CASE ForceCloseInLoop
  <2>1. /\ pc = "run" /\ pc' = "run" /\ revents = {} /\ revents' = {} /\ server' = server
        /\ batch' \in Seq(Task) /\ Queued("forceClose")
        /\ \A o : HasOp(batch, o) <=> "forceClose" = o \/ HasOp(batch', o)
    BY <1>0, <1>14, RunningBatch, HasOpHeadTail DEF ForceCloseInLoop, TaskIs
  <2>2. server = "gateway"
    BY <1>0, <2>1 DEF LifeInv, HttpEnd
  <2>3. \A o \in {"destroyed", "established"} : HasOp(batch, o) <=> HasOp(batch', o)
    BY <2>1
  <2>4. CASE state \in {"connected", "disconnecting"}
    <3>1. HandleClose /\ UNCHANGED <<output, fin>>
      BY <1>14, <2>4 DEF ForceCloseInLoop, dataVars
    <3> QED
      BY <2>1, <2>2, <2>3, <2>4, <3>1, CloseKeepsLife DEF Fresh
  <2>5. CASE ~(state \in {"connected", "disconnecting"})
    <3>1. UNCHANGED <<state, events, registered, inTable, removals, ups, downs, tasks,
                      failed, output, fin>>
      BY <1>14, <2>5 DEF ForceCloseInLoop, chanVars, tableVars, histVars, dataVars
    <3>2. \A op \in {"established", "destroyed"} : Queued(op)' <=> Queued(op)
      BY <2>3, <3>1 DEF Queued
    <3>3. ~Fresh
      <4>1. batch # << >> /\ Head(batch).op = "forceClose"
        BY <1>14 DEF ForceCloseInLoop, TaskIs
      <4>2. batch # <<Do("established")>>
        BY <4>1 DEF Do
      <4> QED
        BY <4>1, <4>2 DEF LifeInv, BeforeUp, Fresh
    <3>4. LoopPlace' /\ RemovalsLag' /\ HttpEnd'
      BY <2>1, <2>2, <3>1 DEF LifeInv, LoopPlace, RemovalsLag, HttpEnd
    <3>5. BeforeUp'
      BY <2>1, <3>1, <3>2, <3>3 DEF LifeInv, BeforeUp, Fresh
    <3>6. AfterDown' /\ ChannelHasOwner'
      BY <3>1, <3>2 DEF LifeInv, AfterDown, ChannelHasOwner
    <3> QED
      BY <3>4, <3>5, <3>6 DEF LifeInv
  <2> QED
    BY <2>4, <2>5
<1>15. CASE ConnectDestroyed
  <2>1. /\ pc = "run" /\ pc' = "run" /\ revents = {} /\ revents' = {} /\ server' = server
        /\ \A o : HasOp(batch, o) <=> "destroyed" = o \/ HasOp(batch', o)
    BY <1>15, RunningBatch DEF ConnectDestroyed
  <2>2. /\ UNCHANGED <<state, events, downs, failed, tasks, output, ups, inTable, removals,
                       fin>>
        /\ state = "disconnected" /\ registered' = FALSE
    BY <1>15, DestroyedShape DEF ConnectDestroyed, dataVars, tableVars
  <2>3. /\ \A op \in {"established", "forceClose"} : Queued(op)' <=> Queued(op)
        /\ Queued("destroyed")' => Queued("destroyed")
    BY <2>1, <2>2 DEF Queued
  <2>4. LoopPlace' /\ RemovalsLag' /\ HttpEnd' /\ ChannelHasOwner'
    BY <2>1, <2>2, <2>3 DEF LifeInv, LoopPlace, RemovalsLag, HttpEnd, ChannelHasOwner
  <2>5. BeforeUp'
    BY <2>1, <2>2, <2>3 DEF LifeInv, BeforeUp, Fresh
  <2>6. AfterDown'
    BY <2>2, <2>3 DEF LifeInv, AfterDown
  <2> QED
    BY <2>4, <2>5, <2>6 DEF LifeInv
<1>16. CASE EndBatch
  <2>1. /\ UNCHANGED <<server, state, inTable, registered, tasks, batch, removals, ups,
                       downs, failed, events, output, fin, revents>>
        /\ pc = "run" /\ pc' = "poll" /\ batch = << >>
    BY <1>16 DEF EndBatch, At, chanVars, dataVars, tableVars, histVars
  <2>2. \A op : /\ Queued(op)' <=> Queued(op)
                /\ HasOp(tasks, op)' <=> HasOp(tasks, op)
                /\ ~HasOp(batch, op)
    BY <2>1, HasOpEmpty DEF Queued, HasOp
  <2>3. LoopPlace' /\ RemovalsLag'
    BY <2>1 DEF LifeInv, LoopPlace, RemovalsLag
  <2>4. BeforeUp'
    BY <2>1, <2>2 DEF LifeInv, BeforeUp, Fresh
  <2>5. AfterDown' /\ ChannelHasOwner'
    BY <2>1, <2>2 DEF LifeInv, AfterDown, ChannelHasOwner
  <2>6. HttpEnd'
    BY <2>1, <2>2 DEF LifeInv, HttpEnd
  <2> QED
    BY <2>3, <2>4, <2>5, <2>6 DEF LifeInv
<1>17. CASE NewConnection
  <2>1. /\ UNCHANGED <<server, pc, revents, batch, output, downs, removals, fin, failed>>
        /\ state = "none" /\ inTable' = TRUE
    BY <1>17 DEF NewConnection, dataVars
  <2>2. /\ tasks = << >> /\ batch = << >> /\ events = {} /\ output = << >> /\ ~fin
        /\ ~registered /\ ups = 0 /\ revents = {} /\ ~(removals > 0)
    BY <2>1 DEF LifeInv, BeforeUp, Fresh, LoopPlace, AfterDown
  <2>3. ~(downs > 0)
    BY <2>1 DEF LifeInv, AfterDown
  <2>4. LoopPlace' /\ RemovalsLag'
    BY <2>1, <2>2 DEF LifeInv, LoopPlace, RemovalsLag
  <2>5. CASE SameLoop
    <3>1. state' = "connected" /\ tasks' = << >> /\ ups' = 1
      BY <1>17, <2>2, <2>5 DEF NewConnection, Established, Once
    <3>2. \A op : ~Queued(op)'
      BY <2>1, <2>2, <3>1, HasOpEmpty DEF Queued
    <3>3. BeforeUp' /\ ChannelHasOwner'
      BY <2>1, <3>1, <3>2 DEF BeforeUp, Fresh, ChannelHasOwner
    <3>4. AfterDown'
      BY <2>1, <2>2, <2>3, <3>1, <3>2 DEF AfterDown
    <3>5. HttpEnd'
      BY <2>1, <3>1, <3>2 DEF LifeInv, HttpEnd
    <3> QED
      BY <2>4, <3>3, <3>4, <3>5 DEF LifeInv
  <2>6. CASE ~SameLoop
    <3>1. /\ state' = "connecting" /\ tasks' = <<Do("established")>>
          /\ UNCHANGED <<events, registered, ups>>
      <4>1. tasks' = Append(<< >>, Do("established"))
        BY <1>17, <2>2, <2>6 DEF NewConnection
      <4> QED
        BY <1>17, <2>6, <4>1 DEF NewConnection
    <3>2. ~Queued("destroyed")'
      <4>1. ~HasOp(tasks', "destroyed") /\ ~HasOp(batch', "destroyed")
        BY <2>1, <2>2, <3>1, HasOpEmpty, HasOpOne, DoIsTask
      <4> QED
        BY <4>1 DEF Queued
    <3>3. server = "gateway"
      BY <1>0, <2>6 DEF SameLoop
    <3>4. BeforeUp' /\ ChannelHasOwner' /\ HttpEnd'
      BY <2>1, <2>2, <3>1, <3>2, <3>3 DEF BeforeUp, Fresh, ChannelHasOwner, HttpEnd
    <3>5. AfterDown'
      BY <2>1, <2>2, <2>3, <3>1, <3>2 DEF AfterDown
    <3> QED
      BY <2>4, <3>4, <3>5 DEF LifeInv
  <2> QED
    BY <2>5, <2>6
<1>18. CASE RemoveConnectionInLoop
  <2>1. /\ UNCHANGED <<server, state, events, registered, pc, revents, batch, output, ups,
                       downs, fin, failed>>
        /\ removals > 0 /\ removals' = removals - 1 /\ inTable' = FALSE
        /\ tasks' = IF inTable THEN Append(tasks, Do("destroyed")) ELSE tasks
    BY <1>18 DEF RemoveConnectionInLoop, RemoveFromTable, chanVars, dataVars, histVars
  <2>2. state = "disconnected" /\ server = "gateway"
    BY <1>0, <2>1 DEF LifeInv, AfterDown, HttpEnd
  <2>3. /\ Queued("established")' <=> Queued("established")
        /\ Queued("destroyed")' <=> Queued("destroyed") \/ inTable
    <3>1. CASE inTable
      BY <1>0, <2>1, <3>1, DoIsTask, HasOpAppend DEF Queued
    <3>2. CASE ~inTable
      BY <2>1, <3>2 DEF Queued
    <3> QED
      BY <3>1, <3>2
  <2>4. removals - 1 < removals
    BY <1>0
  <2>5. LoopPlace' /\ HttpEnd'
    BY <2>1, <2>2 DEF LifeInv, LoopPlace, HttpEnd
  <2>6. RemovalsLag'
    BY <1>0, <2>1, <2>4 DEF LifeInv, RemovalsLag
  <2>7. BeforeUp'
    BY <2>1, <2>2, <2>3 DEF LifeInv, BeforeUp, Fresh
  <2>8. AfterDown'
    BY <2>1, <2>2 DEF LifeInv, AfterDown
  <2>9. ChannelHasOwner'
    BY <2>1, <2>3 DEF LifeInv, ChannelHasOwner
  <2> QED
    BY <2>5, <2>6, <2>7, <2>8, <2>9 DEF LifeInv
<1>19. ASSUME NEW m \in Msg, SendElsewhere(m) PROVE LifeInv'
  <2>1. /\ UNCHANGED <<server, state, inTable, registered, pc, batch, removals, ups, downs,
                       failed, events, output, fin, revents>>
        /\ server = "gateway" /\ state = "connected"
        /\ tasks' = Append(tasks, [op |-> "send", msg |-> m])
    BY <1>19 DEF SendElsewhere, chanVars, dataVars, tableVars, histVars
  <2>2. \A op \in {"established", "destroyed"} : Queued(op)' <=> Queued(op)
    BY <1>0, <2>1, SendIsTask, HasOpAppend DEF Queued
  <2>3. LoopPlace' /\ RemovalsLag' /\ HttpEnd'
    BY <2>1 DEF LifeInv, LoopPlace, RemovalsLag, HttpEnd
  <2>4. BeforeUp'
    BY <2>1, <2>2 DEF LifeInv, BeforeUp, Fresh
  <2>5. AfterDown' /\ ChannelHasOwner'
    BY <2>1, <2>2 DEF LifeInv, AfterDown, ChannelHasOwner
  <2> QED
    BY <2>3, <2>4, <2>5 DEF LifeInv
<1>20. ASSUME NEW m \in Msg, SendFromLoop(m) PROVE LifeInv'
  BY <1>20, LifeSame DEF SendFromLoop, loopVars, tableVars, histVars, Fresh
<1>21. CASE PeerCloses \/ PeerResets
  BY <1>21, LifeSame DEF PeerCloses, PeerResets, chanVars, loopVars, dataVars, tableVars,
     histVars
<1>22. CASE UNCHANGED vars
  BY <1>22, LifeSame DEF vars, chanVars, loopVars, dataVars, tableVars, histVars
<1> QED
  BY <1>1, <1>2, <1>3, <1>4, <1>5, <1>6, <1>7, <1>8, <1>9, <1>10, <1>11, <1>12, <1>13,
     <1>14, <1>15, <1>16, <1>17, <1>18, <1>19, <1>20, <1>21, <1>22 DEF Next, IoLoop

-----------------------------------------------------------------------------
(* The data. *)

\* Messages, buffer and FIN, together.
OutputInv == SendsInOrder /\ BufferedIsAwaited /\ FinAfterOutput

\* A step that touches neither data nor FIN, and keeps or ends what the channel
\* asks for.
LEMMA OutputSame ==
  ASSUME OutputInv, UNCHANGED <<wire, output, sent, fin>>,
         \/ state' = "disconnected"
         \/ "write" \in events' <=> "write" \in events,
         state = "disconnected" => state' = "disconnected"
  PROVE  OutputInv'
BY DEF OutputInv, SendsInOrder, BufferedIsAwaited, FinAfterOutput

\* A step that sends and does not shut down.
LEMMA OutputSend ==
  ASSUME TypeOK, OutputInv, NEW ms \in Seq(Msg), SendInLoop(ms), UNCHANGED <<state, fin>>
  PROVE  OutputInv'
<1>1. /\ wire' \o output' = sent'
      /\ state # "disconnected" => ("write" \in events' <=> output' # << >>)
      /\ fin => output' = << >>
  BY SendKeepsOrder DEF OutputInv
<1> QED
  BY <1>1 DEF OutputInv, SendsInOrder, BufferedIsAwaited, FinAfterOutput

\* Every step keeps messages, buffer and FIN in order.
LEMMA OutputStep == TypeOK /\ LifeInv /\ OutputInv /\ [Next]_vars => OutputInv'
<1> SUFFICES ASSUME TypeOK, LifeInv, OutputInv, [Next]_vars PROVE OutputInv'
  OBVIOUS
<1>1. ASSUME NEW data \in BOOLEAN, NEW room \in BOOLEAN, Poll(data, room) PROVE OutputInv'
  BY <1>1, OutputSame DEF Poll, chanVars, dataVars
<1>2. CASE HandleHup
  BY <1>2, CloseShape, OutputSame DEF HandleHup, dataVars
<1>3. CASE HandleEvent
  BY <1>3, OutputSame DEF HandleEvent, chanVars, dataVars
<1>4. CASE HandleReadData
  BY <1>4, OutputSame DEF HandleReadData, dataVars
<1>5. CASE HandleReadForceCloses
  BY <1>5, OutputSame DEF HandleReadForceCloses, dataVars
<1>6. CASE HandleReadEof
  BY <1>6, CloseShape, OutputSame DEF HandleReadEof, dataVars
<1>7. CASE HandleReadError
  BY <1>7, OutputSame DEF HandleReadError, dataVars
<1>8. ASSUME NEW m \in Msg, HandleReadReplies(m) PROVE OutputInv'
  <2>1. <<m>> \in Seq(Msg) /\ SendInLoop(<<m>>) /\ UNCHANGED <<state, fin>>
    BY <1>8 DEF HandleReadReplies
  <2> QED
    BY <2>1, OutputSend
<1>9. ASSUME NEW header \in Msg, NEW body \in Msg, HandleReadResponds(header, body)
      PROVE OutputInv'
  <2>1. /\ SendInLoop(<<header, body>>) /\ <<header, body>> \in Seq(Msg)
        /\ state = "connected" /\ state' = "disconnecting"
        /\ fin' = (fin \/ "write" \notin events')
    BY <1>9 DEF HandleReadResponds, ShutdownInLoop
  <2>2. /\ wire' \o output' = sent'
        /\ "write" \in events' <=> output' # << >>
        /\ fin => output' = << >>
    BY <2>1, SendKeepsOrder DEF OutputInv
  <2> QED
    BY <2>1, <2>2 DEF OutputInv, SendsInOrder, BufferedIsAwaited, FinAfterOutput
<1>10. CASE HandleWrite
  <2>1. PICK k \in 1 .. Len(output) :
              /\ wire' = wire \o SubSeq(output, 1, k)
              /\ output' = SubSeq(output, k + 1, Len(output))
              /\ events' = IF k = Len(output) THEN events \ {"write"} ELSE events
              /\ fin' = (k = Len(output) /\ state = "disconnecting")
    BY <1>10 DEF HandleWrite
  <2>2. /\ wire' \o output' = sent
        /\ k = Len(output) <=> output' = << >>
    BY <2>1, WriteKeepsOrder DEF OutputInv
  <2>3. "write" \in events /\ state' = state /\ sent' = sent
    BY <1>10 DEF HandleWrite, Writing
  <2>4. SendsInOrder'
    BY <2>2, <2>3 DEF SendsInOrder
  <2>5. BufferedIsAwaited' /\ FinAfterOutput'
    BY <2>1, <2>2, <2>3 DEF BufferedIsAwaited, FinAfterOutput
  <2> QED
    BY <2>4, <2>5 DEF OutputInv
<1>11. CASE HandleWriteNothing
  BY <1>11, OutputSame DEF HandleWriteNothing, Writing, WriteFails, dataVars
<1>12. CASE SwapTasks
  BY <1>12, OutputSame DEF SwapTasks, chanVars, dataVars
<1>13. CASE ConnectEstablished
  <2>1. state = "connecting" /\ events = {} /\ output = << >> /\ ~fin
    BY <1>13, EstablishedShape DEF LifeInv, BeforeUp, Fresh
  <2> QED
    BY <1>13, <2>1, OutputSame DEF ConnectEstablished, Established, dataVars
<1>14. CASE SendTask
  <2>1. Head(batch) \in Task /\ Head(batch).op = "send"
    <3>1. batch \in Seq(Task) /\ batch # << >>
      BY <1>14 DEF SendTask, TaskIs, TypeOK
    <3> QED
      BY <1>14, <3>1, HasOpHeadTail DEF SendTask, TaskIs
  <2>2. <<Head(batch).msg>> \in Seq(Msg) /\ SendInLoop(<<Head(batch).msg>>)
    BY <1>14, <2>1, TaskMsg DEF SendTask
  <2> QED
    BY <1>14, <2>2, OutputSend DEF SendTask
<1>15. CASE ForceCloseInLoop
  <2>1. CASE HandleClose
    BY <1>15, <2>1, CloseShape, OutputSame DEF ForceCloseInLoop, dataVars
  <2>2. CASE UNCHANGED chanVars
    BY <1>15, <2>2, OutputSame DEF ForceCloseInLoop, dataVars, chanVars
  <2> QED
    BY <1>15, <2>1, <2>2 DEF ForceCloseInLoop
<1>16. CASE ConnectDestroyed
  BY <1>16, DestroyedShape, OutputSame DEF ConnectDestroyed, dataVars
<1>17. CASE EndBatch
  BY <1>17, OutputSame DEF EndBatch, chanVars, dataVars
<1>18. CASE NewConnection
  <2>1. state = "none" /\ events = {}
    BY <1>18 DEF NewConnection, LifeInv, BeforeUp, Fresh
  <2> QED
    BY <1>18, <2>1, OutputSame DEF NewConnection, Established, dataVars
<1>19. CASE RemoveConnectionInLoop
  BY <1>19, OutputSame DEF RemoveConnectionInLoop, chanVars, dataVars
<1>20. ASSUME NEW m \in Msg, SendElsewhere(m) PROVE OutputInv'
  BY <1>20, OutputSame DEF SendElsewhere, chanVars, dataVars
<1>21. ASSUME NEW m \in Msg, SendFromLoop(m) PROVE OutputInv'
  <2>1. <<m>> \in Seq(Msg) /\ SendInLoop(<<m>>) /\ UNCHANGED <<state, fin>>
    BY <1>21 DEF SendFromLoop
  <2> QED
    BY <2>1, OutputSend
<1>22. CASE PeerCloses \/ PeerResets
  BY <1>22, OutputSame DEF PeerCloses, PeerResets, chanVars, dataVars
<1>23. CASE UNCHANGED vars
  BY <1>23, OutputSame DEF vars, chanVars, dataVars
<1> QED
  BY <1>1, <1>2, <1>3, <1>4, <1>5, <1>6, <1>7, <1>8, <1>9, <1>10, <1>11, <1>12, <1>13,
     <1>14, <1>15, <1>16, <1>17, <1>18, <1>19, <1>20, <1>21, <1>22, <1>23 DEF Next, IoLoop

\* Nothing is sent at first.
LEMMA OutputInit == Init => OutputInv
<1>1. << >> \o << >> = << >>
  OBVIOUS
<1> QED
  BY <1>1 DEF Init, OutputInv, SendsInOrder, BufferedIsAwaited, FinAfterOutput

-----------------------------------------------------------------------------
(* Theorems. *)

\* The invariant of the connection's life, in every reachable state.
THEOREM LifeCorrect == Spec => [](TypeOK /\ LifeInv)
<1>1. Init => TypeOK /\ LifeInv
  BY TypeInit, LifeInit
<1>2. TypeOK /\ LifeInv /\ [Next]_vars => TypeOK' /\ LifeInv'
  BY TypeStep, LifeStep
<1> QED
  BY <1>1, <1>2, PTL DEF Spec

\* The connection, its loop and the table keep their types: in particular no
\* more than MaxRemovals removals are ever queued.
THEOREM TypeCorrect == Spec => []TypeOK
BY LifeCorrect, PTL

\* A channel in epoll has an owner, and once the connection is closed its end
\* is under way (TcpServer::removeConnectionInLoop, connectDestroyed).
THEOREM ChannelIsOwned == Spec => []ChannelHasOwner
<1>1. LifeInv => ChannelHasOwner
  BY DEF LifeInv
<1> QED
  BY LifeCorrect, <1>1, PTL

\* The owner hears of the connection once, of an HTTP connection's end once,
\* and no assertion fails on a single reactor.
THEOREM LifeIsToldInOrder == Spec => []UpThenDown
<1>1. TypeOK /\ LifeInv => UpThenDown
  <2> SUFFICES ASSUME TypeOK, LifeInv PROVE UpThenDown
    OBVIOUS
  <2>1. ups \in {0, 1} /\ downs \in 0 .. 2 /\ (Fresh => ~(downs > 0))
    BY DEF LifeInv, BeforeUp, AfterDown, Fresh, TypeOK
  <2>2. server = "http" => ~failed /\ downs <= ups
    <3> SUFFICES ASSUME server = "http" PROVE ~failed /\ downs <= ups
      OBVIOUS
    <3>1. ~failed /\ downs <= 1
      BY DEF LifeInv, HttpEnd
    <3>2. CASE Fresh
      BY <2>1, <3>1, <3>2
    <3>3. CASE ~Fresh
      BY <2>1, <3>1, <3>3 DEF LifeInv, BeforeUp
    <3> QED
      BY <3>2, <3>3, <3>1
  <2>3. state = "disconnected" <=> downs > 0
    BY DEF LifeInv, AfterDown
  <2>4. ups <= 1
    BY <2>1
  <2> QED
    BY <2>2, <2>3, <2>4 DEF UpThenDown
<1> QED
  BY LifeCorrect, <1>1, PTL

\* Types, life and output, in every reachable state.
THEOREM ConnectionCorrect == Spec => [](TypeOK /\ LifeInv /\ OutputInv)
<1>1. Init => TypeOK /\ LifeInv /\ OutputInv
  BY TypeInit, LifeInit, OutputInit
<1>2. TypeOK /\ LifeInv /\ OutputInv /\ [Next]_vars => TypeOK' /\ LifeInv' /\ OutputInv'
  BY TypeStep, LifeStep, OutputStep
<1> QED
  BY <1>1, <1>2, PTL DEF Spec

\* What sendInLoop accepted goes out in that order and exactly once, however
\* the socket takes it and whichever thread sent it.
THEOREM MessagesInOrder == Spec => []SendsInOrder
<1>1. OutputInv => SendsInOrder
  BY DEF OutputInv
<1> QED
  BY ConnectionCorrect, <1>1, PTL

\* As long as the connection is not closed, the channel asks for EPOLLOUT
\* exactly when output is buffered.
THEOREM OutputIsAwaited == Spec => []BufferedIsAwaited
<1>1. OutputInv => BufferedIsAwaited
  BY DEF OutputInv
<1> QED
  BY ConnectionCorrect, <1>1, PTL

\* FIN follows all output: shutdownInLoop and handleWrite never cut a response.
THEOREM FinIsLast == Spec => []FinAfterOutput
<1>1. OutputInv => FinAfterOutput
  BY DEF OutputInv
<1> QED
  BY ConnectionCorrect, <1>1, PTL
=============================================================================
