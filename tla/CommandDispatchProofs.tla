------------------------ MODULE CommandDispatchProofs ------------------------
(***************************************************************************)
(* Proofs about CommandDispatch, for any nodes, devices, commands and      *)
(* batch size, with all faults and with worker threads.                    *)
(***************************************************************************)
EXTENDS CommandDispatch, TLAPS

USE DispatchAssumption

\* The variables the invariant speaks of, without the types.
core == <<deployment, batch, stage, stream, pel, acked, status, accepted, sends,
          publishes, deliveries, forwarded, queued>>

\* AtMostOnce and StatusTruthful for one command.
OnceFor(c) ==
  /\ sends[c] + publishes[c] <= 1
  /\ deliveries[c] + (IF c \in queued THEN 1 ELSE 0) <= sends[c]
  /\ c \in forwarded => publishes[c] = 1

TruthFor(c) ==
  /\ status[c] = "sent" => sends[c] = 1 /\ c \notin forwarded
  /\ status[c] = "failed" => /\ sends[c] = 0 /\ pel[c] # NoNode
                             /\ c \in forwarded => pel[c] \in deployment.workers

\* The invariant holds initially.
LEMMA DispatchInit == Init => DispatchInv
BY DEF Init, DispatchInv, TypeOK, Stage, BatchInStage, OnePlace, NoRepeats,
       UntouchedBefore, Untouched, Before, Tried, AckAfterAttempt, AtMostOnce,
       StatusTruthful, InStream, InBatch

-----------------------------------------------------------------------------
\* What XREADGROUP hands out is the front of the stream, and the rest stays.
LEMMA ReadGroupSplits ==
  ASSUME TypeOK, stream # <<>>
  PROVE  LET cut == Len(NewEntries)
         IN  /\ cut \in 1 .. Len(stream)
             /\ NewEntries \in Seq(Cmd)
             /\ \A i \in 1 .. cut : NewEntries[i] = stream[i]
             /\ SubSeq(stream, cut + 1, Len(stream)) \in Seq(Cmd)
             /\ Len(SubSeq(stream, cut + 1, Len(stream))) = Len(stream) - cut
             /\ \A i \in 1 .. (Len(stream) - cut) :
                  SubSeq(stream, cut + 1, Len(stream))[i] = stream[cut + i]
<1> DEFINE cut == IF Len(stream) < BatchSize THEN Len(stream) ELSE BatchSize
<1>1. cut \in 1 .. Len(stream) /\ stream \in Seq(Cmd) /\ Len(stream) \in Nat
  BY DEF TypeOK
<1>2. NewEntries = SubSeq(stream, 1, cut)
  BY DEF NewEntries
<1> HIDE DEF cut
<1>3. /\ SubSeq(stream, 1, cut) \in Seq(Cmd) /\ Len(SubSeq(stream, 1, cut)) = cut
      /\ \A i \in 1 .. cut : SubSeq(stream, 1, cut)[i] = stream[i]
  BY <1>1
<1>4. /\ SubSeq(stream, cut + 1, Len(stream)) \in Seq(Cmd)
      /\ Len(SubSeq(stream, cut + 1, Len(stream))) = Len(stream) - cut
      /\ \A i \in 1 .. (Len(stream) - cut) :
           SubSeq(stream, cut + 1, Len(stream))[i] = stream[cut + i]
  BY <1>1
<1> QED
  BY <1>1, <1>2, <1>3, <1>4

\* Going on with the next command takes the first one off the batch.
LEMMA NextCommandShifts ==
  ASSUME TypeOK, BatchInStage, NEW n \in Node, stage[n] \notin {"idle", "wait"},
         NextCommand(n)
  PROVE  /\ batch' \in [Node -> Seq(Cmd)] /\ stage' \in [Node -> Stage]
         /\ Len(batch[n]) \in Nat \ {0} /\ Len(batch'[n]) = Len(batch[n]) - 1
         /\ \A i \in 1 .. Len(batch'[n]) : batch'[n][i] = batch[n][i + 1]
         /\ \A m \in Node \ {n} : batch'[m] = batch[m] /\ stage'[m] = stage[m]
         /\ stage'[n] = IF Len(batch'[n]) = 0 THEN "idle" ELSE "next"
         /\ dest' \in [Node -> Node \cup {NoNode}]
         /\ Head(batch[n]) = batch[n][1] /\ batch[n][1] \in Cmd
<1>1. batch[n] \in Seq(Cmd) /\ Len(batch[n]) \in Nat \ {0}
  BY DEF TypeOK, BatchInStage
<1>2. /\ Tail(batch[n]) \in Seq(Cmd) /\ Len(Tail(batch[n])) = Len(batch[n]) - 1
      /\ \A i \in 1 .. Len(Tail(batch[n])) : Tail(batch[n])[i] = batch[n][i + 1]
      /\ Head(batch[n]) = batch[n][1] /\ batch[n][1] \in Cmd
  BY <1>1
<1>3. batch' = [batch EXCEPT ![n] = Tail(batch[n])]
  BY DEF NextCommand
<1>4. stage' = [stage EXCEPT ![n] = IF Len(batch[n]) = 1 THEN "idle" ELSE "next"]
  BY DEF NextCommand
<1>5. batch'[n] = Tail(batch[n]) /\ batch' \in [Node -> Seq(Cmd)]
  BY <1>2, <1>3 DEF TypeOK
<1>6. Len(batch'[n]) = 0 <=> Len(batch[n]) = 1
  BY <1>1, <1>2, <1>5
<1>7. \A m \in Node \ {n} : batch'[m] = batch[m] /\ stage'[m] = stage[m]
  BY <1>3, <1>4 DEF TypeOK
<1>8. stage' \in [Node -> Stage] /\ dest' \in [Node -> Node \cup {NoNode}]
  BY DEF NextCommand, TypeOK, Stage
<1>9. stage'[n] = IF Len(batch'[n]) = 0 THEN "idle" ELSE "next"
  BY <1>4, <1>6 DEF TypeOK
<1> QED
  BY <1>1, <1>2, <1>5, <1>7, <1>8, <1>9

-----------------------------------------------------------------------------
\* Every step keeps the types.
LEMMA TypeStep ==
  ASSUME TypeOK, BatchInStage, [Next]_vars PROVE TypeOK'
<1> USE DEF TypeOK, nodeVars, procVars, devVars, entryVars, tryVars, pastVars
<1>0. deployment' = deployment
  BY DEF Next, vars
<1> USE <1>0
<1>1. ASSUME NEW n \in Node, NEW c \in Cmd, EnqueueCommand(n, c) PROVE TypeOK'
  <2>1. stream' \in Seq(Cmd) /\ accepted' \in SUBSET Cmd
    BY <1>1 DEF EnqueueCommand
  <2> QED
    BY <1>1, <2>1 DEF EnqueueCommand
<1>2. ASSUME NEW n \in Node, stream # <<>>, ReadGroup(n)
      PROVE stream' \in Seq(Cmd) /\ pel' \in [Cmd -> Node \cup {NoNode}]
  BY <1>2, ReadGroupSplits DEF ReadGroup
<1>3. ASSUME NEW n \in Node, ConsumeCommands(n) PROVE TypeOK'
  <2>1. batch' \in [Node -> Seq(Cmd)] /\ stage' \in [Node -> Stage]
    BY <1>3, ReadGroupSplits DEF ConsumeCommands, ReadGroup, Stage
  <2> QED
    BY <1>2, <1>3, <2>1 DEF ConsumeCommands, ReadGroup
<1>4. ASSUME NEW n \in Node, Reconnect(n)
      PROVE link' \in [Node -> {"ok", "broken", "down"}] /\ subscribed' \in SUBSET Node
  BY <1>4 DEF Reconnect
<1>5. ASSUME NEW n \in Node, ConsumeReplyLost(n) PROVE TypeOK'
  <2>1. link' \in [Node -> {"ok", "broken", "down"}] /\ subscribed' \in SUBSET Node
    BY <1>4, <1>5 DEF ConsumeReplyLost
  <2>2. stage' \in [Node -> Stage]
    BY <1>5 DEF ConsumeReplyLost, Stage
  <2>3. stream' \in Seq(Cmd) /\ pel' \in [Cmd -> Node \cup {NoNode}]
    BY <1>2, <1>5 DEF ConsumeReplyLost, ReadGroup
  <2>4. lost' \in SUBSET Cmd
    BY <1>5 DEF ConsumeReplyLost
  <2> QED
    BY <1>5, <2>1, <2>2, <2>3, <2>4 DEF ConsumeReplyLost
<1>6. ASSUME NEW n \in Node, ConsumeReconnects(n) PROVE TypeOK'
  BY <1>4, <1>6 DEF ConsumeReconnects, Stage
<1>7. ASSUME NEW n \in Node, BlockOnStream(n) \/ FindDevice(n) \/ FindAgain(n)
      PROVE TypeOK'
  BY <1>7 DEF BlockOnStream, FindDevice, FindAgain, Stage
<1>8. ASSUME NEW n \in Node, stage[n] \notin {"idle", "wait"}
      PROVE Head(batch[n]) = batch[n][1] /\ batch[n][1] \in Cmd
  BY <1>8 DEF BatchInStage
<1>9. ASSUME NEW n \in Node, DeviceGone(n) PROVE TypeOK'
  <2>1. stage[n] \notin {"idle", "wait"} /\ NextCommand(n)
    BY <1>9 DEF DeviceGone
  <2> QED
    BY <1>9, <2>1, NextCommandShifts DEF DeviceGone
<1>10. ASSUME NEW n \in Node, SendCommandToDevice(n) PROVE TypeOK'
  <2>1. Head(batch[n]) \in Cmd
    BY <1>8, <1>10 DEF SendCommandToDevice
  <2>2. deliveries' \in [Cmd -> Nat] /\ queued' \in SUBSET Cmd
    <3>1. SendInLoop(Head(batch[n])) => deliveries' \in [Cmd -> Nat]
      BY <2>1 DEF SendInLoop
    <3> QED
      BY <1>10, <2>1, <3>1 DEF SendCommandToDevice
  <2>3. sends' \in [Cmd -> Nat] /\ stage' \in [Node -> Stage]
    BY <1>10, <2>1 DEF SendCommandToDevice, Stage
  <2> QED
    BY <1>10, <2>2, <2>3 DEF SendCommandToDevice
<1>11. ASSUME NEW c \in Cmd, RunQueuedSend(c) PROVE TypeOK'
  <2>1. deliveries' \in [Cmd -> Nat]
    <3>1. SendInLoop(c)
      BY <1>11 DEF RunQueuedSend
    <3>2. [deliveries EXCEPT ![c] = @ + 1] \in [Cmd -> Nat]
      OBVIOUS
    <3> QED
      BY <3>1, <3>2 DEF SendInLoop
  <2> QED
    BY <1>11, <2>1 DEF RunQueuedSend
<1>12. ASSUME NEW n \in Node, MarkCommandSent(n) PROVE TypeOK'
  BY <1>8, <1>12 DEF MarkCommandSent, Stage
<1>13. ASSUME NEW n \in Node, AckCommand(n) PROVE TypeOK'
  <2>1. stage[n] \notin {"idle", "wait"} /\ NextCommand(n)
    BY <1>13 DEF AckCommand
  <2>2. acked' \in SUBSET Cmd /\ pel' \in [Cmd -> Node \cup {NoNode}]
    <3>1. Head(batch[n]) \in Cmd
      BY <1>8, <2>1
    <3>2. CASE link[n] = "ok"
      <4>1. /\ acked' = acked \cup {Head(batch[n])}
            /\ pel' = [pel EXCEPT ![Head(batch[n])] = NoNode]
        BY <1>13, <3>2 DEF AckCommand
      <4> QED
        BY <3>1, <4>1
    <3>3. CASE link[n] # "ok"
      BY <1>13, <3>3 DEF AckCommand
    <3> QED
      BY <3>2, <3>3
  <2> QED
    BY <1>13, <2>1, <2>2, NextCommandShifts DEF AckCommand
<1>14. ASSUME NEW n \in Node, FindDeviceNode(n) PROVE TypeOK'
  <2>1. Head(batch[n]) \in Cmd
    BY <1>8, <1>14 DEF FindDeviceNode
  <2>2. RegisteredNode(n, Target[Head(batch[n])]) \in Node \cup {NoNode}
    BY <2>1 DEF RegisteredNode
  <2> QED
    BY <1>14, <2>2 DEF FindDeviceNode, Stage
<1>15. ASSUME NEW n \in Node, MarkCommandFailed(n) PROVE TypeOK'
  <2>1. stage[n] \notin {"idle", "wait"} /\ NextCommand(n)
    BY <1>15 DEF MarkCommandFailed
  <2>2. status' \in [Cmd -> {"none", "sent", "failed"}]
    BY <1>8, <1>15, <2>1 DEF MarkCommandFailed
  <2> QED
    BY <1>15, <2>1, <2>2, NextCommandShifts DEF MarkCommandFailed
<1>16. ASSUME NEW n \in Node, ForwardCommand(n) \/ ForwardFails(n) PROVE TypeOK'
  <2>1. stage[n] \notin {"idle", "wait"}
    BY <1>16 DEF ForwardCommand, ForwardFails
  <2>2. Head(batch[n]) \in Cmd
    BY <1>8, <2>1
  <2>3. publishes' \in [Cmd -> Nat] /\ forwarded' \in SUBSET Cmd
    <3>1. Publish(dest[n], Head(batch[n]))
            => publishes' \in [Cmd -> Nat] /\ forwarded' \in SUBSET Cmd
      BY <2>2 DEF Publish
    <3> QED
      BY <1>16, <3>1 DEF ForwardCommand, ForwardFails
  <2>4. /\ status' \in [Cmd -> {"none", "sent", "failed"}]
        /\ link' \in [Node -> {"ok", "broken", "down"}]
    BY <1>16, <2>2 DEF ForwardCommand, ForwardFails
  <2>5. /\ batch' \in [Node -> Seq(Cmd)] /\ stage' \in [Node -> Stage]
        /\ dest' \in [Node -> Node \cup {NoNode}]
    <3>1. CASE NextCommand(n)
      BY <2>1, <3>1, NextCommandShifts
    <3>2. CASE ~NextCommand(n)
      BY <1>16, <3>2 DEF ForwardCommand, ForwardFails, Stage
    <3> QED
      BY <3>1, <3>2
  <2> QED
    BY <1>16, <2>3, <2>4, <2>5 DEF ForwardCommand, ForwardFails
<1>17. ASSUME NEW n \in Node, NEW d \in Device,
              DeviceOnline(n, d) \/ SaveRecord(n, d) PROVE TypeOK'
  <2>1. where' \in [Device -> Node \cup {NoNode}]
    BY <1>17 DEF DeviceOnline, SaveRecord
  <2>2. unsaved' \in SUBSET (Node \X Device)
    BY <1>17 DEF DeviceOnline, SaveRecord, WriteRecord
  <2>3. registry' \in [Device -> Node \cup {NoNode}]
    BY <1>17 DEF DeviceOnline, SaveRecord, WriteRecord
  <2> QED
    BY <1>17, <2>1, <2>2, <2>3 DEF DeviceOnline, SaveRecord
<1>18. ASSUME NEW d \in Device, ForceClose(d) \/ DeviceOffline(d) PROVE TypeOK'
  <2>1. where[d] \in Node
    BY <1>18 DEF ForceClose, DeviceOffline
  <2>2. where' \in [Device -> Node \cup {NoNode}]
    BY <1>18 DEF ForceClose, DeviceOffline
  <2>3. unsaved' \in SUBSET (Node \X Device)
    BY <1>18, <2>1 DEF ForceClose, DeviceOffline, WriteRecord
  <2>4. registry' \in [Device -> Node \cup {NoNode}]
    BY <1>18 DEF ForceClose, DeviceOffline, WriteRecord
  <2> QED
    BY <1>18, <2>2, <2>3, <2>4 DEF ForceClose, DeviceOffline
<1>19. ASSUME NEW n \in Node, BreakLink(n) PROVE TypeOK'
  BY <1>19 DEF BreakLink
<1>20. ASSUME NEW n \in Node, Crash(n) PROVE TypeOK'
  BY <1>20 DEF Crash, Stage
<1>21. ASSUME NEW n \in Node, Start(n) \/ StartAlone(n) PROVE TypeOK'
  BY <1>21, ZenonT(30) DEF Start, StartAlone
<1>22. ASSUME NEW n \in Node, NEW m \in Node, ClaimPendingMessages(n, m)
       PROVE TypeOK'
  BY <1>22 DEF ClaimPendingMessages
<1>23. CASE UNCHANGED vars
  BY <1>23 DEF vars
<1> QED
  BY <1>1, <1>3, <1>5, <1>6, <1>7, <1>9, <1>10, <1>11, <1>12, <1>13, <1>14, <1>15,
     <1>16, <1>17, <1>18, <1>19, <1>20, <1>21, <1>22, <1>23
     DEF Next, Step, Dispatch, Fault

-----------------------------------------------------------------------------
\* The invariant without the types.
SafetyInv == BatchInStage /\ OnePlace /\ NoRepeats /\ UntouchedBefore /\ Tried
          /\ AckAfterAttempt /\ AtMostOnce /\ StatusTruthful

\* An accepted command starts untouched at the end of the stream.
LEMMA EnqueueStep ==
  ASSUME DispatchInv, NEW n \in Node, NEW c \in Cmd, EnqueueCommand(n, c),
         deployment' = deployment
  PROVE  SafetyInv'
<1> USE DEF DispatchInv
<1>1. /\ UNCHANGED <<deployment, batch, stage, pel, acked, status, sends,
                     publishes, deliveries, forwarded, queued>>
      /\ accepted' = accepted \cup {c} /\ c \notin accepted
  BY DEF EnqueueCommand, procVars, devVars, tryVars
<1>2. CASE stream' = stream
  BY <1>1, <1>2 DEF SafetyInv, BatchInStage, OnePlace, NoRepeats, UntouchedBefore,
     Untouched, Tried, Attempts, AckAfterAttempt, AtMostOnce, StatusTruthful,
     InStream, InBatch
<1>3. CASE stream' = Append(stream, c)
  <2>1. /\ Len(stream) \in Nat /\ Len(stream') = Len(stream) + 1
        /\ \A i \in 1 .. Len(stream) : stream'[i] = stream[i]
        /\ stream'[Len(stream) + 1] = c
    BY <1>3 DEF TypeOK
  <2>2. \A e \in Cmd : InStream(e)' <=> InStream(e) \/ e = c
    BY <2>1 DEF InStream
  <2>3. ~InStream(c) /\ pel[c] = NoNode /\ c \notin acked /\ Untouched(c)
    BY <1>1 DEF NoRepeats, UntouchedBefore
  <2>4. OnePlace'
    BY <1>1, <2>2, <2>3 DEF OnePlace, InBatch
  <2>5. NoRepeats'
    <3>1. \A i, j \in 1 .. Len(stream') : stream'[i] = stream'[j] => i = j
      BY <2>1, <2>3 DEF NoRepeats, InStream
    <3> QED
      BY <1>1, <2>2, <3>1 DEF NoRepeats
  <2>6. UntouchedBefore'
    BY <1>1, <2>2, <2>3 DEF UntouchedBefore, Untouched
  <2> QED
    BY <1>1, <2>4, <2>5, <2>6 DEF SafetyInv, BatchInStage, Tried, Attempts,
       AckAfterAttempt, AtMostOnce, StatusTruthful
<1> QED
  BY <1>2, <1>3 DEF EnqueueCommand

\* XREADGROUP moves untouched entries from the stream to the pending list.
LEMMA ReadGroupStep ==
  ASSUME DispatchInv, NEW n \in Node, ReadGroup(n), stage[n] \in {"idle", "wait"},
         UNCHANGED <<deployment, acked, status, accepted, sends, publishes,
                     deliveries, forwarded, queued>>,
         \/ batch' = batch /\ stage' = [stage EXCEPT ![n] = "idle"]
         \/ /\ batch' = [batch EXCEPT ![n] = NewEntries]
            /\ stage' = [stage EXCEPT ![n] = "next"]
  PROVE  SafetyInv'
<1> USE DEF DispatchInv
<1> DEFINE cut == Len(NewEntries)
           New(c) == \E i \in 1 .. cut : NewEntries[i] = c
<1>1. /\ cut \in 1 .. Len(stream) /\ Len(stream) \in Nat
      /\ \A i \in 1 .. cut : NewEntries[i] = stream[i] /\ stream[i] \in Cmd
      /\ Len(stream') = Len(stream) - cut
      /\ \A i \in 1 .. Len(stream') : stream'[i] = stream[cut + i]
  <2>1. /\ stream # <<>> /\ stream' = SubSeq(stream, cut + 1, Len(stream))
        /\ TypeOK
    BY DEF ReadGroup
  <2>2. Len(stream) \in Nat /\ \A i \in 1 .. Len(stream) : stream[i] \in Cmd
    BY DEF TypeOK
  <2>3. cut \in 1 .. Len(stream) /\ \A i \in 1 .. cut : NewEntries[i] = stream[i]
    BY <2>1, ReadGroupSplits
  <2>4. /\ Len(stream') = Len(stream) - cut
        /\ \A i \in 1 .. (Len(stream) - cut) : stream'[i] = stream[cut + i]
    BY <2>1, ReadGroupSplits
  <2> HIDE DEF cut
  <2> QED
    BY <2>2, <2>3, <2>4
<1>2. \A c \in Cmd : pel'[c] = IF New(c) THEN n ELSE pel[c]
  BY DEF ReadGroup, IsNew
<1> HIDE DEF cut
<1>3. \A c \in Cmd : InStream(c) <=> InStream(c)' \/ New(c)
  <2> SUFFICES ASSUME NEW c \in Cmd PROVE InStream(c) <=> InStream(c)' \/ New(c)
    OBVIOUS
  <2>1. InStream(c)' => InStream(c)
    BY <1>1 DEF InStream
  <2>2. New(c) => InStream(c)
    BY <1>1 DEF InStream
  <2>3. ASSUME NEW i \in 1 .. Len(stream), stream[i] = c, i > cut
        PROVE InStream(c)'
    <3>1. i - cut \in 1 .. Len(stream') /\ cut + (i - cut) = i
      BY <1>1, <2>3
    <3> QED
      BY <1>1, <2>3, <3>1 DEF InStream
  <2>4. ASSUME NEW i \in 1 .. Len(stream), stream[i] = c, i <= cut PROVE New(c)
    <3>1. i \in 1 .. cut
      BY <1>1, <2>4
    <3>2. NewEntries[i] = c
      BY <1>1, <2>4, <3>1
    <3> QED
      BY <3>1, <3>2
  <2>5. ASSUME InStream(c) PROVE InStream(c)' \/ New(c)
    <3>1. PICK i \in 1 .. Len(stream) : stream[i] = c
      BY <2>5 DEF InStream
    <3>2. i <= cut \/ i > cut
      BY <1>1
    <3> QED
      BY <2>3, <2>4, <3>1, <3>2
  <2> QED
    BY <2>1, <2>2, <2>5
<1>4. \A c \in Cmd : ~(InStream(c)' /\ New(c))
  BY <1>1, SMTT(30) DEF InStream, NoRepeats
<1>5. \A c \in Cmd, m \in Node : New(c) => /\ ~InBatch(m, c) /\ Untouched(c)
                                         /\ c \notin acked /\ c \in accepted
  <2> SUFFICES ASSUME NEW c \in Cmd, NEW m \in Node, New(c)
               PROVE  /\ ~InBatch(m, c) /\ Untouched(c)
                      /\ c \notin acked /\ c \in accepted
    OBVIOUS
  <2>1. InStream(c)
    BY <1>3
  <2> HIDE DEF New
  <2> QED
    BY <2>1 DEF OnePlace, UntouchedBefore, NoRepeats, TypeOK
<1>6. \A i, j \in 1 .. Len(stream') : stream'[i] = stream'[j] => i = j
  BY <1>1 DEF NoRepeats
<1>7. \A c \in Cmd : Untouched(c)' <=> Untouched(c)
  BY DEF Untouched
<1>8. CASE batch' = batch /\ stage' = [stage EXCEPT ![n] = "idle"]
  <2>0. \A m \in Node : stage'[m] = IF m = n THEN "idle" ELSE stage[m]
    BY <1>8 DEF DispatchInv, TypeOK
  <2>1. OnePlace'
    BY <1>2, <1>3, <1>4, <1>5, <1>8 DEF OnePlace, InBatch
  <2>2. NoRepeats'
    BY <1>2, <1>3, <1>5, <1>6, <1>8 DEF NoRepeats
  <2>3. UntouchedBefore'
    BY <1>3, <1>7, <1>8, <2>0 DEF UntouchedBefore, Untouched, Before
  <2>4. StatusTruthful'
    BY <1>2, <1>5 DEF StatusTruthful, Untouched
  <2> QED
    BY <1>8, <2>0, <2>1, <2>2, <2>3, <2>4 DEF SafetyInv, BatchInStage, Tried,
       Attempts, AckAfterAttempt, AtMostOnce
<1>9. CASE /\ batch' = [batch EXCEPT ![n] = NewEntries]
           /\ stage' = [stage EXCEPT ![n] = "next"]
  <2>1. /\ batch'[n] = NewEntries /\ stage'[n] = "next"
        /\ \A m \in Node \ {n} : batch'[m] = batch[m] /\ stage'[m] = stage[m]
    BY <1>9 DEF TypeOK
  <2>2. Len(batch'[n]) = cut /\ \A c \in Cmd : InBatch(n, c)' <=> New(c)
    BY <2>1 DEF InBatch, cut
  <2>3. OnePlace'
    BY <1>2, <1>3, <1>4, <1>5, <2>1, <2>2 DEF OnePlace, InBatch
  <2>4. NoRepeats'
    <3>1. \A i, j \in 1 .. cut : NewEntries[i] = NewEntries[j] => i = j
      BY <1>1 DEF NoRepeats
    <3>2. \A m \in Node : \A i, j \in 1 .. Len(batch'[m]) :
            batch'[m][i] = batch'[m][j] => i = j
      BY <2>1, <2>2, <3>1 DEF NoRepeats
    <3>3. \A c \in Cmd : InStream(c)' \/ pel'[c] # NoNode \/ c \in acked'
                           => c \in accepted'
      BY <1>2, <1>3, <1>5 DEF NoRepeats
    <3> QED
      BY <1>6, <3>2, <3>3 DEF NoRepeats
  <2>5. UntouchedBefore'
    <3>1. \A i \in 1 .. cut : NewEntries[i] \in Cmd /\ Untouched(NewEntries[i])
      BY <1>1, <1>5
    <3>2. \A i \in 1 .. Len(batch'[n]) : Untouched(batch[n][i])'
      BY <2>1, <2>2, <3>1 DEF Untouched
    <3>3. \A m \in Node \ {n} : \A i \in 1 .. Len(batch'[m]) :
            i > 1 \/ stage'[m] \in Before => Untouched(batch[m][i])'
      BY <2>1 DEF UntouchedBefore, Untouched
    <3>4. \A c \in Cmd : c \notin accepted' \/ InStream(c)' => Untouched(c)'
      BY <1>3, <1>7 DEF UntouchedBefore
    <3> QED
      BY <3>2, <3>3, <3>4 DEF UntouchedBefore
  <2>6. StatusTruthful'
    BY <1>2, <1>5 DEF StatusTruthful, Untouched
  <2>7. BatchInStage' /\ Tried'
    BY <1>1, <2>1, <2>2, SMTT(30) DEF BatchInStage, Tried, Attempts
  <2> QED
    BY <2>3, <2>4, <2>5, <2>6, <2>7 DEF SafetyInv, AckAfterAttempt, AtMostOnce
<1> QED
  BY <1>8, <1>9

-----------------------------------------------------------------------------
\* The command a node is working on: pending for this node, in no other batch
\* and at no other place of this one, not in the stream and not acknowledged.
LEMMA HeadOfBatch ==
  ASSUME DispatchInv, NEW n \in Node, stage[n] \notin {"idle", "wait"}
  PROVE  LET c == Head(batch[n])
         IN  /\ Len(batch[n]) \in Nat \ {0} /\ c = batch[n][1] /\ c \in Cmd
             /\ pel[c] = n /\ ~InStream(c) /\ c \notin acked /\ c \in accepted
             /\ \A m \in Node \ {n} : ~InBatch(m, c)
             /\ \A m \in Node : \A i \in 1 .. Len(batch[m]) :
                  batch[m][i] \in Cmd /\ (batch[m][i] = c => m = n /\ i = 1)
<1> DEFINE c == Head(batch[n])
<1>1. Len(batch[n]) \in Nat \ {0} /\ c = batch[n][1] /\ c \in Cmd
  BY DEF DispatchInv, TypeOK, BatchInStage
<1> HIDE DEF c
<1>2. InBatch(n, c)
  BY <1>1 DEF InBatch
<1>3. pel[c] = n /\ ~InStream(c) /\ c \notin acked /\ c \in accepted
  BY <1>1, <1>2 DEF DispatchInv, OnePlace, NoRepeats
<1>4. \A m \in Node \ {n} : ~InBatch(m, c)
  BY <1>1, <1>3 DEF DispatchInv, OnePlace
<1>5. \A m \in Node : \A i \in 1 .. Len(batch[m]) :
        batch[m][i] \in Cmd /\ (batch[m][i] = c => m = n /\ i = 1)
  <2> SUFFICES ASSUME NEW m \in Node, NEW i \in 1 .. Len(batch[m])
               PROVE  batch[m][i] \in Cmd /\ (batch[m][i] = c => m = n /\ i = 1)
    OBVIOUS
  <2>1. batch[m][i] \in Cmd
    BY DEF DispatchInv, TypeOK
  <2>2. batch[m][i] = c => m = n
    BY <1>4 DEF InBatch
  <2>3. batch[n] = batch[m] /\ batch[m][i] = c => i = 1
    BY <1>1 DEF DispatchInv, NoRepeats
  <2> QED
    BY <2>1, <2>2, <2>3
<1> QED
  BY <1>1, <1>3, <1>4, <1>5 DEF c

\* processCommand moves on with the first command of the batch: the invariant
\* is kept if what was done with it fits the stage it is left in.
LEMMA WorkStep ==
  ASSUME DispatchInv, NEW n \in Node, stage[n] \notin {"idle", "wait"},
         NEW c \in Cmd, c = Head(batch[n]),
         UNCHANGED <<deployment, batch, stream, pel, acked, accepted>>,
         stage'[n] \in Before \cup {"sent", "ack"},
         \A m \in Node \ {n} : stage'[m] = stage[m],
         \A e \in Cmd \ {c} :
           /\ sends'[e] = sends[e] /\ publishes'[e] = publishes[e]
           /\ deliveries'[e] = deliveries[e] /\ status'[e] = status[e]
           /\ (e \in forwarded' <=> e \in forwarded) /\ (e \in queued' <=> e \in queued),
         stage'[n] \in Before => Untouched(c)',
         stage'[n] = "sent" => sends'[c] = 1,
         stage'[n] = "ack" => sends'[c] + publishes'[c] = 1,
         stage'[n] \in {"sent", "ack"} => status'[c] # "failed",
         OnceFor(c)', TruthFor(c)'
  PROVE  SafetyInv'
<1>1. /\ Len(batch[n]) \in Nat \ {0} /\ c = batch[n][1]
      /\ pel[c] = n /\ ~InStream(c) /\ c \notin acked /\ c \in accepted
      /\ \A m \in Node : \A i \in 1 .. Len(batch[m]) :
           batch[m][i] \in Cmd /\ (batch[m][i] = c => m = n /\ i = 1)
  BY HeadOfBatch
<1>2. UntouchedBefore'
  <2>1. \A e \in Cmd : e \notin accepted' \/ InStream(e)' => Untouched(e)'
    BY <1>1 DEF DispatchInv, UntouchedBefore, Untouched, InStream
  <2>2. ASSUME NEW m \in Node, NEW i \in 1 .. Len(batch'[m]),
               i > 1 \/ stage'[m] \in Before
        PROVE Untouched(batch[m][i])'
    <3>1. CASE batch[m][i] = c
      BY <1>1, <2>2, <3>1
    <3>2. CASE batch[m][i] # c
      <4>1. batch[m][i] \in Cmd \ {c} /\ i \in 1 .. Len(batch[m])
        BY <1>1, <3>2
      <4>2. i > 1 \/ stage[m] \in Before
        BY <1>1, <2>2, <3>2
      <4>3. Untouched(batch[m][i])
        BY <4>1, <4>2 DEF DispatchInv, UntouchedBefore
      <4> QED
        BY <4>1, <4>3 DEF Untouched
    <3> QED
      BY <3>1, <3>2
  <2> QED
    BY <2>1, <2>2 DEF UntouchedBefore
<1>3. Tried'
  <2>1. ASSUME NEW m \in Node, m # n, stage[m] \in {"sent", "ack"}
        PROVE batch[m][1] \in Cmd \ {c}
    <3>1. 1 \in 1 .. Len(batch[m])
      BY <2>1, HeadOfBatch
    <3> QED
      BY <1>1, <2>1, <3>1
  <2>2. ASSUME NEW m \in Node
        PROVE  /\ stage'[m] = "sent" => sends'[batch'[m][1]] = 1
               /\ stage'[m] = "ack" => sends'[batch'[m][1]] + publishes'[batch'[m][1]] = 1
               /\ stage'[m] \in {"sent", "ack"} => status'[batch'[m][1]] # "failed"
    <3>1. CASE m = n
      BY <1>1, <3>1
    <3>2. CASE m # n
      BY <2>1, <3>2 DEF DispatchInv, Tried, Attempts
    <3> QED
      BY <3>1, <3>2
  <2> QED
    BY <2>2 DEF Tried, Attempts
<1>4. AckAfterAttempt'
  BY <1>1 DEF DispatchInv, AckAfterAttempt, TypeOK
<1>5. AtMostOnce'
  <2>1. ASSUME NEW e \in Cmd, e # c PROVE OnceFor(e)'
    BY <2>1 DEF DispatchInv, AtMostOnce, OnceFor
  <2> QED
    BY <2>1 DEF AtMostOnce, OnceFor
<1>6. StatusTruthful'
  <2>1. ASSUME NEW e \in Cmd, e # c PROVE TruthFor(e)'
    BY <2>1 DEF DispatchInv, StatusTruthful, TruthFor
  <2> QED
    BY <2>1 DEF StatusTruthful, TruthFor
<1>7. BatchInStage' /\ OnePlace' /\ NoRepeats'
  BY <1>1 DEF DispatchInv, BatchInStage, OnePlace, NoRepeats, InStream, InBatch, Before
<1> QED
  BY <1>2, <1>3, <1>4, <1>5, <1>6, <1>7 DEF SafetyInv

\* An untouched command was not delivered, forwarded or queued either.
LEMMA UntouchedIsClean ==
  ASSUME DispatchInv, NEW c \in Cmd, Untouched(c)
  PROVE  sends[c] = 0 /\ deliveries[c] = 0 /\ c \notin queued /\ c \notin forwarded
<1>1. sends[c] = 0 /\ publishes[c] = 0 /\ deliveries[c] \in Nat
  BY DEF Untouched, DispatchInv, TypeOK
<1>2. OnceFor(c)
  BY DEF DispatchInv, AtMostOnce, OnceFor
<1> QED
  BY <1>1, <1>2 DEF OnceFor

\* The lookups: the first command is still untouched.
LEMMA LookUpStep ==
  ASSUME DispatchInv, NEW n \in Node, deployment' = deployment,
         FindDevice(n) \/ FindAgain(n) \/ FindDeviceNode(n)
  PROVE  SafetyInv'
<1> USE DEF procVars, devVars, entryVars, tryVars, pastVars
<1>1. stage[n] \in {"next", "found", "away"}
  BY DEF FindDevice, FindAgain, FindDeviceNode
<1>2. PICK c \in Cmd : c = Head(batch[n]) /\ c = batch[n][1] /\ Len(batch[n]) \in Nat \ {0}
  BY <1>1, HeadOfBatch
<1>3. UNCHANGED <<batch, stream, pel, acked, accepted, status, sends, publishes,
                  deliveries, forwarded, queued>>
  BY DEF FindDevice, FindAgain, FindDeviceNode
<1>4. stage'[n] \in Before /\ \A m \in Node \ {n} : stage'[m] = stage[m]
  BY DEF FindDevice, FindAgain, FindDeviceNode, Before, DispatchInv, TypeOK
<1>5. Untouched(c)'
  BY <1>1, <1>2, <1>3 DEF DispatchInv, UntouchedBefore, Untouched, Before
<1>6. OnceFor(c)' /\ TruthFor(c)'
  BY <1>3 DEF DispatchInv, AtMostOnce, StatusTruthful, OnceFor, TruthFor
<1>7. stage[n] \notin {"idle", "wait"} /\ stage'[n] \notin {"sent", "ack"}
  BY <1>1, <1>4 DEF Before
<1> QED
  BY <1>2, <1>3, <1>4, <1>5, <1>6, <1>7, WorkStep

\* send(): the one attempt, whether it writes, queues or drops.
LEMMA SendStep ==
  ASSUME DispatchInv, NEW n \in Node, deployment' = deployment,
         SendCommandToDevice(n)
  PROVE  SafetyInv'
<1> USE DEF procVars, devVars, entryVars, tryVars, pastVars
<1>1. stage[n] = "send"
  BY DEF SendCommandToDevice
<1>2. PICK c \in Cmd : c = Head(batch[n]) /\ c = batch[n][1] /\ Len(batch[n]) \in Nat \ {0}
  BY <1>1, HeadOfBatch
<1>3. UNCHANGED <<batch, stream, pel, acked, accepted, status, publishes, forwarded>>
  BY DEF SendCommandToDevice
<1>4. stage'[n] = "sent" /\ \A m \in Node \ {n} : stage'[m] = stage[m]
  BY DEF SendCommandToDevice, DispatchInv, TypeOK
<1>5. Untouched(c) /\ c \notin forwarded /\ deliveries[c] = 0 /\ c \notin queued
  <2>1. Untouched(c)
    BY <1>1, <1>2 DEF DispatchInv, UntouchedBefore, Before
  <2> QED
    BY <2>1, UntouchedIsClean
<1>6. sends' = [sends EXCEPT ![c] = @ + 1] /\ sends'[c] = 1
  BY <1>2, <1>5 DEF SendCommandToDevice, Untouched, DispatchInv, TypeOK
<1>7. /\ \A e \in Cmd \ {c} : /\ deliveries'[e] = deliveries[e]
                              /\ (e \in queued' <=> e \in queued)
      /\ deliveries'[c] + (IF c \in queued' THEN 1 ELSE 0) <= 1
  <2>1. \/ UNCHANGED <<deliveries, queued>>
        \/ SendInLoop(c) /\ queued' = queued
        \/ queued' = queued \cup {c} /\ deliveries' = deliveries
    BY <1>2 DEF SendCommandToDevice
  <2>2. deliveries \in [Cmd -> Nat]
    BY DEF DispatchInv, TypeOK
  <2> QED
    BY <1>5, <2>1, <2>2 DEF SendInLoop
<1>8. OnceFor(c)' /\ TruthFor(c)'
  BY <1>3, <1>5, <1>6, <1>7 DEF OnceFor, TruthFor, Untouched
<1>9. status'[c] # "failed" /\ \A e \in Cmd \ {c} : sends'[e] = sends[e]
  BY <1>3, <1>5, <1>6 DEF Untouched, DispatchInv, TypeOK
<1>10. stage[n] \notin {"idle", "wait"} /\ stage'[n] \in Before \cup {"sent", "ack"}
       /\ stage'[n] \notin Before /\ stage'[n] # "ack"
  BY <1>1, <1>4 DEF Before
<1> QED
  BY <1>2, <1>3, <1>4, <1>6, <1>7, <1>8, <1>9, <1>10, WorkStep

\* markCommandSent writes "sent" of a command that was.
LEMMA MarkStep ==
  ASSUME DispatchInv, NEW n \in Node, deployment' = deployment, MarkCommandSent(n)
  PROVE  SafetyInv'
<1> USE DEF procVars, devVars, entryVars, tryVars, pastVars
<1>1. stage[n] = "sent"
  BY DEF MarkCommandSent
<1>2. PICK c \in Cmd : c = Head(batch[n]) /\ c = batch[n][1] /\ Len(batch[n]) \in Nat \ {0}
  BY <1>1, HeadOfBatch
<1>3. UNCHANGED <<batch, stream, pel, acked, accepted, sends, publishes,
                  deliveries, forwarded, queued>>
  BY DEF MarkCommandSent
<1>4. stage'[n] = "ack" /\ \A m \in Node \ {n} : stage'[m] = stage[m]
  BY DEF MarkCommandSent, DispatchInv, TypeOK
<1>5. /\ sends[c] = 1 /\ status[c] # "failed"
      /\ publishes[c] = 0 /\ c \notin forwarded
  <2>1. sends[c] = 1 /\ status[c] # "failed"
    BY <1>1, <1>2 DEF DispatchInv, Tried
  <2> QED
    BY <2>1 DEF DispatchInv, AtMostOnce, TypeOK
<1>6. status'[c] \in {status[c], "sent"} /\ \A e \in Cmd \ {c} : status'[e] = status[e]
  BY <1>2 DEF MarkCommandSent, DispatchInv, TypeOK
<1>7. OnceFor(c)' /\ TruthFor(c)'
  BY <1>3, <1>5, <1>6 DEF DispatchInv, AtMostOnce, OnceFor, TruthFor
<1>8. /\ stage[n] \notin {"idle", "wait"} /\ stage'[n] \in Before \cup {"sent", "ack"}
      /\ stage'[n] \notin Before /\ stage'[n] # "sent"
      /\ sends'[c] + publishes'[c] = 1 /\ status'[c] # "failed"
  BY <1>1, <1>3, <1>4, <1>5, <1>6 DEF Before
<1> QED
  BY <1>2, <1>3, <1>4, <1>6, <1>7, <1>8, WorkStep

\* What a PUBLISH of an untouched command records.
LEMMA PublishRecords ==
  ASSUME DispatchInv, NEW n \in Node, stage[n] = "route",
         NEW c \in Cmd, c = Head(batch[n]), NEW m, Publish(m, c)
  PROVE  /\ Untouched(c) /\ publishes'[c] = 1
         /\ sends[c] = 0 /\ deliveries[c] = 0 /\ c \notin queued
         /\ (c \in forwarded' => m \in subscribed)
         /\ \A e \in Cmd \ {c} : /\ publishes'[e] = publishes[e]
                                 /\ (e \in forwarded' <=> e \in forwarded)
<1>1. c = batch[n][1] /\ Len(batch[n]) \in Nat \ {0}
  BY HeadOfBatch
<1>2. Untouched(c)
  BY <1>1 DEF DispatchInv, UntouchedBefore, Before
<1>3. sends[c] = 0 /\ deliveries[c] = 0 /\ c \notin queued /\ c \notin forwarded
  BY <1>2, UntouchedIsClean
<1> QED
  BY <1>2, <1>3 DEF Publish, Untouched, DispatchInv, TypeOK

\* A PUBLISH with a receiver: the one attempt, and the XACK comes next.
LEMMA ForwardedStep ==
  ASSUME DispatchInv, NEW n \in Node, deployment' = deployment,
         stage[n] = "route", Publish(dest[n], Head(batch[n])),
         stage' = [stage EXCEPT ![n] = "ack"],
         UNCHANGED <<batch, status, devVars, entryVars, sends, deliveries, pastVars>>
  PROVE  SafetyInv'
<1>1. PICK c \in Cmd : c = Head(batch[n])
  BY HeadOfBatch
<1>2. /\ UNCHANGED <<batch, stream, pel, acked, accepted, status, sends,
                     deliveries, queued>>
  BY DEF devVars, entryVars, pastVars
<1>3. stage'[n] = "ack" /\ \A m \in Node \ {n} : stage'[m] = stage[m]
  BY DEF DispatchInv, TypeOK
<1>4. /\ Untouched(c) /\ publishes'[c] = 1
      /\ sends[c] = 0 /\ deliveries[c] = 0 /\ c \notin queued
      /\ \A e \in Cmd \ {c} : /\ publishes'[e] = publishes[e]
                              /\ (e \in forwarded' <=> e \in forwarded)
  BY <1>1, PublishRecords
<1>5. OnceFor(c)' /\ TruthFor(c)'
  BY <1>2, <1>4 DEF OnceFor, TruthFor, Untouched
<1>6. /\ stage[n] \notin {"idle", "wait"} /\ stage'[n] \in Before \cup {"sent", "ack"}
      /\ stage'[n] \notin Before /\ stage'[n] # "sent"
      /\ sends'[c] + publishes'[c] = 1 /\ status'[c] # "failed"
  BY <1>2, <1>3, <1>4 DEF Before, Untouched
<1> QED
  BY <1>1, <1>2, <1>3, <1>4, <1>5, <1>6, WorkStep

\* processCommand is done with the first command of the batch: the invariant is
\* kept if what is left of it is consistent; the others wait untouched.
LEMMA FinishStep ==
  ASSUME DispatchInv, NEW n \in Node, stage[n] \notin {"idle", "wait"}, NextCommand(n),
         NEW c \in Cmd, c = Head(batch[n]),
         UNCHANGED <<deployment, stream, accepted, sends, deliveries, queued>>,
         acked' \subseteq Cmd,
         \A e \in Cmd \ {c} :
           /\ pel'[e] = pel[e] /\ status'[e] = status[e] /\ (e \in acked' <=> e \in acked)
           /\ publishes'[e] = publishes[e] /\ (e \in forwarded' <=> e \in forwarded),
         pel'[c] \in {n, NoNode},
         ~(pel'[c] # NoNode /\ c \in acked'),
         c \in acked' => sends'[c] + publishes'[c] > 0,
         OnceFor(c)', TruthFor(c)'
  PROVE  SafetyInv'
<1>2. /\ Len(batch[n]) \in Nat \ {0} /\ c = batch[n][1]
      /\ pel[c] = n /\ ~InStream(c) /\ c \notin acked /\ c \in accepted
      /\ \A m \in Node : \A i \in 1 .. Len(batch[m]) :
           batch[m][i] \in Cmd /\ (batch[m][i] = c => m = n /\ i = 1)
  BY HeadOfBatch
<1>3. /\ Len(batch'[n]) = Len(batch[n]) - 1
      /\ \A i \in 1 .. Len(batch'[n]) : batch'[n][i] = batch[n][i + 1]
      /\ \A m \in Node \ {n} : batch'[m] = batch[m] /\ stage'[m] = stage[m]
      /\ stage'[n] = IF Len(batch'[n]) = 0 THEN "idle" ELSE "next"
  BY NextCommandShifts DEF DispatchInv
<1>4. \A e \in Cmd : InStream(e)' <=> InStream(e)
  BY DEF InStream
<1>5. \A m \in Node : \A i \in 1 .. Len(batch'[m]) :
        /\ batch'[m][i] \in Cmd \ {c}
        /\ InBatch(m, batch'[m][i])
        /\ Untouched(batch'[m][i]) \/ (m # n /\ i = 1 /\ stage'[m] \notin Before)
  <2> SUFFICES ASSUME NEW m \in Node, NEW i \in 1 .. Len(batch'[m])
               PROVE  /\ batch'[m][i] \in Cmd \ {c}
                      /\ InBatch(m, batch'[m][i])
                      /\ \/ Untouched(batch'[m][i])
                         \/ m # n /\ i = 1 /\ stage'[m] \notin Before
    OBVIOUS
  <2>1. CASE m = n
    <3>1. i + 1 \in 1 .. Len(batch[n]) /\ i + 1 > 1 /\ batch'[n][i] = batch[n][i + 1]
      BY <1>2, <1>3, <2>1
    <3> QED
      BY <1>2, <2>1, <3>1 DEF InBatch, DispatchInv, UntouchedBefore
  <2>2. CASE m # n
    <3>1. batch'[m] = batch[m] /\ stage'[m] = stage[m] /\ i \in 1 .. Len(batch[m])
      BY <1>3, <2>2
    <3>2. Len(batch[m]) \in Nat
      BY DEF DispatchInv, TypeOK
    <3> QED
      BY <1>2, <2>2, <3>1, <3>2 DEF InBatch, DispatchInv, UntouchedBefore
  <2> QED
    BY <2>1, <2>2
<1>6. OnePlace'
  <2>1. \A e \in Cmd : /\ ~(InStream(e)' /\ pel'[e] # NoNode)
                       /\ ~(InStream(e)' /\ e \in acked')
                       /\ ~(pel'[e] # NoNode /\ e \in acked')
    BY <1>2, <1>4 DEF DispatchInv, OnePlace
  <2>2. ASSUME NEW m \in Node, NEW e \in Cmd, InBatch(m, e)' PROVE pel'[e] = m
    <3>1. PICK i \in 1 .. Len(batch'[m]) : batch'[m][i] = e
      BY <2>2 DEF InBatch
    <3>2. e # c /\ InBatch(m, e)
      BY <1>5, <3>1
    <3> QED
      BY <3>2 DEF DispatchInv, OnePlace
  <2> QED
    BY <2>1, <2>2 DEF OnePlace
<1>7. NoRepeats'
  <2>1. \A m \in Node : \A i, j \in 1 .. Len(batch'[m]) :
          batch'[m][i] = batch'[m][j] => i = j
    <3> SUFFICES ASSUME NEW m \in Node, NEW i \in 1 .. Len(batch'[m]),
                        NEW j \in 1 .. Len(batch'[m]), batch'[m][i] = batch'[m][j]
                 PROVE  i = j
      OBVIOUS
    <3>1. CASE m = n
      <4>1. i + 1 \in 1 .. Len(batch[n]) /\ j + 1 \in 1 .. Len(batch[n])
        BY <1>2, <1>3, <3>1
      <4>2. batch'[n][i] = batch[n][i + 1] /\ batch'[n][j] = batch[n][j + 1]
        BY <1>3, <3>1
      <4>3. i + 1 = j + 1
        BY <3>1, <4>1, <4>2 DEF DispatchInv, NoRepeats
      <4> QED
        BY <4>3
    <3>2. CASE m # n
      BY <1>3, <3>2 DEF DispatchInv, NoRepeats
    <3> QED
      BY <3>1, <3>2
  <2>2. \A e \in Cmd : InStream(e)' \/ pel'[e] # NoNode \/ e \in acked' => e \in accepted'
    BY <1>2, <1>4 DEF DispatchInv, NoRepeats
  <2>3. \A i, j \in 1 .. Len(stream') : stream'[i] = stream'[j] => i = j
    BY DEF DispatchInv, NoRepeats
  <2> QED
    BY <2>1, <2>2, <2>3 DEF NoRepeats
<1>8. UntouchedBefore'
  <2>1. \A e \in Cmd \ {c} : Untouched(e)' <=> Untouched(e)
    BY DEF Untouched
  <2>2. \A e \in Cmd : e \notin accepted' \/ InStream(e)' => Untouched(e)'
    BY <1>2, <1>4, <2>1 DEF DispatchInv, UntouchedBefore
  <2>3. ASSUME NEW m \in Node, NEW i \in 1 .. Len(batch'[m]),
               i > 1 \/ stage'[m] \in Before
        PROVE  Untouched(batch[m][i])'
    <3>1. batch'[m][i] \in Cmd \ {c} /\ Untouched(batch'[m][i])
      BY <1>5, <2>3
    <3> QED
      BY <3>1 DEF Untouched
  <2> QED
    BY <2>2, <2>3 DEF UntouchedBefore
<1>9. Tried'
  <2>1. ASSUME NEW m \in Node, stage'[m] \in {"sent", "ack"}
        PROVE  /\ stage'[m] = "sent" => sends'[batch'[m][1]] = 1
               /\ stage'[m] = "ack" => sends'[batch'[m][1]] + publishes'[batch'[m][1]] = 1
               /\ status'[batch'[m][1]] # "failed"
    <3>1. m # n
      BY <1>3, <2>1
    <3>2. batch'[m] = batch[m] /\ stage'[m] = stage[m] /\ 1 \in 1 .. Len(batch'[m])
      BY <1>3, <2>1, <3>1, HeadOfBatch
    <3>3. batch[m][1] \in Cmd \ {c}
      BY <1>5, <3>2
    <3> QED
      BY <2>1, <3>2, <3>3 DEF DispatchInv, Tried, Attempts
  <2> QED
    BY <2>1 DEF Tried, Attempts
<1>10. AckAfterAttempt'
  BY DEF DispatchInv, AckAfterAttempt
<1>11. AtMostOnce' /\ StatusTruthful'
  <2>1. ASSUME NEW e \in Cmd, e # c PROVE OnceFor(e)' /\ TruthFor(e)'
    BY <2>1 DEF DispatchInv, AtMostOnce, StatusTruthful, OnceFor, TruthFor
  <2>2. \A e \in Cmd : OnceFor(e)' /\ TruthFor(e)'
    BY <2>1
  <2> QED
    BY <2>2 DEF AtMostOnce, StatusTruthful, OnceFor, TruthFor
<1>12. BatchInStage'
  <2>1. stage'[n] \in {"idle", "wait"} <=> Len(batch'[n]) = 0
    BY <1>3
  <2> QED
    BY <1>3, <2>1 DEF DispatchInv, BatchInStage
<1> QED
  BY <1>6, <1>7, <1>8, <1>9, <1>10, <1>11, <1>12 DEF SafetyInv

\* DeviceGone and MarkCommandFailed leave an untouched command pending.
LEMMA LeaveStep ==
  ASSUME DispatchInv, NEW n \in Node, deployment' = deployment,
         DeviceGone(n) \/ MarkCommandFailed(n)
  PROVE  SafetyInv'
<1> USE DEF devVars, entryVars, tryVars, pastVars
<1>1. stage[n] \in {"found", "away"} /\ NextCommand(n)
  BY DEF DeviceGone, MarkCommandFailed
<1>2. PICK c \in Cmd : /\ c = Head(batch[n]) /\ c = batch[n][1] /\ pel[c] = n
                       /\ c \notin acked /\ Len(batch[n]) \in Nat \ {0}
  BY <1>1, HeadOfBatch
<1>3. /\ UNCHANGED <<stream, pel, acked, accepted, sends, publishes, deliveries,
                     forwarded, queued>>
      /\ status'[c] \in {status[c], "failed"}
      /\ \A e \in Cmd \ {c} : status'[e] = status[e]
  BY <1>2 DEF DeviceGone, MarkCommandFailed, DispatchInv, TypeOK
<1>4. Untouched(c) /\ c \notin forwarded
  <2>1. Untouched(c)
    BY <1>1, <1>2 DEF DispatchInv, UntouchedBefore, Before
  <2> QED
    BY <2>1, UntouchedIsClean
<1>5. OnceFor(c)' /\ TruthFor(c)'
  BY <1>2, <1>3, <1>4 DEF DispatchInv, AtMostOnce, OnceFor, TruthFor, Untouched
<1>6. acked' \subseteq Cmd /\ stage[n] \notin {"idle", "wait"}
  BY <1>1, <1>3 DEF DispatchInv, TypeOK
<1> QED
  BY <1>1, <1>2, <1>3, <1>5, <1>6, FinishStep

\* XACK takes a tried command off the pending list.
LEMMA AckedStep ==
  ASSUME DispatchInv, NEW n \in Node, deployment' = deployment, AckCommand(n)
  PROVE  SafetyInv'
<1> USE DEF devVars, entryVars, tryVars, pastVars
<1>1. stage[n] = "ack" /\ NextCommand(n)
  BY DEF AckCommand
<1>2. PICK c \in Cmd : /\ c = Head(batch[n]) /\ c = batch[n][1] /\ pel[c] = n
                       /\ c \notin acked /\ Len(batch[n]) \in Nat \ {0}
  BY <1>1, HeadOfBatch
<1>3. /\ UNCHANGED <<stream, accepted, status, sends, publishes, deliveries,
                     forwarded, queued>>
      /\ UNCHANGED <<pel, acked>> \/ (pel'[c] = NoNode /\ acked' = acked \cup {c})
      /\ \A e \in Cmd \ {c} : pel'[e] = pel[e] /\ (e \in acked' <=> e \in acked)
  BY <1>2 DEF AckCommand, DispatchInv, TypeOK
<1>4. sends[c] + publishes[c] = 1 /\ status[c] # "failed"
  BY <1>1, <1>2 DEF DispatchInv, Tried, Attempts
<1>5. OnceFor(c)' /\ TruthFor(c)'
  BY <1>3, <1>4 DEF DispatchInv, AtMostOnce, StatusTruthful, OnceFor, TruthFor
<1>6. /\ acked' \subseteq Cmd /\ stage[n] \notin {"idle", "wait"}
      /\ pel'[c] \in {n, NoNode} /\ ~(pel'[c] # NoNode /\ c \in acked')
      /\ sends'[c] + publishes'[c] > 0
  BY <1>1, <1>2, <1>3, <1>4 DEF DispatchInv, TypeOK
<1> QED
  BY <1>1, <1>2, <1>3, <1>5, <1>6, FinishStep

\* forwardCommand returns false: the command was perhaps published, and stays
\* pending.
LEMMA NotForwardedStep ==
  ASSUME DispatchInv, NEW n \in Node, deployment' = deployment,
         stage[n] = "route", NextCommand(n),
         UNCHANGED <<devVars, entryVars, sends, deliveries, pastVars>>,
         \/ UNCHANGED <<publishes, forwarded, status>>
         \/ Publish(dest[n], Head(batch[n])) /\ UNCHANGED status
         \/ /\ Publish(dest[n], Head(batch[n])) /\ 0 \in Receivers(n)
            /\ status' = [status EXCEPT ![Head(batch[n])] = "failed"]
  PROVE  SafetyInv'
<1>1. PICK c \in Cmd : /\ c = Head(batch[n]) /\ c = batch[n][1] /\ pel[c] = n
                       /\ c \notin acked /\ Len(batch[n]) \in Nat \ {0}
  BY HeadOfBatch
<1>2. UNCHANGED <<stream, pel, acked, accepted, sends, deliveries, queued>>
  BY DEF devVars, entryVars, pastVars
<1>3. Untouched(c) /\ deliveries[c] = 0 /\ c \notin queued /\ c \notin forwarded
  <2>1. Untouched(c)
    BY <1>1 DEF DispatchInv, UntouchedBefore, Before
  <2> QED
    BY <2>1, UntouchedIsClean
<1>4. /\ \A e \in Cmd \ {c} : /\ publishes'[e] = publishes[e] /\ status'[e] = status[e]
                              /\ (e \in forwarded' <=> e \in forwarded)
      /\ publishes'[c] \in {0, 1} /\ (c \in forwarded' => publishes'[c] = 1)
      /\ status'[c] = "none" \/ (status'[c] = "failed" /\ 0 \in Receivers(n))
      /\ c \in forwarded' => dest[n] \in subscribed
  <2>1. Publish(dest[n], c) =>
          /\ \A e \in Cmd \ {c} : /\ publishes'[e] = publishes[e]
                                  /\ (e \in forwarded' <=> e \in forwarded)
          /\ publishes'[c] = 1 /\ (c \in forwarded' => dest[n] \in subscribed)
    BY <1>1, PublishRecords
  <2>2. status \in [Cmd -> {"none", "sent", "failed"}]
    BY DEF DispatchInv, TypeOK
  <2>3. /\ \A e \in Cmd \ {c} : status'[e] = status[e]
        /\ status'[c] = "none" \/ (status'[c] = "failed" /\ 0 \in Receivers(n))
    BY <1>1, <1>3, <2>2 DEF Untouched
  <2> QED
    BY <1>1, <1>3, <2>1, <2>3 DEF Untouched
<1>5. 0 \in Receivers(n) /\ dest[n] \in subscribed => n \in deployment.workers
  BY DEF Receivers
<1>6. OnceFor(c)' /\ TruthFor(c)'
  BY <1>1, <1>2, <1>3, <1>4, <1>5 DEF OnceFor, TruthFor, Untouched
<1>7. acked' \subseteq Cmd /\ stage[n] \notin {"idle", "wait"}
  BY <1>2 DEF DispatchInv, TypeOK
<1> QED
  BY <1>1, <1>2, <1>4, <1>6, <1>7, FinishStep

\* A crash empties the batch and the workers' queues; everything they held
\* stays in Redis as it was.
LEMMA CrashStep ==
  ASSUME DispatchInv, NEW n \in Node, deployment' = deployment, Crash(n)
  PROVE  SafetyInv'
<1>1. /\ Len(batch'[n]) = 0 /\ stage'[n] = "idle"
      /\ \A m \in Node \ {n} : batch'[m] = batch[m] /\ stage'[m] = stage[m]
      /\ UNCHANGED <<stream, pel, acked, status, accepted, sends, publishes,
                     deliveries, forwarded>>
      /\ queued' \subseteq queued
  BY DEF Crash, DispatchInv, TypeOK, entryVars, tryVars, pastVars
<1>2. BatchInStage' /\ Tried'
  BY <1>1 DEF DispatchInv, BatchInStage, Tried, Attempts
<1>3. OnePlace' /\ NoRepeats'
  BY <1>1 DEF DispatchInv, OnePlace, NoRepeats, InStream, InBatch
<1>4. UntouchedBefore'
  BY <1>1 DEF DispatchInv, UntouchedBefore, Untouched, InStream
<1>5. AtMostOnce'
  <2>1. deliveries \in [Cmd -> Nat] /\ sends \in [Cmd -> Nat]
    BY DEF DispatchInv, TypeOK
  <2> QED
    BY <1>1, <2>1 DEF DispatchInv, AtMostOnce
<1> QED
  BY <1>1, <1>2, <1>3, <1>4, <1>5 DEF SafetyInv, DispatchInv, AckAfterAttempt,
     StatusTruthful

\* BlockOnStream and ConsumeReconnects: no batch before, none after.
LEMMA PauseStep ==
  ASSUME DispatchInv, NEW n \in Node, deployment' = deployment,
         BlockOnStream(n) \/ ConsumeReconnects(n)
  PROVE  SafetyInv'
<1>1. /\ UNCHANGED <<batch, stream, pel, acked, status, accepted, sends, publishes,
                     deliveries, forwarded, queued>>
      /\ stage[n] \in {"idle", "wait"} /\ stage'[n] \in {"idle", "wait"}
      /\ \A m \in Node \ {n} : stage'[m] = stage[m]
  BY DEF BlockOnStream, ConsumeReconnects, Idle, DispatchInv, TypeOK, devVars,
         entryVars, tryVars, pastVars
<1>2. BatchInStage' /\ Tried'
  BY <1>1 DEF DispatchInv, BatchInStage, Tried, Attempts
<1>3. OnePlace' /\ NoRepeats' /\ AckAfterAttempt' /\ AtMostOnce' /\ StatusTruthful'
  BY <1>1 DEF DispatchInv, OnePlace, NoRepeats, InStream, InBatch, AckAfterAttempt,
     AtMostOnce, StatusTruthful
<1>4. UntouchedBefore'
  BY <1>1 DEF DispatchInv, UntouchedBefore, Untouched, Before, InStream
<1> QED
  BY <1>2, <1>3, <1>4 DEF SafetyInv

\* RunQueuedSend and DeviceOffline: a closure runs at most once, or is dropped.
LEMMA ClosureStep ==
  ASSUME DispatchInv, deployment' = deployment,
         (\E c \in Cmd : RunQueuedSend(c)) \/ (\E d \in Device : DeviceOffline(d))
  PROVE  SafetyInv'
<1> USE DEF procVars, entryVars, tryVars, pastVars
<1>1. UNCHANGED <<batch, stage, stream, pel, acked, status, accepted, sends,
                  publishes, forwarded>>
  BY DEF RunQueuedSend, DeviceOffline
<1>2. deliveries \in [Cmd -> Nat] /\ sends \in [Cmd -> Nat]
  BY DEF DispatchInv, TypeOK
<1>3. ASSUME NEW e \in Cmd PROVE OnceFor(e)'
  <2>1. OnceFor(e)
    BY DEF DispatchInv, AtMostOnce, OnceFor
  <2>2. ASSUME NEW c \in Cmd, RunQueuedSend(c) PROVE OnceFor(e)'
    <3>1. /\ c \in queued /\ queued' = queued \ {c}
          /\ deliveries' \in {deliveries, [deliveries EXCEPT ![c] = @ + 1]}
      BY <2>2 DEF RunQueuedSend, SendInLoop
    <3> QED
      BY <1>1, <1>2, <2>1, <3>1 DEF OnceFor
  <2>3. ASSUME NEW d \in Device, DeviceOffline(d) PROVE OnceFor(e)'
    <3>1. queued' \subseteq queued /\ deliveries' = deliveries
      BY <2>3 DEF DeviceOffline
    <3> QED
      BY <1>1, <1>2, <2>1, <3>1 DEF OnceFor
  <2> QED
    BY <2>2, <2>3
<1>4. AtMostOnce'
  BY <1>3 DEF AtMostOnce, OnceFor
<1>5. /\ BatchInStage' /\ Tried' /\ OnePlace' /\ NoRepeats' /\ UntouchedBefore'
      /\ AckAfterAttempt' /\ StatusTruthful'
  BY <1>1 DEF DispatchInv, BatchInStage, Tried, Attempts, OnePlace, NoRepeats,
     InStream, InBatch, UntouchedBefore, Untouched, AckAfterAttempt, StatusTruthful
<1> QED
  BY <1>4, <1>5 DEF SafetyInv

\* Sessions, records, restarts and failure detection move no command.
LEMMA CoreStep ==
  ASSUME DispatchInv, UNCHANGED core
  PROVE  SafetyInv'
BY DEF core, SafetyInv, DispatchInv, BatchInStage, OnePlace, NoRepeats,
       UntouchedBefore, Untouched, Tried, Attempts, AckAfterAttempt, AtMostOnce,
       StatusTruthful, InStream, InBatch

\* Every step preserves the invariant.
LEMMA DispatchStep == DispatchInv /\ [Next]_vars => DispatchInv'
<1> SUFFICES ASSUME DispatchInv, [Next]_vars PROVE SafetyInv'
  BY TypeStep DEF DispatchInv, SafetyInv
<1>0. deployment' = deployment
  BY DEF Next, vars
<1>1. ASSUME NEW n \in Node, NEW c \in Cmd, EnqueueCommand(n, c) PROVE SafetyInv'
  BY <1>0, <1>1, EnqueueStep
<1>2. ASSUME NEW n \in Node, ConsumeCommands(n) PROVE SafetyInv'
  BY <1>0, <1>2, ReadGroupStep DEF ConsumeCommands, devVars, tryVars, pastVars
<1>3. ASSUME NEW n \in Node, ConsumeReplyLost(n) PROVE SafetyInv'
  <2>1. stage[n] \in {"idle", "wait"}
    BY <1>3 DEF ConsumeReplyLost
  <2> QED
    BY <1>0, <1>3, <2>1, ReadGroupStep DEF ConsumeReplyLost, devVars, tryVars, pastVars
<1>4. ASSUME NEW n \in Node, FindDevice(n) \/ FindAgain(n) \/ FindDeviceNode(n)
      PROVE  SafetyInv'
  BY <1>0, <1>4, LookUpStep
<1>5. ASSUME NEW n \in Node, SendCommandToDevice(n) \/ MarkCommandSent(n)
      PROVE  SafetyInv'
  BY <1>0, <1>5, SendStep, MarkStep
<1>6. ASSUME NEW n \in Node, DeviceGone(n) \/ AckCommand(n) \/ MarkCommandFailed(n)
      PROVE  SafetyInv'
  BY <1>0, <1>6, LeaveStep, AckedStep
<1>7. ASSUME NEW n \in Node, ForwardCommand(n) PROVE SafetyInv'
  <2>1. /\ stage[n] = "route" /\ Publish(dest[n], Head(batch[n]))
        /\ UNCHANGED <<devVars, entryVars, sends, deliveries, pastVars>>
    BY <1>7 DEF ForwardCommand
  <2>2. CASE stage' = [stage EXCEPT ![n] = "ack"] /\ UNCHANGED <<batch, status>>
    BY <1>0, <2>1, <2>2, ForwardedStep
  <2>3. CASE /\ 0 \in Receivers(n) /\ NextCommand(n)
             /\ status' = [status EXCEPT ![Head(batch[n])] = "failed"]
    BY <1>0, <2>1, <2>3, NotForwardedStep
  <2> QED
    BY <1>7, <2>2, <2>3 DEF ForwardCommand
<1>8. ASSUME NEW n \in Node, ForwardFails(n) PROVE SafetyInv'
  BY <1>0, <1>8, NotForwardedStep DEF ForwardFails
<1>9. ASSUME NEW n \in Node, Crash(n) PROVE SafetyInv'
  BY <1>0, <1>9, CrashStep
<1>10. ASSUME NEW n \in Node, BlockOnStream(n) \/ ConsumeReconnects(n) PROVE SafetyInv'
  BY <1>0, <1>10, PauseStep
<1>11. ASSUME NEW n \in Node,
              \/ BreakLink(n) \/ Start(n) \/ StartAlone(n)
              \/ \E d \in Device : DeviceOnline(n, d) \/ SaveRecord(n, d)
              \/ \E m \in Node : ClaimPendingMessages(n, m)
       PROVE  SafetyInv'
  <2>1. UNCHANGED core
    BY <1>0, <1>11 DEF BreakLink, Start, StartAlone, DeviceOnline, SaveRecord,
       ClaimPendingMessages, procVars, devVars, entryVars, tryVars, pastVars, core
  <2> QED
    BY <2>1, CoreStep
<1>12. ASSUME NEW d \in Device, ForceClose(d) PROVE SafetyInv'
  BY <1>0, <1>12, CoreStep DEF ForceClose, procVars, entryVars, tryVars, pastVars, core
<1>13. ASSUME \/ \E c \in Cmd : RunQueuedSend(c)
              \/ \E d \in Device : DeviceOffline(d)
       PROVE  SafetyInv'
  BY <1>0, <1>13, ClosureStep
<1>14. CASE UNCHANGED vars
  BY <1>14, CoreStep DEF vars, procVars, devVars, entryVars, tryVars, pastVars, core
<1> QED
  BY <1>1, <1>2, <1>3, <1>4, <1>5, <1>6, <1>7, <1>8, <1>9, <1>10, <1>11, <1>12,
     <1>13, <1>14 DEF Next, Step, Dispatch, Fault

\* The invariant that explains why no crash, lost or exchanged reply or broken
\* connection makes a command be tried twice: it holds in every reachable state.
THEOREM DispatchInvariant == Spec => []DispatchInv
<1> QED
  BY DispatchInit, DispatchStep, PTL DEF Spec

\* The nodes and Redis only ever hold values of their types; in particular
\* processCommand reads a command that exists.
THEOREM TypeCorrect == Spec => []TypeOK
<1>1. DispatchInv => TypeOK
  BY DEF DispatchInv
<1> QED
  BY <1>1, DispatchInvariant, PTL

\* A command is new, pending or acknowledged, never two of them, and at most
\* one node works on it.
THEOREM CommandInOnePlace == Spec => []OnePlace
<1>1. DispatchInv => OnePlace
  BY DEF DispatchInv
<1> QED
  BY <1>1, DispatchInvariant, PTL

\* Only a command for which send() was called or a PUBLISH executed is
\* acknowledged; whether it arrived is another matter.
THEOREM AckOnlyAfterAttempt == Spec => []AckAfterAttempt
<1>1. DispatchInv => AckAfterAttempt
  BY DEF DispatchInv
<1> QED
  BY <1>1, DispatchInvariant, PTL

\* No command is sent or published twice, or both sent and published, and none
\* is written to a device more often than send() was called for it.
THEOREM CommandAtMostOnce == Spec => []AtMostOnce
<1>1. DispatchInv => AtMostOnce
  BY DEF DispatchInv
<1> QED
  BY <1>1, DispatchInvariant, PTL

\* The status in Redis never contradicts what was attempted: "sent" means that
\* send() was called once, "failed" that it never was and the entry is pending.
THEOREM StatusTellsAttempt == Spec => []StatusTruthful
<1>1. DispatchInv => StatusTruthful
  BY DEF DispatchInv
<1> QED
  BY <1>1, DispatchInvariant, PTL

-----------------------------------------------------------------------------
(* Nodes and Redis implement CommandQueue. *)

\* A step that moves no entry and tries nothing is not visible.
LEMMA QueueInvisible ==
  ASSUME UNCHANGED <<entryVars, tryVars>>
  PROVE  UNCHANGED Q!vars
BY DEF Q!vars, Attempts, Arrivals, entryVars, tryVars

\* The command processCommand is at: pending for its node, and whether it has
\* been tried depends on the stage alone.
LEMMA CurrentCommand ==
  ASSUME DispatchInv, NEW n \in Node, stage[n] \notin {"idle", "wait"}
  PROVE  /\ Head(batch[n]) \in Cmd
         /\ pel[Head(batch[n])] = n /\ n # NoNode
         /\ stage[n] \in Before => /\ Untouched(Head(batch[n]))
                                   /\ Attempts(Head(batch[n])) = 0
                                   /\ Arrivals(Head(batch[n])) = 0
         /\ stage[n] = "ack" => Attempts(Head(batch[n])) = 1
<1>1. PICK c \in Cmd : /\ c = Head(batch[n]) /\ c = batch[n][1] /\ pel[c] = n
                       /\ Len(batch[n]) \in Nat \ {0}
  BY HeadOfBatch
<1>2. ASSUME stage[n] \in Before
      PROVE  Untouched(c) /\ Attempts(c) = 0 /\ Arrivals(c) = 0
  <2>1. Untouched(c)
    BY <1>1, <1>2 DEF DispatchInv, UntouchedBefore
  <2> QED
    BY <2>1, UntouchedIsClean DEF Untouched, Attempts, Arrivals
<1>3. stage[n] = "ack" => Attempts(c) = 1
  BY <1>1 DEF DispatchInv, Tried
<1> QED
  BY <1>1, <1>2, <1>3

\* XADD puts a command that was nowhere before.
LEMMA PutStep ==
  ASSUME DispatchInv, NEW n \in Node, NEW c \in Cmd, EnqueueCommand(n, c)
  PROVE  [Q!Next]_(Q!vars)
<1>1. CASE link[n] # "ok"
  BY <1>1, QueueInvisible DEF EnqueueCommand, entryVars
<1>2. CASE link[n] = "ok"
  <2>1. ~InStream(c) /\ pel[c] = NoNode /\ c \notin acked /\ Attempts(c) = 0
    BY DEF EnqueueCommand, DispatchInv, NoRepeats, UntouchedBefore, Untouched, Attempts
  <2>2. /\ stream' = Append(stream, c)
        /\ UNCHANGED <<pel, acked, sends, publishes, deliveries, forwarded>>
    BY <1>2 DEF EnqueueCommand, tryVars
  <2> Q!Put(c)
    BY <2>1, <2>2 DEF Q!Put, InStream, Attempts, Arrivals
  <2> QED
    BY DEF Q!Next
<1> QED
  BY <1>1, <1>2

\* XREADGROUP takes the front of the stream, whether its reply arrives or not.
LEMMA TakeStep ==
  ASSUME DispatchInv, NEW n \in Node, ReadGroup(n),
         UNCHANGED <<acked, tryVars>>
  PROVE  [Q!Next]_(Q!vars)
<1> DEFINE cut == Len(NewEntries)
<1>1. /\ cut \in 1 .. Len(stream) /\ \A i \in 1 .. cut : NewEntries[i] = stream[i]
      /\ stream' = SubSeq(stream, cut + 1, Len(stream))
  BY ReadGroupSplits DEF ReadGroup, DispatchInv
<1>2. \A c \in Cmd : pel'[c] = IF \E i \in 1 .. cut : stream[i] = c THEN n ELSE pel[c]
  BY <1>1 DEF ReadGroup, IsNew
<1>3. /\ n # NoNode /\ \A i \in 1 .. Len(stream) : stream[i] \in Cmd
      /\ Len(stream) \in Nat
  BY DEF DispatchInv, TypeOK
<1> HIDE DEF cut
<1>4. ASSUME NEW c \in Cmd
      PROVE  pel'[c] # NoNode <=> pel[c] # NoNode \/ c \in {stream[i] : i \in 1 .. cut}
  BY <1>2, <1>3
<1>5. {stream[i] : i \in 1 .. cut} \subseteq Cmd
  BY <1>1, <1>3
<1>6. {c \in Cmd : pel'[c] # NoNode} = {c \in Cmd : pel[c] # NoNode} \cup {stream[i] : i \in 1 .. cut}
  BY <1>4, <1>5, Zenon
<1>7. PICK t \in 1 .. Len(stream) : t = cut
  BY <1>1
<1>8. Q!Take(t)
  BY <1>1, <1>6, <1>7 DEF Q!Take, Attempts, Arrivals, tryVars
<1> QED
  BY <1>8 DEF Q!Next

\* One attempt at a pending command that was not tried before.
LEMMA TryStep ==
  ASSUME DispatchInv, NEW c \in Cmd, pel[c] # NoNode,
         Attempts(c) = 0, Arrivals(c) = 0, UNCHANGED entryVars,
         \A e \in Cmd : Attempts(e)' = IF e = c THEN 1 ELSE Attempts(e),
         \A e \in Cmd \ {c} : Arrivals(e)' = Arrivals(e), Arrivals(c)' \in {0, 1}
  PROVE  [Q!Next]_(Q!vars)
<1>1. [e \in Cmd |-> Attempts(e)]' = [[e \in Cmd |-> Attempts(e)] EXCEPT ![c] = 1]
  OBVIOUS
<1>2. [e \in Cmd |-> Arrivals(e)]' \in
        {[e \in Cmd |-> Arrivals(e)], [[e \in Cmd |-> Arrivals(e)] EXCEPT ![c] = 1]}
  <2>1. CASE Arrivals(c)' = 0
    BY <2>1
  <2>2. CASE Arrivals(c)' = 1
    BY <2>2
  <2> QED
    BY <2>1, <2>2
<1>3. Q!Try(c)
  BY <1>1, <1>2 DEF Q!Try, entryVars
<1> QED
  BY <1>3 DEF Q!Next

\* send() is the attempt at the command the node is at.
LEMMA SendTries ==
  ASSUME DispatchInv, NEW n \in Node, SendCommandToDevice(n)
  PROVE  [Q!Next]_(Q!vars)
<1>1. stage[n] \in Before /\ stage[n] \notin {"idle", "wait"}
  BY DEF SendCommandToDevice, Before
<1>2. PICK c \in Cmd : /\ c = Head(batch[n]) /\ pel[c] # NoNode /\ Untouched(c)
                       /\ Attempts(c) = 0 /\ Arrivals(c) = 0
  BY <1>1, CurrentCommand
<1>3. /\ UNCHANGED entryVars /\ UNCHANGED <<publishes, forwarded>>
      /\ sends' = [sends EXCEPT ![c] = @ + 1]
      /\ deliveries' \in {deliveries, [deliveries EXCEPT ![c] = @ + 1]}
  BY <1>2 DEF SendCommandToDevice, SendInLoop
<1>4. /\ sends \in [Cmd -> Nat] /\ publishes \in [Cmd -> Nat]
      /\ deliveries \in [Cmd -> Nat]
      /\ sends[c] = 0 /\ publishes[c] = 0 /\ deliveries[c] = 0 /\ c \notin forwarded
  BY <1>2, UntouchedIsClean DEF DispatchInv, TypeOK, Untouched
<1>5. \A e \in Cmd : Attempts(e)' = IF e = c THEN 1 ELSE Attempts(e)
  BY <1>3, <1>4 DEF Attempts
<1>6. (\A e \in Cmd \ {c} : Arrivals(e)' = Arrivals(e)) /\ Arrivals(c)' \in {0, 1}
  BY <1>3, <1>4 DEF Arrivals
<1> QED
  BY <1>2, <1>3, <1>5, <1>6, TryStep

\* So is a PUBLISH, whoever receives it and whatever the reply says.
LEMMA PublishTries ==
  ASSUME DispatchInv, NEW n \in Node, stage[n] = "route",
         Publish(dest[n], Head(batch[n])), UNCHANGED <<entryVars, sends, deliveries>>
  PROVE  [Q!Next]_(Q!vars)
<1>1. PICK c \in Cmd : /\ c = Head(batch[n]) /\ pel[c] # NoNode
                       /\ Attempts(c) = 0 /\ Arrivals(c) = 0
  BY CurrentCommand DEF Before
<1>2. /\ publishes'[c] = 1 /\ sends[c] = 0 /\ deliveries[c] = 0
      /\ \A e \in Cmd \ {c} : /\ publishes'[e] = publishes[e]
                              /\ (e \in forwarded' <=> e \in forwarded)
  BY <1>1, PublishRecords
<1>3. \A e \in Cmd : Attempts(e)' = IF e = c THEN 1 ELSE Attempts(e)
  BY <1>2 DEF Attempts
<1>4. (\A e \in Cmd \ {c} : Arrivals(e)' = Arrivals(e)) /\ Arrivals(c)' \in {0, 1}
  BY <1>2 DEF Arrivals
<1> QED
  BY <1>1, <1>3, <1>4, TryStep

\* A closure that runs lets a sent command arrive, or drops it.
LEMMA ArriveStep ==
  ASSUME DispatchInv, NEW c \in Cmd, RunQueuedSend(c)
  PROVE  [Q!Next]_(Q!vars)
<1>1. /\ c \in queued /\ UNCHANGED entryVars /\ UNCHANGED <<sends, publishes, forwarded>>
      /\ deliveries' \in {deliveries, [deliveries EXCEPT ![c] = @ + 1]}
  BY DEF RunQueuedSend, SendInLoop
<1>2. CASE deliveries' = deliveries
  BY <1>1, <1>2, QueueInvisible DEF tryVars
<1>3. CASE deliveries' = [deliveries EXCEPT ![c] = @ + 1]
  <2>1. /\ sends[c] \in Nat /\ publishes[c] \in Nat /\ deliveries \in [Cmd -> Nat]
    BY DEF DispatchInv, TypeOK
  <2>2. OnceFor(c)
    BY DEF DispatchInv, AtMostOnce, OnceFor
  <2>3. sends[c] = 1 /\ publishes[c] = 0 /\ deliveries[c] = 0 /\ c \notin forwarded
    BY <1>1, <2>1, <2>2 DEF OnceFor
  <2>4. Attempts(c) = 1 /\ Arrivals(c) = 0
    BY <2>3 DEF Attempts, Arrivals
  <2>5. \A e \in Cmd : Arrivals(e)' = IF e = c THEN 1 ELSE Arrivals(e)
    BY <1>1, <1>3, <2>1, <2>3 DEF Arrivals
  <2>6. [e \in Cmd |-> Arrivals(e)]' = [[e \in Cmd |-> Arrivals(e)] EXCEPT ![c] = 1]
    BY <2>5
  <2>7. [e \in Cmd |-> Attempts(e)]' = [e \in Cmd |-> Attempts(e)]
    BY <1>1 DEF Attempts
  <2>8. Q!Arrive(c)
    BY <1>1, <2>4, <2>6, <2>7 DEF Q!Arrive, entryVars
  <2> QED
    BY <2>8 DEF Q!Next
<1> QED
  BY <1>1, <1>2, <1>3

\* XACK takes a command that was tried off the pending list.
LEMMA AckStep ==
  ASSUME DispatchInv, NEW n \in Node, AckCommand(n)
  PROVE  [Q!Next]_(Q!vars)
<1>1. stage[n] = "ack" /\ UNCHANGED stream /\ UNCHANGED tryVars
  BY DEF AckCommand
<1>2. PICK c \in Cmd : c = Head(batch[n])
  BY <1>1, CurrentCommand
<1>3. pel[c] = n /\ n # NoNode /\ Attempts(c) = 1
  BY <1>1, <1>2, CurrentCommand
<1>4. CASE link[n] # "ok"
  BY <1>1, <1>4, QueueInvisible DEF AckCommand, entryVars
<1>5. CASE link[n] = "ok"
  <2>1. acked' = acked \cup {c} /\ pel' = [pel EXCEPT ![c] = NoNode]
    BY <1>2, <1>5 DEF AckCommand
  <2>2. {e \in Cmd : pel'[e] # NoNode} = {e \in Cmd : pel[e] # NoNode} \ {c}
    BY <1>3, <2>1 DEF DispatchInv, TypeOK
  <2>3. Q!Ack(c)
    BY <1>1, <1>3, <2>1, <2>2 DEF Q!Ack, Attempts, Arrivals, tryVars
  <2> QED
    BY <2>3 DEF Q!Next
<1> QED
  BY <1>4, <1>5

\* Every step of a node, a worker, a device, a user or a fault is a step of the
\* CommandQueue or invisible.
LEMMA QueueStep == DispatchInv /\ [Next]_vars => [Q!Next]_(Q!vars)
<1> SUFFICES ASSUME DispatchInv, [Next]_vars PROVE [Q!Next]_(Q!vars)
  OBVIOUS
<1>1. ASSUME NEW n \in Node, ConsumeCommands(n) \/ ConsumeReplyLost(n)
      PROVE  [Q!Next]_(Q!vars)
  BY <1>1, TakeStep DEF ConsumeCommands, ConsumeReplyLost
<1>2. ASSUME NEW n \in Node,
             \/ BlockOnStream(n) \/ ConsumeReconnects(n) \/ FindDevice(n)
             \/ FindAgain(n) \/ FindDeviceNode(n) \/ DeviceGone(n)
             \/ MarkCommandSent(n) \/ MarkCommandFailed(n)
      PROVE  [Q!Next]_(Q!vars)
  BY <1>2, QueueInvisible DEF BlockOnStream, ConsumeReconnects, FindDevice,
     FindAgain, FindDeviceNode, DeviceGone, MarkCommandSent, MarkCommandFailed
<1>3. ASSUME NEW n \in Node, ForwardCommand(n) PROVE [Q!Next]_(Q!vars)
  BY <1>3, PublishTries DEF ForwardCommand
<1>4. ASSUME NEW n \in Node, ForwardFails(n) PROVE [Q!Next]_(Q!vars)
  <2>1. CASE UNCHANGED <<publishes, forwarded>>
    BY <1>4, <2>1, QueueInvisible DEF ForwardFails, tryVars
  <2>2. CASE Publish(dest[n], Head(batch[n]))
    BY <1>4, <2>2, PublishTries DEF ForwardFails
  <2> QED
    BY <1>4, <2>1, <2>2 DEF ForwardFails
<1>5. ASSUME NEW n \in Node,
             \/ BreakLink(n) \/ Crash(n) \/ Start(n) \/ StartAlone(n)
             \/ \E d \in Device : DeviceOnline(n, d) \/ SaveRecord(n, d)
             \/ \E m \in Node : ClaimPendingMessages(n, m)
      PROVE  [Q!Next]_(Q!vars)
  BY <1>5, QueueInvisible DEF BreakLink, Crash, Start, StartAlone,
     DeviceOnline, SaveRecord, ClaimPendingMessages
<1>6. ASSUME NEW d \in Device, ForceClose(d) \/ DeviceOffline(d)
      PROVE  [Q!Next]_(Q!vars)
  BY <1>6, QueueInvisible DEF ForceClose, DeviceOffline
<1>7. CASE UNCHANGED vars
  BY <1>7, QueueInvisible DEF vars
<1> QED
  BY <1>1, <1>2, <1>3, <1>4, <1>5, <1>6, <1>7, PutStep, SendTries, ArriveStep, AckStep
     DEF Next, Step, Dispatch, Fault

\* CommandDispatch implements CommandQueue: for any number of nodes, devices
\* and commands, with all faults and worker threads, the cluster is one queue
\* that tries every command at most once and acknowledges only what it tried.
THEOREM DispatchImplementsQueue == Spec => RefinesCommandQueue
<1>1. Init => Q!Init
  BY DEF Init, Q!Init, Attempts, Arrivals
<1> QED
  BY <1>1, QueueStep, DispatchInvariant, PTL DEF Spec, RefinesCommandQueue, Q!Spec
=============================================================================
