------------------------- MODULE SlotEngine_proofs --------------------------
(***************************************************************************)
(* Safety of SlotEngine for any number of slots and any way of connecting  *)
(* their pipelines, with or without cancel(); and that no thread waits for *)
(* another in a circle.                                                    *)
(***************************************************************************)
EXTENDS SlotEngine, EventBufferOps_proofs, TLAPS

\* Which slots are started, and that execute() returns on its own only after
\* it has found every one of them idle.
ExecuteInv ==
  /\ execPc = "idle" => \A s \in Slots : thread[s] = "none"
  /\ execPc = "starting" => \A s \in Slots : thread[s] = "none" <=> s >= execIx
  /\ execPc \in {"test", "poll", "returned"} =>
       \A s \in Slots : thread[s] # "none"
  /\ execPc \in {"idle", "test"} => execIx = 1
  /\ execPc = "poll" => \A s \in Slots : s < execIx => thread[s] = "finished"
  /\ execPc = "returned" /\ cancelPc = "idle" =>
       \A s \in Slots : thread[s] = "finished"
  /\ execPc # "idle" /\ ~ engineRunning => cancelPc # "idle"
  /\ cancelPc # "idle" => execPc \in {"test", "poll", "returned"}

\* The slots cancel() is done with.
CancelInv ==
  /\ cancelPc \in {"stopping", "joining"} =>
       \A s \in Slots : s < cancelIx => thread[s] = "finished"
  /\ cancelPc = "returned" => \A s \in Slots : thread[s] = "finished"
  /\ cancelPc = "idle" => cancelIx = 1

\* Slot::running_ is true exactly while a started thread has not finished.
SlotInv ==
  \A s \in Slots : slotRunning[s] <=> thread[s] \notin {"none", "finished"}

\* Nobody but stop() clears Pipeline::running_, and a channel is closed
\* exactly when its writer has left close().
PipelineInv ==
  /\ cancelPc = "idle" =>
       \A s \in Slots : thread[s] \in {"test", "execute"} => pipeRunning[s]
  /\ \A s \in Slots :
       Feeds[s] # 0 =>
         (shut[Feeds[s]] <=> thread[s] \in {"exiting", "finished"})

IInv ==
  /\ TypeOK /\ ExecuteInv /\ CancelInv /\ SlotInv /\ PipelineInv
  /\ ConsumedBeforeClose

-----------------------------------------------------------------------------
\* What the proofs use of the slots' numbers and of the connections.
LEMMA SlotFacts ==
  /\ \A s \in Slots : s \in Nat /\ 0 < s /\ s <= NumSlots
  /\ 1 \in Slots /\ NumSlots \in Slots
  /\ \A s \in Slots : s # NumSlots => s + 1 \in Slots
  /\ \A s \in Slots : Feeds[s] # 0 => Feeds[s] \in Slots /\ Feeds[s] # s
  /\ \A s, t \in Slots : Feeds[s] = Feeds[t] /\ Feeds[s] # 0 => s = t
  /\ MaxSupply \in Nat /\ MaxWrites \in Nat
  BY SlotAssumption DEF Slots

LEMMA InitIInv == Init => IInv
<1> SUFFICES ASSUME Init PROVE IInv
  OBVIOUS
<1> USE SlotFacts DEF Init
<1>1. TypeOK
  <2>1. /\ channel \in [Slots -> Nat] /\ written \in [Slots -> 0..MaxWrites]
        /\ \A s \in Slots : channel[s] <= written[s]
    OBVIOUS
  <2>2. /\ slotRunning \in [Slots -> BOOLEAN] /\ pipeRunning \in [Slots -> BOOLEAN]
        /\ shut \in [Slots -> BOOLEAN]
    OBVIOUS
  <2> QED BY <2>1, <2>2 DEF TypeOK
<1>2. ExecuteInv /\ CancelInv
  BY DEF ExecuteInv, CancelInv
<1>3. SlotInv /\ PipelineInv
  BY DEF SlotInv, PipelineInv
<1>4. ConsumedBeforeClose
  BY DEF ConsumedBeforeClose, Closing
<1> QED BY <1>1, <1>2, <1>3, <1>4 DEF IInv

\* The steps of execute().
LEMMA ExecuteKeeps == ASSUME IInv, Execute PROVE IInv'
<1> USE SlotFacts DEF engineVars, cancelVars, threadVars, channelVars
<1>1. CASE ExecuteCall
  BY <1>1 DEF ExecuteCall, IInv, TypeOK, ExecuteInv, CancelInv, SlotInv,
     PipelineInv, ConsumedBeforeClose, Closing
<1>2. CASE StartSlot
  <2>1. TypeOK'
    BY <1>2 DEF StartSlot, Advanced, IInv, TypeOK
  <2>2. ExecuteInv'
    <3>1. CASE execIx = NumSlots
      <4>1. \A t \in Slots : t # execIx => thread[t] # "none"
        <5>1. \A t \in Slots : thread[t] = "none" => t >= execIx
          BY <1>2 DEF StartSlot, IInv, ExecuteInv
        <5> QED BY <3>1, <5>1
      <4>2. \A t \in Slots : thread'[t] # "none"
        BY <1>2, <4>1 DEF StartSlot, IInv, TypeOK
      <4> QED
        BY <1>2, <3>1, <4>2 DEF StartSlot, Advanced, IInv, TypeOK, ExecuteInv
    <3>2. CASE execIx # NumSlots
      <4>1. \A t \in Slots : thread'[t] = "none" <=> t >= execIx + 1
        <5>1. \A t \in Slots : thread[t] = "none" <=> t >= execIx
          BY <1>2 DEF StartSlot, IInv, ExecuteInv
        <5>2. \A t \in Slots :
                thread'[t] = IF t = execIx THEN "created" ELSE thread[t]
          BY <1>2 DEF StartSlot, IInv, TypeOK
        <5>3. execIx \in Int /\ \A t \in Slots : t \in Int
          BY DEF IInv, TypeOK, Slots
        <5> QED BY <5>1, <5>2, <5>3
      <4> QED
        BY <1>2, <3>2, <4>1 DEF StartSlot, Advanced, IInv, TypeOK, ExecuteInv
    <3> QED BY <3>1, <3>2
  <2>3. CancelInv' /\ SlotInv'
    BY <1>2 DEF StartSlot, IInv, TypeOK, ExecuteInv, CancelInv, SlotInv
  <2>4. PipelineInv'
    BY <1>2 DEF StartSlot, IInv, TypeOK, ExecuteInv, PipelineInv
  <2>5. ConsumedBeforeClose'
    BY <1>2 DEF StartSlot, IInv, TypeOK, ExecuteInv, ConsumedBeforeClose, Closing
  <2> QED BY <2>1, <2>2, <2>3, <2>4, <2>5 DEF IInv
<1>3. CASE ExecuteTest
  BY <1>3 DEF ExecuteTest, IInv, TypeOK, ExecuteInv, CancelInv, SlotInv,
     PipelineInv, ConsumedBeforeClose, Closing
<1>4. CASE PollSlot
  <2>1. TypeOK'
    BY <1>4 DEF PollSlot, Advanced, IInv, TypeOK
  <2>2. ExecuteInv'
    <3>1. \A s \in Slots : s < execIx => thread[s] = "finished"
      BY <1>4 DEF PollSlot, IInv, ExecuteInv
    <3>2. ~ slotRunning[execIx] => thread[execIx] = "finished"
      BY <1>4 DEF PollSlot, IInv, TypeOK, ExecuteInv, SlotInv
    <3> QED
      BY <1>4, <3>1, <3>2 DEF PollSlot, Advanced, IInv, TypeOK, ExecuteInv
  <2>3. CancelInv' /\ SlotInv' /\ PipelineInv'
    BY <1>4 DEF PollSlot, Advanced, IInv, CancelInv, SlotInv, PipelineInv
  <2>4. ConsumedBeforeClose'
    BY <1>4 DEF PollSlot, IInv, ConsumedBeforeClose
  <2> QED BY <2>1, <2>2, <2>3, <2>4 DEF IInv
<1> QED BY <1>1, <1>2, <1>3, <1>4 DEF Execute

\* The steps of cancel().
LEMMA CancelKeeps == ASSUME IInv, CancelCall \/ CancelStep PROVE IInv'
<1> USE SlotFacts
    DEF engineVars, cancelVars, threadVars, channelVars, StopOrder
<1>1. CASE CancelCall
  <2>1. TypeOK' /\ SlotInv' /\ PipelineInv' /\ ConsumedBeforeClose'
    BY <1>1 DEF CancelCall, IInv, TypeOK, SlotInv, PipelineInv,
       ConsumedBeforeClose
  <2>2. CancelInv'
    <3>1. cancelIx = 1 /\ cancelIx' = 1 /\ cancelPc' = "stopping"
      BY <1>1 DEF CancelCall, IInv, CancelInv
    <3> QED BY <3>1 DEF CancelInv
  <2>3. ExecuteInv'
    BY <1>1 DEF CancelCall, IInv, ExecuteInv
  <2> QED BY <2>1, <2>2, <2>3 DEF IInv
<1>2. CASE StopPipeline
  BY <1>2 DEF StopPipeline, IInv, TypeOK, ExecuteInv, CancelInv, SlotInv,
     PipelineInv, ConsumedBeforeClose, Closing
<1>3. CASE JoinSlot
  <2>1. TypeOK'
    BY <1>3 DEF JoinSlot, IInv, TypeOK
  <2>2. SlotInv'
    BY <1>3 DEF JoinSlot, IInv, TypeOK, SlotInv
  <2>3. CancelInv'
    <3>1. \A t \in Slots : t <= cancelIx => thread'[t] = "finished"
      <4>1. /\ cancelIx \in Slots /\ thread[cancelIx] = "finished"
            /\ \A t \in Slots : t < cancelIx => thread[t] = "finished"
            /\ UNCHANGED thread
        BY <1>3 DEF JoinSlot, IInv, TypeOK, CancelInv
      <4> QED BY <4>1
    <3>2. CASE cancelIx = NumSlots
      BY <1>3, <3>1, <3>2 DEF JoinSlot, CancelInv
    <3>3. CASE cancelIx # NumSlots
      <4>1. cancelPc' = "stopping" /\ cancelIx' = cancelIx + 1
        BY <1>3, <3>3 DEF JoinSlot
      <4> QED BY <3>1, <4>1 DEF IInv, TypeOK, CancelInv
    <3> QED BY <3>2, <3>3
  <2>4. ExecuteInv'
    BY <1>3 DEF JoinSlot, IInv, ExecuteInv
  <2>5. PipelineInv' /\ ConsumedBeforeClose'
    BY <1>3 DEF JoinSlot, IInv, PipelineInv, ConsumedBeforeClose
  <2> QED BY <2>1, <2>2, <2>3, <2>4, <2>5 DEF IInv
<1> QED BY <1>1, <1>2, <1>3 DEF CancelStep

-----------------------------------------------------------------------------
\* What a slot's thread may do to the invariant's view of threads: it never
\* goes back, and clears the slot's flag as it finishes.
LEMMA ThreadKeepsCallers ==
  ASSUME IInv, NEW s \in Slots, SlotThread(s)
  PROVE  ExecuteInv' /\ CancelInv' /\ SlotInv'
<1> USE SlotFacts DEF engineVars, cancelVars, threadVars, channelVars, Goto
<1>1. PICK pc \in {"test", "execute", "closing", "shutting", "exiting", "finished"} :
        thread' = [thread EXCEPT ![s] = pc]
  BY DEF SlotThread, RunBegin, RunTest, ExecuteSource, ExecuteChannelSource,
     ExecuteBare, ExecuteEnd, CloseFlush, CloseChannel, ThreadEnd
<1>2. thread[s] \notin {"none", "finished"}
  BY DEF SlotThread, RunBegin, RunTest, ExecuteSource, ExecuteChannelSource,
     ExecuteBare, ExecuteEnd, CloseFlush, CloseChannel, ThreadEnd
<1>3. slotRunning' = IF pc = "finished" THEN [slotRunning EXCEPT ![s] = FALSE]
                                        ELSE slotRunning
  BY <1>1 DEF SlotThread, RunBegin, RunTest, ExecuteSource, IInv, TypeOK,
     ExecuteChannelSource, ExecuteBare, ExecuteEnd, CloseFlush, CloseChannel, ThreadEnd
<1>4. UNCHANGED <<engineRunning, execPc, execIx, cancelPc, cancelIx>>
  BY DEF SlotThread, RunBegin, RunTest, ExecuteSource, ExecuteChannelSource,
     ExecuteBare, ExecuteEnd, CloseFlush, CloseChannel, ThreadEnd
<1> QED
  BY <1>1, <1>2, <1>3, <1>4 DEF IInv, TypeOK, ExecuteInv, CancelInv, SlotInv

\* A write goes to the channel the pipeline feeds, and nowhere else.
LEMMA WriteTarget ==
  ASSUME IInv, NEW s \in Slots, NEW ch \in [Slots -> Nat], MayWrite(s, ch),
         \A t \in Slots : ch[t] <= channel[t]
  PROVE  /\ channel' \in [Slots -> Nat] /\ written' \in [Slots -> 0..MaxWrites]
         /\ \A t \in Slots : channel'[t] <= written'[t]
         /\ \A t \in Slots : t # Feeds[s] => channel'[t] = ch[t]
<1> USE SlotFacts DEF IInv, TypeOK, MayWrite
<1>1. CASE channel' = ch /\ UNCHANGED written
  BY <1>1
<1>2. ASSUME Feeds[s] # 0, NEW n \in 1..MaxWrites - written[Feeds[s]],
             channel' = [ch EXCEPT ![Feeds[s]] = @ + n],
             written' = [written EXCEPT ![Feeds[s]] = @ + n]
      PROVE  /\ channel' \in [Slots -> Nat] /\ written' \in [Slots -> 0..MaxWrites]
             /\ \A t \in Slots : channel'[t] <= written'[t]
             /\ \A t \in Slots : t # Feeds[s] => channel'[t] = ch[t]
  BY <1>2
<1> QED BY <1>1, <1>2

\* The steps of a slot's thread.
LEMMA ThreadKeeps == ASSUME IInv, NEW s \in Slots, SlotThread(s) PROVE IInv'
<1> USE SlotFacts
    DEF engineVars, cancelVars, threadVars, channelVars, Goto
<1>1. ExecuteInv' /\ CancelInv' /\ SlotInv'
  BY ThreadKeepsCallers
<1>2. CASE RunBegin(s)
  <2>1. TypeOK' /\ PipelineInv' /\ ConsumedBeforeClose'
    BY <1>2 DEF RunBegin, IInv, TypeOK, PipelineInv, ConsumedBeforeClose, Closing
  <2> QED BY <1>1, <2>1 DEF IInv
<1>3. CASE RunTest(s)
  <2>1. TypeOK' /\ PipelineInv'
    BY <1>3 DEF RunTest, IInv, TypeOK, PipelineInv
  <2>2. ConsumedBeforeClose'
    BY <1>3 DEF RunTest, IInv, TypeOK, PipelineInv, ConsumedBeforeClose, Closing
  <2> QED BY <1>1, <2>1, <2>2 DEF IInv
<1>4. ASSUME thread[s] \in {"execute", "closing"},
             NEW pc \in {"test", "shutting"},
             thread' = [thread EXCEPT ![s] = pc],
             thread[s] = "execute" <=> pc = "test",
             supply' \in [Slots -> Supplies],
             NEW ch \in [Slots -> Nat], MayWrite(s, ch),
             \A t \in Slots : ch[t] <= channel[t],
             UNCHANGED <<engineVars, cancelVars, slotRunning, pipeRunning, shut, bare>>
      PROVE  TypeOK' /\ PipelineInv' /\ ConsumedBeforeClose'
  <2>1. /\ channel' \in [Slots -> Nat] /\ written' \in [Slots -> 0..MaxWrites]
        /\ \A t \in Slots : channel'[t] <= written'[t]
        /\ \A t \in Slots : t # Feeds[s] => channel'[t] = ch[t]
    BY <1>4, WriteTarget
  <2>2. TypeOK'
    BY <1>4, <2>1 DEF IInv, TypeOK
  <2>3. PipelineInv'
    BY <1>4 DEF IInv, TypeOK, PipelineInv
  <2>4. ConsumedBeforeClose'
    BY <1>4, <2>1 DEF IInv, TypeOK, ConsumedBeforeClose, Closing
  <2> QED BY <2>2, <2>3, <2>4
<1>5. CASE ExecuteSource(s)
  <2>1. supply' \in [Slots -> Supplies]
    BY <1>5, SlotAssumption DEF ExecuteSource, IInv, TypeOK, Supplies, Forever
  <2>2. channel \in [Slots -> Nat] /\ \A t \in Slots : channel[t] <= channel[t]
    BY DEF IInv, TypeOK
  <2>3. /\ thread[s] = "execute" /\ thread' = [thread EXCEPT ![s] = "test"]
        /\ MayWrite(s, channel)
        /\ UNCHANGED <<engineVars, cancelVars, slotRunning, pipeRunning, shut, bare>>
    BY <1>5 DEF ExecuteSource
  <2>4. TypeOK' /\ PipelineInv' /\ ConsumedBeforeClose'
    BY <1>4, <2>1, <2>2, <2>3
  <2> QED BY <1>1, <2>4 DEF IInv
<1>6. CASE ExecuteChannelSource(s)
  <2>1. /\ [channel EXCEPT ![s] = @ - 1] \in [Slots -> Nat]
        /\ \A t \in Slots : [channel EXCEPT ![s] = @ - 1][t] <= channel[t]
    BY <1>6 DEF ExecuteChannelSource, IInv, TypeOK
  <2>2. /\ thread[s] = "execute" /\ thread' = [thread EXCEPT ![s] = "test"]
        /\ MayWrite(s, [channel EXCEPT ![s] = @ - 1])
        /\ UNCHANGED <<engineVars, cancelVars, slotRunning, pipeRunning, supply, shut, bare>>
    BY <1>6 DEF ExecuteChannelSource
  <2>3. supply' \in [Slots -> Supplies]
    BY <2>2 DEF IInv, TypeOK
  <2>4. TypeOK' /\ PipelineInv' /\ ConsumedBeforeClose'
    BY <1>4, <2>1, <2>2, <2>3
  <2> QED BY <1>1, <2>4 DEF IInv
<1>11. CASE ExecuteBare(s)
  <2>1. TypeOK' /\ PipelineInv'
    BY <1>11 DEF ExecuteBare, IInv, TypeOK, PipelineInv
  <2>2. ConsumedBeforeClose'
    BY <1>11 DEF ExecuteBare, IInv, TypeOK, ConsumedBeforeClose, Closing
  <2> QED BY <1>1, <2>1, <2>2 DEF IInv
<1>7. CASE ExecuteEnd(s)
  <2>1. TypeOK' /\ PipelineInv'
    BY <1>7 DEF ExecuteEnd, IInv, TypeOK, PipelineInv
  <2>2. ConsumedBeforeClose'
    BY <1>7 DEF ExecuteEnd, AtEnd, ChannelReaders, IInv, TypeOK, PipelineInv,
       ConsumedBeforeClose, Closing
  <2> QED BY <1>1, <2>1, <2>2 DEF IInv
<1>8. CASE CloseFlush(s)
  <2>1. TypeOK' /\ PipelineInv' /\ ConsumedBeforeClose'
    BY <1>4, <1>8 DEF CloseFlush, IInv, TypeOK
  <2> QED BY <1>1, <2>1 DEF IInv
<1>9. CASE CloseChannel(s)
  <2>1. TypeOK' /\ PipelineInv'
    BY <1>9 DEF CloseChannel, IInv, TypeOK, PipelineInv
  <2>2. ConsumedBeforeClose'
    BY <1>9 DEF CloseChannel, IInv, TypeOK, ConsumedBeforeClose, Closing
  <2> QED BY <1>1, <2>1, <2>2 DEF IInv
<1>10. CASE ThreadEnd(s)
  <2>1. TypeOK' /\ PipelineInv' /\ ConsumedBeforeClose'
    BY <1>10 DEF ThreadEnd, IInv, TypeOK, PipelineInv, ConsumedBeforeClose, Closing
  <2> QED BY <1>1, <2>1 DEF IInv
<1> QED
  BY <1>2, <1>3, <1>5, <1>6, <1>7, <1>8, <1>9, <1>10, <1>11 DEF SlotThread

\* The invariant is inductive.
LEMMA NextKeeps == IInv /\ [Next]_vars => IInv'
<1> SUFFICES ASSUME IInv, [Next]_vars PROVE IInv'
  OBVIOUS
<1>1. CASE UNCHANGED vars
  BY <1>1 DEF vars, engineVars, cancelVars, threadVars, channelVars, IInv,
     TypeOK, ExecuteInv, CancelInv, SlotInv, PipelineInv, ConsumedBeforeClose
<1>2. CASE Stopped
  BY <1>1, <1>2 DEF Stopped
<1> QED
  BY <1>1, <1>2, ExecuteKeeps, CancelKeeps, ThreadKeeps DEF Next

LEMMA Invariance == Spec => []IInv
  BY InitIInv, NextKeeps, PTL DEF Spec

-----------------------------------------------------------------------------
\* Type correctness: in particular no thread pops an empty channel.
THEOREM TypeCorrect == Spec => []TypeOK
  BY Invariance, PTL DEF IInv

\* Slot::is_running() turns false only once the pipeline is closed.
THEOREM RunningTruthful == Spec => []IsRunningTruthful
<1>1. IInv => IsRunningTruthful
  BY DEF IInv, SlotInv, IsRunningTruthful
<1> QED BY Invariance, <1>1, PTL

\* Without cancel(), a pipeline closes only after all its input is consumed.
THEOREM ConsumesAll == Spec => []ConsumedBeforeClose
  BY Invariance, PTL DEF IInv

\* execute() that returns by itself has run every pipeline to the end and
\* left nothing in a channel whose source has an operator after it.
THEOREM ExecuteRunsAll == Spec => []ExecuteCompletes
<1>1. IInv => ExecuteCompletes
  BY SlotFacts DEF IInv, TypeOK, ExecuteInv, PipelineInv, ExecuteCompletes,
     ConsumedBeforeClose, Closing, ChannelReaders
<1> QED BY Invariance, <1>1, PTL

\* cancel() that has returned leaves no thread running.
THEOREM CancelJoinsAll == Spec => []CancelStops
<1>1. IInv => CancelStops
  BY DEF IInv, CancelInv, SlotInv, CancelStops
<1> QED BY Invariance, <1>1, PTL

\* No pipeline writes to a channel it has closed.
THEOREM ClosedChannelsQuiet == Spec => NoWriteAfterClose
<1>1. ASSUME IInv, NEW w \in Slots, thread[w] \in {"execute", "closing"},
             NEW ch, MayWrite(w, ch)
      PROVE  \A s \in Slots : shut[s] => written'[s] = written[s]
  BY <1>1, SlotFacts DEF IInv, TypeOK, PipelineInv, MayWrite
<1>2. ASSUME IInv, NEW w \in Slots, SlotThread(w)
      PROVE  \A s \in Slots : shut[s] => written'[s] = written[s]
  <2>1. CASE ExecuteSource(w) \/ ExecuteChannelSource(w) \/ CloseFlush(w)
    BY <1>1, <1>2, <2>1 DEF ExecuteSource, ExecuteChannelSource, CloseFlush
  <2>2. CASE \/ RunBegin(w) \/ RunTest(w) \/ ExecuteEnd(w) \/ ExecuteBare(w)
             \/ CloseChannel(w) \/ ThreadEnd(w)
    BY <2>2 DEF RunBegin, RunTest, ExecuteEnd, ExecuteBare, CloseChannel, ThreadEnd,
       channelVars
  <2> QED BY <1>2, <2>1, <2>2 DEF SlotThread
<1>3. ASSUME IInv, [Next]_vars
      PROVE  [\A s \in Slots : shut[s] => written'[s] = written[s]]_vars
  <2>1. CASE Execute \/ CancelCall \/ CancelStep \/ Stopped
    BY <2>1 DEF Execute, ExecuteCall, StartSlot, ExecuteTest, PollSlot,
       CancelCall, CancelStep, StopPipeline, JoinSlot, Stopped, vars, channelVars
  <2> QED BY <1>2, <1>3, <2>1 DEF Next
<1> QED BY Invariance, <1>3, PTL DEF NoWriteAfterClose, Spec

-----------------------------------------------------------------------------
\* Behind a reader that waits somebody can go on: the first of the threads
\* that are started and not finished has a writer that closed its channel.
THEOREM NoCircleOfWaits == Spec => []ReadersWaitForSomeone
<1>1. ASSUME IInv, NEW s \in Slots, Blocked(s)
      PROVE  \E w \in Slots : /\ w < s /\ thread[w] \notin {"none", "finished"}
                              /\ ~ Blocked(w)
  <2> DEFINE Alive == {w \in Slots : thread[w] \notin {"none", "finished"}}
  <2>1. \A t \in Slots : t \in Nat
    BY SlotFacts
  <2>2. Alive \subseteq Nat /\ s \in Alive
    BY <1>1, <2>1 DEF Blocked
  <2>3. PICK w \in Alive : w \in Nat /\ \A t \in Nat : t < w => t \notin Alive
    <3> HIDE DEF Alive
    <3> QED BY <2>2, Least
  <2>4. w <= s
    BY <2>1, <2>2, <2>3
  <2>5. ~ Blocked(w)
    <3> SUFFICES ASSUME w \in ChannelReaders, ~ shut[w] PROVE FALSE
      BY DEF Blocked
    <3>1. PICK v \in Slots : Feeds[v] = w /\ w # 0
      BY DEF ChannelReaders
    <3>2. v \in Nat /\ v < w
      BY <2>1, <3>1, SlotAssumption
    <3>3. thread[v] # "none"
      BY <1>1, <2>1, <2>3, <3>2 DEF IInv, TypeOK, ExecuteInv
    <3>4. thread[v] \notin {"exiting", "finished"}
      BY <1>1, <3>1 DEF IInv, PipelineInv
    <3>5. v \in Alive
      BY <3>3, <3>4
    <3> QED BY <2>3, <3>2, <3>5
  <2>6. w # s
    BY <1>1, <2>5
  <2>7. w < s
    BY <2>1, <2>2, <2>4, <2>6
  <2> QED BY <2>3, <2>5, <2>7
<1>2. IInv => ReadersWaitForSomeone
  BY <1>1 DEF ReadersWaitForSomeone
<1> QED BY Invariance, <1>2, PTL

-----------------------------------------------------------------------------
\* A cancel() that comes only after the endless sources are in their loops
\* finds them there, and none of them sets its flag after stop() cleared it.
SettledInv ==
  SettledCancel /\ cancelPc # "idle" =>
    /\ Settled
    /\ cancelPc = "joining" /\ supply[StopOrder(cancelIx)] = Forever =>
         ~ pipeRunning[StopOrder(cancelIx)]

LEMMA SettledKept == IInv /\ SettledInv /\ [Next]_vars => SettledInv'
<1> SUFFICES ASSUME IInv, SettledInv, [Next]_vars, SettledCancel, cancelPc' # "idle"
             PROVE  /\ Settled'
                    /\ cancelPc' = "joining" /\ supply'[StopOrder(cancelIx')] = Forever =>
                         ~ pipeRunning'[StopOrder(cancelIx')]
  BY DEF SettledInv, StopOrder
<1> USE SlotFacts
    DEF engineVars, cancelVars, threadVars, channelVars, Goto, StopOrder, SettledInv
<1>1. CASE Execute
  <2>1. /\ UNCHANGED <<cancelPc, cancelIx, supply, pipeRunning>> /\ Settled
        /\ UNCHANGED thread
    BY <1>1 DEF Execute, ExecuteCall, StartSlot, ExecuteTest, PollSlot, IInv, ExecuteInv
  <2> QED BY <2>1 DEF Settled
<1>2. CASE CancelCall
  BY <1>2 DEF CancelCall, Settled
<1>3. CASE StopPipeline
  BY <1>3 DEF StopPipeline, Settled, IInv, TypeOK
<1>4. CASE JoinSlot
  BY <1>4 DEF JoinSlot, Settled
<1>5. ASSUME NEW s \in Slots, SlotThread(s)
      PROVE  /\ Settled'
             /\ cancelPc' = "joining" /\ supply'[StopOrder(cancelIx')] = Forever =>
                  ~ pipeRunning'[StopOrder(cancelIx')]
  <2>1. /\ UNCHANGED <<cancelPc, cancelIx>> /\ cancelPc # "idle"
        /\ thread[s] \notin {"none", "finished"}
        /\ \E pc \in {"test", "execute", "closing", "shutting", "exiting", "finished"} :
             thread' = [thread EXCEPT ![s] = pc]
    BY <1>5 DEF SlotThread, RunBegin, RunTest, ExecuteSource, ExecuteChannelSource,
       ExecuteBare, ExecuteEnd, CloseFlush, CloseChannel, ThreadEnd
  <2>2. \A t \in Slots : supply'[t] = Forever => supply[t] = Forever
    <3>1. CASE ExecuteSource(s)
      BY <3>1 DEF ExecuteSource, IInv, TypeOK, Supplies, Forever
    <3>2. CASE ~ ExecuteSource(s)
      BY <1>5, <3>2 DEF SlotThread, RunBegin, RunTest, ExecuteChannelSource,
         ExecuteBare, ExecuteEnd, CloseFlush, CloseChannel, ThreadEnd
    <3> QED BY <3>1, <3>2
  <2>3. Settled'
    BY <2>1, <2>2 DEF Settled, IInv, TypeOK
  <2>4. CASE RunBegin(s)
    <3>1. supply[s] # Forever
      BY <2>1, <2>4 DEF RunBegin, Settled
    <3> QED BY <2>1, <2>2, <2>3, <2>4, <3>1 DEF RunBegin, IInv, TypeOK
  <2>5. CASE ~ RunBegin(s)
    <3>1. UNCHANGED pipeRunning
      BY <1>5, <2>5 DEF SlotThread, RunTest, ExecuteSource, ExecuteChannelSource,
         ExecuteBare, ExecuteEnd, CloseFlush, CloseChannel, ThreadEnd
    <3> QED BY <2>1, <2>2, <2>3, <3>1 DEF IInv, TypeOK
  <2> QED BY <2>4, <2>5
<1>6. CASE UNCHANGED vars
  BY <1>6 DEF vars, Settled
<1>7. CASE Stopped
  BY <1>6, <1>7 DEF Stopped
<1> QED BY <1>1, <1>2, <1>3, <1>4, <1>5, <1>6, <1>7 DEF Next, CancelStep

\* Joining a thread, cancel() waits for nothing that only its own next round
\* would bring about: stop_all() goes from writers to readers.
THEOREM CancelNeverStuck == Spec => []JoinedThreadStops
<1>1. Init => SettledInv
  BY DEF Init, SettledInv
<1>2. ASSUME IInv, SettledInv PROVE JoinedThreadStops
  <2> SUFFICES ASSUME SettledCancel, cancelPc = "joining"
               PROVE  /\ ~ Blocked(cancelIx)
                      /\ supply[cancelIx] = Forever => ~ pipeRunning[cancelIx]
    BY DEF JoinedThreadStops, StopOrder
  <2>1. ~ Blocked(cancelIx)
    <3> SUFFICES ASSUME cancelIx \in ChannelReaders PROVE shut[cancelIx]
      BY DEF Blocked
    <3>1. PICK v \in Slots : Feeds[v] = cancelIx /\ cancelIx # 0
      BY DEF ChannelReaders
    <3>2. v < cancelIx
      BY <3>1, SlotAssumption
    <3>3. thread[v] = "finished"
      BY <1>2, <3>2 DEF IInv, CancelInv
    <3> QED BY <1>2, <3>1, <3>3 DEF IInv, PipelineInv
  <2> QED BY <1>2, <2>1 DEF SettledInv, StopOrder
<1> QED BY Invariance, SettledKept, <1>1, <1>2, PTL DEF Spec
=============================================================================
