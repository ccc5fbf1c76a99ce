----------------------------- MODULE SlotEngine -----------------------------
(***************************************************************************)
(* SlotEngine, SlotManager, Slot and Pipeline::run() (src/engine): one     *)
(* thread per slot runs a pipeline to its end or until it is stopped.      *)
(* execute() starts the threads and polls them until all are done;         *)
(* another thread may call cancel(), which stops and joins them one by     *)
(* one.  Pipelines are connected by InputChannels, which this module uses  *)
(* as the closable queues that module InputChannel shows them to be.       *)
(*                                                                         *)
(* Calls assumed: as many pipelines are submitted as there are slots, in   *)
(* the order of ExecutionGraph::build (a writer before its reader), and    *)
(* execute() is called once.  cancel() is called at most once, after       *)
(* start_all() has returned: join() on a thread not yet started would      *)
(* throw.                                                                  *)
(***************************************************************************)
EXTENDS Integers

CONSTANTS
  NumSlots,       \* SlotManager::slot_count()
  Feeds,          \* the slot whose channel a slot's pipeline writes, 0: none
  MaxSupply,      \* bound of the model: the events of a source that ends
  MaxWrites,      \* bound of the model: how many events a channel carries
  SettledCancel   \* whether cancel() comes only after every thread with an
                  \* endless source has entered the loop of Pipeline::run()

Slots == 1..NumSlots

\* A channel has one writer and one reader, and its writer comes first.
ASSUME SlotAssumption ==
  /\ NumSlots \in Nat \ {0}
  /\ Feeds \in [Slots -> 0..NumSlots]
  /\ \A s \in Slots : Feeds[s] # 0 => Feeds[s] > s
  /\ \A s, t \in Slots : Feeds[s] = Feeds[t] /\ Feeds[s] # 0 => s = t
  /\ MaxSupply \in Nat /\ MaxWrites \in Nat
  /\ SettledCancel \in BOOLEAN

VARIABLES
  engineRunning,  \* SlotEngine::running_
  execPc,         \* execute(): not called, starting the slots, at its while,
                  \* polling a slot, or returned
  execIx,         \* the slot execute() starts or polls next
  cancelPc,       \* cancel(): not called, about to stop a pipeline, joining
                  \* a thread, or returned
  cancelIx,       \* how far stop_all() has come
  slotRunning,    \* Slot::running_ of each slot
  thread,         \* where each slot's thread is
  pipeRunning,    \* Pipeline::running_ of each slot's pipeline
  supply,         \* the events the source of each slot has left, or Forever
  channel,        \* the events in the channel each slot reads
  shut,           \* whether that channel is closed
  written,        \* history: the events ever written to it
  bare            \* the slots whose ChannelSource has no next operator,
                  \* because nothing follows the window it reads from

engineVars  == <<engineRunning, execPc, execIx>>
cancelVars  == <<cancelPc, cancelIx>>
threadVars  == <<thread, slotRunning>>
channelVars == <<channel, shut, written, bare>>
vars == <<engineVars, cancelVars, threadVars, pipeRunning, supply, channelVars>>

\* The pipelines that begin with a ChannelSource; the others have a Source.
ChannelReaders == {Feeds[s] : s \in Slots} \ {0}

\* The supply of a source that never returns nullopt.
Forever == -1
Supplies == 0..MaxSupply \cup {Forever}

Init ==
  /\ engineRunning = FALSE
  /\ execPc = "idle" /\ execIx = 1
  /\ cancelPc = "idle" /\ cancelIx = 1
  /\ slotRunning = [s \in Slots |-> FALSE]
  /\ thread = [s \in Slots |-> "none"]
  /\ pipeRunning = [s \in Slots |-> FALSE]
  /\ supply \in [Slots -> Supplies]
  /\ \A s \in ChannelReaders : supply[s] = 0
  /\ channel = [s \in Slots |-> 0]
  /\ shut = [s \in Slots |-> FALSE]
  /\ written = [s \in Slots |-> 0]
  /\ bare \in SUBSET {s \in ChannelReaders : Feeds[s] = 0}

-----------------------------------------------------------------------------
(* SlotEngine::execute() *)

\* The flag is set and the pipelines move into the slots.
ExecuteCall ==
  /\ execPc = "idle"
  /\ engineRunning' = TRUE
  /\ execPc' = "starting"
  /\ UNCHANGED <<execIx, cancelVars, threadVars, pipeRunning, supply, channelVars>>

\* The loop of start_all() and of the poll, over the slots in order.
Advanced(last) ==
  IF execIx = NumSlots
  THEN execPc' = last /\ execIx' = 1
  ELSE UNCHANGED execPc /\ execIx' = execIx + 1

\* Slot::start(), for a slot that is not running.
StartSlot ==
  /\ execPc = "starting"
  /\ slotRunning' = [slotRunning EXCEPT ![execIx] = TRUE]
  /\ thread' = [thread EXCEPT ![execIx] = "created"]
  /\ Advanced("test")
  /\ UNCHANGED <<engineRunning, cancelVars, pipeRunning, supply, channelVars>>

\* while (running_)
ExecuteTest ==
  /\ execPc = "test"
  /\ execPc' = IF engineRunning THEN "poll" ELSE "returned"
  /\ UNCHANGED <<engineRunning, execIx, cancelVars, threadVars, pipeRunning,
                 supply, channelVars>>

\* A poll that takes one idle slot for all.
PollSlotAny ==
  /\ execPc = "poll"
  /\ IF slotRunning[execIx]
     THEN execPc' = "test" /\ execIx' = 1
     ELSE execPc' = "returned" /\ execIx' = 1
  /\ UNCHANGED <<engineRunning, cancelVars, threadVars, pipeRunning, supply,
                 channelVars>>

\* One is_running(): a running slot ends the round, the last idle one ends
\* execute().
PollSlot ==
  /\ execPc = "poll"
  /\ IF slotRunning[execIx]
     THEN execPc' = "test" /\ execIx' = 1
     ELSE Advanced("returned")
  /\ UNCHANGED <<engineRunning, cancelVars, threadVars, pipeRunning, supply,
                 channelVars>>

Execute == ExecuteCall \/ StartSlot \/ ExecuteTest \/ PollSlot

-----------------------------------------------------------------------------
(* SlotEngine::cancel() *)

Settled ==
  \A s \in Slots : supply[s] = Forever => thread[s] \notin {"none", "created"}

CancelCall ==
  /\ cancelPc = "idle"
  /\ execPc \in {"test", "poll", "returned"}
  /\ SettledCancel => Settled
  /\ engineRunning' = FALSE
  /\ cancelPc' = "stopping"
  /\ UNCHANGED <<execPc, execIx, cancelIx, threadVars, pipeRunning, supply,
                 channelVars>>

\* stop_all() in the opposite order.
LastFirst(i) == NumSlots + 1 - i

\* The slot stop_all() stops in its i-th round.
StopOrder(i) == i

\* Slot::stop(): Pipeline::stop(), which clears the pipeline's flag.
StopPipeline ==
  /\ cancelPc = "stopping"
  /\ pipeRunning' = [pipeRunning EXCEPT ![StopOrder(cancelIx)] = FALSE]
  /\ cancelPc' = "joining"
  /\ UNCHANGED <<engineVars, cancelIx, threadVars, supply, channelVars>>

\* Slot::stop(): the join, and the slot's flag.  request_stop() has no
\* effect, since Slot::run() looks at no stop token.
JoinSlot ==
  /\ cancelPc = "joining"
  /\ thread[StopOrder(cancelIx)] = "finished"
  /\ slotRunning' = [slotRunning EXCEPT ![StopOrder(cancelIx)] = FALSE]
  /\ IF cancelIx = NumSlots
     THEN cancelPc' = "returned" /\ UNCHANGED cancelIx
     ELSE cancelPc' = "stopping" /\ cancelIx' = cancelIx + 1
  /\ UNCHANGED <<engineVars, thread, pipeRunning, supply, channelVars>>

CancelStep == StopPipeline \/ JoinSlot

-----------------------------------------------------------------------------
(* Slot::run() and Pipeline::run(), on the slot's thread *)

Goto(s, pc) == thread' = [thread EXCEPT ![s] = pc]

\* Pipeline::run() begins by setting its flag, whatever stop() has done.
RunBegin(s) ==
  /\ thread[s] = "created"
  /\ pipeRunning' = [pipeRunning EXCEPT ![s] = TRUE]
  /\ Goto(s, "test")
  /\ UNCHANGED <<engineVars, cancelVars, slotRunning, supply, channelVars>>

\* while (running_)
RunTest(s) ==
  /\ thread[s] = "test"
  /\ Goto(s, IF pipeRunning[s] THEN "execute" ELSE "closing")
  /\ UNCHANGED <<engineVars, cancelVars, slotRunning, pipeRunning, supply,
                 channelVars>>

\* One execute() or close() may write events to the channel, as many as the
\* windows it fires, while the bound allows it; ch is the channel contents
\* from which it starts.
MayWrite(s, ch) ==
  \/ channel' = ch /\ UNCHANGED written
  \/ /\ Feeds[s] # 0
     /\ \E n \in 1..MaxWrites - written[Feeds[s]] :
          /\ channel' = [ch EXCEPT ![Feeds[s]] = @ + n]
          /\ written' = [written EXCEPT ![Feeds[s]] = @ + n]

\* Source: an event, handed down the pipeline.
ExecuteSource(s) ==
  /\ thread[s] = "execute" /\ s \notin ChannelReaders
  /\ \/ supply[s] = Forever /\ UNCHANGED supply
     \/ supply[s] > 0 /\ supply' = [supply EXCEPT ![s] = @ - 1]
  /\ MayWrite(s, channel)
  /\ Goto(s, "test")
  /\ UNCHANGED <<engineVars, cancelVars, slotRunning, pipeRunning, shut, bare>>

\* A read() that trusts any wake-up and pops without looking.
ExecuteChannelSourceUnchecked(s) ==
  /\ thread[s] = "execute" /\ s \in ChannelReaders \ bare
  /\ MayWrite(s, [channel EXCEPT ![s] = @ - 1])
  /\ Goto(s, "test")
  /\ UNCHANGED <<engineVars, cancelVars, slotRunning, pipeRunning, supply, shut,
                 bare>>

\* ChannelSource: an event read from the channel, handed down; the thread
\* blocks while the channel is empty and open.
ExecuteChannelSource(s) ==
  /\ thread[s] = "execute" /\ s \in ChannelReaders \ bare
  /\ channel[s] > 0
  /\ MayWrite(s, [channel EXCEPT ![s] = @ - 1])
  /\ Goto(s, "test")
  /\ UNCHANGED <<engineVars, cancelVars, slotRunning, pipeRunning, supply, shut,
                 bare>>

\* ChannelSource without a next operator: it takes the first event for the
\* end of its input.
ExecuteBare(s) ==
  /\ thread[s] = "execute" /\ s \in bare
  /\ channel[s] > 0
  /\ channel' = [channel EXCEPT ![s] = @ - 1]
  /\ Goto(s, "closing")
  /\ UNCHANGED <<engineVars, cancelVars, slotRunning, pipeRunning, supply, shut,
                 written, bare>>

\* A read that ends with the close, whatever the channel still holds.
AtEndEarly(s) ==
  IF s \in ChannelReaders
  THEN shut[s]
  ELSE supply[s] = 0

\* The source, or the channel, has nothing more to give.
AtEnd(s) ==
  IF s \in ChannelReaders
  THEN channel[s] = 0 /\ shut[s]
  ELSE supply[s] = 0

\* The root is done, and the loop breaks.
ExecuteEnd(s) ==
  /\ thread[s] = "execute"
  /\ AtEnd(s)
  /\ Goto(s, "closing")
  /\ UNCHANGED <<engineVars, cancelVars, slotRunning, pipeRunning, supply,
                 channelVars>>

\* close() of the operators: a window writes what it still holds.
CloseFlush(s) ==
  /\ thread[s] = "closing"
  /\ MayWrite(s, channel)
  /\ Goto(s, "shutting")
  /\ UNCHANGED <<engineVars, cancelVars, slotRunning, pipeRunning, supply, shut,
                 bare>>

\* close() that leaves the channel open.
CloseChannelNot(s) ==
  /\ thread[s] = "shutting"
  /\ Goto(s, "exiting")
  /\ UNCHANGED <<engineVars, cancelVars, slotRunning, pipeRunning, supply,
                 channelVars>>

\* close() that closes the channel first and flushes afterwards.
CloseChannelFirst(s) ==
  /\ thread[s] \in {"closing", "shutting"}
  /\ shut' = IF Feeds[s] = 0 THEN shut ELSE [shut EXCEPT ![Feeds[s]] = TRUE]
  /\ IF thread[s] = "shutting" THEN Goto(s, "exiting") ELSE UNCHANGED thread
  /\ UNCHANGED <<engineVars, cancelVars, slotRunning, pipeRunning, supply,
                 channel, written, bare>>

\* ... and closes its channel.
CloseChannel(s) ==
  /\ thread[s] = "shutting"
  /\ shut' = IF Feeds[s] = 0 THEN shut ELSE [shut EXCEPT ![Feeds[s]] = TRUE]
  /\ Goto(s, "exiting")
  /\ UNCHANGED <<engineVars, cancelVars, slotRunning, pipeRunning, supply,
                 channel, written, bare>>

\* Slot::run() clears the slot's flag and the thread ends.
ThreadEnd(s) ==
  /\ thread[s] = "exiting"
  /\ slotRunning' = [slotRunning EXCEPT ![s] = FALSE]
  /\ Goto(s, "finished")
  /\ UNCHANGED <<engineVars, cancelVars, pipeRunning, supply, channelVars>>

SlotThread(s) ==
  \/ RunBegin(s) \/ RunTest(s)
  \/ ExecuteSource(s) \/ ExecuteChannelSource(s) \/ ExecuteBare(s)
  \/ ExecuteEnd(s)
  \/ CloseFlush(s) \/ CloseChannel(s) \/ ThreadEnd(s)

AllFinished == \A s \in Slots : thread[s] = "finished"

\* Nothing left to do.
Stopped ==
  /\ execPc = "returned" /\ cancelPc \in {"idle", "returned"} /\ AllFinished
  /\ UNCHANGED vars

Next ==
  \/ Execute \/ CancelCall \/ CancelStep
  \/ \E s \in Slots : SlotThread(s)
  \/ Stopped

Spec == Init /\ [][Next]_vars

\* Every thread is scheduled again and again; nobody has to call cancel().
FairSpec ==
  /\ Spec
  /\ WF_vars(Execute) /\ WF_vars(CancelStep)
  /\ \A s \in Slots : WF_vars(SlotThread(s))

-----------------------------------------------------------------------------
\* Type correctness; a channel never holds more than was written to it.
TypeOK ==
  /\ engineRunning \in BOOLEAN
  /\ execPc \in {"idle", "starting", "test", "poll", "returned"}
  /\ execIx \in Slots
  /\ cancelPc \in {"idle", "stopping", "joining", "returned"}
  /\ cancelIx \in Slots
  /\ slotRunning \in [Slots -> BOOLEAN]
  /\ thread \in [Slots -> {"none", "created", "test", "execute", "closing",
                           "shutting", "exiting", "finished"}]
  /\ pipeRunning \in [Slots -> BOOLEAN]
  /\ supply \in [Slots -> Supplies]
  /\ channel \in [Slots -> Nat] /\ written \in [Slots -> 0..MaxWrites]
  /\ shut \in [Slots -> BOOLEAN]
  /\ bare \in SUBSET {s \in ChannelReaders : Feeds[s] = 0}
  /\ \A s \in Slots : channel[s] <= written[s]

\* Where a thread is once Pipeline::run() has left its loop.
Closing == {"closing", "shutting", "exiting", "finished"}

\* execute() that returns without a cancel() has run everything to the end:
\* all pipelines are closed, and no event was left in a channel that has an
\* operator to go to.
ExecuteCompletes ==
  execPc = "returned" /\ cancelPc = "idle" =>
    /\ \A s \in Slots : thread[s] = "finished"
    /\ \A s \in ChannelReaders : shut[s] /\ (s \notin bare => channel[s] = 0)

\* is_running() is the truth about a slot that was started: it turns false
\* only when the pipeline has been closed, to the last operator, so that
\* nothing more comes out of it.
IsRunningTruthful ==
  \A s \in Slots :
    thread[s] # "none" /\ ~ slotRunning[s] => thread[s] = "finished"

\* A pipeline that was not stopped closes only after it has consumed all
\* its input, and no input follows: its writer has closed the channel and is
\* past its own close().  (Only a pipeline without operators does not.)
ConsumedBeforeClose ==
  cancelPc = "idle" =>
    \A w \in Slots :
      Feeds[w] # 0 /\ Feeds[w] \notin bare /\ thread[Feeds[w]] \in Closing =>
        /\ channel[Feeds[w]] = 0
        /\ thread[w] \in {"exiting", "finished"}

\* cancel() that has returned leaves no thread behind, and all slots idle.
CancelStops ==
  cancelPc = "returned" =>
    \A s \in Slots : thread[s] = "finished" /\ ~ slotRunning[s]

\* A thread that waits in read(): its channel is empty and open.
Blocked(s) ==
  thread[s] = "execute" /\ s \in ChannelReaders /\ channel[s] = 0 /\ ~ shut[s]

\* No circle of waits: behind every reader that waits there is, in an earlier
\* slot, a thread that was started, has not finished and does not wait
\* itself.  A cancel() may be anywhere in stop_all() meanwhile.
ReadersWaitForSomeone ==
  \A s \in Slots : Blocked(s) =>
    \E w \in Slots : /\ w < s /\ thread[w] \notin {"none", "finished"}
                     /\ ~ Blocked(w)

\* The thread that cancel() joins is not one that only a later stop() could
\* free: it does not wait for its channel, and if its source never ends it
\* will find its pipeline's flag cleared.
JoinedThreadStops ==
  SettledCancel /\ cancelPc = "joining" =>
    /\ ~ Blocked(StopOrder(cancelIx))
    /\ supply[StopOrder(cancelIx)] = Forever => ~ pipeRunning[StopOrder(cancelIx)]

\* A write to a channel never follows its close.
NoWriteAfterClose ==
  [][\A s \in Slots : shut[s] => written'[s] = written[s]]_vars

\* execute() returns when every source ends, or when it is cancelled.
ExecuteReturns ==
  (execPc # "idle" /\ (cancelPc # "idle" \/ \A s \in Slots : supply[s] # Forever))
    ~> (execPc = "returned")

\* cancel() returns, with every pipeline stopped: no thread is joined that
\* waits for something only a later stop() would bring about.
CancelReturns == (cancelPc # "idle") ~> (cancelPc = "returned")
=============================================================================
