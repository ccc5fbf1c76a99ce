---------------------------- MODULE InputChannel ----------------------------
(***************************************************************************)
(* InputChannel (src/runtime/input_channel.h), the queue between two       *)
(* pipelines that run on different threads: a mutex, a condition variable, *)
(* a queue and a closed flag.  One thread writes and in the end closes:    *)
(* the one whose pipeline ends in the window operator that owns the        *)
(* channel (ExecutionGraph::build gives every channel one writer and one   *)
(* reader).  Any set of threads reads; a reader calls read() again and     *)
(* again until it returns nullopt, as ChannelSourcePhysicalOperator does.  *)
(*                                                                         *)
(* A critical section is entered in one step and left in another; notify   *)
(* calls come after the unlock, in a step of their own, as in the code.    *)
(* Condition variables may wake up a thread nobody notified.               *)
(***************************************************************************)
EXTENDS Integers, Sequences, FiniteSets

CONSTANTS
  Readers,      \* the reading threads
  Writer,       \* the writing thread
  Free,         \* the value of mutex when nobody holds it
  MaxWrites,    \* bound of the model: how many events are written
  MaxSpurious   \* bound of the model: how many spurious wake-ups happen

ASSUME ChannelAssumption ==
  /\ IsFiniteSet(Readers)
  /\ Writer \notin Readers /\ Free \notin Readers \cup {Writer}
  /\ MaxWrites \in Nat /\ MaxSpurious \in Nat

VARIABLES
  mutex,     \* mutex_: who holds it
  queue,     \* queue_; events are numbered in the order they are written
  closed,    \* closed_
  wpc,       \* the writer: outside ("idle"), inside write() or close()
             \* ("writing", "closing"), about to notify, or finished
  rpc,       \* each reader: outside read(), in it with the lock ("locked"),
             \* in cv_.wait ("waiting"), woken and waiting for the lock
             \* ("woken"), or told the end ("ended")
  taken,     \* history: the events read() returned, in order
  spurious   \* how many spurious wake-ups have happened

vars == <<mutex, queue, closed, wpc, rpc, taken, spurious>>

Written == Len(taken) + Len(queue)

Init ==
  /\ mutex = Free
  /\ queue = << >>
  /\ closed = FALSE
  /\ wpc = "idle"
  /\ rpc = [r \in Readers |-> "outside"]
  /\ taken = << >>
  /\ spurious = 0

-----------------------------------------------------------------------------
\* write(): the lock is taken.
WriteLock ==
  /\ wpc = "idle" /\ mutex = Free
  /\ Written < MaxWrites
  /\ mutex' = Writer
  /\ wpc' = "writing"
  /\ UNCHANGED <<queue, closed, rpc, taken, spurious>>

\* write(): push and unlock, the notification forgotten.
WriteNoNotify ==
  /\ wpc = "writing"
  /\ queue' = Append(queue, Written + 1)
  /\ mutex' = Free
  /\ wpc' = "idle"
  /\ UNCHANGED <<closed, rpc, taken, spurious>>

\* write(): push and unlock.
WritePush ==
  /\ wpc = "writing"
  /\ queue' = Append(queue, Written + 1)
  /\ mutex' = Free
  /\ wpc' = "notifyOne"
  /\ UNCHANGED <<closed, rpc, taken, spurious>>

Waiting == {r \in Readers : rpc[r] = "waiting"}

\* notify_one() wakes a waiting reader, if there is one.
NotifyOne ==
  /\ wpc = "notifyOne"
  /\ IF Waiting = {}
     THEN UNCHANGED rpc
     ELSE \E r \in Waiting : rpc' = [rpc EXCEPT ![r] = "woken"]
  /\ wpc' = "idle"
  /\ UNCHANGED <<mutex, queue, closed, taken, spurious>>

\* close(): the lock is taken.
CloseLock ==
  /\ wpc = "idle" /\ mutex = Free
  /\ mutex' = Writer
  /\ wpc' = "closing"
  /\ UNCHANGED <<queue, closed, rpc, taken, spurious>>

\* close(): the flag is set and the lock released.
CloseSet ==
  /\ wpc = "closing"
  /\ closed' = TRUE
  /\ mutex' = Free
  /\ wpc' = "notifyAll"
  /\ UNCHANGED <<queue, rpc, taken, spurious>>

\* close() that notifies one reader only.
NotifyOnlyOne ==
  /\ wpc = "notifyAll"
  /\ IF Waiting = {}
     THEN UNCHANGED rpc
     ELSE \E r \in Waiting : rpc' = [rpc EXCEPT ![r] = "woken"]
  /\ wpc' = "finished"
  /\ UNCHANGED <<mutex, queue, closed, taken, spurious>>

\* close(): notify_all().
NotifyAll ==
  /\ wpc = "notifyAll"
  /\ rpc' = [r \in Readers |-> IF r \in Waiting THEN "woken" ELSE rpc[r]]
  /\ wpc' = "finished"
  /\ UNCHANGED <<mutex, queue, closed, taken, spurious>>

\* read() is entered, or wait() takes the lock back after a wake-up.
ReadLock(r) ==
  /\ rpc[r] \in {"outside", "woken"} /\ mutex = Free
  /\ mutex' = r
  /\ rpc' = [rpc EXCEPT ![r] = "locked"]
  /\ UNCHANGED <<queue, closed, wpc, taken, spurious>>

\* wait() that keeps the lock.
ReadWaitHolding(r) ==
  /\ rpc[r] = "locked"
  /\ queue = << >> /\ ~ closed
  /\ rpc' = [rpc EXCEPT ![r] = "waiting"]
  /\ UNCHANGED <<mutex, queue, closed, wpc, taken, spurious>>

\* The predicate of the wait is false: unlock and wait, in one step.
ReadWait(r) ==
  /\ rpc[r] = "locked"
  /\ queue = << >> /\ ~ closed
  /\ mutex' = Free
  /\ rpc' = [rpc EXCEPT ![r] = "waiting"]
  /\ UNCHANGED <<queue, closed, wpc, taken, spurious>>

\* A thread in wait() wakes up unnotified.
SpuriousWakeup(r) ==
  /\ rpc[r] = "waiting"
  /\ spurious < MaxSpurious
  /\ spurious' = spurious + 1
  /\ rpc' = [rpc EXCEPT ![r] = "woken"]
  /\ UNCHANGED <<mutex, queue, closed, wpc, taken>>

\* read() returns the oldest event.
ReadEvent(r) ==
  /\ rpc[r] = "locked"
  /\ queue # << >>
  /\ taken' = Append(taken, Head(queue))
  /\ queue' = Tail(queue)
  /\ mutex' = Free
  /\ rpc' = [rpc EXCEPT ![r] = "outside"]
  /\ UNCHANGED <<closed, wpc, spurious>>

\* read() that looks at the flag before the queue.
ReadEndEarly(r) ==
  /\ rpc[r] = "locked"
  /\ closed
  /\ mutex' = Free
  /\ rpc' = [rpc EXCEPT ![r] = "ended"]
  /\ UNCHANGED <<queue, closed, wpc, taken, spurious>>

\* read() returns nullopt: closed, and nothing left.
ReadEnd(r) ==
  /\ rpc[r] = "locked"
  /\ queue = << >> /\ closed
  /\ mutex' = Free
  /\ rpc' = [rpc EXCEPT ![r] = "ended"]
  /\ UNCHANGED <<queue, closed, wpc, taken, spurious>>

\* Everybody is done.
AllDone ==
  /\ wpc = "finished" /\ \A r \in Readers : rpc[r] = "ended"
  /\ UNCHANGED vars

WriterStep ==
  WriteLock \/ WritePush \/ NotifyOne \/ CloseLock \/ CloseSet \/ NotifyAll

ReaderStep(r) == ReadLock(r) \/ ReadWait(r) \/ ReadEvent(r) \/ ReadEnd(r)

Next ==
  \/ WriterStep
  \/ \E r \in Readers : ReaderStep(r) \/ SpuriousWakeup(r)
  \/ AllDone

Spec == Init /\ [][Next]_vars

\* Every thread that can run does so eventually.  The writer always closes
\* in the end, because Pipeline::run() closes its operators on every path.
FairSpec ==
  Spec /\ WF_vars(WriterStep) /\ \A r \in Readers : WF_vars(ReaderStep(r))

-----------------------------------------------------------------------------
\* Type correctness, and the mutex held by exactly the thread that is inside
\* a critical section.
TypeOK ==
  /\ mutex \in Readers \cup {Writer, Free}
  /\ queue \in Seq(1..MaxWrites) /\ taken \in Seq(1..MaxWrites)
  /\ closed \in BOOLEAN
  /\ wpc \in {"idle", "writing", "notifyOne", "closing", "notifyAll", "finished"}
  /\ rpc \in [Readers -> {"outside", "locked", "waiting", "woken", "ended"}]
  /\ spurious \in 0..MaxSpurious
  /\ mutex = Writer <=> wpc \in {"writing", "closing"}
  /\ \A r \in Readers : mutex = r <=> rpc[r] = "locked"

\* No wake-up is lost.  A reader sleeps after the close only while the
\* notify_all is still to come; and while a reader sleeps, there are at
\* least as many readers awake, or about to be woken, as events to read.
Awake == {r \in Readers : rpc[r] \in {"outside", "locked", "woken"}}

NoLostWakeup ==
  Waiting # {} =>
    /\ closed => wpc = "notifyAll"
    /\ Len(queue) <= Cardinality(Awake) + (IF wpc = "notifyOne" THEN 1 ELSE 0)

\* Mutex, condition variable and predicate together implement the closable
\* queue: first in first out, each event read once, and the end is told only
\* after the close and the last event.
Ended == {r \in Readers : rpc[r] = "ended"}
Abstract == INSTANCE ClosableQueue
  WITH contents <- queue, shut <- closed, delivered <- taken, told <- Ended
ImplementsClosableQueue == Abstract!Spec

\* Whatever was written is read, and after the close every reader is told:
\* nobody sleeps forever.
AllDelivered == <>[](wpc = "finished" /\ queue = << >> /\ Ended = Readers)
=============================================================================
