------------------------- MODULE InputChannel_proofs -------------------------
(***************************************************************************)
(* InputChannel is a closable queue and loses no wake-up, for any number   *)
(* of readers, writes and spurious wake-ups.                               *)
(***************************************************************************)
EXTENDS InputChannel, FiniteSetTheorems, SequenceTheorems, TLAPS

\* The writer and the channel agree: what is written stays in the bound, and
\* the flag is set in close(), before its notify_all() and for good.
WriterInv ==
  /\ Written <= MaxWrites
  /\ wpc = "writing" => Written < MaxWrites
  /\ closed <=> wpc \in {"notifyAll", "finished"}

\* The inductive invariant.
IInv == TypeOK /\ WriterInv /\ NoLostWakeup

-----------------------------------------------------------------------------
LEMMA Lengths ==
  ASSUME TypeOK
  PROVE  Len(queue) \in Nat /\ Len(taken) \in Nat /\ Written \in Nat
  BY DEF TypeOK, Written

LEMMA AwakeFinite == IsFiniteSet(Awake) /\ Cardinality(Awake) \in Nat
  BY ChannelAssumption, FS_Subset, FS_CardinalityType DEF Awake

\* A reader that wakes up is one more who is awake.
LEMMA WakeOne ==
  ASSUME TypeOK, NEW r \in Waiting, rpc' = [rpc EXCEPT ![r] = "woken"]
  PROVE  /\ Awake' = Awake \cup {r} /\ Waiting' = Waiting \ {r}
         /\ Cardinality(Awake') = Cardinality(Awake) + 1
<1>1. /\ r \in Readers /\ rpc[r] = "waiting" /\ rpc'[r] = "woken"
      /\ \A q \in Readers : q # r => rpc'[q] = rpc[q]
  BY DEF TypeOK, Waiting
<1>2. Awake' = Awake \cup {r} /\ Waiting' = Waiting \ {r} /\ r \notin Awake
  BY <1>1 DEF Awake, Waiting
<1> QED BY <1>2, AwakeFinite, FS_AddElement

\* A step of a reader that neither goes to sleep nor wakes up.
LEMMA ReaderStays ==
  ASSUME TypeOK, NEW r \in Readers, NEW pc \in {"outside", "locked", "woken"},
         rpc[r] \in {"outside", "locked", "woken"}, rpc' = [rpc EXCEPT ![r] = pc]
  PROVE  Awake' = Awake /\ Waiting' = Waiting
<1>1. rpc'[r] = pc /\ \A q \in Readers : q # r => rpc'[q] = rpc[q]
  BY DEF TypeOK
<1> QED BY <1>1 DEF Awake, Waiting

LEMMA InitIInv == Init => IInv
<1> SUFFICES ASSUME Init PROVE IInv
  OBVIOUS
<1>1. Len(queue) = 0 /\ Len(taken) = 0 /\ Written = 0
  BY DEF Init, Written
<1>2. TypeOK
  <2>1. queue \in Seq(1..MaxWrites) /\ taken \in Seq(1..MaxWrites)
    BY EmptySeq DEF Init
  <2>2. spurious \in 0..MaxSpurious
    BY ChannelAssumption DEF Init
  <2>3. /\ mutex = Writer <=> wpc \in {"writing", "closing"}
        /\ \A r \in Readers : mutex = r <=> rpc[r] = "locked"
    BY ChannelAssumption DEF Init
  <2> QED BY <2>1, <2>2, <2>3 DEF Init, TypeOK
<1>3. Waiting = {}
  BY DEF Init, Waiting
<1> QED
  BY <1>1, <1>2, <1>3, ChannelAssumption DEF Init, IInv, WriterInv, NoLostWakeup

-----------------------------------------------------------------------------
(* The steps of the writer. *)

LEMMA WriteLockKeeps == ASSUME IInv, WriteLock PROVE IInv'
<1>1. TypeOK'
  BY ChannelAssumption DEF IInv, TypeOK, WriteLock
<1>2. WriterInv'
  BY Lengths DEF IInv, WriterInv, WriteLock, Written
<1>3. NoLostWakeup'
  BY DEF IInv, WriterInv, WriteLock, NoLostWakeup, Waiting, Awake
<1> QED BY <1>1, <1>2, <1>3 DEF IInv

LEMMA WritePushKeeps == ASSUME IInv, WritePush PROVE IInv'
<1>1. /\ queue' \in Seq(1..MaxWrites) /\ Len(queue') = Len(queue) + 1
      /\ Written' = Written + 1 /\ Written + 1 <= MaxWrites
  <2>1. Written + 1 \in 1..MaxWrites
    BY Lengths, ChannelAssumption DEF IInv, WriterInv, WritePush
  <2>2. queue' \in Seq(1..MaxWrites) /\ Len(queue') = Len(queue) + 1
    BY <2>1, AppendProperties DEF IInv, TypeOK, WritePush
  <2>3. Len(taken') = Len(taken)
    BY DEF WritePush
  <2> QED BY <2>1, <2>2, <2>3, Lengths DEF IInv, Written
<1>2. TypeOK'
  BY <1>1, ChannelAssumption DEF IInv, TypeOK, WritePush
<1>3. WriterInv'
  BY <1>1 DEF IInv, WriterInv, WritePush
<1>4. NoLostWakeup'
  <2>1. Waiting' = Waiting /\ Awake' = Awake /\ wpc' = "notifyOne" /\ wpc = "writing"
        /\ closed' = closed /\ ~ closed
    BY DEF IInv, WriterInv, WritePush, Waiting, Awake
  <2>2. Waiting # {} => Len(queue) <= Cardinality(Awake)
    BY <2>1, AwakeFinite DEF IInv, NoLostWakeup
  <2> QED BY <1>1, <2>1, <2>2, Lengths, AwakeFinite DEF IInv, NoLostWakeup
<1> QED BY <1>2, <1>3, <1>4 DEF IInv

LEMMA NotifyOneKeeps == ASSUME IInv, NotifyOne PROVE IInv'
<1>1. /\ UNCHANGED <<mutex, queue, closed, taken, spurious>>
      /\ wpc = "notifyOne" /\ wpc' = "idle" /\ ~ closed
  BY DEF IInv, WriterInv, NotifyOne
<1>2. WriterInv'
  BY <1>1 DEF IInv, WriterInv, Written
<1>3. CASE Waiting = {}
  <2>1. rpc' = rpc
    BY <1>3 DEF NotifyOne
  <2>2. TypeOK'
    BY <1>1, <2>1 DEF IInv, TypeOK
  <2>3. NoLostWakeup'
    BY <1>3, <2>1 DEF NoLostWakeup, Waiting
  <2> QED BY <1>2, <2>2, <2>3 DEF IInv
<1>4. CASE Waiting # {}
  <2>1. PICK r \in Waiting : rpc' = [rpc EXCEPT ![r] = "woken"]
    BY <1>4 DEF NotifyOne
  <2>2. TypeOK'
    BY <1>1, <2>1 DEF IInv, TypeOK, Waiting
  <2>3. Cardinality(Awake') = Cardinality(Awake) + 1
    BY <2>1, WakeOne DEF IInv
  <2>4. Len(queue) <= Cardinality(Awake) + 1
    BY <1>1, <1>4 DEF IInv, NoLostWakeup
  <2>5. NoLostWakeup'
    BY <1>1, <2>3, <2>4, Lengths, AwakeFinite DEF IInv, NoLostWakeup
  <2> QED BY <1>2, <2>2, <2>5 DEF IInv
<1> QED BY <1>3, <1>4

LEMMA CloseLockKeeps == ASSUME IInv, CloseLock PROVE IInv'
<1>1. TypeOK'
  BY ChannelAssumption DEF IInv, TypeOK, CloseLock
<1>2. WriterInv'
  BY DEF IInv, WriterInv, CloseLock, Written
<1>3. NoLostWakeup'
  BY DEF IInv, WriterInv, CloseLock, NoLostWakeup, Waiting, Awake
<1> QED BY <1>1, <1>2, <1>3 DEF IInv

LEMMA CloseSetKeeps == ASSUME IInv, CloseSet PROVE IInv'
<1>1. TypeOK'
  BY ChannelAssumption DEF IInv, TypeOK, CloseSet
<1>2. WriterInv'
  BY DEF IInv, WriterInv, CloseSet, Written
<1>3. NoLostWakeup'
  BY DEF IInv, WriterInv, CloseSet, NoLostWakeup, Waiting, Awake
<1> QED BY <1>1, <1>2, <1>3 DEF IInv

\* Nobody sleeps after the notify_all().
LEMMA NotifyAllKeeps == ASSUME IInv, NotifyAll PROVE IInv'
<1>1. /\ UNCHANGED <<mutex, queue, closed, taken, spurious>>
      /\ wpc = "notifyAll" /\ wpc' = "finished"
      /\ rpc' = [r \in Readers |-> IF r \in Waiting THEN "woken" ELSE rpc[r]]
  BY DEF NotifyAll
<1>2. WriterInv'
  BY <1>1 DEF IInv, WriterInv, Written
<1>3. TypeOK'
  BY <1>1 DEF IInv, TypeOK, Waiting
<1>4. Waiting' = {}
  BY <1>1 DEF Waiting
<1> QED BY <1>2, <1>3, <1>4 DEF IInv, NoLostWakeup

-----------------------------------------------------------------------------
(* The steps of a reader. *)

LEMMA ReadLockKeeps ==
  ASSUME IInv, NEW r \in Readers, ReadLock(r)
  PROVE  IInv'
<1>1. TypeOK'
  BY ChannelAssumption DEF IInv, TypeOK, ReadLock
<1>2. WriterInv'
  BY DEF IInv, WriterInv, ReadLock, Written
<1>3. Awake' = Awake /\ Waiting' = Waiting
  BY ReaderStays DEF IInv, ReadLock
<1>4. NoLostWakeup'
  BY <1>3 DEF IInv, ReadLock, NoLostWakeup
<1> QED BY <1>1, <1>2, <1>4 DEF IInv

\* A reader goes to sleep only on an open and empty channel.
LEMMA ReadWaitKeeps ==
  ASSUME IInv, NEW r \in Readers, ReadWait(r)
  PROVE  IInv'
<1>1. TypeOK'
  BY ChannelAssumption DEF IInv, TypeOK, ReadWait
<1>2. WriterInv'
  BY DEF IInv, WriterInv, ReadWait, Written
<1>3. IsFiniteSet(Awake') /\ Cardinality(Awake') \in Nat
  <2>1. Awake' \subseteq Readers
    BY DEF Awake
  <2> QED BY <2>1, ChannelAssumption, FS_Subset, FS_CardinalityType
<1>4. NoLostWakeup'
  <2>1. Len(queue') = 0 /\ ~ closed'
    BY DEF ReadWait
  <2> QED BY <1>3, <2>1 DEF NoLostWakeup
<1> QED BY <1>1, <1>2, <1>4 DEF IInv

LEMMA SpuriousWakeupKeeps ==
  ASSUME IInv, NEW r \in Readers, SpuriousWakeup(r)
  PROVE  IInv'
<1>1. r \in Waiting /\ UNCHANGED <<mutex, queue, closed, wpc, taken>>
  BY DEF Waiting, SpuriousWakeup
<1>2. TypeOK'
  BY ChannelAssumption DEF IInv, TypeOK, SpuriousWakeup
<1>3. WriterInv'
  BY <1>1 DEF IInv, WriterInv, Written
<1>4. Cardinality(Awake') = Cardinality(Awake) + 1 /\ Waiting # {}
  BY <1>1, WakeOne DEF IInv, SpuriousWakeup
<1>5. NoLostWakeup'
  BY <1>1, <1>4, Lengths, AwakeFinite DEF IInv, NoLostWakeup
<1> QED BY <1>2, <1>3, <1>5 DEF IInv

LEMMA ReadEventKeeps ==
  ASSUME IInv, NEW r \in Readers, ReadEvent(r)
  PROVE  IInv'
<1>1. /\ queue \in Seq(1..MaxWrites) /\ taken \in Seq(1..MaxWrites) /\ queue # << >>
      /\ queue' = Tail(queue) /\ taken' = Append(taken, Head(queue))
      /\ rpc[r] = "locked" /\ rpc' = [rpc EXCEPT ![r] = "outside"]
      /\ UNCHANGED <<closed, wpc, spurious>>
  BY DEF IInv, TypeOK, ReadEvent
<1>2. /\ queue' \in Seq(1..MaxWrites) /\ taken' \in Seq(1..MaxWrites)
      /\ Len(queue') = Len(queue) - 1 /\ Len(taken') = Len(taken) + 1
      /\ Written' = Written
  <2>1. /\ Head(queue) \in 1..MaxWrites /\ Tail(queue) \in Seq(1..MaxWrites)
        /\ Len(Tail(queue)) = Len(queue) - 1
    BY <1>1, HeadTailProperties
  <2>2. /\ Append(taken, Head(queue)) \in Seq(1..MaxWrites)
        /\ Len(Append(taken, Head(queue))) = Len(taken) + 1
    BY <1>1, <2>1, AppendProperties
  <2> QED BY <1>1, <2>1, <2>2, Lengths DEF IInv, Written
<1>3. TypeOK'
  BY <1>1, <1>2, ChannelAssumption DEF IInv, TypeOK, ReadEvent
<1>4. WriterInv'
  BY <1>1, <1>2 DEF IInv, WriterInv
<1>5. Awake' = Awake /\ Waiting' = Waiting
  BY <1>1, ReaderStays DEF IInv
<1>6. NoLostWakeup'
  BY <1>1, <1>2, <1>5, Lengths, AwakeFinite DEF IInv, NoLostWakeup
<1> QED BY <1>3, <1>4, <1>6 DEF IInv

LEMMA ReadEndKeeps ==
  ASSUME IInv, NEW r \in Readers, ReadEnd(r)
  PROVE  IInv'
<1>1. TypeOK'
  BY ChannelAssumption DEF IInv, TypeOK, ReadEnd
<1>2. WriterInv'
  BY DEF IInv, WriterInv, ReadEnd, Written
<1>3. IsFiniteSet(Awake') /\ Cardinality(Awake') \in Nat
  <2>1. Awake' \subseteq Readers
    BY DEF Awake
  <2> QED BY <2>1, ChannelAssumption, FS_Subset, FS_CardinalityType
<1>4. Waiting' = Waiting /\ Len(queue') = 0 /\ closed' = closed /\ wpc' = wpc
  BY DEF IInv, TypeOK, ReadEnd, Waiting
<1>5. NoLostWakeup'
  BY <1>3, <1>4 DEF IInv, NoLostWakeup
<1> QED BY <1>1, <1>2, <1>5 DEF IInv

LEMMA NextIInv == IInv /\ [Next]_vars => IInv'
<1>1. IInv /\ UNCHANGED vars => IInv'
  BY DEF vars, IInv, TypeOK, WriterInv, NoLostWakeup, Written, Waiting, Awake
<1> QED
  BY <1>1, WriteLockKeeps, WritePushKeeps, NotifyOneKeeps, CloseLockKeeps,
     CloseSetKeeps, NotifyAllKeeps, ReadLockKeeps, ReadWaitKeeps,
     SpuriousWakeupKeeps, ReadEventKeeps, ReadEndKeeps
     DEF Next, WriterStep, ReaderStep, AllDone

LEMMA Invariance == Spec => []IInv
  BY InitIInv, NextIInv, PTL DEF Spec

-----------------------------------------------------------------------------
\* Type correctness: in particular the mutex is held by exactly the thread
\* that is inside a critical section.
THEOREM TypeCorrect == Spec => []TypeOK
  BY Invariance, PTL DEF IInv

\* However the notifications after the unlock fall, no reader sleeps that
\* has something to do.
THEOREM NoneLost == Spec => []NoLostWakeup
  BY Invariance, PTL DEF IInv

\* Every step of the mutex, the condition variable and the queue is a step
\* of the closable queue, or changes nothing of it.
LEMMA StepRefines == ASSUME IInv, [Next]_vars PROVE [Abstract!Next]_(Abstract!vars)
<1> USE DEF Abstract!Next, Abstract!vars, Ended
<1>1. CASE WritePush
  <2>1. Abstract!Put
    BY <1>1 DEF WritePush, IInv, WriterInv, Written, Abstract!Put
  <2> QED BY <2>1
<1>2. CASE CloseSet
  <2>1. Abstract!Shut
    BY <1>2 DEF CloseSet, IInv, WriterInv, Abstract!Shut
  <2> QED BY <2>1
<1>3. ASSUME NEW r \in Readers, ReadEvent(r) PROVE Abstract!Take(r)
  <2>1. Ended' = Ended /\ r \notin Ended
    BY <1>3 DEF ReadEvent, IInv, TypeOK
  <2> QED BY <1>3, <2>1 DEF ReadEvent, Abstract!Take
<1>4. ASSUME NEW r \in Readers, ReadEnd(r) PROVE Abstract!TellEnd(r)
  <2>1. Ended' = Ended \cup {r}
    BY <1>4 DEF ReadEnd, IInv, TypeOK
  <2> QED BY <1>4, <2>1 DEF ReadEnd, Abstract!TellEnd
<1>5. CASE WriteLock \/ NotifyOne \/ CloseLock \/ NotifyAll
  <2>1. Ended' = Ended
    BY <1>5 DEF WriteLock, NotifyOne, CloseLock, NotifyAll, IInv, TypeOK, Waiting
  <2> QED BY <1>5, <2>1 DEF WriteLock, NotifyOne, CloseLock, NotifyAll
<1>6. ASSUME NEW r \in Readers, ReadLock(r) \/ ReadWait(r) \/ SpuriousWakeup(r)
      PROVE  UNCHANGED Abstract!vars
  <2>1. Ended' = Ended
    BY <1>6 DEF ReadLock, ReadWait, SpuriousWakeup, IInv, TypeOK
  <2> QED BY <1>6, <2>1 DEF ReadLock, ReadWait, SpuriousWakeup
<1>7. CASE UNCHANGED vars
  BY <1>7 DEF vars
<1> QED
  BY <1>1, <1>2, <1>3, <1>4, <1>5, <1>6, <1>7
     DEF Next, WriterStep, ReaderStep, AllDone

\* The channel implements the closable queue of module ClosableQueue.
THEOREM Refinement == Spec => ImplementsClosableQueue
<1>1. Init => Abstract!Init
  BY DEF Init, Ended, Abstract!Init
<1> QED BY Invariance, <1>1, StepRefines, PTL DEF Spec, ImplementsClosableQueue, Abstract!Spec
=============================================================================
