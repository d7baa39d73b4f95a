---------------------------- MODULE WorkThread_proof ----------------------------
(***************************************************************************)
(* The work thread is a FIFO channel, for every set of items and every     *)
(* bound: type correctness, no lost wakeup for those who add, and the      *)
(* implementation of WorkQueue.                                            *)
(***************************************************************************)
EXTENDS WorkThread, SequenceTheorems, TLAPS

\* The inductive invariant: SleepsOnlyWhenIdle is inductive with the types alone.
Inv == TypeOK /\ SleepsOnlyWhenIdle /\ DoneMeansDrained

USE DEF WorkerStates, StopperStates

-----------------------------------------------------------------------------
(* Appending to and taking from the queue keeps it a sequence of items.    *)
LEMMA SeqSteps ==
    ASSUME NEW S, NEW s \in Seq(S)
    PROVE  /\ \A x \in S : Append(s, x) \in Seq(S)
           /\ s # <<>> => Tail(s) \in Seq(S) /\ Head(s) \in S
  BY AppendProperties, HeadTailProperties

(* Each step of the work thread, its feeder and its destructor preserves   *)
(* the invariant.                                                          *)
LEMMA InvStep == Inv /\ [Next]_wvars => Inv'
<1> SUFFICES ASSUME Inv, [Next]_wvars PROVE Inv'
  OBVIOUS
<1> USE DEF Inv, TypeOK, SleepsOnlyWhenIdle, DoneMeansDrained
<1>1. ASSUME NEW x \in Item, Add(x) PROVE Inv'
  <2>1. queue' \in Seq(Item)
    BY <1>1, SeqSteps DEF Add
  <2>2. QED
    BY <1>1, <2>1 DEF Add, MutexFree, Notified
<1>2. CASE HandleBatch
  BY <1>2, SeqSteps DEF HandleBatch
<1>3. CASE HandleDrain
  BY <1>3, SeqSteps DEF HandleDrain
<1>4. CASE Swap
  BY <1>4 DEF Swap
<1>5. CASE Housekeeping
  BY <1>5, <1>4 DEF Housekeeping, EnterLoop, DecideToWait, FallAsleep, Reacquire,
                    FinishBatch, LeaveLoop, Exit
<1>6. CASE SpuriousWakeup
  BY <1>6 DEF SpuriousWakeup
<1>7. CASE Stop
  <2>1. CASE ClearRunFlag
    BY <2>1 DEF ClearRunFlag
  <2>2. CASE NotifyStop
    BY <2>2 DEF NotifyStop, Notified
  <2>3. CASE Join
    BY <2>3 DEF Join
  <2>4. QED
    BY <1>7, <2>1, <2>2, <2>3 DEF Stop
<1>8. CASE UNCHANGED wvars
  BY <1>8 DEF wvars
<1>9. QED
  BY <1>1, <1>2, <1>3, <1>5, <1>6, <1>7, <1>8 DEF Next, Handle, Terminated

(* TypeOK, SleepsOnlyWhenIdle and DoneMeansDrained hold of every behaviour *)
(* of the work thread.                                                     *)
THEOREM Invariance == Spec => []Inv
<1>1. Init => Inv
  BY EmptySeq DEF Init, Inv, TypeOK, SleepsOnlyWhenIdle, DoneMeansDrained
<1>2. QED
  BY <1>1, InvStep, PTL DEF Spec

(* The same, property by property: types first.                            *)
THEOREM Typing == Spec => []TypeOK
<1>1. Inv => TypeOK
  BY DEF Inv
<1>2. QED
  BY <1>1, Invariance, PTL

(* A thread that decides to sleep, or sleeps, has an empty queue.          *)
THEOREM NoLostWakeup == Spec => []SleepsOnlyWhenIdle
<1>1. Inv => SleepsOnlyWhenIdle
  BY DEF Inv
<1>2. QED
  BY <1>1, Invariance, PTL

(* A thread that has ended has left nothing in either vector.              *)
THEOREM Drained == Spec => []DoneMeansDrained
<1>1. Inv => DoneMeansDrained
  BY DEF Inv
<1>2. QED
  BY <1>1, Invariance, PTL

-----------------------------------------------------------------------------
(* The channel the abstract specification sees: what is swapped out, then  *)
(* what is queued.  Every step either leaves it alone, appends to it, or   *)
(* takes its head.                                                         *)
LEMMA ChannelStep == Inv /\ [Next]_wvars => [Q!Next]_(Q!qvars)
<1> SUFFICES ASSUME Inv, [Next]_wvars PROVE [Q!Next]_(Q!qvars)
  OBVIOUS
<1> USE DEF Inv, TypeOK, Q!qvars, Q!Next
<1>0. batch \o <<>> = batch /\ <<>> \o queue = queue /\ <<>> \o batch = batch
  BY ConcatEmptySeq
<1>1. ASSUME NEW x \in Item, Add(x) PROVE Q!Put(x)
  <2>1. batch \o Append(queue, x) = Append(batch \o queue, x)
    <3>1. /\ batch \o queue \in Seq(Item)
          /\ <<x>> \in Seq(Item)
      BY ConcatProperties
    <3>2. /\ Append(batch \o queue, x) = (batch \o queue) \o <<x>>
          /\ Append(queue, x) = queue \o <<x>>
      BY <3>1, AppendIsConcat
    <3>3. QED
      BY <3>1, <3>2, ConcatAssociative
  <2>2. QED
    BY <1>1, <2>1 DEF Add, Q!Put
<1>2. CASE HandleBatch
  <2>1. /\ batch \o queue # <<>>
        /\ Tail(batch) \o queue = Tail(batch \o queue)
    <3>1. /\ batch \o queue \in Seq(Item)
          /\ Len(batch \o queue) = Len(batch) + Len(queue)
          /\ \A i \in 1 .. Len(batch) + Len(queue) :
               (batch \o queue)[i] = IF i <= Len(batch) THEN batch[i] ELSE queue[i - Len(batch)]
      BY ConcatProperties
    <3>2. Len(batch) \in Nat \ {0} /\ Len(queue) \in Nat
      BY <1>2, EmptySeq, LenProperties DEF HandleBatch
    <3>3. batch \o queue # <<>>
      BY <3>1, <3>2, EmptySeq
    <3>4. /\ Tail(batch) \in Seq(Item)
          /\ Len(Tail(batch)) = Len(batch) - 1
          /\ \A i \in 1 .. Len(Tail(batch)) : Tail(batch)[i] = batch[i + 1]
      BY <1>2, HeadTailProperties DEF HandleBatch
    <3>5. /\ Tail(batch \o queue) \in Seq(Item)
          /\ Len(Tail(batch \o queue)) = Len(batch) + Len(queue) - 1
          /\ \A i \in 1 .. Len(Tail(batch \o queue)) :
               Tail(batch \o queue)[i] = (batch \o queue)[i + 1]
      BY <3>1, <3>3, HeadTailProperties
    <3>6. /\ Tail(batch) \o queue \in Seq(Item)
          /\ Len(Tail(batch) \o queue) = Len(Tail(batch)) + Len(queue)
          /\ \A i \in 1 .. Len(Tail(batch)) + Len(queue) :
               (Tail(batch) \o queue)[i] =
                 IF i <= Len(Tail(batch)) THEN Tail(batch)[i] ELSE queue[i - Len(Tail(batch))]
      BY <3>4, ConcatProperties
    <3>7. Len(Tail(batch) \o queue) = Len(Tail(batch \o queue))
      BY <3>2, <3>4, <3>5, <3>6
    <3>8. ASSUME NEW i \in 1 .. Len(Tail(batch) \o queue)
          PROVE  (Tail(batch) \o queue)[i] = Tail(batch \o queue)[i]
      BY <3>1, <3>2, <3>4, <3>5, <3>6, <3>8
    <3>9. QED
      BY <3>3, <3>5, <3>6, <3>7, <3>8, SeqEqual
  <2>2. QED
    BY <1>2, <2>1 DEF HandleBatch, Q!Handle
<1>3. CASE HandleDrain
  BY <1>0, <1>3 DEF HandleDrain, Q!Handle
<1>4. CASE Swap
  BY <1>0, <1>4 DEF Swap
<1>5. CASE Housekeeping
  BY <1>5, <1>4 DEF Housekeeping, EnterLoop, DecideToWait, FallAsleep, Reacquire,
                    FinishBatch, LeaveLoop, Exit
<1>6. CASE SpuriousWakeup
  BY <1>6 DEF SpuriousWakeup
<1>7. CASE ClearRunFlag
  BY <1>7 DEF ClearRunFlag, Q!Close
<1>8. CASE NotifyStop
  BY <1>8 DEF NotifyStop
<1>9. CASE Join
  BY <1>0, <1>9 DEF Join, DoneMeansDrained, Q!Finish
<1>10. CASE UNCHANGED wvars
  BY <1>10 DEF wvars
<1>11. QED
  BY <1>1, <1>2, <1>3, <1>5, <1>6, <1>7, <1>8, <1>9, <1>10
     DEF Next, Handle, Stop, Terminated

(* The work thread implements the FIFO channel.                            *)
THEOREM Refinement == Spec => ImplementsWorkQueue
<1>1. Init => Q!Init
  BY ConcatEmptySeq, EmptySeq DEF Init, Q!Init
<1>2. QED
  BY <1>1, ChannelStep, Invariance, PTL DEF Spec, ImplementsWorkQueue, Q!Spec
================================================================================
