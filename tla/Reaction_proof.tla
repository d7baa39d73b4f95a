----------------------------- MODULE Reaction_proof -----------------------------
(***************************************************************************)
(* What a call returns is the reaction to the action it sent, for any      *)
(* number of calls with different ActionIDs, any answers and interleaving. *)
(*                                                                         *)
(* The messages of one answer are, in their order and with nothing of the  *)
(* same ActionID in between, either in the work thread's vectors or        *)
(* handled; of those handled, the call's list or its reaction is the       *)
(* beginning.  No variable says how many have been handled: the invariant  *)
(* says that there is such a number, and where in the vectors the rest is. *)
(***************************************************************************)
EXTENDS Invoke_proof

(* The messages not yet handled, in the order in which they will be.       *)
Queue == events \o events_

(* An answer is whole with its message n.                                  *)
WholeAt(s, n) == \/ n = 1 /\ ~OpensList(s[1])
                 \/ n > 1 /\ Closes(s[n])

(* Of the answer of c, h messages have been handled: an open pipe has      *)
(* collected them all, and a settled one holds the first ones, up to where *)
(* they were whole.                                                        *)
Got(c, h) ==
    /\ future[c] = "pending" =>
           /\ Len(event_map_[ActionId[c]]) = h
           /\ \A i \in 1 .. h : event_map_[ActionId[c]][i] = answer[c][i]
           /\ \A n \in 1 .. h : ~WholeAt(answer[c], n)
    /\ future[c] = "value" =>
           \E m \in 1 .. h : /\ Len(reaction[c]) = m
                             /\ \A i \in 1 .. m : reaction[c][i] = answer[c][i]
                             /\ WholeAt(answer[c], m)
                             /\ \A n \in 1 .. m - 1 : ~WholeAt(answer[c], n)

(* Message n of the others is at place at[n] of the queue.                 *)
Lined(c, h, at) ==
    /\ \A m, n \in h + 1 .. arrived[c] : m < n => at[m] < at[n]
    /\ \A n \in h + 1 .. arrived[c] : Queue[at[n]] = answer[c][n]
    /\ \A i \in 1 .. Len(Queue) :
           Queue[i].ActionID = ActionId[c] => \E n \in h + 1 .. arrived[c] : at[n] = i

OrderOf(c) == \E h \in 0 .. arrived[c] :
                  /\ Got(c, h)
                  /\ \E at \in [h + 1 .. arrived[c] -> 1 .. Len(Queue)] : Lined(c, h, at)

OrderInv == \A c \in Pipes : OrderOf(c)

-----------------------------------------------------------------------------
(* The queue under the steps of the threads.                               *)
LEMMA QueueType == W!TypeOK => Queue \in Seq(Event) /\ Len(Queue) \in Nat
  BY ConcatProperties, LenProperties DEF W!TypeOK, Queue

LEMMA QueueAdds ==
    ASSUME W!TypeOK, NEW e \in Event, W!Add(e)
    PROVE  /\ Len(Queue') = Len(Queue) + 1
           /\ \A i \in 1 .. Len(Queue) : Queue'[i] = Queue[i]
           /\ Queue'[Len(Queue) + 1] = e
<1>1. events \in Seq(Event) /\ events_ \in Seq(Event) /\ events' = events /\ events_' = Append(events_, e)
  BY DEF W!TypeOK, W!Add
<1>2. /\ events_' \in Seq(Event) /\ Len(events_') = Len(events_) + 1
      /\ \A i \in 1 .. Len(events_) : events_'[i] = events_[i]
      /\ events_'[Len(events_) + 1] = e
  BY <1>1, AppendProperties
<1>3. Len(events) \in Nat /\ Len(events_) \in Nat
  BY <1>1, LenProperties
<1>4. /\ Len(Queue) = Len(events) + Len(events_)
      /\ \A i \in 1 .. Len(events) + Len(events_) :
             Queue[i] = IF i <= Len(events) THEN events[i] ELSE events_[i - Len(events)]
  BY <1>1, ConcatProperties DEF Queue
<1>5. /\ Len(Queue') = Len(events) + Len(events_')
      /\ \A i \in 1 .. Len(events) + Len(events_') :
             Queue'[i] = IF i <= Len(events) THEN events[i] ELSE events_'[i - Len(events)]
  BY <1>1, <1>2, ConcatProperties DEF Queue
<1>6. ASSUME NEW i \in 1 .. Len(Queue) PROVE Queue'[i] = Queue[i]
  <2>1. CASE i <= Len(events)
    BY <1>2, <1>3, <1>4, <1>5, <2>1
  <2>2. CASE i > Len(events)
    <3>1. i - Len(events) \in 1 .. Len(events_)
      BY <1>3, <1>4, <2>2
    <3>2. events_'[i - Len(events)] = events_[i - Len(events)]
      BY <1>2, <3>1
    <3>3. QED
      BY <1>2, <1>3, <1>4, <1>5, <2>2, <3>2
  <2>3. QED
    BY <1>3, <1>4, <2>1, <2>2
<1>7. Queue'[Len(Queue) + 1] = e
  <2>1. Len(Queue) + 1 - Len(events) = Len(events_) + 1 /\ ~(Len(Queue) + 1 <= Len(events))
    BY <1>3, <1>4
  <2>2. QED
    BY <1>2, <1>3, <1>4, <1>5, <2>1
<1>8. QED
  BY <1>2, <1>3, <1>4, <1>5, <1>6, <1>7

LEMMA QueueHandles ==
    ASSUME W!TypeOK, W!Handle
    PROVE  /\ Len(Queue) > 0
           /\ W!Current = Queue[1]
           /\ Len(Queue') = Len(Queue) - 1
           /\ \A i \in 1 .. Len(Queue) - 1 : Queue'[i] = Queue[i + 1]
<1>1. events \in Seq(Event) /\ events_ \in Seq(Event)
  BY DEF W!TypeOK
<1>2. Len(events) \in Nat /\ Len(events_) \in Nat
  BY <1>1, LenProperties
<1>3. /\ Len(Queue) = Len(events) + Len(events_)
      /\ \A i \in 1 .. Len(events) + Len(events_) :
             Queue[i] = IF i <= Len(events) THEN events[i] ELSE events_[i - Len(events)]
  BY <1>1, ConcatProperties DEF Queue
<1>4. CASE W!HandleBatch
  <2>1. events # <<>> /\ events' = Tail(events) /\ events_' = events_ /\ W!Current = Head(events)
    BY <1>4 DEF W!HandleBatch, W!Current
  <2>2. /\ events' \in Seq(Event) /\ Len(events') = Len(events) - 1 /\ Head(events) = events[1]
        /\ \A i \in 1 .. Len(events') : events'[i] = events[i + 1]
        /\ Len(events) > 0
    BY <1>1, <2>1, HeadTailProperties, EmptySeq
  <2>3. /\ Len(Queue') = Len(events') + Len(events_)
        /\ \A i \in 1 .. Len(events') + Len(events_) :
               Queue'[i] = IF i <= Len(events') THEN events'[i] ELSE events_[i - Len(events')]
    BY <1>1, <2>1, <2>2, ConcatProperties DEF Queue
  <2>4. QED
    BY <1>2, <1>3, <2>1, <2>2, <2>3
<1>5. CASE W!HandleDrain
  <2>1. /\ events = <<>> /\ events' = events
        /\ events_ # <<>> /\ events_' = Tail(events_) /\ W!Current = Head(events_)
    BY <1>5 DEF W!HandleDrain, W!Current, W!TypeOK
  <2>2. /\ events_' \in Seq(Event) /\ Len(events_') = Len(events_) - 1 /\ Head(events_) = events_[1]
        /\ \A i \in 1 .. Len(events_') : events_'[i] = events_[i + 1]
        /\ Len(events_) > 0
    BY <1>1, <2>1, HeadTailProperties, EmptySeq
  <2>3. Queue = events_ /\ Queue' = events_'
    BY <1>1, <2>1, <2>2, ConcatEmptySeq DEF Queue
  <2>4. QED
    BY <2>1, <2>2, <2>3
<1>6. QED
  BY <1>4, <1>5 DEF W!Handle

LEMMA QueueStays ==
    ASSUME W!TypeOK, W!Housekeeping \/ W!SpuriousWakeup \/ W!Stop
    PROVE  Queue' = Queue
<1>1. events \in Seq(Event) /\ events_ \in Seq(Event)
  BY DEF W!TypeOK
<1>2. CASE W!Swap
  <2>1. events = <<>> /\ events' = events_ /\ events_' = events
    BY <1>2 DEF W!Swap, W!TypeOK
  <2>2. QED
    BY <1>1, <2>1, ConcatEmptySeq DEF Queue
<1>3. CASE UNCHANGED <<events, events_>>
  BY <1>3 DEF Queue
<1>4. QED
  BY <1>2, <1>3
     DEF W!Housekeeping, W!SpuriousWakeup, W!EnterLoop, W!DecideToWait, W!FallAsleep, W!Reacquire,
         W!FinishBatch, W!LeaveLoop, W!Exit, W!Stop, W!ClearRunFlag, W!NotifyStop, W!Join

-----------------------------------------------------------------------------
(* What handling a message does to the list, the future and the reaction   *)
(* of a call, first for a message of another ActionID.                     *)
LEMMA OthersMessage ==
    ASSUME MapInv, PromiseInv, NEW c \in Pipes, NEW e \in Event, Dispatch(e),
           e.ActionID # ActionId[c]
    PROVE  /\ event_map_'[ActionId[c]] = event_map_[ActionId[c]]
           /\ future'[c] = future[c]
           /\ reaction'[c] = reaction[c]
<1> USE DEF MapInv
<1>1. ActionId[c] \in Ids
  BY InvokeAssumption
<1>2. CASE Notify(e)
  BY <1>2 DEF Notify, mapVars
<1>3. ASSUME Waiting(e.ActionID) PROVE promise_map_[e.ActionID] # c
  BY <1>3 DEF PromiseInv, Waiting
<1>4. CASE Reply(e) \/ FailList(e) \/ CompleteList(e)
  <2>1. PICK r : Waiting(e.ActionID) /\ Settle(e.ActionID, r)
    BY <1>4 DEF Reply, FailList, CompleteList
  <2>2. future'[c] = future[c] /\ reaction'[c] = reaction[c]
    BY <1>3, <2>1 DEF Settle, MapTypes
  <2>3. \/ event_map_' = event_map_
        \/ event_map_' = [event_map_ EXCEPT ![e.ActionID] = <<>>]
    BY <1>4 DEF Reply, FailList, CompleteList
  <2>4. QED
    BY <1>1, <2>2, <2>3 DEF MapTypes
<1>5. CASE StartList(e) \/ AppendList(e)
  BY <1>1, <1>5 DEF StartList, AppendList, MapTypes
<1>6. QED
  BY <1>2, <1>4, <1>5 DEF Dispatch

(* Then for the next message of its own answer.                            *)
LEMMA OwnMessage ==
    ASSUME DistinctIds, MapInv, PromiseInv, NEW c \in Pipes, NEW e \in Event, Dispatch(e),
           NEW h \in Nat, Got(c, h), e.ActionID = ActionId[c], e = answer[c][h + 1],
           UNCHANGED answer
    PROVE  Got(c, h + 1)'
<1> USE DEF MapInv
<1> DEFINE id == ActionId[c]
           l  == event_map_[id]
<1>1. id \in Ids /\ l \in Seq(Event) /\ Len(l) \in Nat
  BY InvokeAssumption, LenProperties DEF MapTypes
<1>2. CASE ~Waiting(id)
  <2>1. UNCHANGED <<event_map_, future, reaction>>
    BY <1>2 DEF Dispatch, Notify, Reply, StartList, FailList, AppendList, CompleteList, mapVars
  <2>2. future[c] # "pending"
    <3>1. SUFFICES ASSUME future[c] = "pending" PROVE FALSE
      OBVIOUS
    <3>2. PICK i \in Ids : promise_map_[i] = c
      BY <3>1 DEF PipeInv
    <3>3. Waiting(i)
      BY <3>2, IdAssumption DEF Waiting
    <3>4. QED
      BY <1>2, <3>2, <3>3 DEF PromiseInv
  <2>3. QED
    BY <2>1, <2>2 DEF Got
<1>3. CASE Waiting(id)
  <2>1. promise_map_[id] = c
    BY <1>1, <1>3 DEF PromiseInv, Waiting, MapTypes, DistinctIds
  <2>2. /\ future[c] = "pending" /\ Len(l) = h
        /\ \A i \in 1 .. h : l[i] = answer[c][i]
        /\ \A n \in 1 .. h : ~WholeAt(answer[c], n)
    BY <1>1, <2>1 DEF PipeInv, Got
  <2>3. Working(id) <=> h > 0
    BY <1>1, <2>2, EmptySeq DEF Working
  <2>4. ASSUME NEW r \in Seq(Event), Len(r) = h + 1, \A i \in 1 .. h : r[i] = l[i], r[h + 1] = e
        PROVE  \A i \in 1 .. h + 1 : r[i] = answer[c][i]
    <3>1. \A i \in 1 .. h : r[i] = answer[c][i]
      BY <2>2, <2>4
    <3>2. \A i \in 1 .. h + 1 : i \in 1 .. h \/ i = h + 1
      OBVIOUS
    <3>3. QED
      BY <2>4, <3>1, <3>2
  <2>5. PICK r \in Seq(Event) : /\ Len(r) = h + 1 /\ (\A i \in 1 .. h : r[i] = l[i]) /\ r[h + 1] = e
                                /\ IF h = 0 THEN r = <<e>> ELSE r = Append(l, e)
    <3>1. CASE h = 0
      <4> DEFINE one == <<e>>
      <4>1. one \in Seq(Event) /\ Len(one) = 1 /\ one[1] = e /\ one = <<e>>
        OBVIOUS
      <4> HIDE DEF one
      <4>2. Len(one) = h + 1 /\ (\A i \in 1 .. h : one[i] = l[i]) /\ one[h + 1] = e
        BY <3>1, <4>1
      <4>3. QED
        BY <3>1, <4>1, <4>2, Zenon
    <3>2. CASE h # 0
      <4>1. /\ Append(l, e) \in Seq(Event) /\ Len(Append(l, e)) = Len(l) + 1
            /\ \A i \in 1 .. Len(l) : Append(l, e)[i] = l[i]
            /\ Append(l, e)[Len(l) + 1] = e
        BY <1>1, AppendProperties
      <4>2. QED
        BY <2>2, <3>2, <4>1
    <3>3. QED
      BY <3>1, <3>2
  <2>6. \A i \in 1 .. h + 1 : r[i] = answer[c][i]
    BY <2>4, <2>5
  <2>7. CASE Settle(id, r) /\ WholeAt(answer[c], h + 1)
    <3>1. future'[c] = "value" /\ reaction'[c] = r
      BY <2>1, <2>7 DEF Settle, MapTypes
    <3>2. h + 1 \in 1 .. h + 1 /\ (h + 1) - 1 = h
      OBVIOUS
    <3>3. QED
      BY <2>2, <2>5, <2>6, <2>7, <3>1, <3>2 DEF Got
  <2>8. CASE /\ event_map_' = [event_map_ EXCEPT ![id] = r] /\ UNCHANGED future
             /\ ~WholeAt(answer[c], h + 1)
    <3>1. event_map_'[id] = r /\ future'[c] = "pending"
      BY <1>1, <2>2, <2>8 DEF MapTypes
    <3>2. \A n \in 1 .. h + 1 : ~WholeAt(answer[c], n)
      <4>1. \A n \in 1 .. h + 1 : n \in 1 .. h \/ n = h + 1
        OBVIOUS
      <4>2. QED
        BY <2>2, <2>8, <4>1
    <3>3. QED
      BY <2>5, <2>6, <3>1, <3>2 DEF Got
  <2>9. CASE Reply(e) \/ FailList(e)
    <3>1. h = 0 /\ Settle(id, <<e>>) /\ ~OpensList(e)
      BY <2>3, <2>9 DEF Reply, FailList, OpensList
    <3>2. WholeAt(answer[c], h + 1)
      BY <3>1 DEF WholeAt
    <3>3. r = <<e>>
      BY <2>5, <3>1
    <3>4. QED
      BY <2>7, <3>1, <3>2, <3>3
  <2>10. CASE CompleteList(e)
    <3>1. h > 0 /\ Settle(id, Append(l, e)) /\ Closes(e)
      BY <2>3, <2>10 DEF CompleteList
    <3>2. WholeAt(answer[c], h + 1)
      BY <3>1 DEF WholeAt
    <3>3. r = Append(l, e)
      BY <2>5, <3>1
    <3>4. QED
      BY <2>7, <3>1, <3>2, <3>3
  <2>11. CASE StartList(e)
    <3>1. ~Working(id) /\ OpensList(e) /\ UNCHANGED future
      BY <2>11 DEF StartList
    <3>2. event_map_' = [event_map_ EXCEPT ![id] = <<e>>]
      BY <2>11 DEF StartList
    <3>3. h = 0
      BY <2>3, <3>1
    <3>4. ~WholeAt(answer[c], h + 1)
      BY <3>1, <3>3 DEF WholeAt
    <3>5. r = <<e>>
      BY <2>5, <3>3
    <3>6. QED
      BY <2>8, <3>1, <3>2, <3>4, <3>5
  <2>12. CASE AppendList(e)
    <3>1. h > 0 /\ ~Closes(e) /\ event_map_' = [event_map_ EXCEPT ![id] = Append(l, e)] /\ UNCHANGED future
      BY <2>3, <2>12 DEF AppendList
    <3>2. ~WholeAt(answer[c], h + 1)
      BY <3>1 DEF WholeAt
    <3>3. r = Append(l, e)
      BY <2>5, <3>1
    <3>4. QED
      BY <2>8, <3>1, <3>2, <3>3
  <2>13. QED
    BY <1>3, <2>9, <2>10, <2>11, <2>12 DEF Dispatch, Notify
<1>4. QED
  BY <1>2, <1>3

-----------------------------------------------------------------------------
(* Steps that handle no message: the places stay.                          *)
LEMMA OrderKept ==
    ASSUME NEW c \in Pipes, OrderOf(c),
           arrived'[c] = arrived[c], answer'[c] = answer[c], Queue' = Queue,
           \A h \in 0 .. arrived[c] : Got(c, h) => Got(c, h)'
    PROVE  OrderOf(c)'
<1>0. PICK h \in 0 .. arrived[c] :
          Got(c, h) /\ \E at \in [h + 1 .. arrived[c] -> 1 .. Len(Queue)] : Lined(c, h, at)
  BY DEF OrderOf
<1>1. PICK at \in [h + 1 .. arrived[c] -> 1 .. Len(Queue)] : Got(c, h) /\ Lined(c, h, at)
  BY <1>0
<1>2. Got(c, h)' /\ at \in [h + 1 .. arrived'[c] -> 1 .. Len(Queue')] /\ h \in 0 .. arrived'[c]
  BY <1>1
<1>3. Lined(c, h, at)'
  BY <1>1 DEF Lined
<1>4. QED
  BY <1>2, <1>3 DEF OrderOf

(* A future that gets something other than a reaction asks for nothing.    *)
LEMMA GotFewer ==
    ASSUME NEW c \in Pipes, NEW h \in Nat, Got(c, h),
           answer'[c] = answer[c], reaction'[c] = reaction[c], future'[c] # "pending",
           future'[c] = "value" => future[c] = "value"
    PROVE  Got(c, h)'
  BY DEF Got

LEMMA GotKept ==
    ASSUME NEW c \in Pipes, NEW h \in Nat, Got(c, h),
           answer'[c] = answer[c], reaction'[c] = reaction[c], future'[c] = future[c],
           event_map_'[ActionId[c]] = event_map_[ActionId[c]]
    PROVE  Got(c, h)'
  BY DEF Got

LEMMA ArriveOrder ==
    ASSUME DistinctIds, Addressed, W!TypeOK, AnswerTypes, NEW c \in Pipes, OrderOf(c),
           NEW s \in Sources, Arrive(s)
    PROVE  OrderOf(c)'
<1>0. PICK h \in 0 .. arrived[c] :
          Got(c, h) /\ \E at \in [h + 1 .. arrived[c] -> 1 .. Len(Queue)] : Lined(c, h, at)
  BY DEF OrderOf
<1>1. PICK at \in [h + 1 .. arrived[c] -> 1 .. Len(Queue)] : Got(c, h) /\ Lined(c, h, at)
  BY <1>0
<1>2. PICK e \in Event : e = answer[s][arrived[s] + 1]
  BY ArrivingIsEvent DEF Arrive
<1>3. /\ Len(Queue') = Len(Queue) + 1
      /\ \A i \in 1 .. Len(Queue) : Queue'[i] = Queue[i]
      /\ Queue'[Len(Queue) + 1] = e
      /\ Len(Queue) \in Nat
  BY <1>2, QueueAdds, QueueType DEF Arrive
<1>4. /\ UNCHANGED <<answer, event_map_, future, reaction>> /\ arrived' = [arrived EXCEPT ![s] = @ + 1]
      /\ arrived[s] < Len(answer[s])
  BY DEF Arrive, mapVars
<1>5. c \in Sources /\ c # NoPipe /\ arrived[c] \in Nat
  BY IdAssumption DEF Sources, AnswerTypes
<1>6. Got(c, h)'
  BY <1>1, <1>4, GotKept
<1>7. e.ActionID = IF s = NoPipe THEN NoId ELSE ActionId[s]
  <2>1. answer[s] \in Seq(Event) /\ arrived[s] \in Nat
    BY DEF AnswerTypes
  <2>2. arrived[s] + 1 \in DOMAIN answer[s]
    BY <1>4, <2>1, LenProperties
  <2>3. QED
    BY <1>2, <2>2 DEF Addressed
<1>8. CASE s = c
  <2>1. arrived'[c] = arrived[c] + 1
    BY <1>4, <1>5, <1>8 DEF AnswerTypes
  <2> DEFINE new == [n \in h + 1 .. arrived[c] + 1 |-> IF n = arrived[c] + 1 THEN Len(Queue) + 1 ELSE at[n]]
  <2>2. PICK to : to = new
    OBVIOUS
  <2>3. /\ \A n \in h + 1 .. arrived[c] : to[n] = at[n] /\ at[n] \in 1 .. Len(Queue)
        /\ to[arrived[c] + 1] = Len(Queue) + 1
        /\ to \in [h + 1 .. arrived[c] + 1 -> 1 .. Len(Queue) + 1]
    <3>1. \A n \in h + 1 .. arrived[c] : at[n] \in 1 .. Len(Queue)
      BY <1>1
    <3>2. \A n \in h + 1 .. arrived[c] : n \in h + 1 .. arrived[c] + 1 /\ n # arrived[c] + 1
      BY <1>5
    <3>3. arrived[c] + 1 \in h + 1 .. arrived[c] + 1
      BY <1>5
    <3>4. \A n \in h + 1 .. arrived[c] + 1 :
              to[n] = IF n = arrived[c] + 1 THEN Len(Queue) + 1 ELSE at[n]
      BY <2>2
    <3>5. \A n \in h + 1 .. arrived[c] + 1 : n \in h + 1 .. arrived[c] \/ n = arrived[c] + 1
      BY <1>5
    <3>6. \A n \in h + 1 .. arrived[c] + 1 : to[n] \in 1 .. Len(Queue) + 1
      BY <1>3, <3>1, <3>4, <3>5
    <3>7. to \in [h + 1 .. arrived[c] + 1 -> 1 .. Len(Queue) + 1]
      BY <2>2, <3>4, <3>6
    <3>8. QED
      BY <3>1, <3>2, <3>3, <3>4, <3>7
  <2>4. \A n \in h + 1 .. arrived[c] + 1 : n \in h + 1 .. arrived[c] \/ n = arrived[c] + 1
    BY <1>5
  <2>5. \A m, n \in h + 1 .. arrived[c] + 1 : m < n => to[m] < to[n]
    <3>1. SUFFICES ASSUME NEW m \in h + 1 .. arrived[c] + 1, NEW n \in h + 1 .. arrived[c] + 1, m < n
                   PROVE  to[m] < to[n]
      OBVIOUS
    <3>2. m \in h + 1 .. arrived[c]
      BY <1>5, <3>1
    <3>3. CASE n \in h + 1 .. arrived[c]
      BY <1>1, <2>3, <3>1, <3>2, <3>3 DEF Lined
    <3>4. CASE n = arrived[c] + 1
      BY <1>3, <2>3, <3>2, <3>4
    <3>5. QED
      BY <2>4, <3>3, <3>4
  <2>6. \A n \in h + 1 .. arrived[c] + 1 : Queue'[to[n]] = answer'[c][n]
    <3>1. \A n \in h + 1 .. arrived[c] : Queue'[to[n]] = answer[c][n]
      BY <1>1, <1>3, <2>3 DEF Lined
    <3>2. Queue'[to[arrived[c] + 1]] = answer[c][arrived[c] + 1]
      BY <1>2, <1>3, <1>8, <2>3
    <3>3. QED
      BY <1>4, <2>4, <3>1, <3>2
  <2>7. ASSUME NEW i \in 1 .. Len(Queue) + 1, Queue'[i].ActionID = ActionId[c]
        PROVE  \E n \in h + 1 .. arrived[c] + 1 : to[n] = i
    <3>1. CASE i = Len(Queue) + 1
      <4>1. arrived[c] + 1 \in h + 1 .. arrived[c] + 1
        BY <1>5
      <4>2. QED
        BY <2>3, <3>1, <4>1
    <3>2. CASE i \in 1 .. Len(Queue)
      <4>1. PICK n \in h + 1 .. arrived[c] : at[n] = i
        BY <1>1, <1>3, <2>7, <3>2 DEF Lined
      <4>2. n \in h + 1 .. arrived[c] + 1
        BY <1>5
      <4>3. QED
        BY <2>3, <4>1, <4>2
    <3>3. QED
      BY <1>3, <3>1, <3>2
  <2>8. Lined(c, h, to)'
    BY <1>3, <2>1, <2>5, <2>6, <2>7 DEF Lined
  <2>9. h \in 0 .. arrived'[c] /\ to \in [h + 1 .. arrived'[c] -> 1 .. Len(Queue')]
    BY <1>3, <1>5, <2>1, <2>3
  <2>10. QED
    BY <1>6, <2>8, <2>9 DEF OrderOf
<1>9. CASE s # c
  <2>1. arrived'[c] = arrived[c] /\ e.ActionID # ActionId[c]
    <3>1. s # NoPipe => s \in Pipes
      BY DEF Sources
    <3>2. ActionId[c] # NoId
      BY IdAssumption, InvokeAssumption
    <3>3. QED
      BY <1>4, <1>5, <1>7, <1>9, <3>1, <3>2 DEF AnswerTypes, DistinctIds
  <2>2. \A n \in h + 1 .. arrived[c] : at[n] \in 1 .. Len(Queue)
    BY <1>1
  <2>3. Lined(c, h, at)'
    <3>1. \A n \in h + 1 .. arrived[c] : Queue'[at[n]] = answer'[c][n]
      BY <1>1, <1>3, <1>4, <2>2 DEF Lined
    <3>2. \A i \in 1 .. Len(Queue) + 1 :
              Queue'[i].ActionID = ActionId[c] => \E n \in h + 1 .. arrived[c] : at[n] = i
      <4>1. \A i \in 1 .. Len(Queue) + 1 : i \in 1 .. Len(Queue) \/ i = Len(Queue) + 1
        BY <1>3
      <4>2. QED
        BY <1>1, <1>3, <2>1, <4>1 DEF Lined
    <3>3. QED
      BY <1>1, <1>3, <2>1, <3>1, <3>2 DEF Lined
  <2>4. h \in 0 .. arrived'[c] /\ at \in [h + 1 .. arrived'[c] -> 1 .. Len(Queue')]
    <3>1. \A n \in h + 1 .. arrived[c] : at[n] \in 1 .. Len(Queue')
      BY <1>3, <2>2
    <3>2. QED
      BY <1>1, <2>1, <3>1
  <2>5. QED
    BY <1>6, <2>3, <2>4 DEF OrderOf
<1>10. QED
  BY <1>8, <1>9

(* Handling a message: those behind it move up, and it counts as handled   *)
(* for the one call it answers, whose next message it is.                  *)
LEMMA HandleOrder ==
    ASSUME DistinctIds, Addressed, W!TypeOK, MapInv, PromiseInv, AnswerTypes,
           NEW c \in Pipes, OrderOf(c), Handle
    PROVE  OrderOf(c)'
<1>0. PICK h \in 0 .. arrived[c] :
          Got(c, h) /\ \E at \in [h + 1 .. arrived[c] -> 1 .. Len(Queue)] : Lined(c, h, at)
  BY DEF OrderOf
<1>1. PICK at \in [h + 1 .. arrived[c] -> 1 .. Len(Queue)] : Got(c, h) /\ Lined(c, h, at)
  BY <1>0
<1>2. PICK e \in Event : e = W!Current
  BY CurrentIsEvent DEF Handle, DispatchEvent
<1>3. Dispatch(e) /\ UNCHANGED <<answer, arrived>>
  BY <1>2 DEF Handle, DispatchEvent
<1>4. /\ Len(Queue) \in Nat /\ Len(Queue) > 0 /\ e = Queue[1]
      /\ Len(Queue') = Len(Queue) - 1
      /\ \A i \in 1 .. Len(Queue) - 1 : Queue'[i] = Queue[i + 1]
  BY <1>2, QueueType, QueueHandles DEF Handle, DispatchEvent
<1>5. arrived[c] \in Nat /\ h \in Nat /\ \A n \in h + 1 .. arrived[c] : at[n] \in 1 .. Len(Queue)
  <2>1. c \in Sources
    BY DEF Sources
  <2>2. QED
    BY <1>1, <2>1 DEF AnswerTypes
\* The places of the messages from k on, one further to the front.
<1>6. ASSUME NEW k \in h .. arrived[c], Got(c, k)',
             \A n \in k + 1 .. arrived[c] : at[n] > 1,
             \A n \in h + 1 .. k : at[n] = 1
      PROVE  OrderOf(c)'
  <2>1. \A n \in k + 1 .. arrived[c] : n \in h + 1 .. arrived[c]
    BY <1>5
  <2> DEFINE new == [n \in k + 1 .. arrived[c] |-> at[n] - 1]
  <2>2. PICK to : to = new
    OBVIOUS
  <2>3. \A n \in k + 1 .. arrived[c] : to[n] = at[n] - 1 /\ to[n] \in 1 .. Len(Queue) - 1
    BY <1>4, <1>5, <1>6, <2>1, <2>2
  <2>4. to \in [k + 1 .. arrived[c] -> 1 .. Len(Queue')]
    BY <1>4, <2>2, <2>3
  <2>5. \A m, n \in k + 1 .. arrived[c] : m < n => to[m] < to[n]
    BY <1>1, <1>5, <2>1, <2>3 DEF Lined
  <2>6. \A n \in k + 1 .. arrived[c] : Queue'[to[n]] = answer'[c][n]
    <3>1. SUFFICES ASSUME NEW n \in k + 1 .. arrived[c] PROVE Queue'[to[n]] = answer[c][n]
      BY <1>3
    <3>2. Queue'[to[n]] = Queue[at[n]]
      BY <1>4, <1>5, <2>1, <2>3
    <3>3. QED
      BY <1>1, <2>1, <3>2 DEF Lined
  <2>7. ASSUME NEW i \in 1 .. Len(Queue'), Queue'[i].ActionID = ActionId[c]
        PROVE  \E n \in k + 1 .. arrived'[c] : to[n] = i
    <3>1. i + 1 \in 1 .. Len(Queue) /\ Queue[i + 1].ActionID = ActionId[c] /\ i + 1 # 1
      BY <1>4, <2>7
    <3>2. PICK n \in h + 1 .. arrived[c] : at[n] = i + 1
      BY <1>1, <3>1 DEF Lined
    <3>3. n \in k + 1 .. arrived[c]
      BY <1>5, <1>6, <3>1, <3>2
    <3>4. to[n] = i
      BY <2>3, <3>2, <3>3
    <3>5. QED
      BY <1>3, <3>3, <3>4
  <2>8. Lined(c, k, to)'
    BY <1>3, <2>5, <2>6, <2>7 DEF Lined
  <2>9. k \in 0 .. arrived'[c]
    BY <1>3, <1>5
  <2>10. QED
    BY <1>3, <1>6, <2>4, <2>8, <2>9 DEF OrderOf
<1>7. CASE e.ActionID = ActionId[c]
  <2>1. PICK n \in h + 1 .. arrived[c] : at[n] = 1
    BY <1>1, <1>4, <1>7 DEF Lined
  <2>2. h + 1 \in h + 1 .. arrived[c] /\ h + 1 \in h .. arrived[c]
    BY <1>5
  <2>3. at[h + 1] = 1
    <3>1. CASE n = h + 1
      BY <2>1, <3>1
    <3>2. CASE n # h + 1
      <4>1. at[h + 1] < at[n]
        BY <1>1, <1>5, <2>2, <3>2 DEF Lined
      <4>2. QED
        BY <1>5, <2>1, <2>2, <4>1
    <3>3. QED
      BY <3>1, <3>2
  <2>4. e = answer[c][h + 1]
    BY <1>1, <1>4, <2>2, <2>3 DEF Lined
  <2>5. Got(c, h + 1)'
    BY <1>1, <1>3, <1>5, <1>7, <2>4, OwnMessage
  <2>6. \A k \in h + 2 .. arrived[c] : at[k] > 1
    <3>1. \A k \in h + 2 .. arrived[c] : k \in h + 1 .. arrived[c] /\ h + 1 < k
      BY <1>5
    <3>2. QED
      BY <1>1, <1>5, <2>2, <2>3, <3>1 DEF Lined
  <2>7. (h + 1) + 1 = h + 2 /\ \A k \in h + 1 .. h + 1 : at[k] = 1
    BY <1>5, <2>3
  <2>8. QED
    BY <1>6, <2>2, <2>5, <2>6, <2>7
<1>8. CASE e.ActionID # ActionId[c]
  <2>1. /\ event_map_'[ActionId[c]] = event_map_[ActionId[c]]
        /\ future'[c] = future[c] /\ reaction'[c] = reaction[c]
    BY <1>3, <1>8, OthersMessage
  <2>2. Got(c, h)'
    BY <1>1, <1>3, <1>5, <2>1, GotKept
  <2>3. ASSUME NEW n \in h + 1 .. arrived[c] PROVE at[n] > 1
    <3>1. c \in Sources /\ c # NoPipe
      BY IdAssumption DEF Sources
    <3>2. n \in DOMAIN answer[c]
      <4>1. answer[c] \in Seq(Event) /\ arrived[c] <= Len(answer[c])
        BY <3>1 DEF AnswerTypes
      <4>2. DOMAIN answer[c] = 1 .. Len(answer[c]) /\ Len(answer[c]) \in Nat
        BY <4>1, LenProperties
      <4>3. QED
        BY <1>5, <4>1, <4>2
    <3>3. answer[c][n].ActionID = ActionId[c]
      BY <3>1, <3>2 DEF Addressed
    <3>4. Queue[at[n]] = answer[c][n]
      BY <1>1 DEF Lined
    <3>5. at[n] # 1
      BY <1>4, <1>8, <3>3, <3>4
    <3>6. QED
      BY <1>5, <3>5
  <2>4. h \in h .. arrived[c] /\ \A n \in h + 1 .. h : at[n] = 1
    BY <1>5
  <2>5. QED
    BY <1>6, <2>2, <2>3, <2>4
<1>9. QED
  BY <1>7, <1>8

-----------------------------------------------------------------------------
(* The steps of calls.                                                     *)
LEMMA CallOrder ==
    ASSUME DistinctIds, CallsInv, NEW c \in Pipes, OrderOf(c), NEW d \in Pipes, Call(d)
    PROVE  OrderOf(c)'
<1> USE DEF CallsInv, DispatcherInv, MapInv
<1>1. Queue' = Queue /\ arrived' = arrived
  BY DEF Call, GetPipe, Write, BeginSend, FinishSend, SendShort, WriteThrows, TimeOut, CancelPipe,
         GetReaction, GetEventPipe, SetExceptionOnPipe, vars, threadVars, Queue
<1>2. c \in Sources /\ arrived[c] \in Nat
  BY DEF Sources, CallInv, AnswerTypes
\* With nothing arrived nothing has been handled.
<1>3. ASSUME arrived[c] = 0, future'[c] = "pending" => Len(event_map_'[ActionId[c]]) = 0,
             future'[c] = "value" => future[c] = "value"
      PROVE  OrderOf(c)'
  <2>1. PICK h \in 0 .. arrived[c] :
            Got(c, h) /\ \E at \in [h + 1 .. arrived[c] -> 1 .. Len(Queue)] : Lined(c, h, at)
    BY DEF OrderOf
  <2>2. PICK at \in [h + 1 .. arrived[c] -> 1 .. Len(Queue)] : Got(c, h) /\ Lined(c, h, at)
    BY <2>1
  <2>3. h = 0
    BY <1>3
  <2>4. Got(c, 0)'
    BY <1>3, <2>1, <2>3 DEF Got
  <2>5. Lined(c, 0, at)' /\ at \in [0 + 1 .. arrived'[c] -> 1 .. Len(Queue')]
    BY <1>1, <1>3, <2>2, <2>3 DEF Lined
  <2>6. 0 \in 0 .. arrived'[c]
    BY <1>1, <1>2
  <2>7. QED
    BY <2>4, <2>5, <2>6 DEF OrderOf
<1>4. CASE UNCHANGED <<vars, answer>>
  <2>1. ASSUME NEW h \in 0 .. arrived[c], Got(c, h) PROVE Got(c, h)'
    BY <1>2, <1>4, <2>1, GotKept DEF vars, mapVars
  <2>2. QED
    BY <1>1, <1>4, <2>1, OrderKept
<1>5. CASE FinishSend(d)
  <2>1. arrived[c] > 0 => answer'[c] = answer[c]
    BY <1>2, <1>5, DecisionStep DEF FinishSend
  <2>2. UNCHANGED <<event_map_, future, reaction>>
    BY <1>5 DEF FinishSend, vars, mapVars
  <2>3. CASE arrived[c] > 0
    <3>1. ASSUME NEW h \in 0 .. arrived[c], Got(c, h) PROVE Got(c, h)'
      BY <1>2, <2>1, <2>2, <2>3, <3>1, GotKept
    <3>2. QED
      BY <1>1, <2>1, <2>3, <3>1, OrderKept
  <2>4. CASE arrived[c] = 0
    <3>1. PICK h \in 0 .. arrived[c] : Got(c, h)
      BY DEF OrderOf
    <3>2. h = 0
      BY <2>4, <3>1
    <3>3. future[c] = "pending" => Len(event_map_[ActionId[c]]) = 0
      BY <3>1, <3>2 DEF Got
    <3>4. QED
      BY <1>3, <2>2, <2>4, <3>3
  <2>5. QED
    BY <1>2, <2>3, <2>4
<1>6. CASE d = c /\ GetPipe(c)
  <2>1. pc[c] = "idle" /\ GetEventPipe(c, ActionId[c]) /\ ActionId[c] \in Ids
    BY <1>6, InvokeAssumption DEF GetPipe, MayStart
  <2>2. answer[c] = <<>>
    BY <2>1 DEF CallInv, WireInv, Unsent
  <2>3. arrived[c] = 0
    BY <1>2, <2>2, EmptySeq DEF CallInv, AnswerTypes
  <2>4. future'[c] = "pending" => ~Waiting(ActionId[c])
    BY <2>1 DEF GetEventPipe, MapTypes
  <2>5. future'[c] = "pending" => event_map_'[ActionId[c]] = <<>>
    BY <2>1, <2>4 DEF GetEventPipe, ListHasPipe, Working
  <2>6. future'[c] # "value"
    BY <2>1 DEF GetEventPipe, MapTypes
  <2>7. QED
    BY <1>3, <2>3, <2>5, <2>6, EmptySeq
<1>7. CASE d = c /\ CancelPipe(c)
  <2>1. Give(ActionId[c], "exception") /\ ActionId[c] \in Ids /\ answer' = answer
    BY <1>7, InvokeAssumption DEF CancelPipe, SetExceptionOnPipe
  <2>2. reaction' = reaction
    BY <2>1 DEF Give
  <2>3. ASSUME future'[c] = "pending" PROVE FALSE
    <3>1. future[c] = "pending"
      BY <2>1, <2>3 DEF Give, MapTypes
    <3>2. PICK i \in Ids : promise_map_[i] = c
      BY <3>1 DEF PipeInv
    <3>3. Waiting(i)
      BY <3>2, IdAssumption DEF Waiting
    <3>4. i = ActionId[c]
      BY <3>2, <3>3 DEF LeftoverInv, PromiseInv
    <3>5. future'[c] = "exception"
      BY <2>1, <3>2, <3>3, <3>4 DEF Give, MapTypes
    <3>6. QED
      BY <2>3, <3>5
  <2>4. future'[c] = "value" => future[c] = "value"
    BY <2>1 DEF Give, MapTypes
  <2>5. ASSUME NEW h \in 0 .. arrived[c], Got(c, h) PROVE Got(c, h)'
    BY <1>2, <2>1, <2>2, <2>3, <2>4, <2>5, GotFewer
  <2>6. QED
    BY <1>1, <2>1, <2>5, OrderKept
<1>8. CASE d # c /\ answer' = answer
  <2>1. /\ future'[c] = future[c] /\ reaction' = reaction
        /\ event_map_'[ActionId[c]] = event_map_[ActionId[c]]
    BY <1>8, OthersKeepFuture
  <2>2. ASSUME NEW h \in 0 .. arrived[c], Got(c, h) PROVE Got(c, h)'
    BY <1>2, <1>8, <2>1, <2>2, GotKept
  <2>3. QED
    BY <1>1, <1>8, <2>2, OrderKept
<1>9. QED
  BY <1>4, <1>5, <1>6, <1>7, <1>8
     DEF Call, Write, GetPipe, CancelPipe, BeginSend, SendShort, WriteThrows, TimeOut, GetReaction

LEMMA OrderStep ==
    ASSUME OwnAnswers, CallsInv, KeptInv, OrderInv, [InvokeNext]_ivars
    PROVE  OrderInv'
<1> USE DEF CallsInv, DispatcherInv, KeptInv
<1>1. SUFFICES ASSUME NEW c \in Pipes, OrderOf(c) PROVE OrderOf(c)'
  BY DEF OrderInv
<1>2. DistinctIds /\ arrived[c] \in Nat
  BY DEF OwnAnswers, Sources, CallInv, AnswerTypes
<1>3. CASE Queue' = Queue /\ UNCHANGED <<answer, arrived, event_map_, future, reaction>>
  <2>1. ASSUME NEW h \in 0 .. arrived[c], Got(c, h) PROVE Got(c, h)'
    BY <1>2, <1>3, <2>1, GotKept
  <2>2. QED
    BY <1>1, <1>3, <2>1, OrderKept
<1>4. ASSUME NEW d \in Pipes, Call(d) PROVE OrderOf(c)'
  BY <1>1, <1>2, <1>4, CallOrder
<1>5. ASSUME NEW s \in Sources, Arrive(s) PROVE OrderOf(c)'
  BY <1>1, <1>2, <1>5, ArriveOrder DEF CallInv
<1>6. CASE Handle
  BY <1>1, <1>2, <1>6, HandleOrder DEF CallInv, LeftoverInv
<1>7. CASE Run \/ Stop
  <2>1. Queue' = Queue
    BY <1>7, QueueStays DEF Run, Stop
  <2>2. QED
    BY <1>3, <1>7, <2>1 DEF Run, Stop, mapVars, callVars
<1>8. CASE Cleanup
  <2>1. MapInv' /\ Queue' = Queue /\ UNCHANGED <<answer, arrived, reaction>>
    BY <1>8, CleanupStep DEF Cleanup, CleanupObject, callVars, threadVars, Queue
  <2>2. CASE UNCHANGED <<event_map_, future>>
    BY <1>3, <2>1, <2>2
  <2>3. CASE /\ promise_map_' = [id \in Ids |-> NoPipe]
             /\ future' = [d \in Pipes |-> IF \E id \in Ids : promise_map_[id] = d
                                           THEN "null" ELSE future[d]]
    <3>1. future'[c] # "pending"
      BY <2>1, <2>3, IdAssumption DEF MapInv, PipeInv
    <3>2. future'[c] = "value" => future[c] = "value"
      BY <2>3
    <3>3. ASSUME NEW h \in 0 .. arrived[c], Got(c, h) PROVE Got(c, h)'
      BY <1>2, <2>1, <3>1, <3>2, <3>3, GotFewer
    <3>4. QED
      BY <1>1, <2>1, <3>3, OrderKept
  <2>4. QED
    BY <1>8, <2>2, <2>3 DEF Cleanup, CleanupObject
<1>9. CASE Over \/ UNCHANGED ivars
  BY <1>3, <1>9 DEF Over, ivars, vars, callVars, mapVars, threadVars, Queue
<1>10. QED
  BY <1>4, <1>5, <1>6, <1>7, <1>8, <1>9 DEF InvokeNext

-----------------------------------------------------------------------------
(* The first messages of an answer are a whole reaction.                   *)
LEMMA WholePrefix ==
    ASSUME NEW a \in Seq(Event), NEW n \in 1 .. Len(a)
    PROVE  M!Whole(SubSeq(a, 1, n)) <=> WholeAt(a, n)
<1>1. n \in Int /\ n >= 1 /\ Len(a) \in Nat /\ \A i \in 1 .. n : a[i] \in Event
  BY ElementOfSeq, LenProperties
<1>2. PICK s : s = SubSeq(a, 1, n)
  OBVIOUS
<1>3. /\ Len(SubSeq(a, 1, n)) = n
      /\ \A i \in 1 .. n : SubSeq(a, 1, n)[i] = a[i]
  <2>1. /\ Len(SubSeq(a, 1, n)) = IF 1 <= n THEN n - 1 + 1 ELSE 0
        /\ \A i \in 1 .. n - 1 + 1 : SubSeq(a, 1, n)[i] = a[1 + i - 1]
    BY <1>1, SubSeqProperties
  <2>2. n - 1 + 1 = n /\ \A i \in 1 .. n : 1 + i - 1 = i
    BY <1>1
  <2>3. QED
    BY <1>1, <2>1, <2>2
<1>4. Len(s) = n /\ s[1] = a[1] /\ s[n] = a[n]
  <2>1. 1 \in 1 .. n /\ n \in 1 .. n
    BY <1>1
  <2>2. QED
    BY <1>2, <1>3, <2>1
<1>5. M!Whole(s) <=> \/ n = 1 /\ ~OpensList(a[1])
                     \/ n > 1 /\ Closes(a[n])
  BY <1>4 DEF M!Whole, M!OpensList, OpensList, Success, Closes
<1>6. QED
  BY <1>2, <1>5 DEF WholeAt

(* A call that has its reaction has the one to its own action.             *)
LEMMA GotReaction ==
    ASSUME MapInv, AnswerTypes, NEW c \in Pipes, OrderOf(c), future[c] = "value"
    PROVE  reaction[c] = Reaction(answer[c])
<1>1. /\ c \in Sources
      /\ answer[c] \in Seq(Event) /\ Len(answer[c]) \in Nat
      /\ arrived[c] \in Nat /\ arrived[c] <= Len(answer[c])
      /\ reaction[c] \in Seq(Event)
  BY LenProperties DEF MapInv, MapTypes, AnswerTypes, Sources
<1>2. PICK a \in Seq(Event) : a = answer[c]
  BY <1>1
<1>3. PICK h \in 0 .. arrived[c] : Got(c, h)
  BY DEF OrderOf
<1>4. PICK m \in 1 .. h : /\ Len(reaction[c]) = m
                          /\ \A i \in 1 .. m : reaction[c][i] = answer[c][i]
                          /\ WholeAt(answer[c], m)
                          /\ \A n \in 1 .. m - 1 : ~WholeAt(answer[c], n)
  BY <1>3 DEF Got
<1>5. m \in 1 .. Len(a) /\ Len(a) \in Nat
  BY <1>1, <1>2
<1> DEFINE whole == {n \in 1 .. Len(a) : M!Whole(SubSeq(a, 1, n))}
<1>6. m \in whole /\ \A n \in whole : m <= n
  <2>1. M!Whole(SubSeq(a, 1, m))
    BY <1>2, <1>4, <1>5, WholePrefix
  <2>2. ASSUME NEW n \in whole PROVE m <= n
    <3>1. n \in 1 .. Len(a) /\ M!Whole(SubSeq(a, 1, n))
      OBVIOUS
    <3>2. WholeAt(a, n)
      BY <3>1, WholePrefix
    <3>3. n \notin 1 .. m - 1
      BY <1>2, <1>4, <3>2
    <3>4. QED
      BY <1>5, <3>1, <3>3
  <2>3. QED
    BY <1>5, <2>1, <2>2
<1>7. (CHOOSE n \in whole : \A k \in whole : n <= k) = m
  <2>1. PICK first : first = CHOOSE n \in whole : \A k \in whole : n <= k
    OBVIOUS
  <2>2. first \in whole /\ \A k \in whole : first <= k
    BY <1>6, <2>1
  <2>3. first <= m /\ m <= first /\ first \in Nat
    BY <1>5, <1>6, <2>2
  <2>4. QED
    BY <1>5, <2>1, <2>3
<1>8. Reaction(a) = SubSeq(a, 1, m)
  <2>1. whole # {}
    BY <1>6
  <2>2. Reaction(a) = IF whole = {} THEN a
                      ELSE SubSeq(a, 1, CHOOSE n \in whole : \A k \in whole : n <= k)
    BY DEF Reaction
  <2> HIDE DEF whole
  <2>3. QED
    BY <1>7, <2>1, <2>2
<1>9. /\ SubSeq(a, 1, m) \in Seq(Event)
      /\ Len(SubSeq(a, 1, m)) = m
      /\ \A i \in 1 .. m : SubSeq(a, 1, m)[i] = a[i]
  <2>1. \A i \in 1 .. m : a[i] \in Event
    BY <1>5, ElementOfSeq
  <2>2. /\ SubSeq(a, 1, m) \in Seq(Event)
        /\ Len(SubSeq(a, 1, m)) = IF 1 <= m THEN m - 1 + 1 ELSE 0
        /\ \A i \in 1 .. m - 1 + 1 : SubSeq(a, 1, m)[i] = a[1 + i - 1]
    BY <1>5, <2>1, SubSeqProperties
  <2>3. m - 1 + 1 = m /\ 1 <= m /\ \A i \in 1 .. m : 1 + i - 1 = i
    BY <1>5
  <2>4. QED
    BY <2>2, <2>3
<1>10. reaction[c] = SubSeq(a, 1, m)
  <2>1. PICK r \in Seq(Event) : r = reaction[c]
    BY <1>1
  <2>2. PICK t \in Seq(Event) : t = SubSeq(a, 1, m)
    BY <1>9
  <2>3. Len(r) = Len(t) /\ \A i \in 1 .. Len(r) : r[i] = t[i]
    BY <1>2, <1>4, <1>9, <2>1, <2>2
  <2>4. r = t
    BY <2>3, SeqEqual
  <2>5. QED
    BY <2>1, <2>2, <2>4
<1>11. QED
  BY <1>2, <1>8, <1>10

(* At first nothing has arrived, and nothing is in the vectors.            *)
LEMMA InitOrder == InvokeInit => OrderInv
<1> SUFFICES ASSUME InvokeInit, NEW c \in Pipes PROVE OrderOf(c)
  BY DEF OrderInv
<1>1. c \in Sources /\ arrived[c] = 0 /\ future[c] = "none" /\ events = <<>> /\ events_ = <<>>
  BY DEF InvokeInit, Init, W!Init, Sources
<1>2. Queue = <<>> /\ Len(Queue) = 0
  <2>1. PICK q \in Seq(Event) : q = <<>>
    BY EmptySeq
  <2>2. Queue = q
    BY <1>1, <2>1, ConcatEmptySeq DEF Queue
  <2>3. QED
    BY <2>1, <2>2, EmptySeq
<1>3. Got(c, 0) /\ 0 \in 0 .. arrived[c]
  BY <1>1 DEF Got
<1>4. PICK at : at = [n \in {} |-> n]
  OBVIOUS
<1>5. 0 + 1 .. arrived[c] = {}
  BY <1>1
<1>6. at \in [0 + 1 .. arrived[c] -> 1 .. Len(Queue)]
  BY <1>4, <1>5
<1>7. Lined(c, 0, at)
  BY <1>1, <1>2 DEF Lined
<1>8. QED
  BY <1>3, <1>6, <1>7 DEF OrderOf

(* Where the calls' ActionIDs are different and the server's answers carry *)
(* them, invoke returns the reaction to the very action it has sent: all   *)
(* of it, in order, and nothing else.                                      *)
THEOREM OwnReactions == OwnAnswers => (InvokeSpec => []ReturnsOwnReaction)
<1> SUFFICES ASSUME OwnAnswers PROVE InvokeSpec => []ReturnsOwnReaction
  OBVIOUS
<1>1. InvokeInit => LeftoverInv /\ KeptInv /\ OrderInv
  BY InitKept, InitOrder
<1>2. (DispatcherInv /\ CallInv) /\ LeftoverInv /\ [InvokeNext]_ivars => LeftoverInv'
  BY LeftoverStep DEF DispatcherInv, CallInv
<1>3. (DispatcherInv /\ CallInv) /\ LeftoverInv /\ KeptInv /\ [InvokeNext]_ivars => KeptInv'
  BY KeptStep DEF DispatcherInv
<1>4. (DispatcherInv /\ CallInv) /\ LeftoverInv /\ KeptInv /\ OrderInv /\ [InvokeNext]_ivars => OrderInv'
  BY OrderStep DEF CallsInv
<1>5. (DispatcherInv /\ CallInv) /\ OrderInv => ReturnsOwnReaction
  BY GotReaction DEF OrderInv, ReturnsOwnReaction, DispatcherInv, CallInv
<1>6. QED
  BY <1>1, <1>2, <1>3, <1>4, <1>5, CallInvariance, PTL DEF InvokeSpec
================================================================================
