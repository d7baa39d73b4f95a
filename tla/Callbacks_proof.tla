----------------------------- MODULE Callbacks_proof -----------------------------
(***************************************************************************)
(* The event callbacks, for any number of them, of calls and of messages:  *)
(* every step of a Connection with callbacks is one of module Invoke, so   *)
(* what holds of the calls holds here; a callback that has been removed is *)
(* not called; and a call made in a callback gets no reaction.             *)
(***************************************************************************)
EXTENDS Callbacks, Invoke_proof

LEMMA StepsOfCalls == [CallbacksNext]_cvars => [InvokeNext]_ivars
  BY DEF CallbacksNext, InvokeNext, AddCallback, RemoveCallback, CallbackCall, HandleAnswer, Round,
         BeginRound, Enter, Leave, EndRound, StopConnection, cvars

LEMMA CallsInvStep == CallsInv /\ [CallbacksNext]_cvars => CallsInv'
<1> SUFFICES ASSUME CallsInv, [CallbacksNext]_cvars PROVE CallsInv'
  OBVIOUS
<1>1. [InvokeNext]_ivars
  BY StepsOfCalls
<1>2. DispatcherInv' /\ CallInv'
  BY <1>1, DispatcherStep, CallInvStep DEF CallsInv, CallInv
<1>3. LeftoverInv'
  BY <1>1, LeftoverStep DEF CallsInv, DispatcherInv, CallInv
<1>4. QED
  BY <1>2, <1>3 DEF CallsInv

LEMMA CallsInvInit == CallbacksInit => CallsInv
  BY InitCalls, IdAssumption
     DEF CallbacksInit, InvokeInit, Init, W!Init, CallsInv, LeftoverInv, PromiseInv, QuietInv,
         AssertNeedsFailedWrite, Waiting

-----------------------------------------------------------------------------
(* The mutex: outside a round nothing is left to call, and registrations   *)
(* change outside rounds only.                                             *)
RoundInv == /\ inhand = <<>> => todo = {} /\ running = NoKey
            /\ running \in callbacks_ \cup {NoKey}
            /\ todo \subseteq callbacks_

LEMMA RoundInvStep == RoundInv /\ [CallbacksNext]_cvars => RoundInv'
<1> SUFFICES ASSUME RoundInv, [CallbacksNext]_cvars PROVE RoundInv'
  OBVIOUS
<1> USE DEF RoundInv
<1>1. CASE UNCHANGED cbVars
  BY <1>1 DEF cbVars
<1>2. ASSUME NEW k \in Keys, AddCallback(k) \/ RemoveCallback(k) PROVE RoundInv'
  BY <1>2 DEF AddCallback, RemoveCallback, MutexFree
<1>3. CASE BeginRound
  <2>1. inhand' # <<>>
    BY <1>3 DEF BeginRound
  <2>2. running = NoKey /\ UNCHANGED <<callbacks_, running>> /\ todo' = callbacks_
    BY <1>3 DEF BeginRound, ThreadFree
  <2>3. QED
    BY <2>1, <2>2
<1>4. CASE (\E k \in Keys : Enter(k)) \/ Leave \/ EndRound
  BY <1>4 DEF Enter, Leave, EndRound
<1>5. QED
  BY <1>1, <1>2, <1>3, <1>4
     DEF CallbacksNext, CallbackCall, HandleAnswer, Round, StopConnection, cvars

(* Connection.cpp, remove_callback: once it has returned, the callback is  *)
(* not running and is not called again, not even for the message that is   *)
(* being handed round.                                                     *)
THEOREM RemovedIsNotCalled == CallbacksSpec => []NotCalledOnceRemoved
<1>1. CallbacksInit => RoundInv
  BY DEF CallbacksInit, RoundInv
<1>2. RoundInv => NotCalledOnceRemoved
  BY DEF RoundInv, NotCalledOnceRemoved
<1>3. QED
  BY <1>1, <1>2, RoundInvStep, PTL DEF CallbacksSpec

-----------------------------------------------------------------------------
(* A call made in a callback: while it is under way its callback runs, so  *)
(* that no message is handled, and its future is settled by its timeout    *)
(* alone.                                                                  *)
UnderWay(c) == pc[c] \in {"piped", "sending", "waiting", "expired"}

InnerInv ==
    \A c \in Inner : Sync(c) =>
        /\ UnderWay(c) => running # NoKey /\ InnerCall[running] = c /\ future[c] = "pending"
        /\ pc[c] \in {"cancelled", "ended"} => future[c] = "exception"
        /\ pc[c] = "cancelled" => running # NoKey /\ InnerCall[running] = c

(* The steps of the call itself.                                           *)
LEMMA OwnSteps ==
    ASSUME DistinctIds, CallsInv, InnerInv, NEW c \in Inner, Sync(c), c \in Pipes,
           running # NoKey, InnerCall[running] = c, Call(c), UNCHANGED running
    PROVE  /\ UnderWay(c)' => future'[c] = "pending"
           /\ pc'[c] \in {"cancelled", "ended"} => future'[c] = "exception"
<1> USE DEF CallsInv, DispatcherInv, MapInv
<1>1. ASSUME NEW state \in CallStates, Goto(c, state) PROVE pc'[c] = state
  BY <1>1 DEF Goto, CallInv, CallTypes
<1>2. CASE GetPipe(c)
  <2>1. pc[c] = "idle" /\ pc'[c] = "piped" /\ GetEventPipe(c, ActionId[c]) /\ ActionId[c] \in Ids
    BY <1>2, InvokeAssumption DEF GetPipe, MayStart, Goto, CallInv, CallTypes
  <2>2. ASSUME Waiting(ActionId[c]) PROVE FALSE
    <3>1. /\ promise_map_[ActionId[c]] \in Pipes
          /\ HoldsPromise(promise_map_[ActionId[c]])
          /\ ActionId[promise_map_[ActionId[c]]] = ActionId[c]
      BY <2>1, <2>2 DEF LeftoverInv, PromiseInv, Waiting, MapTypes
    <3>2. promise_map_[ActionId[c]] = c
      BY <3>1 DEF DistinctIds
    <3>3. QED
      BY <2>1, <3>1, <3>2 DEF HoldsPromise
  <2>3. future'[c] = "pending"
    BY <2>1, <2>2 DEF GetEventPipe, MapTypes
  <2>4. QED
    BY <2>1, <2>3
<1>3. CASE Write(c) \/ TimeOut(c)
  <2>1. future' = future /\ UnderWay(c) /\ pc'[c] \in {"sending", "waiting", "expired", "threw"}
    BY <1>3 DEF Write, BeginSend, FinishSend, SendShort, WriteThrows, TimeOut, MayWrite, AfterWrite,
                Goto, UnderWay, vars, mapVars, CallInv, CallTypes
  <2>2. QED
    BY <2>1 DEF InnerInv, UnderWay
<1>4. CASE CancelPipe(c)
  <2>1. pc[c] = "expired" /\ pc'[c] = "cancelled" /\ Give(ActionId[c], "exception")
    BY <1>4 DEF CancelPipe, SetExceptionOnPipe, Goto, CallInv, CallTypes
  <2>2. future[c] = "pending"
    BY <2>1 DEF InnerInv, UnderWay
  <2>3. PICK id \in Ids : promise_map_[id] = c
    BY <2>2 DEF PipeInv
  <2>4. Waiting(id)
    BY <2>3, IdAssumption DEF Waiting
  <2>5. id = ActionId[c]
    BY <2>3, <2>4 DEF LeftoverInv, PromiseInv
  <2>6. future'[c] = "exception"
    BY <2>1, <2>3, <2>4, <2>5 DEF Give, MapTypes
  <2>7. QED
    BY <2>1, <2>6 DEF UnderWay
<1>5. CASE GetReaction(c)
  <2>1. pc[c] \in {"waiting", "cancelled"} /\ future[c] # "pending" /\ future' = future /\ pc'[c] = "ended"
    BY <1>5 DEF GetReaction, Ready, Goto, vars, mapVars, CallInv, CallTypes
  <2>2. pc[c] = "cancelled"
    BY <2>1 DEF InnerInv, UnderWay
  <2>3. QED
    BY <2>1, <2>2 DEF InnerInv, UnderWay
<1>6. QED
  BY <1>2, <1>3, <1>4, <1>5 DEF Call

LEMMA InnerInvStep ==
    ASSUME DistinctIds, CallsInv, RoundInv, InnerInv, [CallbacksNext]_cvars
    PROVE  InnerInv'
<1>1. SUFFICES ASSUME NEW c \in Inner, Sync(c)
               PROVE  /\ UnderWay(c)' => running' # NoKey /\ InnerCall[running'] = c /\ future'[c] = "pending"
                      /\ pc'[c] \in {"cancelled", "ended"} => future'[c] = "exception"
                      /\ pc'[c] = "cancelled" => running' # NoKey /\ InnerCall[running'] = c
  BY DEF InnerInv, UnderWay, Sync
<1>2. c \in Pipes
  BY CallbackAssumption DEF Inner
<1>3. /\ UnderWay(c) => running # NoKey /\ InnerCall[running] = c /\ future[c] = "pending"
      /\ pc[c] \in {"cancelled", "ended"} => future[c] = "exception"
      /\ pc[c] = "cancelled" => running # NoKey /\ InnerCall[running] = c
  BY <1>1 DEF InnerInv
<1>4. CASE pc'[c] = pc[c] /\ future'[c] = future[c] /\ running' = running
  BY <1>3, <1>4 DEF UnderWay
<1>5. ASSUME pc' = pc, ~UnderWay(c), pc[c] # "cancelled",
             future[c] = "exception" => future'[c] = "exception"
      PROVE  /\ ~UnderWay(c)' /\ pc'[c] # "cancelled"
             /\ pc'[c] \in {"cancelled", "ended"} => future'[c] = "exception"
  BY <1>3, <1>5 DEF UnderWay
<1>6. ASSUME NEW d \in Pipes, CallbackCall(d)
      PROVE  /\ UnderWay(c)' => running' # NoKey /\ InnerCall[running'] = c /\ future'[c] = "pending"
             /\ pc'[c] \in {"cancelled", "ended"} => future'[c] = "exception"
             /\ pc'[c] = "cancelled" => running' # NoKey /\ InnerCall[running'] = c
  <2>1. Call(d) /\ running' = running /\ (d = c => running # NoKey /\ InnerCall[running] = c)
    BY <1>1, <1>6 DEF CallbackCall, cbVars
  <2>2. CASE d = c
    BY <1>1, <1>2, <2>1, <2>2, OwnSteps
  <2>3. CASE d # c
    BY <1>2, <1>4, <2>1, <2>3, OthersKeepFuture
  <2>4. QED
    BY <2>2, <2>3
<1>7. CASE HandleAnswer \/ BeginRound
  <2>1. Handle /\ running = NoKey /\ pc' = pc
    BY <1>7 DEF HandleAnswer, BeginRound, ThreadFree, RoundInv, Handle
  <2>2. PICK e \in Event : e = W!Current
    BY <2>1, CurrentIsEvent DEF CallsInv, DispatcherInv, Handle, DispatchEvent
  <2>3. future[c] = "exception" => future'[c] = "exception"
    BY <1>2, <2>1, <2>2, DispatchKeeps DEF CallsInv, DispatcherInv, Handle, DispatchEvent
  <2>4. QED
    BY <1>3, <1>5, <2>1, <2>3
<1>8. CASE Leave
  <2>1. Made(running) => Ended(InnerCall[running])
    BY <1>8 DEF Leave
  <2>2. c # NoPipe
    BY <1>2, IdAssumption
  <2>3. ~UnderWay(c) /\ pc[c] # "cancelled"
    BY <1>3, <2>1, <2>2 DEF Made, Ended, UnderWay
  <2>4. pc' = pc /\ future' = future
    BY <1>8 DEF Leave, ivars, callVars, vars, mapVars
  <2>5. QED
    BY <1>5, <2>3, <2>4
<1>9. ASSUME NEW k \in Keys, Enter(k)
      PROVE  /\ UnderWay(c)' => running' # NoKey /\ InnerCall[running'] = c /\ future'[c] = "pending"
             /\ pc'[c] \in {"cancelled", "ended"} => future'[c] = "exception"
             /\ pc'[c] = "cancelled" => running' # NoKey /\ InnerCall[running'] = c
  <2>1. running = NoKey /\ pc' = pc /\ future' = future
    BY <1>9 DEF Enter, ivars, callVars, vars, mapVars
  <2>2. QED
    BY <1>3, <1>5, <2>1
<1>10. CASE Cleanup /\ UNCHANGED cbVars
  <2>1. stopper = "joined" /\ pc' = pc
    BY <1>10 DEF Cleanup, CleanupObject, callVars
  <2>2. ~UnderWay(c) /\ pc[c] # "cancelled"
    BY <1>2, <2>1 DEF CallsInv, LeftoverInv, QuietInv, UnderWay, Ended
  <2>3. future[c] = "exception" => future'[c] = "exception"
    <3>1. CASE UNCHANGED future
      BY <3>1
    <3>2. CASE future' = [d \in Pipes |-> IF \E id \in Ids : promise_map_[id] = d THEN "null"
                                                                             ELSE future[d]]
      BY <1>2, <3>2 DEF CallsInv, DispatcherInv, MapInv, PipeInv
    <3>3. QED
      BY <1>10, <3>1, <3>2 DEF Cleanup, CleanupObject
  <2>4. QED
    BY <1>5, <2>1, <2>2, <2>3
<1>11. CASE UNCHANGED <<pc, future, running>>
  BY <1>4, <1>11
<1>12. QED
  BY <1>6, <1>7, <1>8, <1>9, <1>10, <1>11
     DEF CallbacksNext, AddCallback, RemoveCallback, Round, EndRound, Arrive, Run, StopConnection, Stop,
         Over, cvars, cbVars, ivars, callVars, vars, mapVars

(* A callback occupies the thread that collects reactions: where ActionIDs *)
(* are different, a call of invoke made in a callback can only time out,   *)
(* however many callbacks, calls and messages there are.                   *)
THEOREM CallsOfCallbacksTimeOut == DistinctIds => (CallbacksSpec => []InnerCallsTimeOut)
<1> SUFFICES ASSUME DistinctIds PROVE CallbacksSpec => []InnerCallsTimeOut
  OBVIOUS
<1>1. CallbacksInit => CallsInv /\ RoundInv /\ InnerInv
  <2>1. CallbacksInit => RoundInv
    BY DEF CallbacksInit, RoundInv
  <2>2. CallbacksInit => InnerInv
    BY CallbackAssumption DEF CallbacksInit, InvokeInit, InnerInv, UnderWay, Inner
  <2>3. QED
    BY <2>1, <2>2, CallsInvInit
<1>2. (CallsInv /\ RoundInv /\ InnerInv) /\ [CallbacksNext]_cvars => (CallsInv /\ RoundInv /\ InnerInv)'
  BY CallsInvStep, RoundInvStep, InnerInvStep
<1>3. InnerInv => InnerCallsTimeOut
  BY DEF InnerInv, InnerCallsTimeOut
<1>4. QED
  BY <1>1, <1>2, <1>3, PTL DEF CallbacksSpec

-----------------------------------------------------------------------------
(* What the callbacks are called with: those that are registered have seen *)
(* every message handed round since then; the one in hand has been seen by *)
(* all but those that are left to call.                                    *)
CallbackTypes == /\ callbacks_ \subseteq registered
                 /\ registered \subseteq Keys
                 /\ rounds \in Seq(Event) /\ Elements(rounds) = notified
                 /\ inhand = <<>> \/ (rounds # <<>> /\ inhand = <<rounds[Len(rounds)]>>)
                 /\ seen \in [Keys -> Seq(Event)]
                 /\ before \in [Keys -> 0 .. Len(rounds)]

Saw(k, n) == /\ Len(seen[k]) = n - before[k]
             /\ \A i \in 1 .. n - before[k] : seen[k][i] = rounds[before[k] + i]

SeenInv == /\ \A k \in callbacks_ : Saw(k, IF k \in todo THEN Len(rounds) - 1 ELSE Len(rounds))
           /\ \A k \in Keys \ registered : seen[k] = <<>>

SightInv == RoundInv /\ CallbackTypes /\ SeenInv

LEMMA SightUnchanged ==
    ASSUME CallbackTypes, SeenInv, UNCHANGED cbVars, UNCHANGED notified
    PROVE  CallbackTypes' /\ SeenInv'
  BY DEF cbVars, CallbackTypes, SeenInv, Saw

(* A callback that is registered has nothing to catch up with.             *)
LEMMA AddSight == ASSUME SightInv, NEW k \in Keys, AddCallback(k) PROVE CallbackTypes' /\ SeenInv'
<1>1. /\ k \notin registered /\ todo = {} /\ seen[k] = <<>>
      /\ callbacks_' = callbacks_ \cup {k} /\ registered' = registered \cup {k}
      /\ before' = [before EXCEPT ![k] = Len(rounds)]
      /\ UNCHANGED <<inhand, rounds, todo, seen, notified>>
  BY DEF AddCallback, MutexFree, SightInv, RoundInv, SeenInv, ivars, callVars
<1>2. Len(rounds) \in Nat /\ before \in [Keys -> 0 .. Len(rounds)]
  BY LenProperties DEF SightInv, CallbackTypes
<1>3. CallbackTypes'
  BY <1>1, <1>2 DEF SightInv, CallbackTypes
<1>4. Saw(k, Len(rounds))'
  <2>1. before'[k] = Len(rounds) /\ Len(seen'[k]) = 0
    BY <1>1, <1>2, EmptySeq
  <2>2. QED
    BY <1>1, <1>2, <2>1 DEF Saw
<1>5. ASSUME NEW j \in callbacks_ PROVE Saw(j, Len(rounds))'
  <2>1. j \in Keys /\ j # k /\ Saw(j, Len(rounds))
    BY <1>1 DEF SightInv, CallbackTypes, SeenInv
  <2>2. before'[j] = before[j]
    BY <1>1, <1>2, <2>1
  <2>3. QED
    BY <1>1, <2>1, <2>2 DEF Saw
<1>6. SeenInv'
  BY <1>1, <1>4, <1>5 DEF SightInv, SeenInv
<1>7. QED
  BY <1>3, <1>6

(* A round begins: all callbacks are left to call.                         *)
LEMMA BeginSight == ASSUME W!TypeOK, SightInv, BeginRound PROVE CallbackTypes' /\ SeenInv'
<1>1. PICK e \in Event : e = W!Current
  BY CurrentIsEvent DEF BeginRound, Handle, DispatchEvent
<1>2. /\ todo = {} /\ inhand' = <<e>> /\ rounds' = Append(rounds, e) /\ todo' = callbacks_
      /\ UNCHANGED <<callbacks_, registered, seen, before>>
      /\ notified' = notified \cup {e}
  BY <1>1 DEF BeginRound, MutexFree, Handle, SightInv, RoundInv
<1>3. /\ rounds \in Seq(Event) /\ Len(rounds) \in Nat /\ Elements(rounds) = notified
      /\ before \in [Keys -> 0 .. Len(rounds)]
  BY LenProperties DEF SightInv, CallbackTypes
<1>4. /\ rounds' \in Seq(Event) /\ Len(rounds') = Len(rounds) + 1
      /\ \A i \in 1 .. Len(rounds) : rounds'[i] = rounds[i]
      /\ rounds'[Len(rounds')] = e
  BY <1>2, <1>3, AppendProperties
<1>5. Elements(rounds') = notified'
  BY <1>2, <1>3, ElementsAppend
<1>6. rounds' # <<>>
  BY <1>3, <1>4, EmptySeq
<1>7. CallbackTypes'
  BY <1>2, <1>3, <1>4, <1>5, <1>6 DEF SightInv, CallbackTypes
<1>8. ASSUME NEW k \in callbacks_ PROVE Saw(k, Len(rounds) - 1)'
  <2>1. k \in Keys /\ Saw(k, Len(rounds)) /\ before[k] \in 0 .. Len(rounds)
    BY <1>2, <1>3 DEF SightInv, CallbackTypes, SeenInv
  <2>2. \A i \in 1 .. Len(rounds) - before[k] : before[k] + i \in 1 .. Len(rounds)
    BY <1>3, <2>1
  <2>3. QED
    BY <1>2, <1>3, <1>4, <2>1, <2>2 DEF Saw
<1>9. SeenInv'
  BY <1>2, <1>8 DEF SightInv, SeenInv
<1>10. QED
  BY <1>7, <1>9

(* A callback that is called sees the message in hand after all before it. *)
LEMMA EnterSight == ASSUME SightInv, NEW k \in Keys, Enter(k) PROVE CallbackTypes' /\ SeenInv'
<1>1. /\ k \in todo /\ k \in callbacks_ /\ todo' = todo \ {k}
      /\ seen' = [seen EXCEPT ![k] = @ \o inhand]
      /\ UNCHANGED <<callbacks_, registered, inhand, rounds, before, notified>>
  BY DEF Enter, SightInv, RoundInv, ivars, callVars
<1> DEFINE n == Len(rounds)
           e == rounds[n]
           s == seen[k]
<1>2. /\ rounds \in Seq(Event) /\ n \in Nat \ {0} /\ inhand = <<e>>
      /\ s \in Seq(Event) /\ Len(s) \in Nat
      /\ before \in [Keys -> 0 .. n]
  <2>1. rounds \in Seq(Event) /\ n \in Nat /\ rounds # <<>> /\ inhand = <<e>>
    BY <1>1, LenProperties DEF SightInv, RoundInv, CallbackTypes
  <2>2. n # 0
    BY <2>1, EmptySeq
  <2>3. QED
    BY <1>1, <2>1, <2>2, LenProperties DEF SightInv, CallbackTypes
<1>3. e \in Event
  BY <1>2, ElementOfSeq
<1>4. Saw(k, n - 1)
  BY <1>1 DEF SightInv, SeenInv
<1>5. /\ s \o <<e>> \in Seq(Event)
      /\ Len(s \o <<e>>) = Len(s) + 1
      /\ \A i \in 1 .. Len(s) : (s \o <<e>>)[i] = s[i]
      /\ (s \o <<e>>)[Len(s) + 1] = e
  <2> DEFINE one == <<e>>
  <2>1. one \in Seq(Event) /\ Len(one) = 1 /\ one[1] = e
    BY <1>3
  <2> HIDE DEF one, s, e
  <2>2. /\ s \o one \in Seq(Event)
        /\ Len(s \o one) = Len(s) + Len(one)
        /\ \A i \in 1 .. Len(s) + Len(one) :
              (s \o one)[i] = IF i <= Len(s) THEN s[i] ELSE one[i - Len(s)]
    BY <1>2, <2>1, ConcatProperties
  <2>3. QED
    BY <1>2, <2>1, <2>2 DEF one
<1>6. seen'[k] = s \o <<e>> /\ \A j \in Keys \ {k} : seen'[j] = seen[j]
  BY <1>1, <1>2 DEF SightInv, CallbackTypes
<1>7. CallbackTypes'
  BY <1>1, <1>2, <1>5 DEF SightInv, CallbackTypes
<1>8. Saw(k, n)'
  <2>1. before'[k] = before[k] /\ before[k] \in 0 .. n /\ Len(s) = n - 1 - before[k]
    BY <1>1, <1>2, <1>4 DEF Saw
  <2>2. Len(seen'[k]) = n - before[k]
    BY <1>2, <1>5, <1>6, <2>1
  <2>3. ASSUME NEW i \in 1 .. n - before[k] PROVE seen'[k][i] = rounds[before[k] + i]
    <3>1. CASE i \in 1 .. Len(s)
      BY <1>4, <1>5, <1>6, <2>1, <3>1 DEF Saw
    <3>2. CASE i = Len(s) + 1
      <4>1. before[k] + i = n
        BY <1>2, <2>1, <3>2
      <4>2. QED
        BY <1>5, <1>6, <3>2, <4>1
    <3>3. QED
      BY <1>2, <2>1, <3>1, <3>2
  <2>4. QED
    BY <1>1, <2>1, <2>2, <2>3 DEF Saw
<1>9. ASSUME NEW j \in callbacks_ \ {k}
      PROVE  Saw(j, IF j \in todo THEN Len(rounds) - 1 ELSE Len(rounds))'
  <2>1. j \in Keys /\ seen'[j] = seen[j] /\ (j \in todo' <=> j \in todo)
    BY <1>1, <1>6, <1>9 DEF SightInv, CallbackTypes
  <2>2. Saw(j, IF j \in todo THEN n - 1 ELSE n)
    BY <1>9 DEF SightInv, SeenInv
  <2>3. QED
    BY <1>1, <2>1, <2>2 DEF Saw
<1>10. SeenInv'
  <2>1. \A j \in Keys \ registered' : seen'[j] = <<>>
    BY <1>1, <1>6 DEF SightInv, SeenInv, CallbackTypes
  <2>2. k \notin todo'
    BY <1>1
  <2>3. QED
    BY <1>1, <1>8, <1>9, <2>1, <2>2 DEF SeenInv
<1>11. QED
  BY <1>7, <1>10

LEMMA SightStep == ASSUME W!TypeOK, SightInv, [CallbacksNext]_cvars PROVE SightInv'
<1> SUFFICES CallbackTypes' /\ SeenInv'
  BY RoundInvStep DEF SightInv
<1>1. CASE UNCHANGED cbVars /\ UNCHANGED notified
  BY <1>1, SightUnchanged DEF SightInv
<1>2. ASSUME NEW k \in Keys, RemoveCallback(k) PROVE CallbackTypes' /\ SeenInv'
  BY <1>2 DEF RemoveCallback, SightInv, CallbackTypes, SeenInv, Saw, ivars, callVars
<1>3. CASE HandleAnswer
  <2>1. UNCHANGED cbVars /\ UNCHANGED notified
    BY <1>3 DEF HandleAnswer, Handle
  <2>2. QED
    BY <1>1, <2>1
<1>4. CASE Leave \/ EndRound
  BY <1>4 DEF Leave, EndRound, SightInv, RoundInv, CallbackTypes, SeenInv, Saw, ivars, callVars
<1>5. ASSUME NEW c \in Pipes, CallbackCall(c) PROVE UNCHANGED cbVars /\ UNCHANGED notified
  BY <1>5 DEF CallbackCall, Call, GetPipe, Write, BeginSend, FinishSend, SendShort, WriteThrows, TimeOut,
              CancelPipe, GetReaction
<1>6. QED
  BY <1>1, <1>2, <1>3, <1>4, <1>5, AddSight, BeginSight, EnterSight
     DEF CallbacksNext, Round, Arrive, Run, StopConnection, Stop, Cleanup, Over, cvars, ivars, callVars

LEMMA InitSight == CallbacksInit => SightInv
<1> SUFFICES ASSUME CallbacksInit PROVE SightInv
  OBVIOUS
<1>1. rounds = <<>> /\ rounds \in Seq(Event) /\ Len(rounds) = 0 /\ notified = {} /\ inhand = <<>>
  BY EmptySeq DEF CallbacksInit, InvokeInit
<1>2. Elements(rounds) = {}
  BY <1>1 DEF Elements
<1>3. CallbackTypes
  BY <1>1, <1>2, EmptySeq DEF CallbacksInit, CallbackTypes
<1>4. QED
  BY <1>3 DEF CallbacksInit, SightInv, RoundInv, SeenInv

(* Connection.hpp, add_callback: however registrations, messages and calls *)
(* interleave, a callback is called with every message that is handed      *)
(* round while it is registered, once and in order, and with no other.     *)
LEMMA SightIsSubSeq == SightInv => SeesAllWhileRegistered
<1> SUFFICES ASSUME SightInv, inhand = <<>>, NEW k \in callbacks_
             PROVE  seen[k] = SubSeq(rounds, before[k] + 1, Len(rounds))
  BY DEF SeesAllWhileRegistered
<1> DEFINE b == before[k]
           n == Len(rounds)
<1>1. /\ rounds \in Seq(Event) /\ n \in Nat /\ k \in Keys /\ b \in 0 .. n
      /\ seen[k] \in Seq(Event) /\ Saw(k, n)
  BY LenProperties DEF SightInv, RoundInv, CallbackTypes, SeenInv
<1>2. PICK s \in Seq(Event) : s = seen[k]
  BY <1>1
<1>3. \A i \in b + 1 .. n : rounds[i] \in Event
  BY <1>1, ElementOfSeq
<1>4. PICK t : t = SubSeq(rounds, b + 1, n)
  OBVIOUS
<1>5. /\ t \in Seq(Event)
      /\ Len(t) = n - b
      /\ \A i \in 1 .. n - b : t[i] = rounds[b + i]
  <2>1. /\ SubSeq(rounds, b + 1, n) \in Seq(Event)
        /\ Len(SubSeq(rounds, b + 1, n)) = IF b + 1 <= n THEN n - (b + 1) + 1 ELSE 0
        /\ \A i \in 1 .. n - (b + 1) + 1 : SubSeq(rounds, b + 1, n)[i] = rounds[(b + 1) + i - 1]
    BY <1>1, <1>3, SubSeqProperties
  <2> HIDE DEF b, n
  <2>2. n - (b + 1) + 1 = n - b
    BY <1>1
  <2>3. Len(t) = n - b
    BY <1>1, <1>4, <2>1, <2>2
  <2>4. ASSUME NEW i \in 1 .. n - b PROVE t[i] = rounds[b + i]
    <3>1. t[i] = rounds[(b + 1) + i - 1]
      BY <1>4, <2>1, <2>2
    <3>2. (b + 1) + i - 1 = b + i
      BY <1>1
    <3>3. QED
      BY <3>1, <3>2
  <2>5. QED
    BY <1>4, <2>1, <2>3, <2>4
<1>6. Len(s) = Len(t) /\ \A i \in 1 .. Len(s) : s[i] = t[i]
  BY <1>1, <1>2, <1>5 DEF Saw
<1>7. s = t
  BY <1>2, <1>5, <1>6, SeqEqual
<1>8. QED
  BY <1>2, <1>4, <1>7

(* Connection.cpp, dispatch_handler: a callback that stays registered gets *)
(* every message that is handed round from its registration on, each once  *)
(* and in the order of the rounds, whatever callbacks come and go between. *)
THEOREM RegisteredSeeAll == CallbacksSpec => []SeesAllWhileRegistered
<1>1. CallsInv /\ SightInv /\ [CallbacksNext]_cvars => (CallsInv /\ SightInv)'
  BY CallsInvStep, SightStep DEF CallsInv, DispatcherInv
<1>2. QED
  BY <1>1, CallsInvInit, InitSight, SightIsSubSeq, PTL DEF CallbacksSpec

(* Types, of the callbacks and of the calls around them; and that outside  *)
(* a round there is nothing left of one.                                   *)
THEOREM CallbackTyping == CallbacksSpec => []CallbacksTypeOK
<1>1. CallsInv /\ CallPlaces /\ SightInv /\ [CallbacksNext]_cvars => (CallsInv /\ CallPlaces /\ SightInv)'
  BY StepsOfCalls, CallsInvStep, PlacesStep, SightStep DEF CallsInv, DispatcherInv
<1>2. CallbacksInit => CallsInv /\ CallPlaces /\ SightInv
  BY CallsInvInit, InitPlaces, InitSight DEF CallbacksInit
<1>3. CallsInv /\ CallPlaces /\ SightInv => CallbacksTypeOK
  BY PlacesAreTyped DEF SightInv, RoundInv, CallbackTypes, CallbacksTypeOK
<1>4. QED
  BY <1>1, <1>2, <1>3, PTL DEF CallbacksSpec

(* Connection.hpp, async_invoke: with callbacks that take their time, and  *)
(* calls made in them, its answers still come to the callbacks, where the  *)
(* calls' ActionIDs are different.                                         *)
THEOREM AsyncMessagesHandedRound == OwnAnswers => (CallbacksSpec => []AsyncAnswersNotified)
<1> SUFFICES ASSUME OwnAnswers PROVE CallbacksSpec => []AsyncAnswersNotified
  OBVIOUS
<1>1. CallbacksInit => AsyncInv
  BY InitAsync DEF CallbacksInit
<1>2. AsyncInv /\ [CallbacksNext]_cvars => AsyncInv'
  BY AsyncInvStep, StepsOfCalls
<1>3. AsyncInv => AsyncAnswersNotified
  BY AsyncComesToCallback
<1>4. QED
  BY <1>1, <1>2, <1>3, PTL DEF CallbacksSpec
================================================================================
