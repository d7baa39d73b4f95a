------------------------- MODULE EventDispatcher_proof -------------------------
(***************************************************************************)
(* The agreement of the dispatcher's two maps with each other and with the *)
(* futures handed out, for any number of calls, ActionIDs and messages and *)
(* either kind of build.                                                   *)
(*                                                                         *)
(* PipeInv, ListHasPipe and ListShape are inductive together with the      *)
(* types: each step that erases a promise erases the list under the same   *)
(* ActionID in the same critical section, and a list is only begun while a *)
(* promise is there.                                                       *)
(***************************************************************************)
EXTENDS EventDispatcher, SequenceTheorems, TLAPS

USE DEF Closes, Success

MapTypes == /\ promise_map_ \in [Ids -> Pipes \cup {NoPipe}]
            /\ event_map_ \in [Ids -> Seq(Event)]
            /\ future \in [Pipes -> FutureStates]
            /\ reaction \in [Pipes -> Seq(Event)]
            /\ cleanup \in CleanupStates
            /\ \A c \in Pipes : future[c] # "value" => reaction[c] = <<>>

-----------------------------------------------------------------------------
(* The work thread's part of the state is typed by the work thread's steps *)
(* alone, whatever a handled message does to the maps.                     *)
LEMMA ThreadTyping == W!TypeOK /\ [W!Next]_(W!wvars) => W!TypeOK'
<1> SUFFICES ASSUME W!TypeOK, [W!Next]_(W!wvars) PROVE W!TypeOK'
  OBVIOUS
<1> USE DEF W!TypeOK, W!WorkerStates, W!StopperStates
<1>1. ASSUME NEW x \in Event, W!Add(x) PROVE W!TypeOK'
  <2>1. events_' \in Seq(Event)
    BY <1>1, AppendProperties DEF W!Add
  <2>2. QED
    BY <1>1, <2>1 DEF W!Add, W!MutexFree, W!Notified
<1>2. CASE W!HandleBatch
  BY <1>2, HeadTailProperties DEF W!HandleBatch
<1>3. CASE W!HandleDrain
  BY <1>3, HeadTailProperties DEF W!HandleDrain
<1>4. CASE W!Housekeeping
  BY <1>4 DEF W!Housekeeping, W!Swap, W!EnterLoop, W!DecideToWait, W!FallAsleep,
              W!Reacquire, W!FinishBatch, W!LeaveLoop, W!Exit
<1>5. CASE W!SpuriousWakeup
  BY <1>5 DEF W!SpuriousWakeup
<1>6. CASE W!ClearRunFlag
  BY <1>6 DEF W!ClearRunFlag
<1>7. CASE W!NotifyStop
  BY <1>7 DEF W!NotifyStop, W!Notified
<1>8. CASE W!Join
  BY <1>8 DEF W!Join
<1>9. CASE UNCHANGED W!wvars
  BY <1>9 DEF W!wvars
<1>10. QED
  BY <1>1, <1>2, <1>3, <1>4, <1>5, <1>6, <1>7, <1>8, <1>9
     DEF W!Next, W!Handle, W!Stop, W!Terminated

(* Every step of the dispatcher is a step of the work thread or leaves its *)
(* state alone.                                                            *)
LEMMA ThreadSteps == [Next]_vars => [W!Next]_(W!wvars)
<1> SUFFICES ASSUME [Next]_vars PROVE [W!Next]_(W!wvars)
  OBVIOUS
<1>1. ASSUME NEW e \in Event, AddEvent(e) PROVE W!Next
  BY <1>1 DEF AddEvent, W!Next
<1>2. CASE DispatchEvent
  BY <1>2 DEF DispatchEvent, W!Next
<1>3. CASE ThreadStep
  BY <1>3 DEF ThreadStep, W!Next
<1>4. ASSUME NEW c \in Pipes, NEW id \in Ids, GetEventPipe(c, id) PROVE UNCHANGED W!wvars
  BY <1>4 DEF GetEventPipe, threadVars, W!wvars
<1>5. ASSUME NEW id \in Ids, SetExceptionOnPipe(id) \/ SetNullOnPipe(id) PROVE UNCHANGED W!wvars
  BY <1>5 DEF SetExceptionOnPipe, SetNullOnPipe, threadVars, W!wvars
<1>6. ASSUME NEW c \in Pipes, Retire(c) PROVE UNCHANGED W!wvars
  BY <1>6 DEF Retire, threadVars, W!wvars
<1>7. CASE CleanupObject
  BY <1>7 DEF CleanupObject, threadVars, W!wvars
<1>8. CASE Terminated
  BY <1>8 DEF Terminated, vars, threadVars, W!wvars
<1>9. CASE UNCHANGED vars
  BY <1>9 DEF vars, threadVars, W!wvars
<1>10. QED
  BY <1>1, <1>2, <1>3, <1>4, <1>5, <1>6, <1>7, <1>8, <1>9 DEF Next

(* The message the thread handles is one that was added.                   *)
LEMMA CurrentIsEvent == W!TypeOK /\ W!Handle => W!Current \in Event
<1> SUFFICES ASSUME W!TypeOK, W!Handle PROVE W!Current \in Event
  OBVIOUS
<1>1. CASE W!HandleBatch
  BY <1>1, HeadTailProperties DEF W!HandleBatch, W!Current, W!TypeOK
<1>2. CASE W!HandleDrain
  BY <1>2, HeadTailProperties DEF W!HandleDrain, W!Current, W!TypeOK
<1>3. QED
  BY <1>1, <1>2 DEF W!Handle

-----------------------------------------------------------------------------
(* A list begins with its head and grows by anything but a closing message. *)
LEMMA ListBegins ==
    ASSUME NEW e \in Event, OpensList(e)
    PROVE  <<e>> \in Seq(Event) /\ <<e>> # <<>> /\ ListOf(e.ActionID, <<e>>)
  BY DEF ListOf

LEMMA ListGrows ==
    ASSUME NEW e \in Event, NEW s \in Seq(Event), s # <<>>,
           ListOf(e.ActionID, s), e.EventList # "complete"
    PROVE  Append(s, e) \in Seq(Event) /\ Append(s, e) # <<>> /\ ListOf(e.ActionID, Append(s, e))
<1>1. /\ Append(s, e) \in Seq(Event)
      /\ Len(Append(s, e)) = Len(s) + 1
      /\ \A i \in 1 .. Len(s) : Append(s, e)[i] = s[i]
      /\ Append(s, e)[Len(s) + 1] = e
  BY AppendProperties
<1>2. /\ Len(s) \in Nat \ {0}
      /\ DOMAIN s = 1 .. Len(s)
      /\ DOMAIN Append(s, e) = 1 .. Len(s) + 1
  BY <1>1, EmptySeq, LenProperties
<1>3. Append(s, e) # <<>>
  BY <1>1, <1>2, EmptySeq
<1>4. ASSUME NEW i \in 1 .. Len(s) + 1
      PROVE  /\ Append(s, e)[i].ActionID = e.ActionID
             /\ IF i = 1 THEN OpensList(Append(s, e)[i]) ELSE Append(s, e)[i].EventList # "complete"
  <2>1. CASE i = Len(s) + 1
    BY <1>1, <1>2, <2>1
  <2>2. CASE i \in 1 .. Len(s)
    BY <1>1, <1>2, <2>2 DEF ListOf
  <2>3. QED
    BY <1>2, <2>1, <2>2
<1>5. QED
  BY <1>1, <1>2, <1>3, <1>4 DEF ListOf

(* Settling a call takes its promise out of the map and fills its future.  *)
LEMMA SettleStep ==
    ASSUME MapTypes, PipeInv, NEW id \in Ids, Waiting(id), NEW r \in Seq(Event), Settle(id, r)
    PROVE  /\ promise_map_' \in [Ids -> Pipes \cup {NoPipe}]
           /\ future' \in [Pipes -> FutureStates]
           /\ reaction' \in [Pipes -> Seq(Event)]
           /\ \A c \in Pipes : future'[c] # "value" => reaction'[c] = <<>>
           /\ PipeInv'
           /\ ~Waiting(id)'
           /\ \A i \in Ids \ {id} : Waiting(i)' <=> Waiting(i)
  BY IdAssumption DEF MapTypes, PipeInv, Waiting, Settle, FutureStates

(* So does giving it an exception or a null pointer.                       *)
LEMMA GiveStep ==
    ASSUME MapTypes, PipeInv, ListHasPipe, ListShape, NEW id \in Ids,
           NEW outcome \in {"exception", "null"}, Give(id, outcome)
    PROVE  MapTypes' /\ PipeInv' /\ ListHasPipe' /\ ListShape'
<1> USE DEF Give
<1>1. MapTypes'
  <2>1. CASE Waiting(id)
    <3>1. promise_map_[id] \in Pipes /\ future[promise_map_[id]] = "pending"
      BY <2>1 DEF MapTypes, PipeInv, Waiting
    <3>2. QED
      BY <2>1, <3>1, EmptySeq, IdAssumption DEF MapTypes, Waiting, FutureStates
  <2>2. CASE ~Waiting(id)
    BY <2>2, EmptySeq, IdAssumption DEF MapTypes, Waiting, FutureStates
  <2>3. QED
    BY <2>1, <2>2
<1>2. PipeInv'
  BY IdAssumption DEF MapTypes, PipeInv, Waiting
<1>3. ListHasPipe'
  BY DEF MapTypes, ListHasPipe, Waiting, Working
<1>4. ListShape'
  BY DEF MapTypes, ListShape, ListOf
<1>5. QED
  BY <1>1, <1>2, <1>3, <1>4

-----------------------------------------------------------------------------
(* The maps' part of the invariant, apart from the work thread's.          *)
MapInv == MapTypes /\ PipeInv /\ ListHasPipe /\ ListShape

(* Handling one message keeps the maps in agreement, whichever case of     *)
(* dispatch_event it meets.                                                *)
LEMMA DispatchStep ==
    ASSUME MapInv, NEW e \in Event, Dispatch(e)
    PROVE  MapInv'
<1> USE DEF MapInv
<1> DEFINE id == e.ActionID
<1>0. Waiting(id) => id \in Ids
  BY DEF Waiting
<1>1. CASE Notify(e)
  BY <1>1 DEF Notify, mapVars, MapTypes, PipeInv, ListHasPipe, ListShape, ListOf, Waiting, Working
<1>2. ASSUME Waiting(id), ~Working(id), Settle(id, <<e>>), UNCHANGED <<event_map_, cleanup>>
      PROVE  MapInv'
  <2>1. <<e>> \in Seq(Event)
    OBVIOUS
  <2>2. MapTypes' /\ PipeInv' /\ \A i \in Ids \ {id} : Waiting(i)' <=> Waiting(i)
    BY <1>0, <1>2, <2>1, SettleStep DEF MapTypes
  <2>3. ListHasPipe'
    BY <1>0, <1>2, <2>2 DEF ListHasPipe, Working
  <2>4. ListShape'
    BY <1>2 DEF ListShape, ListOf
  <2>5. QED
    BY <2>2, <2>3, <2>4
<1>3. CASE Reply(e)
  BY <1>2, <1>3 DEF Reply
<1>4. CASE FailList(e)
  BY <1>2, <1>4 DEF FailList
<1>5. CASE CompleteList(e)
  <2>1. Append(event_map_[id], e) \in Seq(Event)
    BY <1>0, <1>5, AppendProperties DEF CompleteList, MapTypes
  <2>2. /\ event_map_' \in [Ids -> Seq(Event)]
        /\ event_map_' = [event_map_ EXCEPT ![id] = <<>>]
    BY <1>5, EmptySeq DEF CompleteList, MapTypes
  <2>3. MapTypes' /\ PipeInv' /\ \A i \in Ids \ {id} : Waiting(i)' <=> Waiting(i)
    BY <1>0, <1>5, <2>1, <2>2, SettleStep DEF CompleteList, MapTypes
  <2>4. ListHasPipe'
    BY <1>0, <2>2, <2>3 DEF ListHasPipe, Working, MapTypes
  <2>5. ListShape'
    BY <1>0, <2>2 DEF ListShape, ListOf, MapTypes
  <2>6. QED
    BY <2>3, <2>4, <2>5
<1>6. ASSUME NEW r \in Seq(Event), r # <<>>, ListOf(id, r), Waiting(id),
             event_map_' = [event_map_ EXCEPT ![id] = r],
             UNCHANGED <<promise_map_, future, reaction, cleanup>>
      PROVE  MapInv'
  <2>1. MapTypes' /\ PipeInv'
    BY <1>6 DEF MapTypes, PipeInv, Waiting
  <2>2. ListHasPipe'
    BY <1>0, <1>6 DEF ListHasPipe, Waiting, Working, MapTypes
  <2>3. ListShape'
    BY <1>0, <1>6 DEF ListShape, ListOf, MapTypes
  <2>4. QED
    BY <2>1, <2>2, <2>3
<1>7. CASE StartList(e)
  BY <1>6, <1>7, ListBegins DEF StartList
<1>8. CASE AppendList(e)
  <2>1. event_map_[id] \in Seq(Event) /\ event_map_[id] # <<>> /\ ListOf(id, event_map_[id])
    BY <1>0, <1>8 DEF AppendList, Working, MapTypes, ListShape
  <2>2. Append(event_map_[id], e) \in Seq(Event) /\ Append(event_map_[id], e) # <<>>
        /\ ListOf(id, Append(event_map_[id], e))
    BY <1>8, <2>1, ListGrows DEF AppendList
  <2>3. QED
    BY <1>6, <1>8, <2>2 DEF AppendList
<1>9. QED
  BY <1>1, <1>3, <1>4, <1>5, <1>7, <1>8 DEF Dispatch

(* A new pipe enters the map only when its ActionID is free.               *)
LEMMA GetEventPipeStep ==
    ASSUME MapInv, NEW c \in Pipes, NEW id \in Ids, GetEventPipe(c, id)
    PROVE  MapInv'
<1> USE DEF MapInv, Waiting
<1>1. CASE Waiting(id)
  <2>1. /\ future[c] = "none"
        /\ future' = [future EXCEPT ![c] = "broken"]
        /\ UNCHANGED <<promise_map_, event_map_, reaction, cleanup>>
    BY <1>1 DEF GetEventPipe
  <2>2. MapTypes' /\ PipeInv'
    BY <2>1 DEF MapTypes, FutureStates, PipeInv
  <2>3. ListHasPipe' /\ ListShape'
    BY <2>1 DEF ListHasPipe, Working, ListShape, ListOf
  <2>4. QED
    BY <2>2, <2>3
<1>2. CASE ~Waiting(id)
  <2>1. /\ future[c] = "none"
        /\ future' = [future EXCEPT ![c] = "pending"]
        /\ promise_map_' = [promise_map_ EXCEPT ![id] = c]
        /\ UNCHANGED <<event_map_, reaction, cleanup>>
    BY <1>2 DEF GetEventPipe
  <2>2. MapTypes'
    BY <2>1 DEF MapTypes, FutureStates
  <2>3. \A i \in Ids : promise_map_[i] # c
    BY <2>1 DEF PipeInv
  <2>4. \A d \in Pipes : future'[d] = "pending" <=> \E i \in Ids : promise_map_'[i] = d
    BY <1>2, <2>1, <2>3, IdAssumption DEF MapTypes, PipeInv
  <2>5. PipeInv'
    BY <2>1, <2>3, <2>4 DEF MapTypes, PipeInv
  <2>6. ListHasPipe' /\ ListShape'
    BY <2>1, IdAssumption DEF MapTypes, ListHasPipe, Working, ListShape, ListOf
  <2>7. QED
    BY <2>2, <2>5, <2>6
<1>3. QED
  BY <1>1, <1>2

(* The destructor empties both maps, or changes neither.                   *)
LEMMA CleanupStep == ASSUME MapInv, CleanupObject PROVE MapInv'
<1> USE DEF MapInv
<1>1. CASE cleanup' # "done"
  <2>1. /\ cleanup' \in CleanupStates
        /\ UNCHANGED <<promise_map_, event_map_, future, reaction>>
    BY <1>1, Zenon DEF CleanupObject, CleanupStates
  <2>2. QED
    BY <2>1 DEF MapTypes, PipeInv, ListHasPipe, ListShape, ListOf, Waiting, Working
<1>2. CASE cleanup' = "done"
  <2>1. /\ future' = [c \in Pipes |-> IF \E id \in Ids : promise_map_[id] = c
                                       THEN "null" ELSE future[c]]
        /\ promise_map_' = [id \in Ids |-> NoPipe]
        /\ event_map_' = [id \in Ids |-> <<>>]
        /\ UNCHANGED reaction
    BY <1>2 DEF CleanupObject
  <2>2. MapTypes'
    <3>1. \A c \in Pipes : future'[c] # "value" => reaction'[c] = <<>>
      BY <2>1 DEF MapTypes, PipeInv
    <3>2. future' \in [Pipes -> FutureStates]
      BY <2>1 DEF MapTypes, FutureStates
    <3>3. QED
      BY <1>2, <2>1, <3>1, <3>2, EmptySeq DEF MapTypes, CleanupStates
  <2>3. PipeInv'
    BY <2>1, IdAssumption DEF MapTypes, PipeInv, Waiting
  <2>4. ListHasPipe' /\ ListShape'
    BY <2>1 DEF ListHasPipe, Working, ListShape, ListOf
  <2>5. QED
    BY <2>2, <2>3, <2>4
<1>3. QED
  BY <1>1, <1>2

LEMMA MapInvStep == ASSUME W!TypeOK, MapInv, [Next]_vars PROVE MapInv'
<1> USE DEF MapInv
<1>1. CASE UNCHANGED mapVars
  BY <1>1 DEF mapVars, MapTypes, PipeInv, ListHasPipe, ListShape, ListOf, Waiting, Working
<1>2. ASSUME NEW e \in Event, AddEvent(e) PROVE MapInv'
  BY <1>1, <1>2 DEF AddEvent
<1>3. CASE DispatchEvent
  BY <1>3, CurrentIsEvent, DispatchStep DEF DispatchEvent
<1>4. CASE ThreadStep
  BY <1>1, <1>4 DEF ThreadStep
<1>5. ASSUME NEW c \in Pipes, NEW id \in Ids, GetEventPipe(c, id) PROVE MapInv'
  BY <1>5, GetEventPipeStep
<1>6. ASSUME NEW id \in Ids, SetExceptionOnPipe(id) \/ SetNullOnPipe(id) PROVE MapInv'
  BY <1>6, GiveStep DEF SetExceptionOnPipe, SetNullOnPipe
<1>7. ASSUME NEW c \in Pipes, Retire(c) PROVE MapInv'
  BY <1>7, EmptySeq DEF Retire, MapTypes, FutureStates, PipeInv, ListHasPipe, ListShape, ListOf,
                        Waiting, Working
<1>8. CASE CleanupObject
  BY <1>8, CleanupStep
<1>9. CASE Terminated
  BY <1>1, <1>9 DEF Terminated, vars
<1>10. CASE UNCHANGED vars
  BY <1>1, <1>10 DEF vars
<1>11. QED
  BY <1>2, <1>3, <1>4, <1>5, <1>6, <1>7, <1>8, <1>9, <1>10 DEF Next

LEMMA InitInv == Init => W!TypeOK /\ MapInv
<1> SUFFICES ASSUME Init PROVE W!TypeOK /\ MapInv
  OBVIOUS
<1>1. W!TypeOK
  BY EmptySeq DEF Init, W!Init, W!TypeOK, W!WorkerStates, W!StopperStates
<1>2. MapInv
  BY EmptySeq, IdAssumption DEF Init, MapInv, MapTypes, FutureStates, CleanupStates, PipeInv,
                                ListHasPipe, ListShape, ListOf, Waiting, Working
<1>3. QED
  BY <1>1, <1>2

(* Types and the agreement of the maps hold of every behaviour of the      *)
(* dispatcher.                                                             *)
THEOREM Invariance == Spec => [](W!TypeOK /\ MapInv)
<1>1. (W!TypeOK /\ MapInv) /\ [Next]_vars => (W!TypeOK /\ MapInv)'
  BY MapInvStep, ThreadSteps, ThreadTyping
<1>2. QED
  BY <1>1, InitInv, PTL DEF Spec

(* EventDispatcher's state is well typed.                                  *)
THEOREM Typing == Spec => []TypeOK
<1>1. W!TypeOK /\ MapInv => TypeOK
  BY DEF MapInv, MapTypes, TypeOK
<1>2. QED
  BY <1>1, Invariance, PTL

(* Futures are pending exactly while promise_map_ has their promise.       *)
THEOREM PendingHasPromise == Spec => []PipeInv
<1>1. W!TypeOK /\ MapInv => PipeInv
  BY DEF MapInv
<1>2. QED
  BY <1>1, Invariance, PTL

(* No list in event_map_ is left without a caller who waits for it.        *)
THEOREM NoOrphanList == Spec => []ListHasPipe
<1>1. W!TypeOK /\ MapInv => ListHasPipe
  BY DEF MapInv
<1>2. QED
  BY <1>1, Invariance, PTL

(* Lists being collected are open, well begun and of one ActionID.         *)
THEOREM ListsAreOpen == Spec => []ListShape
<1>1. W!TypeOK /\ MapInv => ListShape
  BY DEF MapInv
<1>2. QED
  BY <1>1, Invariance, PTL

(* cleanup_object's assertion on event_map_ never fails: with no promise   *)
(* left there is no list left.                                             *)
THEOREM CleanupAsserts == Spec => []ListAssertHolds
<1>1. Init => ListAssertHolds
  BY DEF Init, ListAssertHolds
<1>2. MapInv /\ ListAssertHolds /\ [Next]_vars => ListAssertHolds'
  <2> SUFFICES ASSUME MapInv, ListAssertHolds, [Next]_vars PROVE ListAssertHolds'
    OBVIOUS
  <2>1. CASE CleanupObject
    <3>1. (\E id \in Ids : Working(id)) => \E id \in Ids : Waiting(id)
      BY DEF MapInv, ListHasPipe
    <3>2. QED
      BY <2>1, <3>1, Zenon DEF CleanupObject, ListAssertHolds
  <2>2. CASE UNCHANGED cleanup
    BY <2>2 DEF ListAssertHolds
  <2>3. CASE DispatchEvent
    BY <2>2, <2>3 DEF DispatchEvent, Dispatch, Notify, Reply, StartList, FailList, AppendList,
                      CompleteList, mapVars
  <2>4. QED
    BY <2>1, <2>2, <2>3 DEF Next, AddEvent, ThreadStep, GetEventPipe, SetExceptionOnPipe,
                            SetNullOnPipe, Give, Retire, Terminated, vars, mapVars
<1>3. QED
  <2>1. W!TypeOK /\ MapInv => MapInv
    OBVIOUS
  <2>2. QED
    BY <1>1, <1>2, <2>1, Invariance, PTL DEF Spec

-----------------------------------------------------------------------------
(* What is settled on a pipe while handling a message has its tail, unless *)
(* it is a list that was refused: the list collected is of the shape that  *)
(* ListShape describes, and the message that closes it becomes its tail.   *)
LEMMA SettledHasTail ==
    ASSUME MapInv, NEW e \in Event, Dispatch(e), NEW c \in Pipes, reaction'[c] # reaction[c]
    PROVE  TailUnlessRefused(reaction'[c])
<1> DEFINE id == e.ActionID
<1>0. Waiting(id) => id \in Ids
  BY DEF Waiting
<1>1. CASE Reply(e)
  <2>1. reaction'[c] = <<e>>
    BY <1>1 DEF Reply, Settle, MapInv, MapTypes
  <2>2. QED
    BY <1>1, <2>1 DEF Reply, TailUnlessRefused
<1>2. CASE FailList(e)
  <2>1. reaction'[c] = <<e>>
    BY <1>2 DEF FailList, Settle, MapInv, MapTypes
  <2>2. QED
    BY <1>2, <2>1 DEF FailList, TailUnlessRefused
<1>3. CASE CompleteList(e)
  <2> DEFINE s == event_map_[id]
  <2>1. reaction'[c] = Append(s, e)
    BY <1>3 DEF CompleteList, Settle, MapInv, MapTypes
  <2>2. s \in Seq(Event) /\ s # <<>> /\ ListOf(id, s)
    BY <1>0, <1>3 DEF CompleteList, Working, MapInv, MapTypes, ListShape
  <2>3. Len(s) \in Nat \ {0} /\ DOMAIN s = 1 .. Len(s)
    BY <2>2, EmptySeq, LenProperties
  <2>4. OpensList(s[1])
    BY <2>2, <2>3 DEF ListOf
  <2>5. /\ Len(Append(s, e)) = Len(s) + 1
        /\ Append(s, e)[1] = s[1]
        /\ Append(s, e)[Len(s) + 1] = e
    BY <2>2, <2>3, AppendProperties
  <2>6. CopyDefined(Append(s, e))
    BY <1>3, <2>3, <2>5 DEF CopyDefined, CompleteList
  <2>7. QED
    BY <2>1, <2>4, <2>5, <2>6 DEF TailUnlessRefused
<1>4. QED
  BY <1>1, <1>2, <1>3 DEF Dispatch, Notify, StartList, AppendList, mapVars

(* Whatever list a caller gets, its copy operations are defined on it if   *)
(* it is a success, and it is nothing but its head if it is not.           *)
THEOREM ListsHaveTails == Spec => []OnlyRefusedLackTail
<1>1. Init => OnlyRefusedLackTail
  BY DEF Init, OnlyRefusedLackTail, TailUnlessRefused
<1>2. W!TypeOK /\ MapInv /\ OnlyRefusedLackTail /\ [Next]_vars => OnlyRefusedLackTail'
  <2> SUFFICES ASSUME W!TypeOK, MapInv, OnlyRefusedLackTail, [Next]_vars, NEW c \in Pipes,
                      reaction'[c] # reaction[c]
               PROVE  TailUnlessRefused(reaction'[c])
    BY DEF OnlyRefusedLackTail
  <2>1. CASE DispatchEvent
    BY <2>1, CurrentIsEvent, SettledHasTail DEF DispatchEvent
  <2>2. ASSUME NEW d \in Pipes, Retire(d) PROVE TailUnlessRefused(reaction'[c])
    BY <2>2 DEF Retire, MapInv, MapTypes, TailUnlessRefused
  <2>3. QED
    BY <2>1, <2>2 DEF Next, AddEvent, ThreadStep, GetEventPipe, SetExceptionOnPipe, SetNullOnPipe,
                      Give, CleanupObject, Terminated, vars, mapVars
<1>3. QED
  BY <1>1, <1>2, Invariance, PTL DEF Spec

-----------------------------------------------------------------------------
(* EventDispatcher, with its two maps keyed by ActionID, implements the    *)
(* mailbox of its callers, one table keyed by pipe.                        *)
(*                                                                         *)
(* The mapping finds the ActionID of a pipe by searching promise_map_.     *)
(* PipeInv makes the answer unique (KeyFacts), ListHasPipe makes the list  *)
(* found under it the whole of what the pipe has collected, and ListShape  *)
(* makes "the list is closed" the same thing as "the answer is whole".     *)

USE DEF M!mvars, M!Listening

(* What a pipe's key and contents are, in terms of the maps.               *)
KeyFact(c) ==
    /\ future[c] # "pending" => KeyOf(c) = NoId /\ GotOf(c) = reaction[c]
    /\ future[c] = "pending" => /\ KeyOf(c) \in Ids
                                /\ promise_map_[KeyOf(c)] = c
                                /\ GotOf(c) = event_map_[KeyOf(c)]
    /\ \A id \in Ids : promise_map_[id] = c => future[c] = "pending" /\ KeyOf(c) = id

LEMMA KeyFacts == MapInv => \A c \in Pipes : KeyFact(c)
<1> SUFFICES ASSUME MapInv, NEW c \in Pipes PROVE KeyFact(c)
  OBVIOUS
<1>1. future[c] = "pending" => KeyOf(c) \in Ids /\ promise_map_[KeyOf(c)] = c
  BY DEF MapInv, PipeInv, KeyOf
<1>2. ASSUME NEW id \in Ids, promise_map_[id] = c
      PROVE  future[c] = "pending" /\ KeyOf(c) = id
  BY <1>1, <1>2, IdAssumption DEF MapInv, PipeInv, Waiting
<1>3. QED
  BY <1>1, <1>2 DEF KeyFact, KeyOf, GotOf

LEMMA KeyFactsNext == MapInv' => (\A c \in Pipes : KeyFact(c))'
  BY KeyFacts, PTL

(* The pipe found under an ActionID is the only one that listens to it.    *)
LEMMA ListenerIsUnique ==
    ASSUME MapInv, NEW id \in Ids, NEW c \in Pipes
    PROVE  (future[c] = "pending" /\ KeyOf(c) = id) <=> promise_map_[id] = c
  BY KeyFacts DEF KeyFact

(* A pipe whose promise stays where it is keeps its key.                   *)
LEMMA KeyKept ==
    ASSUME MapInv, MapInv', NEW c \in Pipes, future'[c] = future[c],
           \A id \in Ids : promise_map_[id] = c => promise_map_'[id] = c
    PROVE  KeyOf(c)' = KeyOf(c)
  BY KeyFacts, KeyFactsNext DEF KeyFact

(* A list of ListOf's shape, with one more message, is whole when that     *)
(* message closes it, and only then; the empty list becomes whole with a   *)
(* message that opens none.                                                *)
LEMMA WholeAppend ==
    ASSUME NEW e \in Event, NEW s \in Seq(Event), ListOf(e.ActionID, s)
    PROVE  M!Whole(Append(s, e)) <=> IF s = <<>> THEN ~OpensList(e) ELSE e.EventList = "complete"
<1>1. /\ Len(Append(s, e)) = Len(s) + 1
      /\ \A i \in 1 .. Len(s) : Append(s, e)[i] = s[i]
      /\ Append(s, e)[Len(s) + 1] = e
      /\ Len(s) \in Nat
      /\ Len(s) = 0 <=> s = <<>>
  BY AppendProperties, EmptySeq, LenProperties
<1>2. M!OpensList(e) <=> OpensList(e)
  BY DEF M!OpensList, OpensList
<1>3. CASE s = <<>>
  BY <1>1, <1>2, <1>3 DEF M!Whole
<1>4. CASE s # <<>>
  BY <1>1, <1>4 DEF M!Whole
<1>5. QED
  BY <1>3, <1>4

-----------------------------------------------------------------------------
(* A message that settles the call settles its mailbox.                    *)
LEMMA SettleIsHandOver ==
    ASSUME MapInv, MapInv', NEW e \in Event, Waiting(e.ActionID),
           IF Working(e.ActionID) THEN e.EventList = "complete" ELSE ~OpensList(e),
           Settle(e.ActionID, Append(event_map_[e.ActionID], e)),
           event_map_' = [event_map_ EXCEPT ![e.ActionID] = <<>>]
    PROVE  \E c \in Pipes : M!HandOver(c, e)
<1> DEFINE id == e.ActionID
           r  == Append(event_map_[id], e)
<1>0. id \in Ids /\ promise_map_[id] \in Pipes
  BY DEF Waiting, MapInv, MapTypes
<1>p. PICK p \in Pipes : p = promise_map_[id]
  BY <1>0
<1>1. id \in Ids /\ p = promise_map_[id] /\ KeyFact(p)
  BY <1>0, <1>p, KeyFacts
<1>2. future[p] = "pending" /\ KeyOf(p) = id /\ GotOf(p) = event_map_[id]
  BY <1>1 DEF KeyFact
<1>3. /\ future' = [future EXCEPT ![p] = "value"]
      /\ reaction' = [reaction EXCEPT ![p] = r]
      /\ promise_map_' = [promise_map_ EXCEPT ![id] = NoPipe]
      /\ event_map_' = [event_map_ EXCEPT ![id] = <<>>]
  BY <1>1 DEF Settle
<1>4. future'[p] = "value" /\ reaction'[p] = r
  BY <1>1, <1>3 DEF MapInv, MapTypes, PipeInv
<1>5. KeyOf(p)' = NoId /\ GotOf(p)' = r
  BY <1>1, <1>4, KeyFactsNext DEF KeyFact
<1>6. ASSUME NEW d \in Pipes \ {p}
      PROVE  KeyOf(d)' = KeyOf(d) /\ GotOf(d)' = GotOf(d)
  <2>1. future'[d] = future[d] /\ reaction'[d] = reaction[d]
    BY <1>3 DEF MapInv, MapTypes
  <2>2. \A i \in Ids : promise_map_[i] = d => promise_map_'[i] = d
    BY <1>1, <1>3 DEF MapInv, MapTypes
  <2>3. KeyOf(d)' = KeyOf(d)
    BY <2>1, <2>2, KeyKept
  <2>4. future[d] = "pending" => KeyOf(d) \in Ids \ {id}
    BY <1>1, KeyFacts DEF KeyFact
  <2>5. QED
    BY <1>3, <2>1, <2>3, <2>4 DEF GotOf, MapInv, MapTypes
<1>7. M!Whole(r)
  <2>1. event_map_[id] \in Seq(Event) /\ ListOf(id, event_map_[id])
    BY <1>1 DEF MapInv, MapTypes, ListShape
  <2>2. QED
    BY <2>1, WholeAppend DEF Working
<1>8. M!HandOver(p, e)
  BY <1>1, <1>2, <1>3, <1>5, <1>6, <1>7 DEF M!HandOver
<1>9. QED
  BY <1>1, <1>8

(* A message that begins or continues a list is collected.                 *)
LEMMA ListStepIsCollect ==
    ASSUME MapInv, MapInv', NEW e \in Event, Waiting(e.ActionID),
           IF Working(e.ActionID) THEN e.EventList # "complete" ELSE OpensList(e),
           event_map_' = [event_map_ EXCEPT ![e.ActionID] = Append(event_map_[e.ActionID], e)],
           UNCHANGED <<promise_map_, future, reaction>>
    PROVE  \E c \in Pipes : M!Collect(c, e)
<1> DEFINE id == e.ActionID
<1>0. id \in Ids /\ promise_map_[id] \in Pipes
  BY DEF Waiting, MapInv, MapTypes
<1>p. PICK p \in Pipes : p = promise_map_[id]
  BY <1>0
<1>1. id \in Ids /\ p = promise_map_[id] /\ KeyFact(p)
  BY <1>0, <1>p, KeyFacts
<1>2. future[p] = "pending" /\ KeyOf(p) = id /\ GotOf(p) = event_map_[id]
  BY <1>1 DEF KeyFact
<1>3. \A d \in Pipes : KeyOf(d)' = KeyOf(d)
  BY KeyKept
<1>4. GotOf(p)' = Append(event_map_[id], e)
  BY <1>1, <1>2, <1>3 DEF GotOf, MapInv, MapTypes
<1>5. ASSUME NEW d \in Pipes \ {p} PROVE GotOf(d)' = GotOf(d)
  <2>1. future[d] = "pending" => KeyOf(d) \in Ids \ {id}
    BY <1>1, KeyFacts DEF KeyFact
  <2>2. QED
    BY <1>3, <2>1 DEF GotOf, MapInv, MapTypes
<1>6. ~M!Whole(Append(event_map_[id], e))
  <2>1. event_map_[id] \in Seq(Event) /\ ListOf(id, event_map_[id])
    BY <1>1 DEF MapInv, MapTypes, ListShape
  <2>2. QED
    BY <2>1, WholeAppend DEF Working
<1>7. M!Collect(p, e)
  BY <1>1, <1>2, <1>3, <1>4, <1>5, <1>6 DEF M!Collect
<1>8. QED
  BY <1>1, <1>7

(* Handling a message is a step of the mailbox it is for, or none.         *)
LEMMA DispatchMaps ==
    ASSUME MapInv, MapInv', NEW e \in Event, Dispatch(e)
    PROVE  [M!Next]_(M!mvars)
<1> USE DEF M!Next
<1>0. ASSUME e.ActionID \in Ids, ~Working(e.ActionID)
      PROVE  /\ Append(event_map_[e.ActionID], e) = <<e>>
             /\ [event_map_ EXCEPT ![e.ActionID] = <<>>] = event_map_
  <2>1. event_map_[e.ActionID] = <<>>
    BY <1>0 DEF Working
  <2>2. [event_map_ EXCEPT ![e.ActionID] = <<>>] = event_map_
    BY <1>0, <2>1 DEF MapInv, MapTypes
  <2>3. Append(<<>>, e) = <<e>>
    OBVIOUS
  <2>4. QED
    BY <2>1, <2>2, <2>3
<1>1. CASE Notify(e)
  BY <1>1 DEF Notify, mapVars, KeyOf, GotOf
<1>2. CASE Reply(e)
  BY <1>0, <1>2, SettleIsHandOver DEF Reply, OpensList, Waiting
<1>3. CASE FailList(e)
  BY <1>0, <1>3, SettleIsHandOver DEF FailList, Waiting
<1>4. CASE CompleteList(e)
  BY <1>4, SettleIsHandOver DEF CompleteList
<1>5. CASE StartList(e)
  BY <1>0, <1>5, ListStepIsCollect DEF StartList, Waiting
<1>6. CASE AppendList(e)
  BY <1>6, ListStepIsCollect DEF AppendList
<1>7. QED
  BY <1>1, <1>2, <1>3, <1>4, <1>5, <1>6 DEF Dispatch

-----------------------------------------------------------------------------
(* A new pipe is opened, or refused because another one listens.           *)
LEMMA GetEventPipeMaps ==
    ASSUME MapInv, MapInv', NEW c \in Pipes, NEW id \in Ids, GetEventPipe(c, id)
    PROVE  M!Open(c, id) \/ M!Refuse(c, id)
<1>0. future[c] = "none" /\ UNCHANGED <<event_map_, reaction>>
  BY DEF GetEventPipe
<1>1. \A d \in Pipes : M!Listening(d, id) <=> promise_map_[id] = d
  BY ListenerIsUnique
<1>2. KeyOf(c) = NoId /\ GotOf(c) = <<>> /\ \A i \in Ids : promise_map_[i] # c
  BY <1>0, KeyFacts DEF KeyFact, MapInv, MapTypes
<1>3. CASE Waiting(id)
  <2>1. future' = [future EXCEPT ![c] = "broken"] /\ promise_map_' = promise_map_
    BY <1>3 DEF GetEventPipe
  <2>2. KeyOf(c)' = NoId /\ GotOf(c)' = <<>>
    BY <1>0, <2>1, KeyFactsNext DEF KeyFact, MapInv, MapTypes
  <2>3. ASSUME NEW d \in Pipes \ {c} PROVE KeyOf(d)' = KeyOf(d) /\ GotOf(d)' = GotOf(d)
    <3>1. KeyOf(d)' = KeyOf(d)
      BY <2>1, KeyKept DEF MapInv, MapTypes
    <3>2. QED
      BY <1>0, <2>1, <3>1 DEF GotOf, MapInv, MapTypes
  <2>4. \E d \in Pipes : M!Listening(d, id)
    <3>1. promise_map_[id] \in Pipes
      BY <1>3 DEF Waiting, MapInv, MapTypes
    <3>2. QED
      BY <1>1, <3>1
  <2>5. M!Refuse(c, id)
    BY <1>0, <1>2, <2>1, <2>2, <2>3, <2>4 DEF M!Refuse
  <2>6. QED
    BY <2>5
<1>4. CASE ~Waiting(id)
  <2>1. /\ future' = [future EXCEPT ![c] = "pending"]
        /\ promise_map_' = [promise_map_ EXCEPT ![id] = c]
    BY <1>4 DEF GetEventPipe
  <2>2. event_map_[id] = <<>> /\ promise_map_[id] = NoPipe
    BY <1>4 DEF MapInv, ListHasPipe, Waiting, Working
  <2>3. promise_map_'[id] = c
    BY <2>1 DEF MapInv, MapTypes
  <2>4. KeyOf(c)' = id /\ GotOf(c)' = <<>>
    BY <1>0, <2>2, <2>3, KeyFactsNext DEF KeyFact
  <2>5. ASSUME NEW d \in Pipes \ {c} PROVE KeyOf(d)' = KeyOf(d) /\ GotOf(d)' = GotOf(d)
    <3>1. KeyOf(d)' = KeyOf(d)
      BY <2>1, <2>2, KeyKept, IdAssumption DEF MapInv, MapTypes
    <3>2. QED
      BY <1>0, <2>1, <3>1 DEF GotOf, MapInv, MapTypes
  <2>6. \A d \in Pipes : ~M!Listening(d, id)
    BY <1>1, <2>2, IdAssumption
  <2>7. M!Open(c, id)
    BY <1>0, <1>2, <2>1, <2>4, <2>5, <2>6 DEF M!Open
  <2>8. QED
    BY <2>7
<1>5. QED
  BY <1>3, <1>4

(* set_exception_on_pipe and set_null_on_pipe fail the mailbox that        *)
(* listens to their ActionID, if there is one.                             *)
LEMMA GiveMaps ==
    ASSUME MapInv, MapInv', NEW id \in Ids, NEW outcome \in {"exception", "null"},
           Give(id, outcome)
    PROVE  (\E c \in Pipes : M!Fail(c, outcome)) \/ UNCHANGED M!mvars
<1>0. /\ promise_map_' = [promise_map_ EXCEPT ![id] = NoPipe]
      /\ event_map_' = [event_map_ EXCEPT ![id] = <<>>]
      /\ UNCHANGED reaction
  BY DEF Give
<1>1. CASE Waiting(id)
  <2>0. promise_map_[id] \in Pipes
    BY <1>1 DEF Waiting, MapInv, MapTypes
  <2>p. PICK p \in Pipes : p = promise_map_[id]
    BY <2>0
  <2>1. /\ future' = [future EXCEPT ![p] = outcome]
        /\ future[p] = "pending" /\ KeyOf(p) = id
    BY <1>1, <2>p, KeyFacts DEF Give, KeyFact
  <2>2. future'[p] = outcome /\ reaction'[p] = <<>>
    BY <1>0, <2>1 DEF MapInv, MapTypes
  <2>3. KeyOf(p)' = NoId /\ GotOf(p)' = <<>>
    BY <2>2, KeyFactsNext DEF KeyFact
  <2>4. ASSUME NEW d \in Pipes \ {p} PROVE KeyOf(d)' = KeyOf(d) /\ GotOf(d)' = GotOf(d)
    <3>1. KeyOf(d)' = KeyOf(d)
      BY <1>0, <2>p, <2>1, KeyKept DEF MapInv, MapTypes
    <3>2. future[d] = "pending" => KeyOf(d) \in Ids \ {id}
      BY <2>p, KeyFacts DEF KeyFact
    <3>3. QED
      BY <1>0, <2>1, <3>1, <3>2 DEF GotOf, MapInv, MapTypes
  <2>5. M!Fail(p, outcome)
    BY <2>1, <2>3, <2>4 DEF M!Fail
  <2>6. QED
    BY <2>5
<1>2. CASE ~Waiting(id)
  <2>1. UNCHANGED future /\ promise_map_[id] = NoPipe /\ event_map_[id] = <<>>
    BY <1>2 DEF Give, Waiting, Working, MapInv, ListHasPipe
  <2>2. UNCHANGED <<promise_map_, event_map_>>
    BY <1>0, <2>1 DEF MapInv, MapTypes
  <2>3. UNCHANGED <<promise_map_, event_map_, future, reaction>>
    BY <1>0, <2>1, <2>2
  <2>4. UNCHANGED M!mvars
    BY <2>3 DEF KeyOf, GotOf
  <2>5. QED
    BY <2>4
<1>3. QED
  BY <1>1, <1>2

(* A consumed future empties its mailbox.                                  *)
LEMMA RetireMaps ==
    ASSUME MapInv, MapInv', NEW c \in Pipes, Retire(c)
    PROVE  M!Retire(c)
<1>1. /\ future[c] \notin {"none", "pending"}
      /\ future' = [future EXCEPT ![c] = "none"]
      /\ reaction' = [reaction EXCEPT ![c] = <<>>]
      /\ UNCHANGED <<promise_map_, event_map_>>
  BY DEF Retire
<1>2. KeyOf(c) = NoId
  BY <1>1 DEF KeyOf
<1>3. KeyOf(c)' = NoId /\ GotOf(c)' = <<>>
  BY <1>1 DEF KeyOf, GotOf, MapInv, MapTypes
<1>4. ASSUME NEW d \in Pipes \ {c} PROVE KeyOf(d)' = KeyOf(d) /\ GotOf(d)' = GotOf(d)
  <2>1. KeyOf(d)' = KeyOf(d)
    BY <1>1, KeyKept DEF MapInv, MapTypes
  <2>2. QED
    BY <1>1, <2>1 DEF GotOf, MapInv, MapTypes
<1>5. QED
  BY <1>1, <1>2, <1>3, <1>4 DEF M!Retire

(* The destructor fails all mailboxes at once, or none.                    *)
LEMMA CleanupMaps ==
    ASSUME MapInv, MapInv', CleanupObject
    PROVE  M!FailAll \/ UNCHANGED M!mvars
<1>1. CASE cleanup' # "done"
  <2>1. UNCHANGED <<promise_map_, event_map_, future, reaction>>
    BY <1>1, Zenon DEF CleanupObject
  <2>2. QED
    BY <2>1 DEF KeyOf, GotOf
<1>2. CASE cleanup' = "done"
  <2>1. /\ future' = [c \in Pipes |-> IF \E id \in Ids : promise_map_[id] = c
                                       THEN "null" ELSE future[c]]
        /\ UNCHANGED reaction
    BY <1>2 DEF CleanupObject
  <2>2. future' = [c \in Pipes |-> IF future[c] = "pending" THEN "null" ELSE future[c]]
    BY <2>1 DEF MapInv, PipeInv
  <2>3. ASSUME NEW c \in Pipes
        PROVE  /\ KeyOf(c)' = NoId
               /\ GotOf(c)' = IF future[c] = "pending" THEN <<>> ELSE GotOf(c)
    BY <2>1, <2>2, KeyFactsNext DEF KeyFact, GotOf, MapInv, MapTypes
  <2>4. M!FailAll
    BY <2>2, <2>3 DEF M!FailAll
  <2>5. QED
    BY <2>4
<1>3. QED
  BY <1>1, <1>2

-----------------------------------------------------------------------------
LEMMA StepMaps ==
    ASSUME W!TypeOK, MapInv, MapInv', [Next]_vars
    PROVE  [M!Next]_(M!mvars)
<1> USE DEF M!Next
<1>1. CASE UNCHANGED mapVars
  BY <1>1 DEF mapVars, KeyOf, GotOf
<1>2. ASSUME NEW e \in Event, AddEvent(e) PROVE [M!Next]_(M!mvars)
  BY <1>1, <1>2 DEF AddEvent
<1>3. CASE DispatchEvent
  BY <1>3, CurrentIsEvent, DispatchMaps DEF DispatchEvent
<1>4. CASE ThreadStep
  BY <1>1, <1>4 DEF ThreadStep
<1>5. ASSUME NEW c \in Pipes, NEW id \in Ids, GetEventPipe(c, id) PROVE M!Next
  BY <1>5, GetEventPipeMaps
<1>6. ASSUME NEW id \in Ids, SetExceptionOnPipe(id) \/ SetNullOnPipe(id)
      PROVE  [M!Next]_(M!mvars)
  <2>1. CASE SetExceptionOnPipe(id)
    BY <2>1, GiveMaps DEF SetExceptionOnPipe
  <2>2. CASE SetNullOnPipe(id)
    BY <2>2, GiveMaps DEF SetNullOnPipe
  <2>3. QED
    BY <1>6, <2>1, <2>2
<1>7. ASSUME NEW c \in Pipes, Retire(c) PROVE M!Next
  BY <1>7, RetireMaps
<1>8. CASE CleanupObject
  BY <1>8, CleanupMaps
<1>9. CASE Terminated
  BY <1>1, <1>9 DEF Terminated, vars
<1>10. CASE UNCHANGED vars
  BY <1>1, <1>10 DEF vars
<1>11. QED
  BY <1>2, <1>3, <1>4, <1>5, <1>6, <1>7, <1>8, <1>9, <1>10 DEF Next

LEMMA InitMaps == Init => M!Init
<1> SUFFICES ASSUME Init PROVE M!Init
  OBVIOUS
<1>1. \A c \in Pipes : KeyOf(c) = NoId /\ GotOf(c) = <<>>
  BY DEF Init, KeyOf, GotOf
<1>2. QED
  BY <1>1 DEF Init, M!Init

(* Callers of get_event_pipe get a mailbox: all messages of their ActionID *)
(* at once, when and only when they are a whole answer, or a failure that  *)
(* carries none of them.                                                   *)
THEOREM Refinement == Spec => ImplementsMailbox
<1>1. (W!TypeOK /\ MapInv) /\ (W!TypeOK /\ MapInv)' /\ [Next]_vars => [M!Next]_(M!mvars)
  BY StepMaps
<1>2. QED
  BY <1>1, InitMaps, Invariance, PTL DEF Spec, ImplementsMailbox, M!Spec
================================================================================
