------------------------------ MODULE Invoke_proof ------------------------------
(***************************************************************************)
(* Safety of the calls, for any number of them, any answers and            *)
(* interleaving: the dispatcher's invariant holds around them, no thread   *)
(* writes within another's action, a promise outlives its call only if the *)
(* write has thrown, and, where the calls' ActionIDs are different, no     *)
(* message that arrives gets lost.                                         *)
(***************************************************************************)
EXTENDS Invoke, EventDispatcher_proof

(* The dispatcher's state, under the steps of calls, server and destructor. *)
DispatcherInv == W!TypeOK /\ MapInv

LEMMA MapsUnchanged == MapInv /\ UNCHANGED mapVars => MapInv'
  BY DEF mapVars, MapInv, MapTypes, PipeInv, ListHasPipe, ListShape, ListOf, Waiting, Working

LEMMA ThreadUnchanged == W!TypeOK /\ UNCHANGED threadVars => W!TypeOK'
  BY DEF threadVars, W!TypeOK

(* What the server may answer, and a message that arrives, are events.     *)
AnswerTypes == /\ answer \in [Sources -> Seq(Event)]
               /\ arrived \in [Sources -> Nat]
               /\ \A s \in Sources : arrived[s] <= Len(answer[s])

LEMMA ArrivingIsEvent ==
    ASSUME AnswerTypes, NEW s \in Sources, arrived[s] < Len(answer[s])
    PROVE  answer[s][arrived[s] + 1] \in Event
<1>1. answer[s] \in Seq(Event) /\ arrived[s] \in Nat /\ Len(answer[s]) \in Nat
  BY LenProperties DEF AnswerTypes
<1>2. arrived[s] + 1 \in 1 .. Len(answer[s])
  BY <1>1
<1>3. QED
  BY <1>1, <1>2, ElementOfSeq

(* The steps of a call that leave the dispatcher alone.                    *)
LEMMA CallSteps ==
    ASSUME NEW c \in Pipes, Call(c)
    PROVE  \/ GetEventPipe(c, ActionId[c])
           \/ SetExceptionOnPipe(ActionId[c])
           \/ UNCHANGED vars
  BY DEF Call, GetPipe, Write, BeginSend, FinishSend, SendShort, WriteThrows, TimeOut, CancelPipe,
         GetReaction

LEMMA DispatcherStep == AnswerTypes /\ DispatcherInv /\ [InvokeNext]_ivars => DispatcherInv'
<1> SUFFICES ASSUME AnswerTypes, DispatcherInv, [InvokeNext]_ivars PROVE DispatcherInv'
  OBVIOUS
<1> USE DEF DispatcherInv
<1>1. CASE UNCHANGED vars
  BY <1>1, MapsUnchanged, ThreadUnchanged DEF vars
<1>2. ASSUME NEW c \in Pipes, Call(c) PROVE DispatcherInv'
  <2>1. ActionId[c] \in Ids
    BY InvokeAssumption
  <2>2. CASE GetEventPipe(c, ActionId[c])
    BY <2>1, <2>2, GetEventPipeStep, ThreadUnchanged DEF GetEventPipe
  <2>3. CASE SetExceptionOnPipe(ActionId[c])
    BY <2>1, <2>3, GiveStep, ThreadUnchanged DEF SetExceptionOnPipe, MapInv
  <2>4. QED
    BY <1>1, <1>2, <2>2, <2>3, CallSteps
<1>3. ASSUME NEW s \in Sources, Arrive(s) PROVE DispatcherInv'
  <2>1. W!Add(answer[s][arrived[s] + 1]) /\ answer[s][arrived[s] + 1] \in Event
    BY <1>3, ArrivingIsEvent DEF Arrive
  <2>2. W!TypeOK'
    BY <2>1, ThreadTyping DEF W!Next
  <2>3. QED
    BY <1>3, <2>2, MapsUnchanged DEF Arrive
<1>4. CASE Handle
  <2>1. W!Handle /\ Dispatch(W!Current)
    BY <1>4 DEF Handle, DispatchEvent
  <2>2. W!TypeOK'
    BY <2>1, ThreadTyping DEF W!Next
  <2>3. QED
    BY <2>1, <2>2, CurrentIsEvent, DispatchStep
<1>5. CASE Run \/ Stop
  <2>1. W!TypeOK'
    BY <1>5, ThreadTyping DEF Run, Stop, W!Next
  <2>2. QED
    BY <1>5, <2>1, MapsUnchanged DEF Run, Stop
<1>6. CASE Cleanup
  BY <1>6, CleanupStep, ThreadUnchanged DEF Cleanup, CleanupObject
<1>7. CASE Over \/ UNCHANGED ivars
  BY <1>1, <1>7 DEF Over, ivars
<1>8. QED
  BY <1>2, <1>3, <1>4, <1>5, <1>6, <1>7 DEF InvokeNext

-----------------------------------------------------------------------------
(* The wire.  Only one call is sending, and its head is the last part the  *)
(* server has received; a call whose head is waiting for the end of an     *)
(* action has been given no answer.                                        *)
CallTypes == pc \in [Pipes -> CallStates] /\ wire \in Seq(Parts)

Unsent == {"idle", "piped", "threw"}

WireInv == /\ \A c \in Pipes : pc[c] = "sending" => wire # <<>> /\ wire[Len(wire)] = <<c, "head">>
           /\ \A c \in Glued : c \in Pipes /\ pc[c] \notin Unsent /\ answer[c] = <<>>
           /\ \A c \in Pipes : pc[c] \in Unsent => answer[c] = <<>>

CallInv == CallTypes /\ AnswerTypes /\ WireInv /\ WritesNotInterleaved

(* A part that arrives becomes the last one.                               *)
LEMMA PartArrives ==
    ASSUME wire \in Seq(Parts), NEW p \in Parts, wire' = Append(wire, p)
    PROVE  /\ wire' \in Seq(Parts) /\ wire' # <<>>
           /\ Len(wire) \in Nat
           /\ DOMAIN wire = 1 .. Len(wire)
           /\ DOMAIN wire' = 1 .. Len(wire) + 1
           /\ Len(wire') = Len(wire) + 1
           /\ \A i \in 1 .. Len(wire) : wire'[i] = wire[i]
           /\ wire'[Len(wire) + 1] = p
<1>1. /\ Append(wire, p) \in Seq(Parts)
      /\ Len(Append(wire, p)) = Len(wire) + 1
      /\ \A i \in 1 .. Len(wire) : Append(wire, p)[i] = wire[i]
      /\ Append(wire, p)[Len(wire) + 1] = p
  BY AppendProperties
<1>2. Len(wire) \in Nat /\ DOMAIN wire = 1 .. Len(wire) /\ DOMAIN Append(wire, p) = 1 .. Len(wire) + 1
  BY <1>1, LenProperties
<1>3. QED
  BY <1>1, <1>2, EmptySeq

(* The beginning of an action joins what waits for the end of one.         *)
LEMMA GluedHead ==
    ASSUME wire \in Seq(Parts), NEW c \in Pipes, wire' = Append(wire, <<c, "head">>)
    PROVE  Glued' \subseteq Glued \cup {c}
<1>1. <<c, "head">> \in Parts
  BY DEF Parts
<1>2. SUFFICES ASSUME NEW d \in Glued', d # c PROVE d \in Glued
  OBVIOUS
<1>3. PICK j \in DOMAIN wire' : d = wire'[j][1] /\ \A k \in DOMAIN wire' : wire'[k][2] = "rest" => k < j
  BY <1>2 DEF Glued
<1>4. j \in 1 .. Len(wire)
  BY <1>1, <1>2, <1>3, PartArrives
<1>5. d = wire[j][1] /\ \A k \in DOMAIN wire : wire[k][2] = "rest" => k < j
  BY <1>1, <1>3, <1>4, PartArrives
<1>6. QED
  BY <1>1, <1>4, <1>5, PartArrives DEF Glued

(* With the end of an action nothing waits.                                *)
LEMMA GluedRest ==
    ASSUME wire \in Seq(Parts), NEW c \in Pipes, wire' = Append(wire, <<c, "rest">>)
    PROVE  Glued' = {}
<1>1. <<c, "rest">> \in Parts
  BY DEF Parts
<1>2. SUFFICES ASSUME NEW d \in Glued' PROVE FALSE
  OBVIOUS
<1>3. PICK j \in DOMAIN wire' : \A k \in DOMAIN wire' : wire'[k][2] = "rest" => k < j
  BY <1>2 DEF Glued
<1>4. Len(wire) + 1 \in DOMAIN wire' /\ wire'[Len(wire) + 1][2] = "rest" /\ j <= Len(wire) + 1
  BY <1>1, PartArrives
<1>5. QED
  BY <1>1, <1>3, <1>4, PartArrives

(* The server's decision at the end of an action is for calls it has not   *)
(* answered.                                                               *)
LEMMA DecisionStep ==
    ASSUME CallInv, ServerDecides, UNCHANGED arrived
    PROVE  /\ AnswerTypes'
           /\ \A c \in Pipes : pc[c] \in Unsent => answer'[c] = answer[c]
           /\ \A s \in Sources : arrived[s] > 0 => answer'[s] = answer[s]
<1> USE DEF CallInv
<1>1. PICK c \in Glued : \E a \in Answers[c] \cup {<<>>} : answer' = [answer EXCEPT ![c] = a]
  BY DEF ServerDecides
<1>2. PICK a \in Answers[c] \cup {<<>>} : answer' = [answer EXCEPT ![c] = a]
  BY <1>1
<1>3. c \in Pipes /\ c \in Sources /\ pc[c] \notin Unsent /\ answer[c] = <<>>
  BY DEF WireInv, Sources
<1>4. a \in Seq(Event)
  BY <1>2, <1>3, InvokeAssumption, EmptySeq
<1>5. arrived[c] = 0
  BY <1>3, EmptySeq DEF AnswerTypes
<1>6. Len(a) \in Nat
  BY <1>4, LenProperties
<1>7. AnswerTypes'
  BY <1>2, <1>3, <1>4, <1>5, <1>6 DEF AnswerTypes
<1>8. QED
  BY <1>2, <1>3, <1>7 DEF AnswerTypes

(* The steps of a call, apart from its writes, move it forward and leave   *)
(* the wire and the answers alone.                                         *)
LEMMA MovesKeepCalls ==
    ASSUME CallInv, NEW c \in Pipes,
           NEW state \in {"piped", "waiting", "expired", "cancelled", "ended", "threw"},
           Goto(c, state), UNCHANGED <<wire, answer, arrived>>,
           state \in Unsent => pc[c] \in {"idle", "piped"}
    PROVE  CallInv'
<1> USE DEF CallInv
<1>1. pc' = [pc EXCEPT ![c] = state]
  BY DEF Goto
<1>2. CallTypes'
  BY <1>1 DEF CallTypes, CallStates
<1>3. AnswerTypes' /\ WritesNotInterleaved' /\ Glued' = Glued
  BY DEF AnswerTypes, WritesNotInterleaved, Glued
<1>4. WireInv'
  BY <1>1, <1>3 DEF WireInv, CallTypes, Unsent
<1>5. QED
  BY <1>2, <1>3, <1>4

LEMMA BeginSendKeepsCalls == ASSUME CallInv, NEW c \in Pipes, BeginSend(c) PROVE CallInv'
<1> USE DEF CallInv
<1> DEFINE p == <<c, "head">>
<1>1. /\ wire \in Seq(Parts) /\ wire' = Append(wire, p) /\ p \in Parts
      /\ pc' = [pc EXCEPT ![c] = "sending"]
      /\ UNCHANGED <<answer, arrived>>
      /\ \A d \in Pipes : pc[d] # "sending"
      /\ pc[c] \in {"idle", "piped"}
  BY DEF BeginSend, MayWrite, MayStart, WriteMutexFree, Goto, CallTypes, Parts
<1>2. /\ wire' \in Seq(Parts) /\ wire' # <<>> /\ Len(wire') = Len(wire) + 1 /\ Len(wire) \in Nat
      /\ DOMAIN wire = 1 .. Len(wire) /\ DOMAIN wire' = 1 .. Len(wire) + 1
      /\ \A i \in 1 .. Len(wire) : wire'[i] = wire[i]
      /\ wire'[Len(wire) + 1] = p
  BY <1>1, PartArrives
<1>3. CallTypes' /\ AnswerTypes'
  BY <1>1, <1>2 DEF CallTypes, CallStates, AnswerTypes
<1>4. WritesNotInterleaved'
  <2>1. SUFFICES ASSUME NEW i \in DOMAIN wire', wire'[i][2] = "rest"
                 PROVE  i > 1 /\ wire'[i - 1] = <<wire'[i][1], "head">>
    BY DEF WritesNotInterleaved
  <2>2. i \in 1 .. Len(wire)
    BY <1>2, <2>1
  <2>3. i > 1 /\ wire[i - 1] = <<wire[i][1], "head">>
    BY <1>2, <2>1, <2>2 DEF WritesNotInterleaved
  <2>4. QED
    BY <1>2, <2>2, <2>3
<1>5. WireInv'
  <2>1. Glued' \subseteq Glued \cup {c}
    BY <1>1, GluedHead
  <2>2. \A d \in Pipes : pc'[d] = "sending" => d = c
    BY <1>1 DEF CallTypes
  <2>3. \A d \in Glued' : d \in Pipes /\ pc'[d] \notin Unsent /\ answer'[d] = <<>>
    BY <1>1, <2>1 DEF WireInv, CallTypes, Unsent
  <2>4. \A d \in Pipes : pc'[d] \in Unsent => answer'[d] = <<>>
    BY <1>1 DEF WireInv, CallTypes, Unsent
  <2>5. QED
    BY <1>2, <2>2, <2>3, <2>4 DEF WireInv
<1>6. QED
  BY <1>3, <1>4, <1>5

LEMMA FinishSendKeepsCalls == ASSUME CallInv, NEW c \in Pipes, FinishSend(c) PROVE CallInv'
<1> USE DEF CallInv
<1> DEFINE p == <<c, "rest">>
<1>1. /\ wire \in Seq(Parts) /\ wire' = Append(wire, p) /\ p \in Parts
      /\ pc[c] = "sending"
      /\ pc' = [pc EXCEPT ![c] = AfterWrite(c)]
      /\ AfterWrite(c) \in {"waiting", "ended"}
  BY DEF FinishSend, AfterWrite, Goto, CallTypes, Parts
<1>2. /\ wire' \in Seq(Parts) /\ wire' # <<>> /\ Len(wire') = Len(wire) + 1 /\ Len(wire) \in Nat
      /\ DOMAIN wire = 1 .. Len(wire) /\ DOMAIN wire' = 1 .. Len(wire) + 1
      /\ \A i \in 1 .. Len(wire) : wire'[i] = wire[i]
      /\ wire'[Len(wire) + 1] = p
  BY <1>1, PartArrives
<1>3. /\ AnswerTypes'
      /\ \A d \in Pipes : pc[d] \in Unsent => answer'[d] = answer[d]
  BY DecisionStep DEF FinishSend
<1>4. CallTypes'
  BY <1>1, <1>2 DEF CallTypes, CallStates
<1>5. wire # <<>> /\ wire[Len(wire)] = <<c, "head">>
  BY <1>1 DEF WireInv
<1>6. Len(wire) > 0
  BY <1>1, <1>2, <1>5, EmptySeq
<1>7. WritesNotInterleaved'
  <2>1. SUFFICES ASSUME NEW i \in DOMAIN wire', wire'[i][2] = "rest"
                 PROVE  i > 1 /\ wire'[i - 1] = <<wire'[i][1], "head">>
    BY DEF WritesNotInterleaved
  <2>2. CASE i \in 1 .. Len(wire)
    <3>1. i > 1 /\ wire[i - 1] = <<wire[i][1], "head">>
      BY <1>2, <2>1, <2>2 DEF WritesNotInterleaved
    <3>2. QED
      BY <1>2, <2>2, <3>1
  <2>3. CASE i = Len(wire) + 1
    BY <1>2, <1>5, <1>6, <2>3
  <2>4. QED
    BY <1>2, <2>2, <2>3
<1>8. WireInv'
  <2>1. Glued' = {}
    BY <1>1, GluedRest
  <2>2. ASSUME NEW d \in Pipes PROVE pc'[d] # "sending"
    <3>1. pc[d] = "sending" => d = c
      BY <1>5 DEF WireInv
    <3>2. QED
      BY <1>1, <3>1 DEF CallTypes
  <2>3. \A d \in Pipes : pc'[d] \in Unsent => answer'[d] = <<>>
    BY <1>1, <1>3 DEF WireInv, CallTypes, Unsent
  <2>4. QED
    BY <2>1, <2>2, <2>3 DEF WireInv
<1>9. QED
  BY <1>3, <1>4, <1>7, <1>8

LEMMA CallInvStep == CallInv /\ [InvokeNext]_ivars => CallInv'
<1> SUFFICES ASSUME CallInv, [InvokeNext]_ivars PROVE CallInv'
  OBVIOUS
<1>1. CASE UNCHANGED callVars
  BY <1>1 DEF callVars, CallInv, CallTypes, AnswerTypes, WireInv, WritesNotInterleaved, Glued
<1>2. ASSUME NEW c \in Pipes, Call(c) PROVE CallInv'
  <2>1. CASE GetPipe(c)
    BY <2>1, MovesKeepCalls DEF GetPipe, MayStart
  <2>2. CASE SendShort(c)
    BY <2>2, MovesKeepCalls DEF SendShort, AfterWrite, Unsent
  <2>3. CASE WriteThrows(c)
    BY <2>3, MovesKeepCalls DEF WriteThrows, MayWrite, MayStart
  <2>4. CASE TimeOut(c) \/ CancelPipe(c) \/ GetReaction(c)
    BY <2>4, MovesKeepCalls DEF TimeOut, CancelPipe, GetReaction, Unsent
  <2>5. QED
    BY <1>2, <2>1, <2>2, <2>3, <2>4, BeginSendKeepsCalls, FinishSendKeepsCalls DEF Call, Write
<1>3. ASSUME NEW s \in Sources, Arrive(s) PROVE CallInv'
  <2>1. AnswerTypes'
    <3>1. answer[s] \in Seq(Event) /\ Len(answer[s]) \in Nat /\ arrived[s] \in Nat
      BY LenProperties DEF CallInv, AnswerTypes
    <3>2. QED
      BY <1>3, <3>1 DEF Arrive, CallInv, AnswerTypes
  <2>2. QED
    BY <1>3, <2>1 DEF Arrive, CallInv, CallTypes, WireInv, WritesNotInterleaved, Glued
<1>4. CASE Handle
  BY <1>4 DEF Handle, CallInv, CallTypes, AnswerTypes, WireInv, WritesNotInterleaved, Glued
<1>5. CASE Run \/ Stop \/ Cleanup \/ Over \/ UNCHANGED ivars
  BY <1>1, <1>5 DEF Run, Stop, Cleanup, Over, ivars
<1>6. QED
  BY <1>2, <1>3, <1>4, <1>5 DEF InvokeNext

LEMMA InitCalls == InvokeInit => DispatcherInv /\ CallInv
<1> SUFFICES ASSUME InvokeInit PROVE DispatcherInv /\ CallInv
  OBVIOUS
<1>1. DispatcherInv
  BY InitInv DEF InvokeInit, DispatcherInv
<1>2. CallTypes /\ wire = <<>>
  BY DEF InvokeInit, CallTypes, CallStates
<1>3. AnswerTypes
  <2>1. \A q \in Seq(Event) : Len(q) \in Nat
    BY LenProperties
  <2>2. QED
    BY <2>1, InvokeAssumption, EmptySeq DEF InvokeInit, AnswerTypes
<1>4. Glued = {} /\ WritesNotInterleaved
  BY <1>2 DEF Glued, WritesNotInterleaved
<1>5. WireInv
  BY <1>2, <1>4, IdAssumption DEF InvokeInit, WireInv, Sources
<1>6. QED
  BY <1>1, <1>2, <1>3, <1>4, <1>5 DEF CallInv

(* The dispatcher's invariant and the calls' hold together.                *)
THEOREM CallInvariance == InvokeSpec => [](DispatcherInv /\ CallInv)
<1>1. (DispatcherInv /\ CallInv) /\ [InvokeNext]_ivars => (DispatcherInv /\ CallInv)'
  BY DispatcherStep, CallInvStep DEF CallInv
<1>2. QED
  BY <1>1, InitCalls, PTL DEF InvokeSpec

(* TcpSocket.hpp, write: "Provides a thread-safe write".  However many      *)
(* threads write, nothing of another action comes between the beginning of *)
(* an action and its end, where the end is sent at all.                    *)
THEOREM WritesApart == InvokeSpec => []WritesNotInterleaved
<1>1. DispatcherInv /\ CallInv => WritesNotInterleaved
  BY DEF CallInv
<1>2. QED
  BY <1>1, CallInvariance, PTL

-----------------------------------------------------------------------------
(* Who may still have a promise in the map, and when the destructor runs.  *)
HoldsPromise(c) == Sync(c) /\ pc[c] \in {"piped", "sending", "waiting", "expired", "threw"}

PromiseInv == \A id \in Ids : Waiting(id) => /\ HoldsPromise(promise_map_[id])
                                            /\ ActionId[promise_map_[id]] = id

QuietInv == stopper # "live" => \A c \in Pipes : pc[c] = "idle" \/ Ended(c)

LeftoverInv == PromiseInv /\ QuietInv /\ AssertNeedsFailedWrite

(* Handling a message takes promises out of the map and puts none in.      *)
LEMMA DispatchOnlySettles ==
    ASSUME MapInv, NEW e \in Event, Dispatch(e)
    PROVE  /\ \A id \in Ids : Waiting(id)' => Waiting(id) /\ promise_map_'[id] = promise_map_[id]
           /\ cleanup' = cleanup
<1>1. CASE promise_map_' = promise_map_
  BY <1>1 DEF Dispatch, Notify, Reply, StartList, FailList, AppendList, CompleteList, Waiting, mapVars
<1>2. ASSUME Waiting(e.ActionID), promise_map_' = [promise_map_ EXCEPT ![e.ActionID] = NoPipe]
      PROVE  \A id \in Ids : Waiting(id)' => Waiting(id) /\ promise_map_'[id] = promise_map_[id]
  BY <1>2 DEF MapInv, MapTypes, Waiting
<1>3. QED
  BY <1>1, <1>2 DEF Dispatch, Notify, Reply, StartList, FailList, AppendList, CompleteList, Settle,
                    mapVars

(* Steps of calls that do not touch the maps: a promise's call stays one   *)
(* that may hold it, for only a future that is ready is taken.             *)
LEMMA MovesKeepPromises ==
    ASSUME CallTypes, PromiseInv, NEW c \in Pipes, NEW state \in CallStates, Goto(c, state),
           UNCHANGED promise_map_,
           \/ ~Sync(c)
           \/ state \in {"piped", "sending", "waiting", "expired", "threw"}
           \/ \A id \in Ids : promise_map_[id] # c
    PROVE  PromiseInv'
<1>1. SUFFICES ASSUME NEW id \in Ids, Waiting(id)
               PROVE  HoldsPromise(promise_map_[id])' /\ ActionId[promise_map_[id]] = id
  BY DEF PromiseInv, Waiting
<1>2. HoldsPromise(promise_map_[id]) /\ ActionId[promise_map_[id]] = id
  BY <1>1 DEF PromiseInv
<1>3. QED
  BY <1>1, <1>2 DEF HoldsPromise, Goto, CallTypes, Sync

(* The steps by which a call ends up in a state, whatever they do besides. *)
LEMMA CallMoves ==
    ASSUME NEW c \in Pipes, Call(c)
    PROVE  /\ \E state \in CallStates : Goto(c, state)
           /\ pc[c] # "ended" /\ pc[c] # "threw"
           /\ stopper = "live" \/ pc[c] # "idle"
           /\ UNCHANGED <<stopper, cleanup>>
  BY DEF Call, GetPipe, Write, BeginSend, FinishSend, SendShort, WriteThrows, TimeOut, CancelPipe,
         GetReaction, GetEventPipe, SetExceptionOnPipe, Give, MayStart, MayWrite, Goto, AfterWrite,
         CallStates, vars, mapVars, threadVars

LEMMA CallKeepsPromises ==
    ASSUME MapInv, CallTypes, PromiseInv, NEW c \in Pipes, Call(c)
    PROVE  PromiseInv'
<1>1. CASE GetPipe(c)
  <2>1. Sync(c) /\ pc[c] = "idle" /\ pc' = [pc EXCEPT ![c] = "piped"] /\ ActionId[c] \in Ids
    BY <1>1, InvokeAssumption DEF GetPipe, MayStart, Goto
  <2>2. SUFFICES ASSUME NEW id \in Ids, Waiting(id)'
                 PROVE  HoldsPromise(promise_map_[id])' /\ ActionId[promise_map_'[id]] = id
    BY DEF PromiseInv
  <2>3. CASE Waiting(id) /\ promise_map_'[id] = promise_map_[id]
    <3>1. HoldsPromise(promise_map_[id]) /\ ActionId[promise_map_[id]] = id
      BY <2>3 DEF PromiseInv
    <3>2. QED
      BY <2>1, <2>3, <3>1 DEF HoldsPromise, CallTypes, Sync
  <2>4. CASE id = ActionId[c] /\ promise_map_'[id] = c
    BY <2>1, <2>4 DEF HoldsPromise, CallTypes, Sync
  <2>5. QED
    BY <1>1, <2>1, <2>2, <2>3, <2>4 DEF GetPipe, GetEventPipe, Waiting, MapInv, MapTypes
<1>2. CASE CancelPipe(c)
  <2>1. /\ promise_map_' = [promise_map_ EXCEPT ![ActionId[c]] = NoPipe]
        /\ pc' = [pc EXCEPT ![c] = "cancelled"]
    BY <1>2 DEF CancelPipe, SetExceptionOnPipe, Give, Goto
  <2>2. SUFFICES ASSUME NEW id \in Ids, Waiting(id)'
                 PROVE  HoldsPromise(promise_map_[id])' /\ ActionId[promise_map_'[id]] = id
    BY DEF PromiseInv
  <2>3. id # ActionId[c] /\ Waiting(id) /\ promise_map_'[id] = promise_map_[id]
    BY <2>1, <2>2 DEF Waiting, MapInv, MapTypes
  <2>4. HoldsPromise(promise_map_[id]) /\ ActionId[promise_map_[id]] = id
    BY <2>3 DEF PromiseInv
  <2>5. promise_map_[id] # c
    BY <2>3, <2>4
  <2>6. QED
    BY <2>1, <2>3, <2>4, <2>5 DEF HoldsPromise, CallTypes, Sync
<1>3. CASE Write(c) \/ TimeOut(c)
  <2>1. UNCHANGED promise_map_
    BY <1>3 DEF Write, TimeOut, BeginSend, FinishSend, SendShort, WriteThrows, vars, mapVars
  <2>2. PICK state \in {"sending", "waiting", "expired", "threw", "ended"} :
              Goto(c, state) /\ (state = "ended" => ~Sync(c))
    BY <1>3 DEF Write, TimeOut, BeginSend, FinishSend, SendShort, WriteThrows, AfterWrite
  <2>3. state \in CallStates
    BY DEF CallStates
  <2>4. QED
    BY <2>1, <2>2, <2>3, MovesKeepPromises
<1>4. CASE GetReaction(c)
  <2>1. UNCHANGED promise_map_ /\ Goto(c, "ended") /\ "ended" \in CallStates
    BY <1>4 DEF GetReaction, vars, mapVars, CallStates
  <2>2. \A id \in Ids : promise_map_[id] # c
    BY <1>4 DEF GetReaction, Ready, MapInv, PipeInv
  <2>3. QED
    BY <2>1, <2>2, MovesKeepPromises
<1>5. QED
  BY <1>1, <1>2, <1>3, <1>4 DEF Call

LEMMA CallKeepsLeftovers ==
    ASSUME MapInv, CallTypes, LeftoverInv, NEW c \in Pipes, Call(c)
    PROVE  LeftoverInv'
<1>1. PICK state \in CallStates : pc' = [pc EXCEPT ![c] = state]
  BY CallMoves DEF Goto
<1>2. /\ pc[c] # "ended" /\ pc[c] # "threw" /\ (stopper = "live" \/ pc[c] # "idle")
      /\ UNCHANGED <<stopper, cleanup>>
  BY CallMoves
<1>3. PromiseInv'
  BY CallKeepsPromises DEF LeftoverInv
<1>4. QuietInv'
  BY <1>2 DEF LeftoverInv, QuietInv, Ended
<1>5. AssertNeedsFailedWrite'
  BY <1>1, <1>2 DEF LeftoverInv, AssertNeedsFailedWrite, CallTypes, Sync
<1>6. QED
  BY <1>3, <1>4, <1>5 DEF LeftoverInv

(* The destructor's first assertion fails on a promise whose call is over  *)
(* without having taken it: only a failed write leaves one.                *)
LEMMA CleanupFindsFailedWrite ==
    ASSUME MapInv, CallTypes, LeftoverInv, Cleanup
    PROVE  LeftoverInv'
<1> USE DEF LeftoverInv
<1>1. UNCHANGED <<pc, stopper>> /\ stopper = "joined"
  BY DEF Cleanup, CleanupObject, callVars, threadVars
<1>2. QuietInv'
  BY <1>1 DEF QuietInv, Ended
<1>3. PromiseInv'
  <2>1. CASE UNCHANGED promise_map_
    BY <1>1, <2>1 DEF PromiseInv, HoldsPromise, Waiting
  <2>2. CASE promise_map_' = [id \in Ids |-> NoPipe]
    BY <2>2 DEF PromiseInv, Waiting
  <2>3. QED
    BY <2>1, <2>2 DEF Cleanup, CleanupObject
<1>4. AssertNeedsFailedWrite'
  <2>1. CASE \E id \in Ids : Waiting(id)
    <3>1. PICK id \in Ids : Waiting(id)
      BY <2>1
    <3>2. promise_map_[id] \in Pipes
      BY <3>1 DEF MapInv, MapTypes, Waiting
    <3>3. HoldsPromise(promise_map_[id])
      BY <3>1 DEF PromiseInv
    <3>4. pc[promise_map_[id]] = "idle" \/ Ended(promise_map_[id])
      BY <1>1, <3>2 DEF QuietInv
    <3>5. Sync(promise_map_[id]) /\ pc[promise_map_[id]] = "threw"
      BY <3>3, <3>4 DEF HoldsPromise, Ended
    <3>6. QED
      BY <1>1, <3>2, <3>5 DEF AssertNeedsFailedWrite, Sync
  <2>2. CASE ~ \E id \in Ids : Waiting(id)
    <3>1. cleanup' # "promise assert failed"
      BY <2>2, Zenon DEF Cleanup, CleanupObject
    <3>2. QED
      BY <3>1 DEF AssertNeedsFailedWrite
  <2>3. QED
    BY <2>1, <2>2
<1>5. QED
  BY <1>2, <1>3, <1>4

LEMMA LeftoverStep ==
    ASSUME W!TypeOK, MapInv, CallTypes, LeftoverInv, [InvokeNext]_ivars
    PROVE  LeftoverInv'
<1>1. CASE UNCHANGED <<promise_map_, pc, cleanup, stopper>>
  BY <1>1 DEF LeftoverInv, PromiseInv, HoldsPromise, QuietInv, AssertNeedsFailedWrite, Waiting, Ended
<1>2. ASSUME NEW s \in Sources, Arrive(s) PROVE LeftoverInv'
  BY <1>1, <1>2 DEF Arrive, W!Add, mapVars
<1>3. CASE Handle
  <2>1. W!Handle /\ Dispatch(W!Current) /\ UNCHANGED <<pc, stopper>>
    BY <1>3 DEF Handle, DispatchEvent, W!Handle, W!HandleBatch, W!HandleDrain
  <2>2. /\ \A id \in Ids : Waiting(id)' => Waiting(id) /\ promise_map_'[id] = promise_map_[id]
        /\ cleanup' = cleanup
    BY <2>1, CurrentIsEvent, DispatchOnlySettles
  <2>3. QED
    BY <2>1, <2>2 DEF LeftoverInv, PromiseInv, HoldsPromise, QuietInv, AssertNeedsFailedWrite, Ended
<1>4. CASE Run
  <2>1. UNCHANGED stopper
    BY <1>4 DEF Run, W!Housekeeping, W!SpuriousWakeup, W!EnterLoop, W!Swap, W!DecideToWait,
                W!FallAsleep, W!Reacquire, W!FinishBatch, W!LeaveLoop, W!Exit
  <2>2. QED
    BY <1>1, <1>4, <2>1 DEF Run, mapVars, callVars
<1>5. CASE Stop
  BY <1>5 DEF Stop, mapVars, callVars, LeftoverInv, PromiseInv, HoldsPromise, QuietInv,
              AssertNeedsFailedWrite, Waiting, Ended
<1>6. CASE Over \/ UNCHANGED ivars
  BY <1>1, <1>6 DEF Over, ivars, vars, callVars, mapVars, threadVars
<1>7. QED
  BY <1>2, <1>3, <1>4, <1>5, <1>6, CallKeepsLeftovers, CleanupFindsFailedWrite DEF InvokeNext

(* Destroying a Connection with no call in progress fails the assertion    *)
(* that promise_map_ is empty only where TcpSocket::write has thrown and   *)
(* left its call's promise behind: not after answers, timeouts, refused    *)
(* pipes or reused ActionIDs, in whatever order they come.                 *)
THEOREM LeftoversAreFailedWrites == InvokeSpec => []AssertNeedsFailedWrite
<1>1. InvokeInit => LeftoverInv
  BY IdAssumption DEF InvokeInit, Init, W!Init, LeftoverInv, PromiseInv, QuietInv,
                      AssertNeedsFailedWrite, Waiting
<1>2. (DispatcherInv /\ CallInv) /\ LeftoverInv /\ [InvokeNext]_ivars => LeftoverInv'
  BY LeftoverStep DEF DispatcherInv, CallInv
<1>3. LeftoverInv => AssertNeedsFailedWrite
  BY DEF LeftoverInv
<1>4. QED
  BY <1>1, <1>2, <1>3, CallInvariance, PTL DEF InvokeSpec

-----------------------------------------------------------------------------
(* All of this together; and for calls with different ActionIDs, that the *)
(* steps of one leave what is another's alone.                             *)
CallsInv == DispatcherInv /\ CallInv /\ LeftoverInv

DistinctIds == \A c, d \in Pipes : ActionId[c] = ActionId[d] => c = d

LEMMA OthersKeepFuture ==
    ASSUME DistinctIds, CallsInv, NEW c \in Pipes, NEW d \in Pipes, c # d, Call(d)
    PROVE  /\ pc'[c] = pc[c] /\ future'[c] = future[c] /\ reaction' = reaction
           /\ event_map_'[ActionId[c]] = event_map_[ActionId[c]]
<1> USE DEF CallsInv, DispatcherInv, MapInv
<1>1. pc'[c] = pc[c]
  <2>1. PICK state \in CallStates : pc' = [pc EXCEPT ![d] = state]
    BY CallMoves DEF Goto
  <2>2. QED
    BY <2>1 DEF CallInv, CallTypes
<1>2. ActionId[c] \in Ids /\ ActionId[d] \in Ids /\ ActionId[c] # ActionId[d]
  BY InvokeAssumption DEF DistinctIds
<1>3. CASE GetEventPipe(d, ActionId[d])
  BY <1>1, <1>3 DEF GetEventPipe, MapTypes
<1>4. CASE SetExceptionOnPipe(ActionId[d])
  <2>1. Waiting(ActionId[d]) => promise_map_[ActionId[d]] # c
    BY <1>2 DEF LeftoverInv, PromiseInv
  <2>2. /\ \/ future' = future
           \/ /\ Waiting(ActionId[d])
              /\ future' = [future EXCEPT ![promise_map_[ActionId[d]]] = "exception"]
        /\ event_map_' = [event_map_ EXCEPT ![ActionId[d]] = <<>>]
        /\ reaction' = reaction
    BY <1>4 DEF SetExceptionOnPipe, Give
  <2>3. QED
    BY <1>1, <1>2, <2>1, <2>2 DEF MapTypes
<1>5. CASE UNCHANGED vars
  BY <1>1, <1>5 DEF vars, mapVars
<1>6. QED
  BY <1>3, <1>4, <1>5, CallSteps

(* Where a message may be, and that every message is addressed to the call *)
(* it answers, as the server makes it when the ActionIDs of the calls are  *)
(* different.                                                              *)
OwnAnswers ==
    /\ DistinctIds
    /\ \A c \in Pipes : \A a \in Answers[c] : \A i \in DOMAIN a : a[i].ActionID = ActionId[c]
    /\ \A i \in DOMAIN Unsolicited : Unsolicited[i].ActionID = NoId

Addressed ==
    \A s \in Sources : \A i \in DOMAIN answer[s] :
        answer[s][i].ActionID = IF s = NoPipe THEN NoId ELSE ActionId[s]

Queued(e) == e \in Elements(events_) \cup Elements(events)
Listed(e) == \E id \in Ids : e \in Elements(event_map_[id])
Given(e)  == \E c \in Pipes : e \in Elements(reaction[c])
Safe(e)   == Queued(e) \/ e \in notified \/ Listed(e) \/ Given(e)

KeptInv == Addressed /\ NothingLost

LEMMA ElementsAppend ==
    ASSUME NEW S, NEW s \in Seq(S), NEW x \in S
    PROVE  Elements(Append(s, x)) = Elements(s) \cup {x}
<1>1. /\ Append(s, x) \in Seq(S)
      /\ Len(Append(s, x)) = Len(s) + 1
      /\ \A i \in 1 .. Len(s) : Append(s, x)[i] = s[i]
      /\ Append(s, x)[Len(s) + 1] = x
  BY AppendProperties
<1>2. Len(s) \in Nat /\ DOMAIN s = 1 .. Len(s) /\ DOMAIN Append(s, x) = 1 .. Len(s) + 1
  BY <1>1, LenProperties
<1>3. QED
  BY <1>1, <1>2 DEF Elements

LEMMA ElementsTail ==
    ASSUME NEW S, NEW s \in Seq(S), s # <<>>
    PROVE  Elements(s) \subseteq {Head(s)} \cup Elements(Tail(s))
<1>1. /\ Tail(s) \in Seq(S)
      /\ Len(Tail(s)) = Len(s) - 1
      /\ \A i \in 1 .. Len(Tail(s)) : Tail(s)[i] = s[i + 1]
      /\ Head(s) = s[1]
  BY HeadTailProperties
<1>2. Len(s) \in Nat /\ DOMAIN s = 1 .. Len(s) /\ DOMAIN Tail(s) = 1 .. Len(s) - 1
  BY <1>1, LenProperties
<1>3. ASSUME NEW i \in DOMAIN s, i # 1 PROVE s[i] \in Elements(Tail(s))
  <2>1. i - 1 \in DOMAIN Tail(s) /\ Tail(s)[i - 1] = s[i]
    BY <1>1, <1>2, <1>3
  <2>2. QED
    BY <2>1 DEF Elements
<1>4. QED
  BY <1>1, <1>3 DEF Elements

(* Handling a message loses none of those collected or given, and one that *)
(* is not for the callback joins them.                                     *)
LEMMA DispatchKeeps ==
    ASSUME MapInv, NEW e \in Event, Dispatch(e)
    PROVE  /\ \A x : Listed(x) \/ Given(x) => Listed(x)' \/ Given(x)'
           /\ Waiting(e.ActionID) => Listed(e)' \/ Given(e)'
           /\ \A c \in Pipes : future[c] = "exception" => future'[c] = "exception"
<1> DEFINE id == e.ActionID
<1> USE DEF MapInv
<1>1. CASE Notify(e)
  BY <1>1 DEF Notify, mapVars, Listed, Given
<1>2. ASSUME Waiting(id)
      PROVE  /\ id \in Ids /\ promise_map_[id] \in Pipes
             /\ future[promise_map_[id]] = "pending" /\ reaction[promise_map_[id]] = <<>>
             /\ event_map_[id] \in Seq(Event)
  BY <1>2 DEF Waiting, MapTypes, PipeInv
<1>3. Elements(<<>>) = {} /\ Elements(<<e>>) = {e}
  BY DEF Elements
<1>4. ASSUME NEW r \in Seq(Event), Waiting(id), Settle(id, r), e \in Elements(r),
             \/ event_map_' = event_map_
             \/ /\ event_map_' = [event_map_ EXCEPT ![id] = <<>>]
                /\ Elements(event_map_[id]) \subseteq Elements(r)
      PROVE  /\ \A x : Listed(x) \/ Given(x) => Listed(x)' \/ Given(x)'
             /\ Given(e)'
             /\ \A c \in Pipes : future[c] = "exception" => future'[c] = "exception"
  <2> DEFINE p == promise_map_[id]
  <2>1. /\ p \in Pipes /\ reaction' = [reaction EXCEPT ![p] = r]
        /\ future' = [future EXCEPT ![p] = "value"]
    BY <1>2, <1>4 DEF Settle
  <2>2. reaction'[p] = r /\ \A c \in Pipes \ {p} : reaction'[c] = reaction[c]
    BY <2>1 DEF MapTypes
  <2>3. ASSUME NEW x, Given(x) PROVE Given(x)'
    <3>1. PICK c \in Pipes : x \in Elements(reaction[c])
      BY <2>3 DEF Given
    <3>2. c # p
      BY <1>2, <1>3, <1>4, <3>1
    <3>3. QED
      BY <2>2, <3>1, <3>2 DEF Given
  <2>4. ASSUME NEW x \in Elements(r) PROVE Given(x)'
    BY <2>1, <2>2, <2>4 DEF Given
  <2>5. ASSUME NEW x, Listed(x) PROVE Listed(x)' \/ Given(x)'
    <3>1. PICK i \in Ids : x \in Elements(event_map_[i])
      BY <2>5 DEF Listed
    <3>2. CASE x \in Elements(event_map_'[i])
      BY <3>1, <3>2 DEF Listed
    <3>3. CASE i = id /\ Elements(event_map_[id]) \subseteq Elements(r)
      BY <2>4, <3>1, <3>3
    <3>4. QED
      BY <1>2, <1>4, <3>1, <3>2, <3>3 DEF MapTypes
  <2>6. \A c \in Pipes : future[c] = "exception" => future'[c] = "exception"
    BY <1>2, <1>4, <2>1 DEF MapTypes
  <2>7. Given(e)'
    BY <1>4, <2>4
  <2>8. QED
    BY <2>3, <2>5, <2>6, <2>7
<1>5. CASE Reply(e) \/ FailList(e)
  <2>1. <<e>> \in Seq(Event) /\ e \in Elements(<<e>>)
    BY <1>3
  <2>2. QED
    BY <1>4, <1>5, <2>1 DEF Reply, FailList
<1>6. CASE CompleteList(e)
  <2>1. /\ Append(event_map_[id], e) \in Seq(Event)
        /\ Elements(Append(event_map_[id], e)) = Elements(event_map_[id]) \cup {e}
    BY <1>2, <1>6, ElementsAppend, AppendProperties DEF CompleteList
  <2>2. QED
    BY <1>4, <1>6, <2>1 DEF CompleteList
<1>7. CASE StartList(e) \/ AppendList(e)
  <2>1. PICK l \in Seq(Event) : /\ event_map_' = [event_map_ EXCEPT ![id] = l]
                                /\ Elements(l) = Elements(event_map_[id]) \cup {e}
    <3>1. CASE StartList(e)
      <4>1. Waiting(id) /\ event_map_[id] = <<>> /\ event_map_' = [event_map_ EXCEPT ![id] = <<e>>]
        BY <3>1 DEF StartList, Working
      <4>2. <<e>> \in Seq(Event) /\ Elements(<<e>>) = Elements(event_map_[id]) \cup {e}
        BY <1>3, <4>1
      <4>3. QED
        BY <4>1, <4>2
    <3>2. CASE AppendList(e)
      <4>1. /\ Append(event_map_[id], e) \in Seq(Event)
            /\ Elements(Append(event_map_[id], e)) = Elements(event_map_[id]) \cup {e}
        BY <1>2, <3>2, ElementsAppend, AppendProperties DEF AppendList
      <4>2. QED
        BY <3>2, <4>1 DEF AppendList
    <3>3. QED
      BY <1>7, <3>1, <3>2
  <2>2. id \in Ids /\ UNCHANGED <<future, reaction>>
    BY <1>2, <1>7 DEF StartList, AppendList
  <2>3. \A i \in Ids : Elements(event_map_[i]) \subseteq Elements(event_map_'[i])
    BY <2>1, <2>2 DEF MapTypes
  <2>4. e \in Elements(event_map_'[id])
    BY <2>1, <2>2 DEF MapTypes
  <2>5. \A x : Listed(x) => Listed(x)'
    BY <2>3 DEF Listed
  <2>6. Listed(e)'
    BY <2>2, <2>4 DEF Listed
  <2>7. QED
    BY <2>2, <2>5, <2>6 DEF Given
<1>8. QED
  BY <1>1, <1>5, <1>6, <1>7 DEF Dispatch, Notify

(* The handled message leaves the queues, and no other.                    *)
LEMMA HandleKeepsOthers ==
    ASSUME W!TypeOK, W!Handle, NEW x, Queued(x), x # W!Current
    PROVE  Queued(x)'
<1> USE DEF W!TypeOK
<1>1. CASE W!HandleBatch
  <2>1. /\ events \in Seq(Event) /\ events # <<>> /\ events' = Tail(events) /\ events_' = events_
        /\ W!Current = Head(events)
    BY <1>1 DEF W!HandleBatch, W!Current
  <2>2. Elements(events) \subseteq {Head(events)} \cup Elements(Tail(events))
    BY <2>1, ElementsTail
  <2>3. QED
    BY <2>1, <2>2 DEF Queued
<1>2. CASE W!HandleDrain
  <2>1. /\ events_ \in Seq(Event) /\ events_ # <<>> /\ events_' = Tail(events_) /\ events' = events
        /\ W!Current = Head(events_)
    BY <1>2 DEF W!HandleDrain, W!Current
  <2>2. Elements(events_) \subseteq {Head(events_)} \cup Elements(Tail(events_))
    BY <2>1, ElementsTail
  <2>3. QED
    BY <2>1, <2>2 DEF Queued
<1>3. QED
  BY <1>1, <1>2 DEF W!Handle

LEMMA KeptByKeeping ==
    ASSUME NothingLost, arrived' = arrived,
           \A s \in Sources : arrived[s] > 0 => answer'[s] = answer[s],
           AnswerTypes,
           \A c \in Pipes : future[c] = "exception" => future'[c] = "exception",
           \A s \in Sources : \A i \in 1 .. arrived[s] :
               Safe(answer[s][i]) => \/ Safe(answer[s][i])'
                                     \/ s # NoPipe /\ future'[s] = "exception"
    PROVE  NothingLost'
<1>1. SUFFICES ASSUME NEW s \in Sources, NEW i \in 1 .. arrived[s]
               PROVE  Safe(answer[s][i])' \/ (s # NoPipe /\ future'[s] = "exception")
  BY DEF NothingLost, Safe, Queued, Listed, Given
<1>2. Safe(answer[s][i]) \/ (s # NoPipe /\ future[s] = "exception")
  BY <1>1 DEF NothingLost, Safe, Queued, Listed, Given
<1>3. arrived[s] \in Nat /\ answer'[s] = answer[s]
  BY <1>1 DEF AnswerTypes
<1>4. CASE s # NoPipe /\ future[s] = "exception"
  BY <1>4 DEF Sources
<1>5. CASE Safe(answer[s][i])
  <2>1. Safe(answer[s][i])' \/ (s # NoPipe /\ future'[s] = "exception")
    BY <1>1, <1>3, <1>5
  <2>2. QED
    BY <2>1
<1>6. QED
  BY <1>2, <1>4, <1>5

(* A list being collected under an ActionID is of the one call that has    *)
(* its promise there.                                                      *)
LEMMA ListIsOfItsCall ==
    ASSUME OwnAnswers, MapInv, AnswerTypes, PromiseInv, Addressed,
           NEW s \in Sources, NEW i \in 1 .. arrived[s],
           NEW id \in Ids, answer[s][i] \in Elements(event_map_[id])
    PROVE  s \in Pipes /\ Waiting(id) /\ promise_map_[id] = s
<1> USE DEF MapInv
<1>1. /\ answer[s] \in Seq(Event) /\ arrived[s] \in Nat /\ arrived[s] <= Len(answer[s])
      /\ Len(answer[s]) \in Nat /\ DOMAIN answer[s] = 1 .. Len(answer[s])
  BY LenProperties DEF AnswerTypes
<1>2. i \in DOMAIN answer[s]
  BY <1>1
<1>3. answer[s][i].ActionID = IF s = NoPipe THEN NoId ELSE ActionId[s]
  BY <1>2 DEF Addressed
<1>4. PICK j \in DOMAIN event_map_[id] : answer[s][i] = event_map_[id][j]
  BY DEF Elements
<1>5. answer[s][i].ActionID = id
  BY <1>4 DEF ListShape, ListOf
<1>6. s \in Pipes /\ ActionId[s] = id
  BY <1>3, <1>5, IdAssumption DEF Sources
<1>7. Working(id)
  BY <1>4 DEF Working
<1>8. Waiting(id) /\ promise_map_[id] \in Pipes
  BY <1>7 DEF ListHasPipe, Waiting, MapTypes
<1>9. ActionId[promise_map_[id]] = id
  BY <1>8 DEF PromiseInv
<1>10. QED
  BY <1>6, <1>8, <1>9 DEF OwnAnswers, DistinctIds

(* Giving an exception erases a list, and its call is the one that gets it.*)
LEMMA CancelKeeps ==
    ASSUME OwnAnswers, MapInv, AnswerTypes, PromiseInv, KeptInv,
           NEW c \in Pipes, CancelPipe(c)
    PROVE  NothingLost'
<1> USE DEF MapInv, KeptInv
<1> DEFINE own == ActionId[c]
<1>1. /\ own \in Ids
      /\ future' = IF Waiting(own) THEN [future EXCEPT ![promise_map_[own]] = "exception"] ELSE future
      /\ event_map_' = [event_map_ EXCEPT ![own] = <<>>]
      /\ UNCHANGED <<reaction, notified, events_, events, answer, arrived>>
  BY InvokeAssumption DEF CancelPipe, SetExceptionOnPipe, Give, threadVars
<1>2. \A d \in Pipes : future[d] = "exception" => future'[d] = "exception"
  BY <1>1 DEF MapTypes
<1>3. \A i \in Ids \ {own} : event_map_'[i] = event_map_[i]
  BY <1>1 DEF MapTypes
<1>4. ASSUME NEW s \in Sources, NEW i \in 1 .. arrived[s], Safe(answer[s][i])
      PROVE  Safe(answer[s][i])' \/ (s # NoPipe /\ future'[s] = "exception")
  <2>1. CASE Queued(answer[s][i]) \/ answer[s][i] \in notified \/ Given(answer[s][i])
    BY <1>1, <2>1 DEF Safe, Queued, Given
  <2>2. CASE answer[s][i] \in Elements(event_map_[own])
    <3>1. s \in Pipes /\ Waiting(own) /\ promise_map_[own] = s
      BY <1>1, <2>2, ListIsOfItsCall
    <3>2. QED
      BY <1>1, <3>1, IdAssumption DEF MapTypes
  <2>3. ASSUME NEW id \in Ids \ {own}, answer[s][i] \in Elements(event_map_[id])
        PROVE  Safe(answer[s][i])'
    BY <1>1, <1>3, <2>3 DEF Safe, Listed
  <2>4. QED
    BY <1>4, <2>1, <2>2, <2>3 DEF Safe, Listed
<1>5. QED
  BY <1>1, <1>2, <1>4, KeptByKeeping

(* The destructor empties the maps, where only calls whose write failed    *)
(* have something left: nothing has been sent to them.                     *)
LEMMA CleanupKeeps ==
    ASSUME OwnAnswers, MapInv, CallInv, LeftoverInv, KeptInv, Cleanup
    PROVE  NothingLost'
<1> USE DEF MapInv, KeptInv, CallInv, LeftoverInv
<1>1. /\ stopper = "joined"
      /\ UNCHANGED <<reaction, notified, events_, events, answer, arrived>>
  BY DEF Cleanup, CleanupObject, callVars, threadVars
<1>2. ASSUME NEW s \in Sources, NEW i \in 1 .. arrived[s] PROVE ~Listed(answer[s][i])
  <2>1. SUFFICES ASSUME NEW id \in Ids, answer[s][i] \in Elements(event_map_[id]) PROVE FALSE
    BY DEF Listed
  <2>2. s \in Pipes /\ Waiting(id) /\ promise_map_[id] = s
    BY <2>1, ListIsOfItsCall
  <2>3. pc[s] = "threw"
    BY <1>1, <2>2 DEF PromiseInv, HoldsPromise, QuietInv, Ended
  <2>4. answer[s] = <<>>
    BY <2>2, <2>3 DEF WireInv, Unsent
  <2>5. arrived[s] = 0
    BY <2>4, EmptySeq DEF AnswerTypes
  <2>6. QED
    BY <2>5
<1>3. \A c \in Pipes : future[c] = "exception" => future'[c] = "exception"
  <2>1. ASSUME NEW c \in Pipes, NEW id \in Ids, promise_map_[id] = c PROVE future[c] = "pending"
    BY <2>1 DEF PipeInv
  <2>2. CASE UNCHANGED future
    BY <2>2
  <2>3. CASE future' = [c \in Pipes |-> IF \E id \in Ids : promise_map_[id] = c THEN "null"
                                                                            ELSE future[c]]
    BY <2>1, <2>3
  <2>4. QED
    BY <2>2, <2>3 DEF Cleanup, CleanupObject
<1>4. \A s \in Sources : \A i \in 1 .. arrived[s] : Safe(answer[s][i]) => Safe(answer[s][i])'
  BY <1>1, <1>2 DEF Safe, Queued, Given
<1>5. QED
  BY <1>1, <1>3, <1>4, KeptByKeeping

LEMMA HandleKeeps == ASSUME W!TypeOK, MapInv, AnswerTypes, KeptInv, Handle PROVE NothingLost'
<1> USE DEF KeptInv
<1>0. PICK e \in Event : e = W!Current
  BY CurrentIsEvent DEF Handle, DispatchEvent
<1>1. /\ W!Handle /\ Dispatch(e)
      /\ notified' = IF Waiting(e.ActionID) THEN notified ELSE notified \cup {e}
      /\ UNCHANGED <<answer, arrived>>
  BY <1>0 DEF Handle, DispatchEvent
<1>2. /\ \A x : Listed(x) \/ Given(x) => Listed(x)' \/ Given(x)'
      /\ Waiting(e.ActionID) => Listed(e)' \/ Given(e)'
      /\ \A c \in Pipes : future[c] = "exception" => future'[c] = "exception"
  BY <1>1, DispatchKeeps
<1>3. ASSUME NEW x, Safe(x) PROVE Safe(x)'
  <2>1. CASE x = e /\ Queued(x)
    BY <1>1, <1>2, <2>1 DEF Safe
  <2>2. CASE x # e /\ Queued(x)
    BY <1>0, <1>1, <2>2, HandleKeepsOthers DEF Safe
  <2>3. CASE x \in notified \/ Listed(x) \/ Given(x)
    BY <1>1, <1>2, <2>3 DEF Safe
  <2>4. QED
    BY <1>3, <2>1, <2>2, <2>3 DEF Safe
<1>4. \A s \in Sources : \A i \in 1 .. arrived[s] : Safe(answer[s][i]) => Safe(answer[s][i])'
  BY <1>1, <1>3
<1>5. QED
  BY <1>1, <1>2, <1>4, KeptByKeeping

LEMMA ArriveKeeps ==
    ASSUME W!TypeOK, AnswerTypes, KeptInv, NEW s \in Sources, Arrive(s)
    PROVE  NothingLost'
<1> USE DEF KeptInv
<1>0. PICK e \in Event : e = answer[s][arrived[s] + 1]
  BY ArrivingIsEvent DEF Arrive
<1>1. /\ W!Add(e) /\ UNCHANGED <<answer, mapVars, notified>>
      /\ arrived' = [arrived EXCEPT ![s] = @ + 1]
  BY <1>0 DEF Arrive
<1>2. events' = events /\ events_ \in Seq(Event) /\ events_' = Append(events_, e)
  BY <1>1 DEF W!Add, W!TypeOK
<1>3. Elements(events_') = Elements(events_) \cup {e}
  BY <1>1, <1>2, ElementsAppend
<1>4. \A x : Safe(x) \/ x = e => Safe(x)'
  BY <1>1, <1>2, <1>3 DEF Safe, Queued, Listed, Given, mapVars
<1>5. SUFFICES ASSUME NEW t \in Sources, NEW i \in 1 .. arrived'[t]
               PROVE  Safe(answer[t][i])' \/ (t # NoPipe /\ future'[t] = "exception")
  BY DEF NothingLost, Safe, Queued, Listed, Given
<1>6. answer'[t][i] = answer[t][i] /\ future' = future
  BY <1>1 DEF mapVars
<1>7. CASE t = s /\ i = arrived[s] + 1
  <2>1. answer'[t][i] = e
    BY <1>0, <1>6, <1>7
  <2>2. QED
    BY <1>4, <2>1
<1>8. CASE i \in 1 .. arrived[t]
  <2>1. Safe(answer[t][i]) \/ (t # NoPipe /\ future[t] = "exception")
    BY <1>8 DEF NothingLost, Safe, Queued, Listed, Given
  <2>2. QED
    BY <1>4, <1>6, <2>1
<1>9. QED
  BY <1>1, <1>5, <1>7, <1>8 DEF AnswerTypes

(* What the server decides to answer, it addresses to the call.            *)
LEMMA AddressedStep ==
    ASSUME OwnAnswers, CallInv, Addressed, [InvokeNext]_ivars
    PROVE  Addressed'
<1>1. CASE UNCHANGED answer
  BY <1>1 DEF Addressed
<1>2. ASSUME NEW c \in Pipes, FinishSend(c) PROVE Addressed'
  <2>1. PICK d \in Glued : \E a \in Answers[d] \cup {<<>>} : answer' = [answer EXCEPT ![d] = a]
    BY <1>2 DEF FinishSend, ServerDecides
  <2>2. PICK a \in Answers[d] \cup {<<>>} : answer' = [answer EXCEPT ![d] = a]
    BY <2>1
  <2>3. d \in Pipes /\ d # NoPipe
    BY <2>1, IdAssumption DEF CallInv, WireInv
  <2>4. \A i \in DOMAIN a : a[i].ActionID = ActionId[d]
    <3>1. DOMAIN <<>> = {}
      OBVIOUS
    <3>2. QED
      BY <2>2, <2>3, <3>1 DEF OwnAnswers
  <2>5. QED
    BY <2>2, <2>3, <2>4 DEF Addressed, CallInv, AnswerTypes, Sources
<1>3. QED
  BY <1>1, <1>2 DEF InvokeNext, Call, GetPipe, Write, BeginSend, SendShort, WriteThrows, TimeOut,
                    CancelPipe, GetReaction, Arrive, Handle, Run, Stop, Cleanup, Over, ivars, callVars

LEMMA KeptStep ==
    ASSUME OwnAnswers, W!TypeOK, MapInv, CallInv, LeftoverInv, KeptInv, [InvokeNext]_ivars
    PROVE  KeptInv'
<1> USE DEF KeptInv, CallInv, LeftoverInv
<1>1. SUFFICES NothingLost'
  BY AddressedStep
<1>2. ASSUME UNCHANGED <<notified, arrived, event_map_, reaction>>,
             \A x : Queued(x) => Queued(x)',
             \A c \in Pipes : future[c] = "exception" => future'[c] = "exception",
             \A s \in Sources : arrived[s] > 0 => answer'[s] = answer[s]
      PROVE  NothingLost'
  <2>1. ASSUME NEW s \in Sources, NEW i \in 1 .. arrived[s], Safe(answer[s][i])
        PROVE  Safe(answer[s][i])'
    <3>1. answer'[s] = answer[s]
      BY <1>2, <2>1 DEF AnswerTypes
    <3>2. QED
      BY <1>2, <2>1, <3>1 DEF Safe, Listed, Given
  <2>2. QED
    BY <1>2, <2>1, KeptByKeeping
<1>3. ASSUME NEW c \in Pipes, Call(c) PROVE NothingLost'
  <2>1. CASE CancelPipe(c)
    BY <2>1, CancelKeeps
  <2>2. CASE FinishSend(c)
    <3>1. \A s \in Sources : arrived[s] > 0 => answer'[s] = answer[s]
      BY <2>2, DecisionStep DEF FinishSend
    <3>2. UNCHANGED <<notified, arrived, event_map_, reaction, future, events_, events>>
      BY <2>2 DEF FinishSend, vars, mapVars, threadVars
    <3>3. QED
      BY <1>2, <3>1, <3>2 DEF Queued
  <2>3. CASE GetPipe(c)
    <3>1. UNCHANGED <<notified, arrived, event_map_, reaction, events_, events, answer>>
      BY <2>3 DEF GetPipe, GetEventPipe, threadVars
    <3>2. \A d \in Pipes : future[d] = "exception" => future'[d] = "exception"
      BY <2>3 DEF GetPipe, GetEventPipe, MapInv, MapTypes
    <3>3. QED
      BY <1>2, <3>1, <3>2 DEF Queued
  <2>4. CASE BeginSend(c) \/ SendShort(c) \/ WriteThrows(c) \/ TimeOut(c) \/ GetReaction(c)
    <3>1. UNCHANGED <<notified, arrived, event_map_, reaction, future, events_, events, answer>>
      BY <2>4 DEF BeginSend, SendShort, WriteThrows, TimeOut, GetReaction, vars, mapVars, threadVars
    <3>2. QED
      BY <1>2, <3>1 DEF Queued
  <2>5. QED
    BY <1>3, <2>1, <2>2, <2>3, <2>4 DEF Call, Write
<1>4. CASE Run \/ Stop
  <2>1. UNCHANGED <<notified, arrived, event_map_, reaction, future, answer>>
    BY <1>4 DEF Run, Stop, mapVars, callVars
  <2>2. UNCHANGED <<events_, events>> \/ (events_' = events /\ events' = events_)
    BY <1>4 DEF Run, Stop, W!Housekeeping, W!SpuriousWakeup, W!EnterLoop, W!Swap, W!DecideToWait,
                W!FallAsleep, W!Reacquire, W!FinishBatch, W!LeaveLoop, W!Exit, W!Stop,
                W!ClearRunFlag, W!NotifyStop, W!Join
  <2>3. QED
    BY <1>2, <2>1, <2>2 DEF Queued
<1>5. CASE Over \/ UNCHANGED ivars
  BY <1>2, <1>5 DEF Over, ivars, vars, callVars, mapVars, threadVars, Queued
<1>6. CASE Cleanup
  BY <1>6, CleanupKeeps
<1>7. CASE Handle
  BY <1>7, HandleKeeps
<1>8. QED
  BY <1>3, <1>4, <1>5, <1>6, <1>7, ArriveKeeps DEF InvokeNext

LEMMA InitKept == OwnAnswers /\ InvokeInit => LeftoverInv /\ KeptInv
<1> SUFFICES ASSUME OwnAnswers, InvokeInit PROVE LeftoverInv /\ KeptInv
  OBVIOUS
<1>1. LeftoverInv
  BY IdAssumption DEF InvokeInit, Init, W!Init, LeftoverInv, PromiseInv, QuietInv,
                      AssertNeedsFailedWrite, Waiting
<1>2. NothingLost
  BY DEF InvokeInit, NothingLost
<1>3. Addressed
  <2>1. DOMAIN <<>> = {}
    OBVIOUS
  <2>2. QED
    BY <2>1 DEF InvokeInit, Addressed, OwnAnswers
<1>4. QED
  BY <1>1, <1>2, <1>3 DEF KeptInv

(* Where the calls' ActionIDs are different, no message of any answer gets *)
(* lost between the parser and the clients: the ones that are not in the   *)
(* reaction of their call, nor on their way there, come to the event       *)
(* callback, or their call has timed out.                                  *)
THEOREM MessagesKept == OwnAnswers => (InvokeSpec => []NothingLost)
<1> SUFFICES ASSUME OwnAnswers PROVE InvokeSpec => []NothingLost
  OBVIOUS
<1>1. InvokeInit => LeftoverInv /\ KeptInv
  BY InitKept
<1>2. (DispatcherInv /\ CallInv) /\ LeftoverInv /\ [InvokeNext]_ivars => LeftoverInv'
  BY LeftoverStep DEF DispatcherInv, CallInv
<1>3. (DispatcherInv /\ CallInv) /\ LeftoverInv /\ KeptInv /\ [InvokeNext]_ivars => KeptInv'
  BY KeptStep DEF DispatcherInv
<1>4. KeptInv => NothingLost
  BY DEF KeptInv
<1>5. QED
  BY <1>1, <1>2, <1>3, <1>4, CallInvariance, PTL DEF InvokeSpec

-----------------------------------------------------------------------------
(* Where a call stands, against its future.                                *)
FutureInv == \A c \in Pipes : future[c] = "none" <=> pc[c] = "idle" \/ Mode[c] = "async"

(* Handling a message and emptying the maps fill futures of promises that  *)
(* are in the map.                                                         *)
LEMMA DispatchFillsPending ==
    ASSUME MapInv, NEW e \in Event, Dispatch(e)
    PROVE  \A c \in Pipes : future'[c] = "none" <=> future[c] = "none"
<1> USE DEF MapInv
<1>1. CASE UNCHANGED future
  BY <1>1
<1>2. ASSUME NEW r, Waiting(e.ActionID), Settle(e.ActionID, r)
      PROVE  \A c \in Pipes : future'[c] = "none" <=> future[c] = "none"
  <2>1. promise_map_[e.ActionID] \in Pipes /\ future[promise_map_[e.ActionID]] = "pending"
    BY <1>2 DEF Waiting, MapTypes, PipeInv
  <2>2. future' = [future EXCEPT ![promise_map_[e.ActionID]] = "value"]
    BY <1>2 DEF Settle
  <2>3. QED
    BY <2>1, <2>2 DEF MapTypes
<1>3. QED
  BY <1>1, <1>2 DEF Dispatch, Notify, Reply, StartList, FailList, AppendList, CompleteList, mapVars

LEMMA CallKeepsFuture ==
    ASSUME MapInv, CallTypes, FutureInv, NEW c \in Pipes, Call(c)
    PROVE  FutureInv'
<1> USE DEF MapInv, FutureInv
<1>1. CASE GetPipe(c)
  <2>1. pc[c] = "idle" /\ pc' = [pc EXCEPT ![c] = "piped"] /\ Mode[c] # "async"
    BY <1>1 DEF GetPipe, MayStart, Goto, Sync
  <2>2. future' = [future EXCEPT ![c] = "broken"] \/ future' = [future EXCEPT ![c] = "pending"]
    BY <1>1 DEF GetPipe, GetEventPipe
  <2>3. QED
    BY <2>1, <2>2 DEF MapTypes, CallTypes
<1>2. CASE CancelPipe(c)
  <2>1. pc[c] = "expired" /\ pc' = [pc EXCEPT ![c] = "cancelled"] /\ ActionId[c] \in Ids
    BY <1>2, InvokeAssumption DEF CancelPipe, Goto
  <2>2. CASE UNCHANGED future
    BY <2>1, <2>2 DEF CallTypes
  <2>3. CASE Waiting(ActionId[c]) /\ future' = [future EXCEPT ![promise_map_[ActionId[c]]] = "exception"]
    <3>1. promise_map_[ActionId[c]] \in Pipes /\ future[promise_map_[ActionId[c]]] = "pending"
      BY <2>3 DEF Waiting, MapTypes, PipeInv
    <3>2. \A d \in Pipes : future'[d] = "none" <=> future[d] = "none"
      BY <2>3, <3>1 DEF MapTypes
    <3>3. QED
      BY <2>1, <3>2 DEF CallTypes
  <2>4. QED
    BY <1>2, <2>2, <2>3 DEF CancelPipe, SetExceptionOnPipe, Give
<1>3. CASE Write(c) \/ TimeOut(c) \/ GetReaction(c)
  <2>1. UNCHANGED future
    BY <1>3 DEF Write, BeginSend, FinishSend, SendShort, WriteThrows, TimeOut, GetReaction, vars, mapVars
  <2>2. pc[c] # "idle" \/ Mode[c] = "async"
    BY <1>3 DEF Write, BeginSend, FinishSend, SendShort, WriteThrows, TimeOut, GetReaction, MayWrite, Sync
  <2>3. PICK state \in CallStates \ {"idle"} : pc' = [pc EXCEPT ![c] = state]
    BY <1>3 DEF Write, BeginSend, FinishSend, SendShort, WriteThrows, TimeOut, GetReaction, AfterWrite,
                Goto, CallStates
  <2>4. QED
    BY <2>1, <2>2, <2>3 DEF CallTypes
<1>4. QED
  BY <1>1, <1>2, <1>3 DEF Call

LEMMA FutureStep ==
    ASSUME W!TypeOK, MapInv, CallTypes, FutureInv, [InvokeNext]_ivars
    PROVE  FutureInv'
<1>1. CASE UNCHANGED <<future, pc>>
  BY <1>1 DEF FutureInv
<1>2. CASE Handle
  <2>1. pc' = pc /\ \A c \in Pipes : future'[c] = "none" <=> future[c] = "none"
    BY <1>2, CurrentIsEvent, DispatchFillsPending DEF Handle, DispatchEvent
  <2>2. QED
    BY <2>1 DEF FutureInv
<1>3. CASE Cleanup
  <2>1. pc' = pc
    BY <1>3 DEF Cleanup, callVars
  <2>2. CASE future' = [c \in Pipes |-> IF \E id \in Ids : promise_map_[id] = c THEN "null"
                                                                            ELSE future[c]]
    BY <2>1, <2>2 DEF FutureInv, MapInv, PipeInv
  <2>3. QED
    BY <1>1, <1>3, <2>1, <2>2 DEF Cleanup, CleanupObject
<1>4. QED
  BY <1>1, <1>2, <1>3, CallKeepsFuture
     DEF InvokeNext, Arrive, Run, Stop, Over, ivars, vars, callVars, mapVars

(* The callback is given what the thread handles.                          *)
LEMMA NotifiedStep ==
    ASSUME W!TypeOK, notified \subseteq Event, [InvokeNext]_ivars
    PROVE  notified' \subseteq Event
<1>1. CASE Handle
  BY <1>1, CurrentIsEvent DEF Handle, DispatchEvent
<1>2. QED
  BY <1>1 DEF InvokeNext, Call, GetPipe, Write, BeginSend, FinishSend, SendShort, WriteThrows, TimeOut,
              CancelPipe, GetReaction, Arrive, Run, Stop, Cleanup, Over, ivars, callVars

CallPlaces == FutureInv /\ notified \subseteq Event

LEMMA PlacesStep == CallsInv /\ CallPlaces /\ [InvokeNext]_ivars => CallPlaces'
  BY FutureStep, NotifiedStep DEF CallsInv, DispatcherInv, CallInv, CallPlaces

LEMMA InitPlaces == InvokeInit => CallPlaces
  BY DEF InvokeInit, Init, CallPlaces, FutureInv

LEMMA PlacesAreTyped == CallsInv /\ CallPlaces => InvokeTypeOK
  BY DEF CallsInv, DispatcherInv, CallInv, CallTypes, AnswerTypes, CallPlaces, FutureInv, MapInv, MapTypes,
         InvokeTypeOK, TypeOK

LEMMA CallsInvAlways == InvokeSpec => []CallsInv
<1>1. InvokeInit => LeftoverInv
  BY IdAssumption DEF InvokeInit, Init, W!Init, LeftoverInv, PromiseInv, QuietInv,
                      AssertNeedsFailedWrite, Waiting
<1>2. (DispatcherInv /\ CallInv) /\ LeftoverInv /\ [InvokeNext]_ivars => LeftoverInv'
  BY LeftoverStep DEF DispatcherInv, CallInv
<1>3. DispatcherInv /\ CallInv /\ LeftoverInv => CallsInv
  BY DEF CallsInv
<1>4. QED
  BY <1>1, <1>2, <1>3, CallInvariance, PTL DEF InvokeSpec

(* Types of the calls, their messages and their futures; a future exists   *)
(* exactly from the start of a call that waits for a reaction.             *)
THEOREM CallTyping == InvokeSpec => []InvokeTypeOK
<1>1. CallsInv /\ CallPlaces /\ [InvokeNext]_ivars => CallPlaces'
  BY PlacesStep
<1>2. QED
  BY <1>1, InitPlaces, PlacesAreTyped, CallsInvAlways, PTL DEF InvokeSpec

-----------------------------------------------------------------------------
(* Messages to calls of async_invoke: no promise is in the map under their *)
(* ActionID, so none is collected; and what another call has been given is *)
(* addressed to that call.                                                 *)
ReactionInv == \A c \in Pipes : \A i \in DOMAIN reaction[c] : reaction[c][i].ActionID = ActionId[c]

LEMMA SettleAddressed ==
    ASSUME MapInv, PromiseInv, ReactionInv, NEW id, Waiting(id), NEW r \in Seq(Event), Settle(id, r),
           \A i \in DOMAIN r : r[i].ActionID = id
    PROVE  ReactionInv'
<1>1. /\ promise_map_[id] \in Pipes /\ ActionId[promise_map_[id]] = id
      /\ reaction' = [reaction EXCEPT ![promise_map_[id]] = r]
  BY DEF MapInv, MapTypes, Waiting, PromiseInv, Settle
<1>2. QED
  BY <1>1 DEF ReactionInv, MapInv, MapTypes

LEMMA ReactionStep ==
    ASSUME W!TypeOK, MapInv, PromiseInv, ReactionInv, [InvokeNext]_ivars
    PROVE  ReactionInv'
<1>1. CASE UNCHANGED reaction
  BY <1>1 DEF ReactionInv
<1>2. CASE Handle
  <2>1. PICK e \in Event : e = W!Current /\ Dispatch(e)
    BY <1>2, CurrentIsEvent DEF Handle, DispatchEvent
  <2>2. CASE Reply(e) \/ FailList(e)
    <3>1. Waiting(e.ActionID) /\ Settle(e.ActionID, <<e>>)
      BY <2>2 DEF Reply, FailList
    <3>2. <<e>> \in Seq(Event) /\ \A i \in DOMAIN <<e>> : <<e>>[i].ActionID = e.ActionID
      OBVIOUS
    <3>3. QED
      BY <3>1, <3>2, SettleAddressed
  <2>3. CASE CompleteList(e)
    <3> DEFINE l == event_map_[e.ActionID]
    <3>1. Waiting(e.ActionID) /\ Settle(e.ActionID, Append(l, e)) /\ e.ActionID \in Ids
      BY <2>3 DEF CompleteList, Waiting
    <3>2. l \in Seq(Event) /\ \A i \in DOMAIN l : l[i].ActionID = e.ActionID
      BY <3>1 DEF MapInv, MapTypes, ListShape, ListOf
    <3>3. /\ Append(l, e) \in Seq(Event)
          /\ Len(Append(l, e)) = Len(l) + 1
          /\ \A i \in 1 .. Len(l) : Append(l, e)[i] = l[i]
          /\ Append(l, e)[Len(l) + 1] = e
      BY <3>2, AppendProperties
    <3>4. Len(l) \in Nat /\ DOMAIN l = 1 .. Len(l) /\ DOMAIN Append(l, e) = 1 .. Len(l) + 1
      BY <3>2, <3>3, LenProperties
    <3>5. ASSUME NEW i \in DOMAIN Append(l, e) PROVE Append(l, e)[i].ActionID = e.ActionID
      BY <3>2, <3>3, <3>4
    <3>6. QED
      BY <3>1, <3>3, <3>5, SettleAddressed
  <2>4. QED
    BY <1>1, <2>1, <2>2, <2>3 DEF Dispatch, Notify, StartList, AppendList, mapVars
<1>3. QED
  BY <1>1, <1>2 DEF InvokeNext, Call, GetPipe, GetEventPipe, Write, BeginSend, FinishSend, SendShort,
                    WriteThrows, TimeOut, CancelPipe, SetExceptionOnPipe, Give, GetReaction, Arrive, Run,
                    Stop, Cleanup, CleanupObject, Over, ivars, vars, mapVars

AsyncInv == CallsInv /\ CallPlaces /\ KeptInv /\ ReactionInv

LEMMA AsyncInvStep == OwnAnswers /\ AsyncInv /\ [InvokeNext]_ivars => AsyncInv'
<1> SUFFICES ASSUME OwnAnswers, AsyncInv, [InvokeNext]_ivars PROVE AsyncInv'
  OBVIOUS
<1>1. DispatcherInv' /\ CallInv'
  BY DispatcherStep, CallInvStep DEF AsyncInv, CallsInv, CallInv
<1>2. LeftoverInv'
  BY LeftoverStep DEF AsyncInv, CallsInv, DispatcherInv, CallInv
<1>3. CallPlaces' /\ ReactionInv' /\ KeptInv'
  BY PlacesStep, ReactionStep, KeptStep DEF AsyncInv, CallsInv, DispatcherInv, LeftoverInv
<1>4. QED
  BY <1>1, <1>2, <1>3 DEF AsyncInv, CallsInv

LEMMA InitAsync == OwnAnswers /\ InvokeInit => AsyncInv
<1>1. InvokeInit => ReactionInv
  <2>1. DOMAIN <<>> = {}
    OBVIOUS
  <2>2. QED
    BY <2>1 DEF InvokeInit, Init, ReactionInv
<1>2. QED
  BY <1>1, InitCalls, InitKept, InitPlaces DEF AsyncInv, CallsInv

LEMMA AsyncComesToCallback == OwnAnswers /\ AsyncInv => AsyncAnswersNotified
<1> SUFFICES ASSUME OwnAnswers, AsyncInv, NEW c \in Pipes, ~Sync(c), NEW i \in 1 .. arrived[c]
             PROVE  answer[c][i] \in Elements(events_) \cup Elements(events) \cup notified
  BY DEF AsyncAnswersNotified
<1> USE DEF AsyncInv, CallsInv, DispatcherInv, MapInv, CallInv, LeftoverInv
<1>1. c \in Sources /\ future[c] = "none" /\ reaction[c] = <<>>
  BY DEF Sources, CallPlaces, FutureInv, Sync, MapTypes
<1>2. answer[c][i].ActionID = ActionId[c]
  <2>1. answer[c] \in Seq(Event) /\ arrived[c] \in Nat /\ arrived[c] <= Len(answer[c])
        /\ Len(answer[c]) \in Nat /\ DOMAIN answer[c] = 1 .. Len(answer[c])
    BY <1>1, LenProperties DEF AnswerTypes
  <2>2. i \in DOMAIN answer[c] /\ c # NoPipe
    BY <2>1, IdAssumption
  <2>3. QED
    BY <1>1, <2>2 DEF KeptInv, Addressed
<1>3. ~Listed(answer[c][i])
  <2>1. SUFFICES ASSUME NEW id \in Ids, answer[c][i] \in Elements(event_map_[id]) PROVE FALSE
    BY DEF Listed
  <2>2. Waiting(id) /\ promise_map_[id] = c
    BY <1>1, <2>1, ListIsOfItsCall DEF KeptInv
  <2>3. QED
    BY <2>2 DEF PromiseInv, HoldsPromise
<1>4. ~Given(answer[c][i])
  <2>1. SUFFICES ASSUME NEW d \in Pipes, answer[c][i] \in Elements(reaction[d]) PROVE FALSE
    BY DEF Given
  <2>2. ActionId[d] = ActionId[c]
    BY <1>2, <2>1 DEF Elements, ReactionInv
  <2>3. d = c
    BY <2>2 DEF OwnAnswers, DistinctIds
  <2>4. QED
    BY <1>1, <2>1, <2>3 DEF Elements
<1>5. QED
  BY <1>1, <1>3, <1>4 DEF KeptInv, NothingLost, Listed, Given

(* Where the calls' ActionIDs are different, every message the server      *)
(* sends in answer to async_invoke comes to the event callback, the parts  *)
(* of a list one by one, whatever the other calls wait for.                *)
THEOREM AsyncMessagesNotified == OwnAnswers => (InvokeSpec => []AsyncAnswersNotified)
<1> SUFFICES ASSUME OwnAnswers PROVE InvokeSpec => []AsyncAnswersNotified
  OBVIOUS
<1>1. AsyncInv /\ [InvokeNext]_ivars => AsyncInv'
  BY AsyncInvStep
<1>2. InvokeInit => AsyncInv
  BY InitAsync
<1>3. AsyncInv => AsyncAnswersNotified
  BY AsyncComesToCallback
<1>4. QED
  BY <1>1, <1>2, <1>3, PTL DEF InvokeSpec
================================================================================
