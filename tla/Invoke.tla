--------------------------------- MODULE Invoke ---------------------------------
(***************************************************************************)
(* Connection::invoke, with and without a timeout, and async_invoke, down  *)
(* to TcpSocket::write, over the dispatcher of module EventDispatcher,     *)
(* with an AMI server at the other end of the socket.                      *)
(*                                                                         *)
(* A call is one invocation by a client thread; it uses one pipe of the    *)
(* dispatcher, and pipe and call share a name.  An action goes out in two  *)
(* parts, so that another may come between, or the second stay behind.     *)
(* Towards the client, socket and parser are a delay: what the server      *)
(* sends arrives message by message and in order.                          *)
(***************************************************************************)
EXTENDS EventDispatcher

CONSTANTS ActionId,     \* call -> the ActionID of its Action object
          Mode,         \* call -> "untimed", "timed" or "async"
          Earlier,      \* call -> the calls its thread has ended before it starts this one
          Answers,      \* call -> the answers the server may give its action
          Unsolicited   \* the events the server sends of its own accord, in order

\* The sources of messages: one per call, and NoPipe for the unsolicited ones.
Sources == Pipes \cup {NoPipe}

ASSUME InvokeAssumption ==
    /\ ActionId \in [Pipes -> Ids]
    /\ Mode \in [Pipes -> {"untimed", "timed", "async"}]
    /\ Earlier \in [Pipes -> SUBSET Pipes]
    /\ Answers \in [Pipes -> SUBSET Seq(Event)]
    /\ Unsolicited \in Seq(Event)

VARIABLES pc,        \* how far each call has got
          wire,      \* what the server has received: parts of the calls' actions
          answer,    \* what the server sends in answer to a call it has received
          arrived,   \* how much of that has reached add_event
          notified   \* the messages that were given to the event callback

callVars == <<pc, wire, answer, arrived, notified>>
ivars    == <<vars, callVars>>

\* "idle", get_event_pipe -> "piped", write -> "sending" -> "waiting", the wait timed out ->
\* "expired", set_exception_on_pipe -> "cancelled", future::get -> "ended"; "threw": write threw
CallStates == {"idle", "piped", "sending", "waiting", "expired", "cancelled", "ended", "threw"}
Parts      == Pipes \X {"head", "rest"}

Sync(c)  == Mode[c] # "async"
Ended(c) == pc[c] \in {"ended", "threw"}
Ready(c) == future[c] # "pending"

InvokeInit == /\ Init
              /\ pc = [c \in Pipes |-> "idle"]
              /\ wire = <<>>
              /\ answer = [s \in Sources |-> IF s = NoPipe THEN Unsolicited ELSE <<>>]
              /\ arrived = [s \in Sources |-> 0]
              /\ notified = {}

MayStart(c) == pc[c] = "idle" /\ \A d \in Earlier[c] : Ended(d)

Goto(c, state) == pc' = [pc EXCEPT ![c] = state]

\* async_invoke ends with its write.
AfterWrite(c) == IF Sync(c) THEN "waiting" ELSE "ended"

-----------------------------------------------------------------------------
(* Faulty variants of single steps. *)

WriteBeforePipe(c) ==
    \/ /\ pc[c] = "idle" /\ answer[c] = <<>> /\ stopper = "live"
       /\ \E a \in Answers[c] : answer' = [answer EXCEPT ![c] = a]
       /\ UNCHANGED <<pc, wire, vars, arrived, notified>>
    \/ /\ pc[c] = "sending"
       /\ Goto(c, AfterWrite(c))
       /\ UNCHANGED <<vars, wire, answer, arrived, notified>>

NoMutex == TRUE

HandleNotifyingOnlyEvents ==
    /\ DispatchEvent
    /\ notified' = IF W!Current.ActionID = NoId THEN notified \cup {W!Current} ELSE notified
    /\ UNCHANGED <<pc, wire, answer, arrived>>

CancelKeepingPipe(c) ==
    /\ pc[c] = "expired"
    /\ Goto(c, "ended")
    /\ UNCHANGED <<vars, wire, answer, arrived, notified>>

CancelWithoutException(c) ==
    /\ pc[c] = "expired"
    /\ Goto(c, "cancelled")
    /\ UNCHANGED <<vars, wire, answer, arrived, notified>>

-----------------------------------------------------------------------------
(* The calling threads. *)

GetPipe(c) ==
    /\ Sync(c) /\ MayStart(c)
    /\ GetEventPipe(c, ActionId[c])
    /\ Goto(c, "piped")
    /\ UNCHANGED <<wire, answer, arrived, notified>>

\* write_mutex_ is held while send copies the action into the socket's buffer.
WriteMutexFree == \A c \in Pipes : pc[c] # "sending"

MayWrite(c) ==
    /\ IF Sync(c) THEN pc[c] = "piped" ELSE MayStart(c) /\ stopper = "live"
    /\ WriteMutexFree

\* send has copied what there is room for, the head of the action, and waits for more.
\* (Until there is room for anything it waits as well: nobody makes more of a head that
\* stays without its end.)
BeginSend(c) ==
    /\ MayWrite(c)
    /\ Goto(c, "sending")
    /\ wire' = Append(wire, <<c, "head">>)
    /\ UNCHANGED <<vars, answer, arrived, notified>>

\* The server takes what it has received since the last end of an action for one action,
\* and decides what to answer; if parts of several are in it, to whom, or not at all.
Glued == LET ends == {i \in DOMAIN wire : wire[i][2] = "rest"}
         IN  {wire[i][1] : i \in {j \in DOMAIN wire : \A k \in ends : k < j}}

ServerDecides ==
    \E c \in Glued : \E a \in Answers[c] \cup (IF Cardinality(Glued) > 1 THEN {<<>>} ELSE {}) :
        answer' = [answer EXCEPT ![c] = a]

\* The server has read enough to make room for the rest.
FinishSend(c) ==
    /\ pc[c] = "sending"
    /\ Goto(c, AfterWrite(c))
    /\ wire' = Append(wire, <<c, "rest">>)
    /\ ServerDecides
    /\ UNCHANGED <<vars, arrived, notified>>

\* send is interrupted and returns the length of the part; write does not look at it.
SendShort(c) ==
    /\ pc[c] = "sending"
    /\ Goto(c, AfterWrite(c))
    /\ UNCHANGED <<vars, wire, answer, arrived, notified>>

\* send fails before any byte is taken; the future goes out of scope, its promise stays
\* in the map.
WriteThrows(c) ==
    /\ MayWrite(c)
    /\ Goto(c, "threw")
    /\ UNCHANGED <<vars, wire, answer, arrived, notified>>

\* wait_for gives up on a future that is not ready.  Nothing stops an answer from
\* coming between this and CancelPipe.
TimeOut(c) ==
    /\ Mode[c] = "timed"
    /\ pc[c] = "waiting"
    /\ ~Ready(c)
    /\ Goto(c, "expired")
    /\ UNCHANGED <<vars, wire, answer, arrived, notified>>

CancelPipe(c) ==
    /\ pc[c] = "expired"
    /\ SetExceptionOnPipe(ActionId[c])
    /\ Goto(c, "cancelled")
    /\ UNCHANGED <<wire, answer, arrived, notified>>

\* future::get returns the reaction or throws what is in the future.
GetReaction(c) ==
    /\ pc[c] \in {"waiting", "cancelled"}
    /\ Ready(c)
    /\ Goto(c, "ended")
    /\ UNCHANGED <<vars, wire, answer, arrived, notified>>

Write(c) == BeginSend(c) \/ FinishSend(c) \/ SendShort(c) \/ WriteThrows(c)

Call(c) == GetPipe(c) \/ Write(c) \/ TimeOut(c) \/ CancelPipe(c) \/ GetReaction(c)

-----------------------------------------------------------------------------
(* The server's messages, and the dispatcher's thread. *)

Arrive(s) ==
    /\ arrived[s] < Len(answer[s])
    /\ W!Add(answer[s][arrived[s] + 1])
    /\ arrived' = [arrived EXCEPT ![s] = @ + 1]
    /\ UNCHANGED <<mapVars, pc, wire, answer, notified>>

Handle ==
    /\ DispatchEvent
    /\ notified' = IF Waiting(W!Current.ActionID) THEN notified ELSE notified \cup {W!Current}
    /\ UNCHANGED <<pc, wire, answer, arrived>>

Run == /\ W!Housekeeping \/ W!SpuriousWakeup
       /\ UNCHANGED <<mapVars, callVars>>

\* ~Connection, which must not overlap a call.
Stop == /\ \A c \in Pipes : pc[c] = "idle" \/ Ended(c)
        /\ W!Stop
        /\ UNCHANGED <<mapVars, callVars>>

Cleanup == CleanupObject /\ UNCHANGED callVars

Over == cleanup # "no" /\ UNCHANGED ivars

InvokeNext == \/ \E c \in Pipes : Call(c)
              \/ \E s \in Sources : Arrive(s)
              \/ Handle
              \/ Run
              \/ Stop
              \/ Cleanup
              \/ Over

\* The work thread runs, time passes, and a call that may go on goes on.  Nothing is
\* asked of the server, of clients, or of the destructor; so a send that waits for room
\* may wait for ever (FinishSend, SendShort).
InvokeFairness ==
    /\ WF_ivars(Handle)
    /\ WF_ivars(W!Housekeeping /\ UNCHANGED <<mapVars, callVars>>)
    /\ \A c \in Pipes : /\ WF_ivars(pc[c] # "idle" /\ BeginSend(c))
                        /\ WF_ivars(TimeOut(c))
                        /\ WF_ivars(CancelPipe(c))
                        /\ WF_ivars(GetReaction(c))

InvokeSpec == InvokeInit /\ [][InvokeNext]_ivars /\ InvokeFairness

-----------------------------------------------------------------------------
(* Types, and the position of a call against its future and its answer. *)
InvokeTypeOK ==
    /\ TypeOK
    /\ pc \in [Pipes -> CallStates]
    /\ wire \in Seq(Parts)
    /\ answer \in [Sources -> Seq(Event)]
    /\ arrived \in [Sources -> Nat]
    /\ notified \subseteq Event
    /\ \A s \in Sources : arrived[s] <= Len(answer[s])
    /\ \A c \in Pipes : future[c] = "none" <=> pc[c] = "idle" \/ Mode[c] = "async"

\* The shortest prefix of an answer that is a whole reaction; the rest are events
\* that merely carry the action's ActionID.
Reaction(a) == LET whole == {n \in 1 .. Len(a) : M!Whole(SubSeq(a, 1, n))}
               IN  IF whole = {} THEN a ELSE SubSeq(a, 1, CHOOSE n \in whole : \A m \in whole : n <= m)

Elements(s) == {s[i] : i \in DOMAIN s}

(* Connection.hpp, invoke: "Sends action to the AMI server and returns the  *)
(* resulting Event object".  What a call returns is the reaction to the     *)
(* very action it sent: all of it, in order, and nothing else.              *)
ReturnsOwnReaction ==
    \A c \in Pipes : pc[c] = "ended" /\ future[c] = "value" => reaction[c] = Reaction(answer[c])

(* Every message that has arrived is somewhere: in a queue, in the list     *)
(* being collected, in the reaction, or with the callback.  Only a timeout  *)
(* throws messages away, those of its own half-collected list.              *)
NothingLost ==
    \A s \in Sources : \A i \in 1 .. arrived[s] :
        \/ answer[s][i] \in Elements(events_) \cup Elements(events) \cup notified
        \/ \E id \in Ids : answer[s][i] \in Elements(event_map_[id])
        \/ \E c \in Pipes : answer[s][i] \in Elements(reaction[c])
        \/ s # NoPipe /\ future[s] = "exception"

(* Connection.hpp, async_invoke: "The client application will need to add   *)
(* callbacks to handle the responding events".  All of them come there, the *)
(* parts of lists one by one.                                               *)
AsyncAnswersNotified ==
    \A c \in Pipes : ~Sync(c) =>
        \A i \in 1 .. arrived[c] : answer[c][i] \in Elements(events_) \cup Elements(events) \cup notified

(* TcpSocket.hpp, write: "Provides a thread-safe write".  No part of        *)
(* another thread's action comes between the head of an action and its end, *)
(* if its end is sent at all (see ActionsSentWhole).                        *)
WritesNotInterleaved ==
    \A i \in DOMAIN wire : wire[i][2] = "rest" => i > 1 /\ wire[i - 1] = <<wire[i][1], "head">>

(* TcpSocket.hpp, write: "Writes data to the socket."  When write has       *)
(* returned without throwing, the whole action has been sent.               *)
ActionsSentWhole ==
    \A c \in Pipes : pc[c] \in {"waiting", "expired", "cancelled", "ended"}
                        => <<c, "rest">> \in Elements(wire)

\* Some thread is in send and holds write_mutex_.
SendUnderWay == \E c \in Pipes : pc[c] = "sending"

(* A timed call that waits for its reaction ends, whatever the server does  *)
(* and whatever part of the action it has received.  One that still has to  *)
(* send ends as well, unless a send, its own or the one it waits for, never *)
(* gets the room it needs: the timeout does not cover send.                 *)
TimedCallsEnd ==
    \A c \in Pipes : Mode[c] = "timed" =>
        /\ pc[c] = "waiting" ~> Ended(c)
        /\ pc[c] = "piped" ~> Ended(c) \/ []SendUnderWay

(* Connection.hpp, invoke: "This call will block until \c timeout has       *)
(* elapsed ... or the event stream was read back".                          *)
TimedCallsReturn == \A c \in Pipes : Mode[c] = "timed" => (pc[c] = "piped" ~> Ended(c))

(* A call ends once messages have arrived that make a whole reaction to the *)
(* dispatcher (Whole in Mailbox), of all that the server may send.          *)
WholeReactionsEnd ==
    \A c \in Pipes :
        (pc[c] = "waiting" /\ \E n \in 1 .. arrived[c] : M!Whole(SubSeq(answer[c], 1, n)))
            ~> Ended(c)

(* Connection.hpp, invoke: it blocks "until all of the event stream is read *)
(* back from the socket".  A call ends once all of its answer has arrived,  *)
(* whatever the server calls an answer.                                     *)
AnsweredCallsEnd ==
    \A c \in Pipes : (pc[c] = "waiting" /\ arrived[c] > 0 /\ arrived[c] = Len(answer[c])) ~> Ended(c)

(* Destroying a Connection with no call in progress trips cleanup_object's  *)
(* first assertion only where a write has failed.                           *)
AssertNeedsFailedWrite ==
    cleanup = "promise assert failed" => \E c \in Pipes : Sync(c) /\ pc[c] = "threw"

(* EventDispatcher.cpp:33 asserts it without condition:                     *)
(* "assert(promise_map_.empty());"                                          *)
PromisesGone == cleanup # "promise assert failed"
================================================================================
