------------------------------- MODULE Callbacks -------------------------------
(***************************************************************************)
(* The event callbacks of a Connection: add_callback, remove_callback, and *)
(* dispatch_handler, which runs every callback on the dispatcher's thread  *)
(* with callbacks_mutex_ held.                                             *)
(*                                                                         *)
(* A callback may itself call invoke.  Such a call is one of Pipes, made   *)
(* on the dispatcher's thread: while it waits, that thread handles no      *)
(* message.  Everything else is module Invoke, whose Handle is refined     *)
(* here: handing a message to the callbacks takes time.                    *)
(***************************************************************************)
EXTENDS Invoke

CONSTANTS Keys,       \* the keys add_callback may return, one per registration
          NoKey,      \* no callback is running
          InnerCall   \* key -> the call its callback makes, or NoPipe

ASSUME CallbackAssumption ==
    /\ NoKey \notin Keys
    /\ InnerCall \in [Keys -> Pipes \cup {NoPipe}]

VARIABLES
    callbacks_,   \* the registered callbacks
    registered,   \* the keys add_callback has returned
    inhand,       \* the message dispatch_handler is handing round, as a sequence of one; <<>> for none
    rounds,       \* the messages it has begun to hand round
    todo,         \* the callbacks it has yet to call
    running,      \* the callback that runs
    seen,         \* key -> the messages its callback has been called with
    before        \* key -> how many had been handed round when it was registered

cbVars == <<callbacks_, registered, inhand, rounds, todo, running, seen, before>>
cvars  == <<ivars, cbVars>>

Made(k) == InnerCall[k] # NoPipe
Inner   == {InnerCall[k] : k \in Keys} \ {NoPipe}

\* callbacks_mutex_ is held for as long as a message is handed round, and that is done
\* by the thread that handles the messages.
MutexFree  == inhand = <<>>

\* A faulty variant: the callbacks are called on a thread of their own.
AlwaysFree == TRUE

ThreadFree == inhand = <<>>

CallbacksInit == /\ InvokeInit
                 /\ callbacks_ = {} /\ registered = {}
                 /\ inhand = <<>> /\ rounds = <<>>
                 /\ todo = {} /\ running = NoKey
                 /\ seen = [k \in Keys |-> <<>>]
                 /\ before = [k \in Keys |-> 0]

-----------------------------------------------------------------------------
(* Faulty variants of single steps. *)

\* The mutex is not taken, or a copy of the callbacks is called without it.
RemoveCallbackAnyTime(k) ==
    /\ k \in callbacks_
    /\ stopper = "live"
    /\ callbacks_' = callbacks_ \ {k}
    /\ UNCHANGED <<ivars, registered, inhand, rounds, todo, running, seen, before>>

\* An element is added to the map while dispatch_handler goes over it.
AddCallbackAnyTime(k) ==
    /\ k \notin registered
    /\ stopper = "live"
    /\ callbacks_' = callbacks_ \cup {k}
    /\ registered' = registered \cup {k}
    /\ before' = [before EXCEPT ![k] = Len(rounds)]
    /\ todo' = IF inhand = <<>> THEN todo ELSE todo \cup {k}
    /\ UNCHANGED <<ivars, inhand, rounds, running, seen>>

-----------------------------------------------------------------------------
(* Client threads. *)

AddCallback(k) ==
    /\ k \notin registered
    /\ stopper = "live"
    /\ MutexFree
    /\ callbacks_' = callbacks_ \cup {k}
    /\ registered' = registered \cup {k}
    /\ before' = [before EXCEPT ![k] = Len(rounds)]
    /\ UNCHANGED <<ivars, inhand, rounds, todo, running, seen>>

RemoveCallback(k) ==
    /\ k \in callbacks_
    /\ stopper = "live"
    /\ MutexFree
    /\ callbacks_' = callbacks_ \ {k}
    /\ UNCHANGED <<ivars, registered, inhand, rounds, todo, running, seen, before>>

\* Calls of clients at any time, calls of callbacks while their callback runs.
CallbackCall(c) ==
    /\ c \in Inner => running # NoKey /\ InnerCall[running] = c
    /\ Call(c)
    /\ UNCHANGED cbVars

\* A callback that calls invoke is removed before the Connection is destroyed.
StopConnection ==
    /\ \A k \in callbacks_ : ~Made(k)
    /\ Stop
    /\ UNCHANGED cbVars

-----------------------------------------------------------------------------
(* The dispatcher's thread. *)

\* A message somebody waits for.
HandleAnswer ==
    /\ ThreadFree
    /\ Handle
    /\ Waiting(W!Current.ActionID)
    /\ UNCHANGED cbVars

\* A message nobody waits for: dispatch_handler takes the mutex.
BeginRound ==
    /\ ThreadFree /\ MutexFree
    /\ Handle
    /\ ~Waiting(W!Current.ActionID)
    /\ inhand' = <<W!Current>>
    /\ rounds' = Append(rounds, W!Current)
    /\ todo' = callbacks_
    /\ UNCHANGED <<callbacks_, registered, running, seen, before>>

\* The map is unordered.
Enter(k) ==
    /\ running = NoKey
    /\ k \in todo
    /\ running' = k
    /\ todo' = todo \ {k}
    /\ seen' = [seen EXCEPT ![k] = @ \o inhand]
    /\ UNCHANGED <<ivars, callbacks_, registered, inhand, rounds, before>>

\* A callback that calls invoke does so the first time it runs, and catches what invoke throws.
Leave ==
    /\ running # NoKey
    /\ Made(running) => Ended(InnerCall[running])
    /\ running' = NoKey
    /\ UNCHANGED <<ivars, callbacks_, registered, inhand, rounds, todo, seen, before>>

EndRound ==
    /\ inhand # <<>>
    /\ todo = {} /\ running = NoKey
    /\ inhand' = <<>>
    /\ UNCHANGED <<ivars, callbacks_, registered, rounds, todo, running, seen, before>>

Round == BeginRound \/ (\E k \in Keys : Enter(k)) \/ Leave \/ EndRound

CallbacksNext ==
    \/ \E k \in Keys : AddCallback(k) \/ RemoveCallback(k)
    \/ \E c \in Pipes : CallbackCall(c)
    \/ HandleAnswer
    \/ Round
    \/ \E s \in Sources : Arrive(s) /\ UNCHANGED cbVars
    \/ ThreadFree /\ Run /\ UNCHANGED cbVars
    \/ StopConnection
    \/ Cleanup /\ UNCHANGED cbVars
    \/ Over /\ UNCHANGED cbVars

\* As in Invoke: no send is promised to get the room it waits for.  Callbacks go on, and
\* make the calls they make.
CallbacksFairness ==
    /\ WF_cvars(HandleAnswer)
    /\ WF_cvars(Round)
    /\ WF_cvars(ThreadFree /\ W!Housekeeping /\ UNCHANGED <<mapVars, callVars, cbVars>>)
    /\ \A c \in Pipes : WF_cvars(/\ c \in Inner \/ pc[c] # "idle"
                               /\ pc[c] # "sending"
                               /\ CallbackCall(c))

CallbacksSpec == CallbacksInit /\ [][CallbacksNext]_cvars /\ CallbacksFairness

-----------------------------------------------------------------------------
(* Types; what is going on in a round.                                      *)
CallbacksTypeOK ==
    /\ InvokeTypeOK
    /\ callbacks_ \subseteq registered
    /\ registered \subseteq Keys
    /\ rounds \in Seq(Event) /\ Elements(rounds) = notified
    /\ inhand = <<>> \/ (rounds # <<>> /\ inhand = <<rounds[Len(rounds)]>>)
    /\ todo \subseteq Keys
    /\ running \in Keys \cup {NoKey}
    /\ seen \in [Keys -> Seq(Event)]
    /\ before \in [Keys -> 0 .. Len(rounds)]
    /\ inhand = <<>> => todo = {} /\ running = NoKey

(* Connection.cpp, remove_callback: it waits for dispatch_handler, so that  *)
(* once it has returned the callback is not running, and is not called      *)
(* again even for a message that is just being handed round; the client may *)
(* free what the callback uses.                                             *)
NotCalledOnceRemoved == todo \cup ({running} \ {NoKey}) \subseteq callbacks_

(* Connection.hpp, add_callback: "These callbacks are invoked whenever      *)
(* async_invoke is invoked or the AMI server is sending events out".  A     *)
(* callback sees the messages that are handed round while it is registered, *)
(* all of them and no other, each once and in the order in which they are   *)
(* handled, however registrations and messages interleave.                  *)
SeesAllWhileRegistered ==
    inhand = <<>> => \A k \in callbacks_ :
                        seen[k] = SubSeq(rounds, before[k] + 1, Len(rounds))

(* A callback occupies the thread that collects reactions: a call of invoke *)
(* made in a callback never returns a reaction, it can only time out.       *)
InnerCallsTimeOut ==
    \A c \in Inner : Sync(c) /\ pc[c] = "ended" => future[c] = "exception"

(* Whoever waits for callbacks_mutex_ (add_callback, remove_callback) is    *)
(* not kept waiting for ever: the message in hand is done with at last,     *)
(* also if a callback calls invoke with a timeout.  Only a send that never  *)
(* gets room, the callback's or one it waits for, keeps the mutex.          *)
RoundsEnd == inhand # <<>> ~> inhand = <<>> \/ []SendUnderWay
================================================================================
