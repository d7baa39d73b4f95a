---------------------------- MODULE EventDispatcher ----------------------------
(***************************************************************************)
(* EventDispatcher: its work thread takes AMI messages off a queue and     *)
(* either settles the promise of the call a message answers, or passes the *)
(* message to the event callback.  Answers that are lists are collected    *)
(* until their closing message.                                            *)
(*                                                                         *)
(* promise_map_ and event_map_ are only touched with promise_map_mutex_    *)
(* held, so one call of dispatch_event, get_event_pipe or                  *)
(* set_exception_on_pipe is one step; the thread that makes the step       *)
(* comes from module WorkThread.                                           *)
(*                                                                         *)
(* A message is kept to what dispatch_event looks at: its ActionID, and    *)
(* whether it has an EventList key and a Response key with values that     *)
(* matter.  A pipe is the promise/future pair of one call of               *)
(* get_event_pipe.                                                         *)
(***************************************************************************)
EXTENDS Naturals, Sequences, FiniteSets

CONSTANTS Pipes,        \* promise/future pairs; a consumed one is used again
          Ids,          \* ActionIDs
          NoId,         \* the message has no ActionID
          NoPipe,       \* no entry in promise_map_
          Event,        \* the messages that can come
          Asserts,      \* whether assert() is compiled in (no NDEBUG)
          MaxPending,   \* bound on the messages queued at one time (WorkThread)
          MaxList       \* bound on the length of the lists the server sends

ListKeys  == {"absent", "other", "complete"}      \* "complete": Complete or cancelled
Responses == {"absent", "success", "other"}       \* "success": Success or Goodbye

ASSUME IdAssumption == NoId \notin Ids /\ NoPipe \notin Pipes
ASSUME EventAssumption ==
    \A e \in Event : /\ e.ActionID \in Ids \cup {NoId}
                     /\ e.EventList \in ListKeys
                     /\ e.Response \in Responses
ASSUME AssertsAssumption == Asserts \in BOOLEAN
ASSUME MaxListAssumption == MaxList \in Nat

VARIABLES
    events_, events, worker, thread_run_, stopper,   \* of the work thread
    promise_map_,   \* ActionID -> the pipe whose promise is stored under it
    event_map_,     \* ActionID -> messages of the list being collected, <<>> for no entry
    future,         \* what each pipe's future holds
    reaction,       \* the reaction stored in it, head first, tail last
    cleanup         \* how far cleanup_object has got

W == INSTANCE WorkThread WITH Item <- Event, queue <- events_, batch <- events

threadVars == <<events_, events, worker, thread_run_, stopper>>
mapVars    == <<promise_map_, event_map_, future, reaction, cleanup>>
vars       == <<threadVars, mapVars>>

FutureStates  == {"none", "pending", "value", "exception", "null", "broken"}
CleanupStates == {"no", "promise assert failed", "list assert failed", "done"}

-----------------------------------------------------------------------------
Init == /\ W!Init
        /\ promise_map_ = [id \in Ids |-> NoPipe]
        /\ event_map_ = [id \in Ids |-> <<>>]
        /\ future = [c \in Pipes |-> "none"]
        /\ reaction = [c \in Pipes |-> <<>>]
        /\ cleanup = "no"

Waiting(id) == id \in Ids /\ promise_map_[id] # NoPipe
Working(id) == event_map_[id] # <<>>

\* Reaction::is_success of the message's Response, EventList::is_list_complete of its
\* EventList, and EventList::is_success of a list whose head it is.
Success(e)   == e.Response = "success"
Closes(e)    == e.EventList = "complete"
OpensList(e) == e.EventList # "absent" /\ Success(e)

\* Copying an EventList dereferences tail_, which add_event sets when it meets the
\* closing message.
CopyDefined(list) == Len(list) > 1 /\ Closes(list[Len(list)])

\* promise.set_value(r) and promise_map_.erase
Settle(id, r) ==
    /\ future' = [future EXCEPT ![promise_map_[id]] = "value"]
    /\ reaction' = [reaction EXCEPT ![promise_map_[id]] = r]
    /\ promise_map_' = [promise_map_ EXCEPT ![id] = NoPipe]

\* A faulty variant of the next: the list is left behind.
GiveKeepingList(id, outcome) ==
    /\ future' = IF Waiting(id) THEN [future EXCEPT ![promise_map_[id]] = outcome]
                                ELSE future
    /\ promise_map_' = [promise_map_ EXCEPT ![id] = NoPipe]
    /\ UNCHANGED <<event_map_, reaction, cleanup>>

\* set_exception or set_value(nullptr), then both entries are erased
Give(id, outcome) ==
    /\ future' = IF Waiting(id) THEN [future EXCEPT ![promise_map_[id]] = outcome]
                                ELSE future
    /\ promise_map_' = [promise_map_ EXCEPT ![id] = NoPipe]
    /\ event_map_' = [event_map_ EXCEPT ![id] = <<>>]
    /\ UNCHANGED <<reaction, cleanup>>

-----------------------------------------------------------------------------
(* Faulty variants of single steps. *)

CompleteListWithoutTail(e) ==
    /\ Waiting(e.ActionID) /\ Working(e.ActionID)
    /\ Closes(e)
    /\ Settle(e.ActionID, event_map_[e.ActionID])
    /\ event_map_' = [event_map_ EXCEPT ![e.ActionID] = <<>>]
    /\ UNCHANGED cleanup

AppendListDropping(e) ==
    /\ Waiting(e.ActionID) /\ Working(e.ActionID)
    /\ ~Closes(e)
    /\ UNCHANGED mapVars

StartListUnchecked(e) ==
    /\ Waiting(e.ActionID) /\ ~Working(e.ActionID)
    /\ e.EventList # "absent"
    /\ event_map_' = [event_map_ EXCEPT ![e.ActionID] = <<e>>]
    /\ UNCHANGED <<promise_map_, future, reaction, cleanup>>

OverwritingGetEventPipe(c, id) ==
    /\ stopper = "live"
    /\ future[c] = "none"
    /\ promise_map_' = [promise_map_ EXCEPT ![id] = c]
    /\ future' = [future EXCEPT ![c] = "pending"]
    /\ UNCHANGED <<event_map_, reaction, cleanup, threadVars>>

-----------------------------------------------------------------------------
(* dispatch_event: what handling message e does, by case. *)

\* No ActionID, or nobody waits for it: an unsolicited event, given to the callback.
Notify(e) ==
    /\ ~Waiting(e.ActionID)
    /\ UNCHANGED mapVars

\* A lone message is the whole reaction.
Reply(e) ==
    /\ Waiting(e.ActionID) /\ ~Working(e.ActionID)
    /\ e.EventList = "absent"
    /\ Settle(e.ActionID, <<e>>)
    /\ UNCHANGED <<event_map_, cleanup>>

StartList(e) ==
    /\ Waiting(e.ActionID) /\ ~Working(e.ActionID)
    /\ OpensList(e)
    /\ event_map_' = [event_map_ EXCEPT ![e.ActionID] = <<e>>]
    /\ UNCHANGED <<promise_map_, future, reaction, cleanup>>

\* A list that reports failure has no further messages.
FailList(e) ==
    /\ Waiting(e.ActionID) /\ ~Working(e.ActionID)
    /\ e.EventList # "absent" /\ ~OpensList(e)
    /\ Settle(e.ActionID, <<e>>)
    /\ UNCHANGED <<event_map_, cleanup>>

AppendList(e) ==
    /\ Waiting(e.ActionID) /\ Working(e.ActionID)
    /\ ~Closes(e)
    /\ event_map_' = [event_map_ EXCEPT ![e.ActionID] = Append(@, e)]
    /\ UNCHANGED <<promise_map_, future, reaction, cleanup>>

CompleteList(e) ==
    /\ Waiting(e.ActionID) /\ Working(e.ActionID)
    /\ Closes(e)
    /\ Settle(e.ActionID, Append(event_map_[e.ActionID], e))
    /\ event_map_' = [event_map_ EXCEPT ![e.ActionID] = <<>>]
    /\ UNCHANGED cleanup

Dispatch(e) == \/ Notify(e)    \/ Reply(e)      \/ StartList(e)
               \/ FailList(e)  \/ AppendList(e) \/ CompleteList(e)

DispatchEvent == W!Handle /\ Dispatch(W!Current)

-----------------------------------------------------------------------------
(* The other threads.  None of them may use the object once it is being    *)
(* destroyed.                                                              *)

AddEvent(e) ==
    /\ ~Closes(e) =>
           \A id \in Ids : Len(event_map_[id]) + Len(events_) + Len(events) < MaxList
    /\ W!Add(e)
    /\ UNCHANGED mapVars

\* emplace leaves an existing entry alone, and the new promise is destroyed unset.
GetEventPipe(c, id) ==
    /\ stopper = "live"
    /\ future[c] = "none"
    /\ IF Waiting(id)
       THEN /\ future' = [future EXCEPT ![c] = "broken"]
            /\ UNCHANGED promise_map_
       ELSE /\ future' = [future EXCEPT ![c] = "pending"]
            /\ promise_map_' = [promise_map_ EXCEPT ![id] = c]
    /\ UNCHANGED <<event_map_, reaction, cleanup, threadVars>>

SetExceptionOnPipe(id) == stopper = "live" /\ Give(id, "exception") /\ UNCHANGED threadVars
SetNullOnPipe(id)      == stopper = "live" /\ Give(id, "null") /\ UNCHANGED threadVars

\* The owner of a future that is ready has taken its contents.
Retire(c) ==
    /\ future[c] \notin {"none", "pending"}
    /\ future' = [future EXCEPT ![c] = "none"]
    /\ reaction' = [reaction EXCEPT ![c] = <<>>]
    /\ UNCHANGED <<promise_map_, event_map_, cleanup, threadVars>>

\* The rest of the destructor, with the thread joined: two assertions around
\* the promises that are given nullptr; then the members are destroyed.
CleanupObject ==
    /\ stopper = "joined"
    /\ cleanup = "no"
    /\ IF Asserts /\ \E id \in Ids : Waiting(id)
       THEN cleanup' = "promise assert failed" /\ UNCHANGED <<future, promise_map_, event_map_>>
       ELSE IF Asserts /\ \E id \in Ids : Working(id)
       THEN cleanup' = "list assert failed" /\ UNCHANGED <<future, promise_map_, event_map_>>
       ELSE /\ cleanup' = "done"
            /\ future' = [c \in Pipes |-> IF \E id \in Ids : promise_map_[id] = c
                                          THEN "null" ELSE future[c]]
            /\ promise_map_' = [id \in Ids |-> NoPipe]
            /\ event_map_' = [id \in Ids |-> <<>>]
    /\ UNCHANGED <<reaction, threadVars>>

-----------------------------------------------------------------------------
ThreadStep == /\ W!Housekeeping \/ W!SpuriousWakeup \/ W!Stop
              /\ UNCHANGED mapVars

\* The destructor is through, or an assertion has ended the process.
Terminated == cleanup # "no" /\ UNCHANGED vars

Next == \/ \E e \in Event : AddEvent(e)
        \/ DispatchEvent
        \/ ThreadStep
        \/ \E c \in Pipes, id \in Ids : GetEventPipe(c, id)
        \/ \E id \in Ids : SetExceptionOnPipe(id) \/ SetNullOnPipe(id)
        \/ \E c \in Pipes : Retire(c)
        \/ CleanupObject
        \/ Terminated

Spec == Init /\ [][Next]_vars

-----------------------------------------------------------------------------
(* Types. *)
TypeOK == /\ W!TypeOK
          /\ promise_map_ \in [Ids -> Pipes \cup {NoPipe}]
          /\ event_map_ \in [Ids -> Seq(Event)]
          /\ future \in [Pipes -> FutureStates]
          /\ reaction \in [Pipes -> Seq(Event)]
          /\ cleanup \in CleanupStates
          /\ \A c \in Pipes : future[c] # "value" => reaction[c] = <<>>

(* A future is pending exactly when one entry of promise_map_ holds its     *)
(* promise: no caller is left waiting for a promise nobody can find, and no *)
(* promise in the map is already satisfied (set_value would throw in the    *)
(* work thread).  So the destructor, which empties the map, leaves no       *)
(* caller waiting (cleanup_object: "sending nullptr's out on pipes to avoid *)
(* std::broken_promise").                                                   *)
PipeInv ==
    /\ \A c \in Pipes : future[c] = "pending" <=> \E id \in Ids : promise_map_[id] = c
    /\ \A id1, id2 \in Ids : Waiting(id1) /\ promise_map_[id1] = promise_map_[id2] => id1 = id2

(* A list being collected always has somebody waiting for it: a list left   *)
(* behind would swallow the answer of the next call with that ActionID, and *)
(* trip the assertion on event_map_ in cleanup_object.                      *)
ListHasPipe == \A id \in Ids : Working(id) => Waiting(id)

(* A list being collected starts with a successful head that announced it,  *)
(* has not met its closing message, and is of one ActionID throughout.      *)
ListOf(id, s) == \A i \in DOMAIN s :
                    /\ s[i].ActionID = id
                    /\ IF i = 1 THEN OpensList(s[i]) ELSE ~Closes(s[i])

ListShape == \A id \in Ids : ListOf(id, event_map_[id])

(* Which lists a caller may copy, since the copy operations do not look     *)
(* whether there is a tail (EventList.cpp:12): those whose is_success is    *)
(* true, and those only.  A list of which it is false is its head alone, as *)
(* EventList.hpp says of responses that fail.  It also says so of a head    *)
(* that is marked as cancelled; with a Response of success is_success is    *)
(* true of such a head, and no caller gets a list of it without a tail (nor *)
(* at all, if none comes: see AnsweredCallsEnd in Invoke.tla).              *)
TailUnlessRefused(list) ==
    list # <<>> /\ list[1].EventList # "absent"
        => IF OpensList(list[1]) THEN CopyDefined(list) ELSE Len(list) = 1

OnlyRefusedLackTail == \A c \in Pipes : TailUnlessRefused(reaction[c])

(* EventDispatcher.hpp: the messages of an answer "appear to be immediately *)
(* returned at once".  Over the maps of this class, callers get a mailbox:  *)
(* a pipe hands over all messages of its ActionID since it was opened, when *)
(* and only when they are a whole answer, and fails without handing over    *)
(* part of one.                                                             *)
KeyOf(c) == IF future[c] = "pending" THEN CHOOSE id \in Ids : promise_map_[id] = c ELSE NoId
GotOf(c) == IF future[c] = "pending" THEN event_map_[KeyOf(c)] ELSE reaction[c]

M == INSTANCE Mailbox WITH state <- future,
                           key   <- [c \in Pipes |-> KeyOf(c)],
                           got   <- [c \in Pipes |-> GotOf(c)]

ImplementsMailbox == M!Spec

(* The second assertion of cleanup_object never fails: whenever the first   *)
(* one holds, the lists are gone with the promises.                         *)
ListAssertHolds == cleanup # "list assert failed"
================================================================================
