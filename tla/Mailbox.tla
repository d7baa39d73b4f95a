-------------------------------- MODULE Mailbox --------------------------------
(***************************************************************************)
(* What EventDispatcher promises the callers of get_event_pipe: a mailbox. *)
(* A pipe collects the messages that carry its ActionID, in order, from    *)
(* the moment it is opened, and hands them over at once when they make up  *)
(* a whole answer; at most one open pipe listens to an ActionID.           *)
(*                                                                         *)
(* There is one table here, keyed by pipe.  The class keeps two, keyed by  *)
(* ActionID (promise_map_ and event_map_), whose agreement is what module  *)
(* EventDispatcher has to show.                                            *)
(***************************************************************************)
EXTENDS Naturals, Sequences

CONSTANTS Pipes,   \* promise/future pairs
          Ids,     \* ActionIDs
          NoId,    \* no ActionID
          Event    \* AMI messages, records with fields ActionID, EventList, Response

VARIABLES state,   \* of each pipe
          key,     \* the ActionID an open pipe listens to
          got      \* the messages it has collected, or has handed over

mvars == <<state, key, got>>

\* A message that announces a list of further messages.
OpensList(e) == e.EventList # "absent" /\ e.Response = "success"

\* A lone message that announces no list, or a list up to its closing message.
Whole(s) == \/ Len(s) = 1 /\ ~OpensList(s[1])
            \/ Len(s) > 1 /\ s[Len(s)].EventList = "complete"

Listening(c, id) == state[c] = "pending" /\ key[c] = id

Init == /\ state = [c \in Pipes |-> "none"]
        /\ key = [c \in Pipes |-> NoId]
        /\ got = [c \in Pipes |-> <<>>]

Open(c, id) ==
    /\ state[c] = "none"
    /\ \A d \in Pipes : ~Listening(d, id)
    /\ state' = [state EXCEPT ![c] = "pending"]
    /\ key' = [key EXCEPT ![c] = id]
    /\ UNCHANGED got

Refuse(c, id) ==
    /\ state[c] = "none"
    /\ \E d \in Pipes : Listening(d, id)
    /\ state' = [state EXCEPT ![c] = "broken"]
    /\ UNCHANGED <<key, got>>

Collect(c, e) ==
    /\ Listening(c, e.ActionID)
    /\ ~Whole(Append(got[c], e))
    /\ got' = [got EXCEPT ![c] = Append(@, e)]
    /\ UNCHANGED <<state, key>>

HandOver(c, e) ==
    /\ Listening(c, e.ActionID)
    /\ Whole(Append(got[c], e))
    /\ got' = [got EXCEPT ![c] = Append(@, e)]
    /\ state' = [state EXCEPT ![c] = "value"]
    /\ key' = [key EXCEPT ![c] = NoId]

\* What was collected is lost with the pipe.
Fail(c, outcome) ==
    /\ state[c] = "pending"
    /\ state' = [state EXCEPT ![c] = outcome]
    /\ key' = [key EXCEPT ![c] = NoId]
    /\ got' = [got EXCEPT ![c] = <<>>]

FailAll ==
    /\ state' = [c \in Pipes |-> IF state[c] = "pending" THEN "null" ELSE state[c]]
    /\ key' = [c \in Pipes |-> NoId]
    /\ got' = [c \in Pipes |-> IF state[c] = "pending" THEN <<>> ELSE got[c]]

Retire(c) ==
    /\ state[c] \notin {"none", "pending"}
    /\ state' = [state EXCEPT ![c] = "none"]
    /\ got' = [got EXCEPT ![c] = <<>>]
    /\ UNCHANGED key

Next == \/ \E c \in Pipes, id \in Ids : Open(c, id) \/ Refuse(c, id)
        \/ \E c \in Pipes, e \in Event : Collect(c, e) \/ HandOver(c, e)
        \/ \E c \in Pipes : Fail(c, "exception") \/ Fail(c, "null") \/ Retire(c)
        \/ FailAll

Spec == Init /\ [][Next]_mvars
================================================================================
