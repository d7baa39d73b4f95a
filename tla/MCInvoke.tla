-------------------------------- MODULE MCInvoke --------------------------------
(* Instances of Invoke for TLC: calls, ActionIDs, and what the server answers. *)
EXTENDS Invoke, TLC

CONSTANTS c1, c2, a, b

\* Besides what the dispatcher looks at, a message says what it answers, and its number there.
Message(s, n, id, list, response) ==
    [ActionID |-> id, EventList |-> list, Response |-> response, source |-> s, number |-> n]

IdOf(s)       == IF s = NoPipe THEN NoId ELSE ActionId[s]
Plain(s, n)   == Message(s, n, IdOf(s), "absent", "success")
Refusal(s, n) == Message(s, n, IdOf(s), "other", "other")
Opening(s, n) == Message(s, n, IdOf(s), "other", "success")
Item(s, n)    == Message(s, n, IdOf(s), "absent", "absent")
Closing(s, n) == Message(s, n, IdOf(s), "complete", "absent")
Voided(s, n)  == Message(s, n, IdOf(s), "complete", "success")

\* A reply with an event that follows it (as OriginateResponse does), a refused list, a
\* list, and a head that says that the list is cancelled: the whole answer for the server,
\* a list that no message closes for the dispatcher.
ReplyAndEvent(s) == <<Plain(s, 1), Item(s, 2)>>
Refused(s)       == <<Refusal(s, 1)>>
Cancelled(s)     == <<Voided(s, 1)>>
List(s)          == <<Opening(s, 1), Item(s, 2), Closing(s, 3)>>

MCEvent == UNION {{answers[i] : i \in DOMAIN answers} :
                  answers \in UNION {{ReplyAndEvent(s), Refused(s), List(s), Cancelled(s)} : s \in Pipes}}
           \cup {Item(NoPipe, 1)}

MCAnswers     == [s \in Pipes |-> {ReplyAndEvent(s), Refused(s), List(s), Cancelled(s)}]
ListAnswers   == [s \in Pipes |-> {List(s)}]
VoidAnswers   == [s \in Pipes |-> {Cancelled(s)}]
MCUnsolicited == <<Item(NoPipe, 1)>>
Nothing       == <<>>

\* Two calls of different threads.
TwoIds   == c1 :> a @@ c2 :> b
TwoModes == c1 :> "timed" @@ c2 :> "untimed"
Apart    == [s \in Pipes |-> {}]

\* One thread calls twice with one Action object: the second call is the retry of the first.
OneId      == c1 :> a @@ c2 :> a
TimedModes == c1 :> "timed" @@ c2 :> "timed"
Retry      == c1 :> {} @@ c2 :> {c1}
================================================================================
