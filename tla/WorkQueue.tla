------------------------------- MODULE WorkQueue -------------------------------
(***************************************************************************)
(* What a work thread of this library promises the code that feeds it: a   *)
(* FIFO channel.  Every item put in is handled exactly once, in order, and *)
(* an orderly close handles whatever is still in the channel first.        *)
(*                                                                         *)
(* StreamParser (chunks of the socket stream) and EventDispatcher (AMI     *)
(* messages) are both meant to be such a channel; module WorkThread is how *)
(* they do it, and implements this one.                                    *)
(***************************************************************************)
EXTENDS Sequences

CONSTANT Item      \* what is queued: a chunk of bytes or an AMI message

VARIABLES chan,    \* items put in and not yet handled, oldest first
          phase    \* "open", then "closing" (the destructor runs), then "closed"

qvars == <<chan, phase>>

TypeOK == /\ chan \in Seq(Item)
          /\ phase \in {"open", "closing", "closed"}

Init == chan = <<>> /\ phase = "open"

Put(x) == /\ phase = "open"
          /\ chan' = Append(chan, x)
          /\ UNCHANGED phase

Handle == /\ chan # <<>>
          /\ phase # "closed"
          /\ chan' = Tail(chan)
          /\ UNCHANGED phase

Close == /\ phase = "open"
         /\ phase' = "closing"
         /\ UNCHANGED chan

\* Closing finishes only on an empty channel: nothing put in is dropped.
Finish == /\ phase = "closing"
          /\ chan = <<>>
          /\ phase' = "closed"
          /\ UNCHANGED chan

Next == \/ \E x \in Item : Put(x)
        \/ Handle
        \/ Close
        \/ Finish

Spec == Init /\ [][Next]_qvars
================================================================================
