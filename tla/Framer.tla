--------------------------------- MODULE Framer ---------------------------------
(***************************************************************************)
(* What StreamParser promises: the byte stream from the AMI server, after  *)
(* the banner line, is cut after every end-of-message sequence, and the    *)
(* pieces are handed over in order.  How the stream was chopped up by the  *)
(* reads from the socket makes no difference, so chunks do not appear.     *)
(*                                                                         *)
(* A piece of the stream is a pair <<from, to>>: the bytes from+1 .. to.   *)
(***************************************************************************)
EXTENDS Naturals, Sequences

CONSTANT Streams     \* what the server may send, banner line first

VARIABLES stream,    \* all the server will ever send
          received,  \* how many bytes of it have been read
          frames     \* the messages handed over

fvars == <<stream, received, frames>>

CR == "CR"
LF == "LF"
EOR == <<CR, LF>>
EOM == <<CR, LF, CR, LF>>
Byte == {CR, LF, "x"}     \* "x" is any other

\* The positions at which an occurrence of mark inside the piece from .. to ends.
Ends(mark, from, to) ==
    {p \in from + Len(mark) .. to : SubSeq(stream, p - Len(mark) + 1, p) = mark}

\* Where the first of them ends; NPos when there is none.
NPos == 0
EndOfFirst(mark, from, to) ==
    LET ends == Ends(mark, from, to)
    IN  IF ends = {} THEN NPos ELSE CHOOSE p \in ends : \A q \in ends : p <= q

Banner == EndOfFirst(EOR, 0, Len(stream))

\* The end of what has been handed over.
Delivered == IF frames = <<>> THEN Banner ELSE frames[Len(frames)][2]

Init == /\ stream \in Streams
        /\ received = 0
        /\ frames = <<>>

Receive == /\ received' \in received + 1 .. Len(stream)
           /\ UNCHANGED <<stream, frames>>

Deliver == /\ Banner # NPos
           /\ LET end == EndOfFirst(EOM, Delivered, received)
              IN  /\ end # NPos
                  /\ frames' = Append(frames, <<Delivered, end>>)
           /\ UNCHANGED <<stream, received>>

Next == Receive \/ Deliver

Safety == Init /\ [][Next]_fvars

\* Nothing is asked of the server; what makes up a message is handed over in the end.
Spec == Safety /\ WF_fvars(Deliver)
================================================================================
