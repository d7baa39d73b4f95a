------------------------------ MODULE MCCallbacks ------------------------------
(* Instances of Callbacks for TLC: two callbacks; the first makes the call c2. *)
EXTENDS Callbacks, MCInvoke

CONSTANTS k1, k2, c3, e

InnerC2 == k1 :> c2 @@ k2 :> NoPipe

\* Clients wait without limit or not at all, the callback has a timeout.  The answers of
\* c1, which collects a list, and of c3, whose list goes to the callbacks, interleave.
ThreeIds     == c1 :> a @@ c2 :> b @@ c3 :> e
InnerTimed   == c1 :> "untimed" @@ c2 :> "timed" @@ c3 :> "async"
ShortList(s) == <<Opening(s, 1), Closing(s, 3)>>
TwoLists     == c1 :> {ShortList(c1)} @@ c2 :> {<<Plain(c2, 1)>>} @@ c3 :> {ShortList(c3)}

\* The client has a timeout, the callback waits without limit.
InnerUntimed == c1 :> "timed" @@ c2 :> "untimed"
PlainAnswers == [s \in Pipes |-> {<<Plain(s, 1)>>}]

MCKeys == {k1, k2}
================================================================================
