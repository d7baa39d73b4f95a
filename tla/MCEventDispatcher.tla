--------------------------- MODULE MCEventDispatcher ---------------------------
(* Instances of EventDispatcher for TLC. *)
EXTENDS EventDispatcher, TLC

Message(id, list, response) == [ActionID |-> id, EventList |-> list, Response |-> response]

\* Of each ActionID: a reply, the head of a list, a refused list, a head that is marked as
\* cancelled, an item, and a closing message.
MCEvent == UNION {{Message(id, "absent", "success"), Message(id, "other", "success"),
                   Message(id, "other", "other"),    Message(id, "absent", "absent"),
                   Message(id, "complete", "success"), Message(id, "complete", "absent")} : id \in Ids}
            \cup {Message(NoId, "absent", "absent")}

Symmetry == Permutations(Pipes) \cup Permutations(Ids)
================================================================================
