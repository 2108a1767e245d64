------------------------------ MODULE Broadcast ------------------------------
(***************************************************************************)
(* What a feed promises: values are broadcast one at a time, each to       *)
(* everyone who was a member when its broadcast began, once, and never to  *)
(* one who has left.                                                       *)
(***************************************************************************)
EXTENDS Sequences

CONSTANTS Sub, Value, None

VARIABLES member, waiting, current, received

Init == /\ member = {} /\ waiting = {} /\ current = None
        /\ received = [s \in Sub |-> <<>>]

Join(s) == /\ member' = member \cup {s}
           /\ UNCHANGED <<waiting, current, received>>

\* A member leaves, and is not sent what it has not been sent.
Leave(s) == /\ member' = member \ {s} /\ waiting' = waiting \ {s}
            /\ UNCHANGED <<current, received>>

Publish(v) == /\ waiting = {}
              /\ current' = v /\ waiting' = member
              /\ UNCHANGED <<member, received>>

Deliver(s) == /\ s \in waiting
              /\ received' = [received EXCEPT ![s] = Append(@, current)]
              /\ waiting' = waiting \ {s}
              /\ UNCHANGED <<member, current>>

Next == \/ \E s \in Sub : Join(s) \/ Leave(s) \/ Deliver(s)
        \/ \E v \in Value : Publish(v)

Spec == Init /\ [][Next]_<<member, waiting, current, received>>

=============================================================================
