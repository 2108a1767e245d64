---------------------------- MODULE ContainerLock ----------------------------
(***************************************************************************)
(* What the container locks of the VM controller promise: for every        *)
(* container at most one request at a time is carried out, and it is       *)
(* released by the request that holds it.                                  *)
(***************************************************************************)
CONSTANTS Proc, Id, Free

VARIABLE holder  \* the request that works on each container

Init == holder = [i \in Id |-> Free]

Acquire(p, i) == /\ holder[i] = Free
                 /\ \A j \in Id : holder[j] # p
                 /\ holder' = [holder EXCEPT ![i] = p]

Release(p, i) == /\ holder[i] = p
                 /\ holder' = [holder EXCEPT ![i] = Free]

Next == \E p \in Proc, i \in Id : Acquire(p, i) \/ Release(p, i)

Spec == Init /\ [][Next]_holder

=============================================================================
