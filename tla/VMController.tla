---------------------------- MODULE VMController ----------------------------
(***************************************************************************)
(* The VM controller of the chaincode runtime,                             *)
(* libraries/chaincodecore/container/controller.go: VMCProcess runs every  *)
(* request in a goroutine of its own under a lock per container.  The      *)
(* locks are made on demand and counted, and thrown away when the last     *)
(* request is through; the map of locks is under the controller's mutex,   *)
(* but the wait for a container's lock is not.                             *)
(***************************************************************************)
EXTENDS Integers, FiniteSets

CONSTANTS Proc,   \* calls of VMCProcess that may run at the same time
          Id,     \* container names
          Lock,   \* refCountedLock objects
          Nil

ASSUME LockAssumption == Nil \notin Lock \cup Proc /\ IsFiniteSet(Proc)

VARIABLES containerLocks,  \* the map: container -> lock object
          refCount,        \* refCountedLock.refCount
          locked,          \* whether the object's mutex is taken
          pc, id, lck,     \* each call's goroutine: where it is, its
                           \* container, its pointer refLck
          caller,          \* the call itself, in its select
          panicked

locks == <<containerLocks, refCount, locked>>
vars == <<locks, pc, id, lck, caller, panicked>>

Init ==
    /\ containerLocks = [i \in Id |-> Nil]
    /\ refCount = [l \in Lock |-> 0]
    /\ locked = [l \in Lock |-> FALSE]
    /\ pc = [p \in Proc |-> "none"]
    /\ id \in [Proc -> Id]
    /\ lck = [p \in Proc |-> Nil]
    /\ caller = [p \in Proc |-> "idle"]
    /\ panicked = FALSE

Goto(p, from, to) == pc[p] = from /\ pc' = [pc EXCEPT ![p] = to]

VMCProcess(p, i) ==
    /\ caller[p] = "idle"
    /\ Goto(p, "none", "name")
    /\ id' = [id EXCEPT ![p] = i]
    /\ caller' = [caller EXCEPT ![p] = "select"]
    /\ UNCHANGED <<locks, lck, panicked>>

\* GetVMName fails; the deferred close still happens.
GetVMNameFails(p) ==
    /\ Goto(p, "name", "closed")
    /\ UNCHANGED <<locks, id, lck, caller, panicked>>

\* A lock object nothing refers to: the allocator may hand it out.
Unused(l) == /\ \A i \in Id : containerLocks[i] # l
             /\ \A p \in Proc : lck[p] # l

\* The count a new lock starts with, and the count after one more user.
FirstRef == 1
AddRefForgotten(l) == refCount[l]
AddRef(l) == refCount[l] + 1

\* The pointer refLck after the lookup has made the new lock l.
NewPointerUnset(p, l) == containerLocks[id[p]]
NewPointer(p, l) == l

\* lockContainer up to the unlock of the controller: find or make the
\* container's lock and count this goroutine.
LockContainer(p) ==
    /\ Goto(p, "name", "wait")
    /\ LET known == containerLocks[id[p]] IN
       IF known = Nil
       THEN \E l \in Lock :
              /\ Unused(l)
              /\ containerLocks' = [containerLocks EXCEPT ![id[p]] = l]
              /\ refCount' = [refCount EXCEPT ![l] = FirstRef]
              /\ locked' = [locked EXCEPT ![l] = FALSE]
              /\ lck' = [lck EXCEPT ![p] = NewPointer(p, l)]
       ELSE /\ refCount' = [refCount EXCEPT ![known] = AddRef(known)]
            /\ lck' = [lck EXCEPT ![p] = known]
            /\ UNCHANGED <<containerLocks, locked>>
    /\ UNCHANGED <<id, caller, panicked>>

\* refLck.lock.Lock(): the goroutine goes on to carry out its request.
GotLock(p) ==
    /\ Goto(p, "wait", "do")
    /\ ~locked[lck[p]]
    /\ locked' = [locked EXCEPT ![lck[p]] = TRUE]
    /\ UNCHANGED <<containerLocks, refCount, id, lck, caller, panicked>>

\* The container's entry in the map after one user less.
EntryKept(l) == l
EntryAfter(l) == IF refCount[l] - 1 = 0 THEN Nil ELSE l

\* unlockContainer: it looks the lock up again by the container's name, so
\* it unlocks whatever the map holds; a lock nobody holds is a panic.
UnlockContainer(p) ==
    LET l == containerLocks[id[p]]
    IN  /\ Goto(p, "do", "closed")
        /\ lck' = [lck EXCEPT ![p] = Nil]
        /\ IF l = Nil THEN UNCHANGED <<locks, panicked>>
           ELSE IF refCount[l] <= 0 \/ ~locked[l]
           THEN panicked' = TRUE /\ UNCHANGED locks
           ELSE /\ locked' = [locked EXCEPT ![l] = FALSE]
                /\ refCount' = [refCount EXCEPT ![l] = @ - 1]
                /\ containerLocks' = [containerLocks EXCEPT ![id[p]] = EntryAfter(l)]
                /\ UNCHANGED panicked
        /\ UNCHANGED <<id, caller>>

\* The context is cancelled: the call still waits for its goroutine.
Cancelled(p) ==
    /\ caller[p] = "select"
    /\ caller' = [caller EXCEPT ![p] = "draining"]
    /\ UNCHANGED <<locks, pc, id, lck, panicked>>

\* The goroutine has closed c: VMCProcess returns.
Returns(p) ==
    /\ caller[p] \in {"select", "draining"}
    /\ Goto(p, "closed", "none")
    /\ caller' = [caller EXCEPT ![p] = "idle"]
    /\ UNCHANGED <<locks, id, lck, panicked>>

Next ==
    \E p \in Proc :
      \/ \E i \in Id : VMCProcess(p, i)
      \/ GetVMNameFails(p) \/ LockContainer(p) \/ GotLock(p)
      \/ UnlockContainer(p) \/ Cancelled(p) \/ Returns(p)

Spec == Init /\ [][Next]_vars

(***************************************************************************)
(* Fairness: goroutines run, a request ends, and a mutex that is free      *)
(* again and again is given to every goroutine that waits for it (Go's     *)
(* mutexes hand over to a waiter that has starved).                        *)
(***************************************************************************)
Fairness ==
    \A p \in Proc : /\ WF_vars(LockContainer(p) \/ GetVMNameFails(p))
                    /\ SF_vars(GotLock(p))
                    /\ WF_vars(UnlockContainer(p))
                    /\ WF_vars(Returns(p))

FairSpec == Spec /\ Fairness

-----------------------------------------------------------------------------
(***************************************************************************)
(* Properties.                                                             *)
(***************************************************************************)

\* The types of the lock table and of the goroutines' locals; a goroutine
\* that waits for or holds a lock has a pointer to one.
TypeOK ==
    /\ containerLocks \in [Id -> Lock \cup {Nil}]
    /\ refCount \in [Lock -> Int]
    /\ locked \in [Lock -> BOOLEAN]
    /\ pc \in [Proc -> {"none", "name", "wait", "do", "closed"}]
    /\ id \in [Proc -> Id]
    /\ lck \in [Proc -> Lock \cup {Nil}]
    /\ caller \in [Proc -> {"idle", "select", "draining"}]
    /\ panicked \in BOOLEAN
    /\ \A p \in Proc : pc[p] \in {"wait", "do"} => lck[p] \in Lock

Counted(i) == {p \in Proc : pc[p] \in {"wait", "do"} /\ id[p] = i}

\* No two requests are carried out on one container together, although locks
\* are made, dropped and made again for the same name.
MutualExclusion ==
    \A p, q \in Proc :
      pc[p] = "do" /\ pc[q] = "do" /\ id[p] = id[q] => p = q

\* The table has a lock for exactly the containers some goroutine waits for
\* or works on, and its count is the number of these goroutines: a lock is
\* never dropped under a waiter and never kept when nobody needs it.
RefCountExact ==
    \A i \in Id :
      IF containerLocks[i] = Nil THEN Counted(i) = {}
      ELSE refCount[containerLocks[i]] = Cardinality(Counted(i))
           /\ Counted(i) # {}

\* Neither panic of unlockContainer ("refcnt <= 0", unlock of an unlocked
\* mutex) can happen.
NoPanic == ~panicked

\* The controller implements one lock per container.
Holder == [i \in Id |->
             IF \E p \in Proc : pc[p] = "do" /\ id[p] = i
             THEN CHOOSE p \in Proc : pc[p] = "do" /\ id[p] = i
             ELSE Nil]

Abstract == INSTANCE ContainerLock WITH Free <- Nil, holder <- Holder

\* Seen through who is working on which container, the counted locks are
\* exactly a lock per container (ContainerLock).
ImplementsContainerLock == Abstract!Spec

\* Every request that waits for a container's lock gets it: no wakeup is
\* lost when locks are dropped and made anew.
EveryRequestServed == \A p \in Proc : pc[p] = "wait" ~> pc[p] = "do"

=============================================================================
