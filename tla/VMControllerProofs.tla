------------------------- MODULE VMControllerProofs -------------------------
(***************************************************************************)
(* Proofs about the VM controller: its types, that no two requests work on *)
(* one container together, that the counts of the locks are exact, that    *)
(* unlockContainer never panics, and that the controller implements one    *)
(* lock per container (ContainerLock), for every number of calls,          *)
(* containers and lock objects; and that the requests, whatever daemon     *)
(* calls fail, are carried out as if alone (DockerVM).                     *)
(***************************************************************************)
EXTENDS DockerVM, FiniteSetTheorems, SequenceTheorems, TLAPS

\* Few leaves do arithmetic or compute sequences, and those cite SMT; Zenon is
\* faster on the rest.
USE ZenonT(40)

Busy(p) == pc[p] \in {"wait", "do"}

\* A goroutine that waits for or holds a lock points at the one the table
\* has for its container; the others point at none.
PointersCurrent ==
    \A p \in Proc : IF Busy(p) THEN lck[p] = containerLocks[id[p]]
                               ELSE lck[p] = Nil

\* No lock object serves two containers.
LocksDistinct ==
    \A i, j \in Id : containerLocks[i] # Nil
                     /\ containerLocks[i] = containerLocks[j] => i = j

\* A mutex of the table is taken exactly while a request is carried out.
LockedWhileHeld ==
    \A i \in Id : containerLocks[i] # Nil =>
      (locked[containerLocks[i]] <=> \E p \in Proc : pc[p] = "do" /\ id[p] = i)

\* The inductive invariant.
IInv == /\ TypeOK /\ PointersCurrent /\ LocksDistinct /\ RefCountExact
        /\ LockedWhileHeld /\ MutualExclusion /\ NoPanic

LEMMA CountedFinite == \A i : IsFiniteSet(Counted(i))
BY LockAssumption, FS_Subset DEF Counted

\* One goroutine more, or one less, changes the count by one.
LEMMA CountedAdd ==
  ASSUME NEW S, IsFiniteSet(S), NEW x, x \notin S
  PROVE  Cardinality(S \cup {x}) = Cardinality(S) + 1
BY FS_AddElement

LEMMA CountedRemove ==
  ASSUME NEW S, IsFiniteSet(S), NEW x \in S
  PROVE  /\ Cardinality(S) \in Nat /\ Cardinality(S) >= 1
         /\ Cardinality(S \ {x}) = Cardinality(S) - 1
         /\ (Cardinality(S) = 1) <=> (S \ {x} = {})
<1>1. /\ IsFiniteSet(S \ {x}) /\ Cardinality(S \ {x}) = Cardinality(S) - 1
  BY FS_RemoveElement
<1>2. Cardinality(S) \in Nat /\ Cardinality(S \ {x}) \in Nat
  BY <1>1, FS_CardinalityType
<1>3. (Cardinality(S \ {x}) = 0) <=> (S \ {x} = {})
  BY <1>1, FS_EmptySet
<1> QED
  BY SMTT(30), <1>1, <1>2, <1>3

LEMMA InitIInv == Init => IInv
<1> SUFFICES ASSUME Init PROVE IInv
  OBVIOUS
<1>1. TypeOK
  <2>1. locked \in [Lock -> BOOLEAN] /\ panicked \in BOOLEAN
    BY Zenon DEF Init
  <2> QED
    BY SMTT(30), <2>1 DEF Init, TypeOK
<1>2. \A i \in Id : Counted(i) = {}
  BY DEF Init, Counted
<1> QED
  BY <1>1, <1>2 DEF Init, IInv, PointersCurrent, LocksDistinct, RefCountExact,
     LockedWhileHeld, MutualExclusion, NoPanic, Busy

\* Steps that leave the locks, the pointers and the busy goroutines alone.
LEMMA QuietStep ==
  ASSUME IInv, UNCHANGED <<locks, lck, panicked>>, TypeOK',
         \A p \in Proc : /\ Busy(p) \/ Busy(p)' => UNCHANGED <<pc[p], id[p]>>
  PROVE  IInv'
<1>1. \A p \in Proc : Busy(p)' <=> Busy(p)
  BY DEF Busy
<1>2. \A i \in Id : Counted(i)' = Counted(i)
  BY <1>1 DEF Counted, Busy
<1>3. \A p \in Proc, i \in Id : (pc[p] = "do" /\ id[p] = i)' <=>
                                (pc[p] = "do" /\ id[p] = i)
  BY <1>1 DEF Busy
<1>4. PointersCurrent'
  BY <1>1 DEF IInv, PointersCurrent, locks, Busy
<1>5. LocksDistinct' /\ NoPanic'
  BY DEF IInv, LocksDistinct, NoPanic, locks
<1>6. RefCountExact'
  BY <1>2 DEF IInv, RefCountExact, locks
<1>7. LockedWhileHeld'
  BY SMTT(30), <1>3 DEF IInv, LockedWhileHeld, locks
<1>8. MutualExclusion'
  BY <1>1 DEF IInv, MutualExclusion, Busy
<1> QED
  BY <1>4, <1>5, <1>6, <1>7, <1>8 DEF IInv

LEMMA VMCProcessStep ==
  ASSUME IInv, NEW p \in Proc, NEW i \in Id, VMCProcess(p, i)
  PROVE  IInv'
<1>1. TypeOK'
  BY DEF IInv, TypeOK, VMCProcess, Goto, locks
<1> QED
  BY <1>1, QuietStep DEF IInv, TypeOK, VMCProcess, Goto, Busy

LEMMA GetVMNameFailsStep ==
  ASSUME IInv, NEW p \in Proc, GetVMNameFails(p)
  PROVE  IInv'
<1>1. TypeOK'
  BY DEF IInv, TypeOK, GetVMNameFails, Goto, locks
<1> QED
  BY <1>1, QuietStep DEF IInv, TypeOK, GetVMNameFails, Goto, Busy

LEMMA CancelledStep ==
  ASSUME IInv, NEW p \in Proc, Cancelled(p)
  PROVE  IInv'
<1>1. TypeOK'
  BY DEF IInv, TypeOK, Cancelled, locks
<1> QED
  BY <1>1, QuietStep DEF IInv, TypeOK, Cancelled, Busy

LEMMA ReturnsStep ==
  ASSUME IInv, NEW p \in Proc, Returns(p)
  PROVE  IInv'
<1>1. TypeOK'
  BY DEF IInv, TypeOK, Returns, Goto, locks
<1> QED
  BY <1>1, QuietStep DEF IInv, TypeOK, Returns, Goto, Busy

\* A goroutine that joins the waiters of its container, with an old lock or
\* a new one.
LEMMA LockContainerStep ==
  ASSUME IInv, NEW p \in Proc, LockContainer(p)
  PROVE  IInv'
<1> DEFINE i == id[p]
<1>1. /\ i \in Id /\ pc[p] = "name" /\ pc' = [pc EXCEPT ![p] = "wait"]
      /\ UNCHANGED <<id, caller, panicked>>
  BY DEF IInv, TypeOK, LockContainer, Goto
<1>2. /\ Counted(i)' = Counted(i) \cup {p} /\ p \notin Counted(i)
      /\ \A j \in Id \ {i} : Counted(j)' = Counted(j)
  BY <1>1 DEF IInv, TypeOK, Counted
<1>3. /\ MutualExclusion' /\ NoPanic'
      /\ \A q \in Proc, j \in Id : (pc[q] = "do" /\ id[q] = j)' <=>
                                   (pc[q] = "do" /\ id[q] = j)
  BY <1>1 DEF IInv, TypeOK, MutualExclusion, NoPanic
<1>4. /\ IsFiniteSet(Counted(i))
      /\ Cardinality(Counted(i)') = Cardinality(Counted(i)) + 1
      /\ Cardinality(Counted(i)) \in Nat
  BY <1>2, CountedFinite, CountedAdd, FS_CardinalityType
<1>5. CASE containerLocks[i] = Nil
  <2>1. PICK l \in Lock :
          /\ Unused(l)
          /\ containerLocks' = [containerLocks EXCEPT ![i] = l]
          /\ refCount' = [refCount EXCEPT ![l] = 1]
          /\ locked' = [locked EXCEPT ![l] = FALSE]
          /\ lck' = [lck EXCEPT ![p] = l]
    BY <1>5 DEF LockContainer, FirstRef, NewPointer
  <2>2. Counted(i) = {}
    BY <1>1, <1>5 DEF IInv, RefCountExact
  <2>3. \A q \in Proc : Busy(q) => id[q] # i
    BY <1>1, <2>2 DEF Counted, Busy
  <2>4. l # Nil
    BY LockAssumption
  <2>5. TypeOK'
    BY SMTT(30), <1>1, <2>1 DEF IInv, TypeOK
  <2>6. PointersCurrent'
    BY <1>1, <2>1, <2>3 DEF IInv, TypeOK, PointersCurrent, Busy
  <2>7. LocksDistinct'
    BY <1>1, <2>1 DEF IInv, TypeOK, LocksDistinct, Unused
  <2>8. Cardinality(Counted(i)') = 1
    BY SMTT(30), <1>4, <2>2, FS_EmptySet
  <2>9. RefCountExact'
    <3> SUFFICES ASSUME NEW j \in Id
                 PROVE  (IF containerLocks[j] = Nil THEN Counted(j) = {}
                         ELSE refCount[containerLocks[j]] = Cardinality(Counted(j))
                              /\ Counted(j) # {})'
      BY DEF RefCountExact
    <3>1. CASE j = i
      BY <1>1, <1>2, <2>1, <2>4, <2>8, <3>1 DEF IInv, TypeOK
    <3>2. CASE j # i
      <4>1. containerLocks'[j] = containerLocks[j] /\ Counted(j)' = Counted(j)
        BY <1>1, <1>2, <2>1, <3>2 DEF IInv, TypeOK
      <4>2. containerLocks[j] # Nil => /\ containerLocks[j] \in Lock
                                       /\ containerLocks[j] # l
        BY <2>1 DEF IInv, TypeOK, Unused
      <4>3. containerLocks[j] # Nil => refCount'[containerLocks[j]]
                                        = refCount[containerLocks[j]]
        BY <2>1, <4>2 DEF IInv, TypeOK
      <4> QED
        BY <4>1, <4>3 DEF IInv, RefCountExact
    <3> QED
      BY <3>1, <3>2
  <2>10. LockedWhileHeld'
    <3>1. ~ \E q \in Proc : pc[q] = "do" /\ id[q] = i
      BY <2>3 DEF Busy
    <3>2. ~ locked'[l] /\ containerLocks'[i] = l
      BY <1>1, <2>1 DEF IInv, TypeOK
    <3>3. \A j \in Id \ {i} : containerLocks'[j] # Nil =>
             /\ containerLocks'[j] = containerLocks[j]
             /\ locked'[containerLocks[j]] = locked[containerLocks[j]]
      BY <1>1, <2>1 DEF IInv, TypeOK, Unused
    <3> QED
      BY SMTT(30), <1>3, <3>1, <3>2, <3>3 DEF IInv, LockedWhileHeld
  <2> QED
    BY <1>3, <2>5, <2>6, <2>7, <2>9, <2>10 DEF IInv
<1>6. CASE containerLocks[i] # Nil
  <2> DEFINE k == containerLocks[i]
  <2>1. /\ k \in Lock
        /\ refCount' = [refCount EXCEPT ![k] = refCount[k] + 1]
        /\ lck' = [lck EXCEPT ![p] = k]
        /\ UNCHANGED <<containerLocks, locked>>
    BY <1>1, <1>6 DEF IInv, TypeOK, LockContainer, AddRef
  <2>2. TypeOK'
    BY SMTT(30), <1>1, <2>1 DEF IInv, TypeOK
  <2>3. PointersCurrent'
    BY <1>1, <2>1 DEF IInv, TypeOK, PointersCurrent, Busy
  <2>4. LocksDistinct'
    BY <2>1 DEF IInv, LocksDistinct
  <2>5. \A j \in Id \ {i} : containerLocks[j] # Nil =>
                  refCount'[containerLocks[j]] = refCount[containerLocks[j]]
    BY <1>1, <1>6, <2>1 DEF IInv, TypeOK, LocksDistinct
  <2>6. refCount'[k] = Cardinality(Counted(i)') /\ Counted(i)' # {}
    BY <1>1, <1>2, <1>4, <1>6, <2>1 DEF IInv, TypeOK, RefCountExact
  <2>7. RefCountExact'
    <3> SUFFICES ASSUME NEW j \in Id
                 PROVE  (IF containerLocks[j] = Nil THEN Counted(j) = {}
                         ELSE refCount[containerLocks[j]] = Cardinality(Counted(j))
                              /\ Counted(j) # {})'
      BY DEF RefCountExact
    <3>1. CASE j = i
      BY <1>1, <1>6, <2>1, <2>6, <3>1 DEF Counted
    <3>2. CASE j # i
      BY <1>2, <2>1, <2>5, <3>2 DEF IInv, RefCountExact
    <3> QED
      BY <3>1, <3>2
  <2>8. LockedWhileHeld'
    BY SMTT(30), <1>3, <2>1 DEF IInv, LockedWhileHeld
  <2> QED
    BY <1>3, <2>2, <2>3, <2>4, <2>7, <2>8 DEF IInv
<1> QED
  BY <1>5, <1>6


\* A waiter that finds the mutex free: nobody else works on the container.
LEMMA GotLockStep ==
  ASSUME IInv, NEW p \in Proc, GotLock(p)
  PROVE  IInv'
<1> DEFINE i == id[p]
           k == containerLocks[id[p]]
<1>1. /\ i \in Id /\ pc[p] = "wait" /\ pc' = [pc EXCEPT ![p] = "do"]
      /\ UNCHANGED <<containerLocks, refCount, id, lck, caller, panicked>>
  BY DEF IInv, TypeOK, GotLock, Goto
<1>2. lck[p] = k /\ k \in Lock /\ k # Nil
  BY <1>1, LockAssumption DEF IInv, TypeOK, PointersCurrent, Busy
<1>3. ~locked[k] /\ locked' = [locked EXCEPT ![k] = TRUE]
  BY <1>2 DEF GotLock
<1>4. ~ \E q \in Proc : pc[q] = "do" /\ id[q] = i
  BY <1>1, <1>2, <1>3 DEF IInv, LockedWhileHeld
<1>5. TypeOK'
  BY <1>1, <1>2, <1>3 DEF IInv, TypeOK
<1>6. PointersCurrent' /\ LocksDistinct' /\ NoPanic'
  BY <1>1 DEF IInv, TypeOK, PointersCurrent, LocksDistinct, NoPanic, Busy
<1>7. \A j \in Id : Counted(j)' = Counted(j)
  BY <1>1 DEF IInv, TypeOK, Counted
<1>8. RefCountExact'
  BY <1>1, <1>7 DEF IInv, RefCountExact
<1>9. MutualExclusion'
  BY <1>1, <1>4 DEF IInv, TypeOK, MutualExclusion
<1>10. LockedWhileHeld'
  <2>1. \A j \in Id \ {i} : containerLocks[j] # Nil =>
                 locked'[containerLocks[j]] = locked[containerLocks[j]]
    BY <1>1, <1>2, <1>3 DEF IInv, TypeOK, LocksDistinct
  <2>2. \A q \in Proc, j \in Id \ {i} : (pc[q] = "do" /\ id[q] = j)' <=>
                                         (pc[q] = "do" /\ id[q] = j)
    BY <1>1 DEF IInv, TypeOK
  <2>3. locked'[k] /\ (pc[p] = "do" /\ id[p] = i)'
    BY <1>1, <1>2, <1>3 DEF IInv, TypeOK
  <2> QED
    BY SMTT(30), <1>1, <2>1, <2>2, <2>3 DEF IInv, LockedWhileHeld
<1> QED
  BY <1>5, <1>6, <1>8, <1>9, <1>10 DEF IInv

\* What unlockContainer finds: its own lock, taken, with a positive count.
LEMMA UnlockFindsOwn ==
  ASSUME IInv, NEW p \in Proc, pc[p] = "do"
  PROVE  LET k == containerLocks[id[p]]
         IN  /\ k \in Lock /\ k # Nil /\ lck[p] = k /\ locked[k]
             /\ p \in Counted(id[p]) /\ refCount[k] >= 1
             /\ refCount[k] = Cardinality(Counted(id[p]))
<1> DEFINE k == containerLocks[id[p]]
<1>1. k \in Lock /\ k # Nil /\ lck[p] = k /\ id[p] \in Id
  BY LockAssumption DEF IInv, TypeOK, PointersCurrent, Busy
<1>2. locked[k]
  BY <1>1 DEF IInv, LockedWhileHeld
<1>3. p \in Counted(id[p])
  BY DEF Counted
<1>4. refCount[k] = Cardinality(Counted(id[p]))
  BY <1>1 DEF IInv, RefCountExact
<1>5. Cardinality(Counted(id[p])) >= 1
  BY <1>3, CountedFinite, CountedRemove
<1> QED
  BY <1>1, <1>2, <1>3, <1>4, <1>5

LEMMA UnlockContainerStep ==
  ASSUME IInv, NEW p \in Proc, UnlockContainer(p)
  PROVE  IInv'
<1> DEFINE i == id[p]
           k == containerLocks[id[p]]
<1>1. /\ i \in Id /\ pc[p] = "do" /\ pc' = [pc EXCEPT ![p] = "closed"]
      /\ lck' = [lck EXCEPT ![p] = Nil] /\ UNCHANGED <<id, caller>>
  BY DEF IInv, TypeOK, UnlockContainer, Goto
<1>2. /\ k \in Lock /\ k # Nil /\ lck[p] = k /\ locked[k]
      /\ p \in Counted(i) /\ refCount[k] >= 1
      /\ refCount[k] = Cardinality(Counted(i))
  BY <1>1, UnlockFindsOwn
<1>3. refCount[k] \in Int /\ ~(refCount[k] <= 0)
  BY SMTT(30), <1>2 DEF IInv, TypeOK
<1>4. /\ locked' = [locked EXCEPT ![k] = FALSE]
      /\ refCount' = [refCount EXCEPT ![k] = refCount[k] - 1]
      /\ containerLocks' = [containerLocks EXCEPT
                              ![i] = IF refCount[k] - 1 = 0 THEN Nil ELSE k]
      /\ UNCHANGED panicked
  BY <1>2, <1>3 DEF UnlockContainer, EntryAfter
<1>5. /\ Counted(i)' = Counted(i) \ {p}
      /\ \A j \in Id \ {i} : Counted(j)' = Counted(j)
  BY <1>1 DEF IInv, TypeOK, Counted
<1>6. /\ Cardinality(Counted(i)') = refCount[k] - 1
      /\ (refCount[k] = 1) <=> (Counted(i)' = {})
  BY SMTT(30), <1>2, <1>5, CountedFinite, CountedRemove
<1>7. /\ refCount'[k] = refCount[k] - 1
      /\ containerLocks'[i] = IF refCount[k] = 1 THEN Nil ELSE k
      /\ \A j \in Id \ {i} : containerLocks'[j] = containerLocks[j]
  BY SMTT(30), <1>1, <1>2, <1>3, <1>4 DEF IInv, TypeOK
<1>8. \A j \in Id \ {i} : containerLocks[j] # Nil =>
         /\ containerLocks[j] # k
         /\ refCount'[containerLocks[j]] = refCount[containerLocks[j]]
         /\ locked'[containerLocks[j]] = locked[containerLocks[j]]
  BY <1>1, <1>2, <1>4 DEF IInv, TypeOK, LocksDistinct
<1>9. TypeOK'
  BY SMTT(30), <1>1, <1>2, <1>4 DEF IInv, TypeOK
<1>10. PointersCurrent'
  <2>1. \A q \in Proc : Busy(q)' => Busy(q) /\ q # p
    BY <1>1 DEF IInv, TypeOK, Busy
  <2>2. ASSUME NEW q \in Proc, Busy(q)'
        PROVE  lck'[q] = containerLocks'[id'[q]]
    <3>1. q # p /\ lck[q] = containerLocks[id[q]] /\ lck'[q] = lck[q]
      BY <1>1, <2>1, <2>2 DEF IInv, TypeOK, PointersCurrent
    <3>2. CASE id[q] = i
      <4>1. q \in Counted(i)'
        BY <1>1, <2>2, <3>2 DEF Counted, Busy
      <4>2. containerLocks'[i] = k
        BY <1>6, <1>7, <4>1
      <4> QED
        BY <1>1, <3>1, <3>2, <4>2
    <3>3. CASE id[q] # i
      BY <1>1, <1>7, <3>1, <3>3 DEF IInv, TypeOK
    <3> QED
      BY <3>2, <3>3
  <2>3. \A q \in Proc : ~Busy(q)' => lck'[q] = Nil
    BY <1>1 DEF IInv, TypeOK, PointersCurrent, Busy
  <2> QED
    BY <2>2, <2>3 DEF PointersCurrent
<1>11. LocksDistinct'
  BY SMTT(30), <1>2, <1>7, <1>8 DEF IInv, LocksDistinct
<1>12. RefCountExact'
  <2> SUFFICES ASSUME NEW j \in Id
               PROVE  (IF containerLocks[j] = Nil THEN Counted(j) = {}
                       ELSE refCount[containerLocks[j]] = Cardinality(Counted(j))
                            /\ Counted(j) # {})'
    BY DEF RefCountExact
  <2>1. CASE j = i
    BY <1>1, <1>2, <1>6, <1>7, <2>1 DEF Counted
  <2>2. CASE j # i
    BY SMTT(30), <1>5, <1>7, <1>8, <2>2 DEF IInv, RefCountExact
  <2> QED
    BY <2>1, <2>2
<1>13. MutualExclusion' /\ NoPanic'
  BY <1>1, <1>4 DEF IInv, TypeOK, MutualExclusion, NoPanic
<1>14. LockedWhileHeld'
  <2>1. ~ \E q \in Proc : (pc[q] = "do" /\ id[q] = i)'
    BY <1>1 DEF IInv, TypeOK, MutualExclusion
  <2>2. \A q \in Proc, j \in Id \ {i} : (pc[q] = "do" /\ id[q] = j)' <=>
                                         (pc[q] = "do" /\ id[q] = j)
    BY <1>1 DEF IInv, TypeOK
  <2>3. ~locked'[k]
    BY <1>2, <1>4 DEF IInv, TypeOK
  <2>4. ASSUME NEW j \in Id, j # i
        PROVE  (containerLocks[j] # Nil =>
                  (locked[containerLocks[j]] <=>
                     \E q \in Proc : pc[q] = "do" /\ id[q] = j))'
    <3>1. containerLocks'[j] = containerLocks[j]
      BY <1>7, <2>4
    <3>2. ASSUME containerLocks[j] # Nil
          PROVE  locked'[containerLocks[j]] <=> \E q \in Proc : pc[q] = "do" /\ id[q] = j
      BY <1>8, <2>4, <3>2 DEF IInv, LockedWhileHeld
    <3>3. (\E q \in Proc : pc[q] = "do" /\ id[q] = j)
            <=> \E q \in Proc : pc'[q] = "do" /\ id'[q] = j
      BY <2>2, <2>4
    <3> QED BY <3>1, <3>2, <3>3
  <2>5. (containerLocks[i] # Nil =>
           (locked[containerLocks[i]] <=>
              \E q \in Proc : pc[q] = "do" /\ id[q] = i))'
    BY <1>1, <1>7, <2>1, <2>3
  <2>6. i' = i
    BY <1>1
  <2> QED
    BY <2>4, <2>5, <2>6 DEF LockedWhileHeld
<1> QED
  BY <1>9, <1>10, <1>11, <1>12, <1>13, <1>14 DEF IInv


LEMMA NextIInv == IInv /\ [Next]_vars => IInv'
<1> SUFFICES ASSUME IInv, [Next]_vars PROVE IInv'
  OBVIOUS
<1>1. CASE UNCHANGED vars
  <2>1. TypeOK'
    BY <1>1 DEF IInv, TypeOK, vars, locks
  <2> QED
    BY <1>1, <2>1, QuietStep DEF vars, locks
<1>2. ASSUME NEW p \in Proc, NEW i \in Id, VMCProcess(p, i) PROVE IInv'
  BY <1>2, VMCProcessStep
<1>3. ASSUME NEW p \in Proc, GetVMNameFails(p) PROVE IInv'
  BY <1>3, GetVMNameFailsStep
<1>4. ASSUME NEW p \in Proc, LockContainer(p) PROVE IInv'
  BY <1>4, LockContainerStep
<1>5. ASSUME NEW p \in Proc, GotLock(p) PROVE IInv'
  BY <1>5, GotLockStep
<1>6. ASSUME NEW p \in Proc, UnlockContainer(p) PROVE IInv'
  BY <1>6, UnlockContainerStep
<1>7. ASSUME NEW p \in Proc, Cancelled(p) PROVE IInv'
  BY <1>7, CancelledStep
<1>8. ASSUME NEW p \in Proc, Returns(p) PROVE IInv'
  BY <1>8, ReturnsStep
<1> QED
  BY <1>1, <1>2, <1>3, <1>4, <1>5, <1>6, <1>7, <1>8 DEF Next

LEMMA Invariant == Spec => []IInv
BY InitIInv, NextIInv, PTL DEF Spec

\* The types, and that a goroutine that waits for or holds a container's
\* lock has a pointer to one.
THEOREM TypeCorrect == Spec => []TypeOK
<1>1. IInv => TypeOK
  BY DEF IInv
<1> QED
  BY <1>1, Invariant, PTL

\* VMCProcess never carries out two requests on one container together.
THEOREM ContainersExclusive == Spec => []MutualExclusion
<1>1. IInv => MutualExclusion
  BY DEF IInv
<1> QED
  BY <1>1, Invariant, PTL

\* lockContainer and unlockContainer keep a lock exactly as long as some
\* goroutine needs it, with the number of these goroutines as its count.
THEOREM CountsExact == Spec => []RefCountExact
<1>1. IInv => RefCountExact
  BY DEF IInv
<1> QED
  BY <1>1, Invariant, PTL

\* unlockContainer's panic("refcnt <= 0") is unreachable, and so is the
\* unlock of a mutex that is not locked.
THEOREM UnlockNeverPanics == Spec => []NoPanic
<1>1. IInv => NoPanic
  BY DEF IInv
<1> QED
  BY <1>1, Invariant, PTL

\* The goroutine that is carrying out a request is the holder the abstract
\* lock sees.
HolderMeaning ==
    \A i \in Id :
      /\ \A p \in Proc : pc[p] = "do" /\ id[p] = i => Holder[i] = p
      /\ (\A p \in Proc : ~(pc[p] = "do" /\ id[p] = i)) => Holder[i] = Nil

LEMMA HolderIs == MutualExclusion => HolderMeaning
<1> SUFFICES ASSUME MutualExclusion, NEW i \in Id
             PROVE  /\ \A p \in Proc : pc[p] = "do" /\ id[p] = i => Holder[i] = p
                    /\ (\A p \in Proc : ~(pc[p] = "do" /\ id[p] = i))
                          => Holder[i] = Nil
  BY DEF HolderMeaning
<1>1. CASE \E q \in Proc : pc[q] = "do" /\ id[q] = i
  <2>1. PICK q \in Proc : pc[q] = "do" /\ id[q] = i
    BY <1>1
  <2>2. \A r \in Proc : pc[r] = "do" /\ id[r] = i => r = q
    BY <2>1 DEF MutualExclusion
  <2> DEFINE h == CHOOSE r \in Proc : pc[r] = "do" /\ id[r] = i
  <2>3. h \in Proc /\ pc[h] = "do" /\ id[h] = i
    BY <2>1
  <2>4. Holder[i] = h
    BY <1>1 DEF Holder
  <2> QED
    BY <2>1, <2>2, <2>3, <2>4
<1>2. CASE ~ \E q \in Proc : pc[q] = "do" /\ id[q] = i
  BY <1>2 DEF Holder
<1> QED
  BY <1>1, <1>2

\* Two functions on the containers that agree everywhere are equal.
LEMMA HolderFunction == Holder = [i \in Id |-> Holder[i]]
BY DEF Holder

LEMMA HolderStep ==
  ASSUME IInv, IInv', HolderMeaning, HolderMeaning', [Next]_vars
  PROVE  [Abstract!Next]_Holder
<1> DEFINE Does(q, j) == pc[q] = "do" /\ id[q] = j
<1>1. ASSUME \A q \in Proc, j \in Id : Does(q, j)' <=> Does(q, j)
      PROVE  Holder' = Holder
  <2>1. ASSUME NEW j \in Id PROVE Holder'[j] = Holder[j]
    <3>1. CASE \E q \in Proc : Does(q, j)
      BY SMTT(30), <1>1, <3>1 DEF HolderMeaning
    <3>2. CASE ~ \E q \in Proc : Does(q, j)
      BY <1>1, <3>2 DEF HolderMeaning
    <3> QED
      BY <3>1, <3>2
  <2>2. Holder' = [i \in Id |-> Holder'[i]]
    BY DEF Holder
  <2> QED
    BY <2>1, <2>2, HolderFunction
<1>2. CASE UNCHANGED vars
  BY <1>1, <1>2 DEF vars
<1>3. ASSUME NEW p \in Proc, NEW i \in Id, VMCProcess(p, i) PROVE Holder' = Holder
  BY <1>1, <1>3 DEF IInv, TypeOK, VMCProcess, Goto
<1>4. ASSUME NEW p \in Proc, GetVMNameFails(p) PROVE Holder' = Holder
  BY <1>1, <1>4 DEF IInv, TypeOK, GetVMNameFails, Goto
<1>5. ASSUME NEW p \in Proc, LockContainer(p) PROVE Holder' = Holder
  BY <1>1, <1>5 DEF IInv, TypeOK, LockContainer, Goto
<1>6. ASSUME NEW p \in Proc, Cancelled(p) PROVE Holder' = Holder
  BY <1>1, <1>6 DEF IInv, TypeOK, Cancelled
<1>7. ASSUME NEW p \in Proc, Returns(p) PROVE Holder' = Holder
  BY <1>1, <1>7 DEF IInv, TypeOK, Returns, Goto
<1>8. ASSUME NEW p \in Proc, GotLock(p) PROVE Abstract!Acquire(p, id[p])
  <2>1. /\ id[p] \in Id /\ pc[p] = "wait" /\ pc' = [pc EXCEPT ![p] = "do"]
        /\ id' = id
    BY <1>8 DEF IInv, TypeOK, GotLock, Goto
  <2>2. \A q \in Proc : ~Does(q, id[p])
    BY <2>1 DEF IInv, TypeOK, MutualExclusion
  <2>3. Holder[id[p]] = Nil
    BY <2>1, <2>2 DEF HolderMeaning
  <2>4. ASSUME NEW j \in Id PROVE Holder[j] # p
    <3>1. ~Does(p, j)
      BY <2>1
    <3>2. CASE \E q \in Proc : Does(q, j)
      BY <3>1, <3>2 DEF HolderMeaning
    <3>3. CASE ~ \E q \in Proc : Does(q, j)
      BY <3>3, LockAssumption DEF HolderMeaning
    <3> QED
      BY <3>2, <3>3
  <2>5. Holder'[id[p]] = p
    BY <2>1 DEF IInv, TypeOK, HolderMeaning
  <2>6. ASSUME NEW j \in Id, j # id[p] PROVE Holder'[j] = Holder[j]
    <3>1. \A q \in Proc : Does(q, j)' <=> Does(q, j)
      BY <2>1, <2>6 DEF IInv, TypeOK
    <3>2. CASE \E q \in Proc : Does(q, j)
      BY SMTT(30), <3>1, <3>2 DEF HolderMeaning
    <3>3. CASE ~ \E q \in Proc : Does(q, j)
      BY <3>1, <3>3 DEF HolderMeaning
    <3> QED
      BY <3>2, <3>3
  <2>7. Holder' = [j \in Id |-> Holder'[j]]
    BY DEF Holder
  <2>8. Holder' = [Holder EXCEPT ![id[p]] = p]
    BY <2>1, <2>5, <2>6, <2>7, HolderFunction
  <2> QED
    BY <2>3, <2>4, <2>8 DEF Abstract!Acquire
<1>9. ASSUME NEW p \in Proc, UnlockContainer(p) PROVE Abstract!Release(p, id[p])
  <2>1. /\ id[p] \in Id /\ pc[p] = "do" /\ pc' = [pc EXCEPT ![p] = "closed"]
        /\ id' = id
    BY <1>9 DEF IInv, TypeOK, UnlockContainer, Goto
  <2>2. Holder[id[p]] = p
    BY <2>1 DEF HolderMeaning
  <2>3. \A q \in Proc : ~Does(q, id[p])'
    BY <2>1 DEF IInv, TypeOK, MutualExclusion
  <2>4. Holder'[id[p]] = Nil
    BY <2>1, <2>3 DEF HolderMeaning
  <2>5. ASSUME NEW j \in Id, j # id[p] PROVE Holder'[j] = Holder[j]
    <3>1. \A q \in Proc : Does(q, j)' <=> Does(q, j)
      BY <2>1, <2>5 DEF IInv, TypeOK
    <3>2. CASE \E q \in Proc : Does(q, j)
      BY SMTT(30), <3>1, <3>2 DEF HolderMeaning
    <3>3. CASE ~ \E q \in Proc : Does(q, j)
      BY <3>1, <3>3 DEF HolderMeaning
    <3> QED
      BY <3>2, <3>3
  <2>6. Holder' = [j \in Id |-> Holder'[j]]
    BY DEF Holder
  <2>7. Holder' = [Holder EXCEPT ![id[p]] = Nil]
    BY <2>1, <2>4, <2>5, <2>6, HolderFunction
  <2> QED
    BY <2>2, <2>7 DEF Abstract!Release
<1>10. \A p \in Proc : id[p] \in Id
  BY DEF IInv, TypeOK
<1> QED
  BY <1>2, <1>1, <1>3, <1>4, <1>5, <1>6, <1>7, <1>8, <1>9, <1>10
     DEF Next, Abstract!Next, vars

\* The controller implements one lock per container.
THEOREM Refinement == Spec => ImplementsContainerLock
<1>1. Init => Abstract!Init
  BY DEF Init, Holder, Abstract!Init
<1>2. IInv => MutualExclusion
  BY DEF IInv
<1>3. IInv /\ IInv' /\ HolderMeaning /\ HolderMeaning' /\ [Next]_vars
        => [Abstract!Next]_Holder
  BY HolderStep
<1> QED
  BY <1>1, <1>2, <1>3, Invariant, HolderIs, PTL
     DEF Spec, ImplementsContainerLock, Abstract!Spec

-----------------------------------------------------------------------------
(***************************************************************************)
(* The requests under the locks (DockerVM).  The composed system is a      *)
(* controller, so everything above holds of it; and because no two         *)
(* requests work on one container, each one finds the container and the    *)
(* image as its own calls have left them.                                  *)
(***************************************************************************)

\* The calls a request may still have before it is answered: the rest of its
\* list, or of the list of a start that builds its image and tries again.
Remaining(r) ==
    CASE r.op = "create" -> {<<"build">>}
      [] r.op = "destroy" -> {<<"removeImage">>}
      [] r.op = "start" ->
           {<<"stop", "kill", "remove", "createContainer", "prelaunch", "start">>,
            <<"kill", "remove", "createContainer", "prelaunch", "start">>,
            <<"remove", "createContainer", "prelaunch", "start">>,
            <<"createContainer", "prelaunch", "start">>,
            <<"build", "createAgain", "prelaunch", "start">>,
            <<"createAgain", "prelaunch", "start">>,
            <<"prelaunch", "start">>, <<"start">>}
      [] r.op = "stop" ->
           IF r.dontkill
           THEN IF r.dontremove THEN {<<"stop">>}
                ELSE {<<"stop", "remove">>, <<"remove">>}
           ELSE IF r.dontremove THEN {<<"stop", "kill">>, <<"kill">>}
                ELSE {<<"stop", "kill", "remove">>, <<"kill", "remove">>, <<"remove">>}

\* The call whose success answers the request.
LastCall(r) ==
    CASE r.op = "create" -> {"build"}
      [] r.op = "destroy" -> {"removeImage"}
      [] r.op = "start" -> {"start"}
      [] r.op = "stop" -> IF r.dontremove THEN {"stop", "kill"} ELSE {"remove"}

CallNames == {"build", "removeImage", "stop", "kill", "remove", "createContainer",
              "createAgain", "prelaunch", "start"}

\* Short sequences joined.
LEMMA Joined11 ==
    ASSUME NEW a, NEW b
    PROVE  <<a>> \o <<b>> = <<a, b>>
<1> DEFINE S == {a, b}
           w == <<a>> \o <<b>>
<1>1. <<a>> \in Seq(S) /\ <<b>> \in Seq(S) /\ <<a, b>> \in Seq(S)
  BY SMTT(30)
<1>2. w \in Seq(S) /\ Len(w) = 2
  BY SMTT(30), <1>1, ConcatProperties
<1>3. w[1] = a /\ w[2] = b
  BY SMTT(30), <1>1, ConcatProperties
<1>4. \A k \in 1..2 : w[k] = <<a, b>>[k]
  <2>1. \A k \in 1..2 : k = 1 \/ k = 2
    BY SMTT(30)
  <2> HIDE DEF w
  <2> QED BY SMTT(30), <1>3, <2>1
<1> HIDE DEF w
<1>5. w = <<a, b>>
  BY <1>1, <1>2, <1>4, SeqEqual
<1> QED BY <1>5 DEF w
LEMMA Joined21 ==
    ASSUME NEW a, NEW b, NEW c
    PROVE  <<a, b>> \o <<c>> = <<a, b, c>>
<1> DEFINE S == {a, b, c}
           w == <<a, b>> \o <<c>>
<1>1. <<a, b>> \in Seq(S) /\ <<c>> \in Seq(S) /\ <<a, b, c>> \in Seq(S)
  BY SMTT(30)
<1>2. w \in Seq(S) /\ Len(w) = 3
  BY SMTT(30), <1>1, ConcatProperties
<1>3. w[1] = a /\ w[2] = b /\ w[3] = c
  BY SMTT(30), <1>1, ConcatProperties
<1>4. \A k \in 1..3 : w[k] = <<a, b, c>>[k]
  <2>1. \A k \in 1..3 : k = 1 \/ k = 2 \/ k = 3
    BY SMTT(30)
  <2> HIDE DEF w
  <2> QED BY SMTT(30), <1>3, <2>1
<1> HIDE DEF w
<1>5. w = <<a, b, c>>
  BY <1>1, <1>2, <1>4, SeqEqual
<1> QED BY <1>5 DEF w
LEMMA Joined22 ==
    ASSUME NEW a, NEW b, NEW c, NEW d
    PROVE  <<a, b>> \o <<c, d>> = <<a, b, c, d>>
<1> DEFINE S == {a, b, c, d}
           w == <<a, b>> \o <<c, d>>
<1>1. <<a, b>> \in Seq(S) /\ <<c, d>> \in Seq(S) /\ <<a, b, c, d>> \in Seq(S)
  BY SMTT(30)
<1>2. w \in Seq(S) /\ Len(w) = 4
  BY SMTT(30), <1>1, ConcatProperties
<1>3. w[1] = a /\ w[2] = b /\ w[3] = c /\ w[4] = d
  BY SMTT(30), <1>1, ConcatProperties
<1>4. \A k \in 1..4 : w[k] = <<a, b, c, d>>[k]
  <2>1. \A k \in 1..4 : k = 1 \/ k = 2 \/ k = 3 \/ k = 4
    BY SMTT(30)
  <2> HIDE DEF w
  <2> QED BY SMTT(30), <1>3, <2>1
<1> HIDE DEF w
<1>5. w = <<a, b, c, d>>
  BY <1>1, <1>2, <1>4, SeqEqual
<1> QED BY <1>5 DEF w
LEMMA Joined33 ==
    ASSUME NEW a, NEW b, NEW c, NEW d, NEW e, NEW f
    PROVE  <<a, b, c>> \o <<d, e, f>> = <<a, b, c, d, e, f>>
<1> DEFINE S == {a, b, c, d, e, f}
           w == <<a, b, c>> \o <<d, e, f>>
<1>1. <<a, b, c>> \in Seq(S) /\ <<d, e, f>> \in Seq(S) /\ <<a, b, c, d, e, f>> \in Seq(S)
  BY SMTT(30)
<1>2. w \in Seq(S) /\ Len(w) = 6
  BY SMTT(30), <1>1, ConcatProperties
<1>3. w[1] = a /\ w[2] = b /\ w[3] = c /\ w[4] = d /\ w[5] = e /\ w[6] = f
  BY SMTT(30), <1>1, ConcatProperties
<1>4. \A k \in 1..6 : w[k] = <<a, b, c, d, e, f>>[k]
  <2>1. \A k \in 1..6 : k = 1 \/ k = 2 \/ k = 3 \/ k = 4 \/ k = 5 \/ k = 6
    BY SMTT(30)
  <2> HIDE DEF w
  <2> QED BY SMTT(30), <1>3, <2>1
<1> HIDE DEF w
<1>5. w = <<a, b, c, d, e, f>>
  BY <1>1, <1>2, <1>4, SeqEqual
<1> QED BY <1>5 DEF w

LEMMA RequestKinds ==
    ASSUME NEW r \in Requests
    PROVE  \/ r.op \in {"create", "destroy", "start"}
           \/ r.op = "stop" /\ r.dontkill \in BOOLEAN /\ r.dontremove \in BOOLEAN
<1>1. CASE r \in [op : {"create", "destroy"}]
  BY <1>1
<1>2. CASE r \in [op : {"start"}, builder : BOOLEAN]
  BY <1>2
<1>3. CASE r \in [op : {"stop"}, dontkill : BOOLEAN, dontremove : BOOLEAN]
  BY <1>3
<1> QED BY <1>1, <1>2, <1>3 DEF Requests

LEMMA StopCalls ==
    /\ stopInternal(TRUE, TRUE) = <<"stop">>
    /\ stopInternal(TRUE, FALSE) = <<"stop", "remove">>
    /\ stopInternal(FALSE, TRUE) = <<"stop", "kill">>
    /\ stopInternal(FALSE, FALSE) = <<"stop", "kill", "remove">>
<1>1. stopInternal(TRUE, TRUE) = <<"stop">>
  BY SMTT(30) DEF stopInternal
<1>2. stopInternal(TRUE, FALSE) = <<"stop", "remove">>
  <2>1. <<"stop">> \o <<>> = <<"stop">>  BY SMTT(30)
  <2> QED BY <2>1, Joined11 DEF stopInternal
<1>3. stopInternal(FALSE, TRUE) = <<"stop", "kill">>
  <2>1. <<"stop", "kill">> \o <<>> = <<"stop", "kill">>  BY SMTT(30)
  <2> QED BY <2>1, Joined11 DEF stopInternal
<1>4. stopInternal(FALSE, FALSE) = <<"stop", "kill", "remove">>
  BY Joined11, Joined21 DEF stopInternal
<1> QED BY <1>1, <1>2, <1>3, <1>4

\* Where a request's calls begin, before anything is launched ...
LEMMA CallsRemain ==
    ASSUME NEW r \in Requests
    PROVE  Calls(r) \in Remaining(r) /\ Head(Calls(r)) \notin {"prelaunch", "start"}
<1>1. CASE r.op = "create"
  BY SMTT(30), <1>1 DEF Calls, Remaining, Deploy
<1>2. CASE r.op = "destroy"
  BY SMTT(30), <1>2 DEF Calls, Remaining, Destroy
<1>3. CASE r.op = "start"
  <2>1. Start = <<"stop", "kill", "remove", "createContainer", "prelaunch", "start">>
    <3>1. Start = <<"stop", "kill", "remove">> \o <<"createContainer", "prelaunch", "start">>
      BY StopCalls DEF Start
    <3> HIDE DEF Start
    <3> QED BY SMTT(30), <3>1, Joined33
  <2> QED BY SMTT(30), <1>3, <2>1 DEF Calls, Remaining
<1>4. CASE r.op = "stop"
  <2>1. Calls(r) = stopInternal(r.dontkill, r.dontremove)
    BY <1>4 DEF Calls, Stop
  <2>2. r.dontkill \in BOOLEAN /\ r.dontremove \in BOOLEAN
    BY <1>4, RequestKinds
  <2>3. CASE r.dontkill = TRUE /\ r.dontremove = TRUE
    <3>1. Calls(r) = <<"stop">>  BY <2>1, <2>3, StopCalls
    <3> QED BY SMTT(30), <1>4, <2>3, <3>1 DEF Remaining
  <2>4. CASE r.dontkill = TRUE /\ r.dontremove = FALSE
    <3>1. Calls(r) = <<"stop", "remove">>  BY <2>1, <2>4, StopCalls
    <3> QED BY SMTT(30), <1>4, <2>4, <3>1 DEF Remaining
  <2>5. CASE r.dontkill = FALSE /\ r.dontremove = TRUE
    <3>1. Calls(r) = <<"stop", "kill">>  BY <2>1, <2>5, StopCalls
    <3> QED BY SMTT(30), <1>4, <2>5, <3>1 DEF Remaining
  <2>6. CASE r.dontkill = FALSE /\ r.dontremove = FALSE
    <3>1. Calls(r) = <<"stop", "kill", "remove">>  BY <2>1, <2>6, StopCalls
    <3> QED BY SMTT(30), <1>4, <2>6, <3>1 DEF Remaining
  <2> QED BY <2>2, <2>3, <2>4, <2>5, <2>6
<1> QED BY <1>1, <1>2, <1>3, <1>4, RequestKinds

\* ... and where each of them leads: only a created container is launched,
\* and only the last call answers.
LEMMA CallsGoOn ==
    ASSUME NEW r \in Requests, NEW t \in Remaining(r)
    PROVE  /\ t # <<>> /\ Head(t) \in CallNames
           /\ Tail(t) = <<>> => Head(t) \in LastCall(r)
           /\ Tail(t) # <<>> =>
                /\ Tail(t) \in Remaining(r)
                /\ Head(t) \in {"stop", "kill", "remove"} =>
                      Head(Tail(t)) \notin {"prelaunch", "start"}
                /\ Head(Tail(t)) = "prelaunch" => Head(t) \in {"createContainer", "createAgain"}
                /\ Head(Tail(t)) = "start" => Head(t) = "prelaunch"
           /\ Head(t) = "createContainer" =>
                /\ <<"build", "createAgain">> \o Tail(t) \in Remaining(r)
                /\ <<"build", "createAgain">> \o Tail(t) # <<>>
                /\ Head(<<"build", "createAgain">> \o Tail(t)) = "build"
<1>1. CASE r.op = "create"
  <2>1. t = <<"build">>  BY <1>1 DEF Remaining
  <2> QED BY SMTT(30), <1>1, <2>1 DEF LastCall, CallNames
<1>2. CASE r.op = "destroy"
  <2>1. t = <<"removeImage">>  BY <1>2 DEF Remaining
  <2> QED BY SMTT(30), <1>2, <2>1 DEF LastCall, CallNames
<1>3. CASE r.op = "start"
  <2>1. CASE t = <<"createContainer", "prelaunch", "start">>
    <3>1. <<"build", "createAgain">> \o Tail(t)
             = <<"build", "createAgain", "prelaunch", "start">>
      <4>1. Tail(t) = <<"prelaunch", "start">>  BY SMTT(30), <2>1
      <4> QED BY <4>1, Joined22
    <3> QED BY SMTT(30), <1>3, <2>1, <3>1 DEF Remaining, LastCall, CallNames
  <2>2. CASE t = <<"stop", "kill", "remove", "createContainer", "prelaunch", "start">>
    BY SMTT(30), <1>3, <2>2 DEF Remaining, LastCall, CallNames
  <2>3. CASE t = <<"kill", "remove", "createContainer", "prelaunch", "start">>
    BY SMTT(30), <1>3, <2>3 DEF Remaining, LastCall, CallNames
  <2>4. CASE t = <<"remove", "createContainer", "prelaunch", "start">>
    BY SMTT(30), <1>3, <2>4 DEF Remaining, LastCall, CallNames
  <2>5. CASE t = <<"build", "createAgain", "prelaunch", "start">>
    BY SMTT(30), <1>3, <2>5 DEF Remaining, LastCall, CallNames
  <2>6. CASE t = <<"createAgain", "prelaunch", "start">>
    BY SMTT(30), <1>3, <2>6 DEF Remaining, LastCall, CallNames
  <2>7. CASE t = <<"prelaunch", "start">>
    BY SMTT(30), <1>3, <2>7 DEF Remaining, LastCall, CallNames
  <2>8. CASE t = <<"start">>
    BY SMTT(30), <1>3, <2>8 DEF Remaining, LastCall, CallNames
  <2> QED BY <1>3, <2>1, <2>2, <2>3, <2>4, <2>5, <2>6, <2>7, <2>8 DEF Remaining
<1>4. CASE r.op = "stop"
  <2>1. r.dontkill \in BOOLEAN /\ r.dontremove \in BOOLEAN
    BY <1>4, RequestKinds
  <2>2. CASE r.dontkill = TRUE /\ r.dontremove = TRUE
    BY SMTT(30), <1>4, <2>2 DEF Remaining, LastCall, CallNames
  <2>3. CASE r.dontkill = TRUE /\ r.dontremove = FALSE
    <3>1. CASE t = <<"stop", "remove">>
      BY SMTT(30), <1>4, <2>3, <3>1 DEF Remaining, LastCall, CallNames
    <3>2. CASE t = <<"remove">>
      BY SMTT(30), <1>4, <2>3, <3>2 DEF Remaining, LastCall, CallNames
    <3> QED BY <1>4, <2>3, <3>1, <3>2 DEF Remaining
  <2>4. CASE r.dontkill = FALSE /\ r.dontremove = TRUE
    <3>1. CASE t = <<"stop", "kill">>
      BY SMTT(30), <1>4, <2>4, <3>1 DEF Remaining, LastCall, CallNames
    <3>2. CASE t = <<"kill">>
      BY SMTT(30), <1>4, <2>4, <3>2 DEF Remaining, LastCall, CallNames
    <3> QED BY <1>4, <2>4, <3>1, <3>2 DEF Remaining
  <2>5. CASE r.dontkill = FALSE /\ r.dontremove = FALSE
    <3>1. CASE t = <<"stop", "kill", "remove">>
      BY SMTT(30), <1>4, <2>5, <3>1 DEF Remaining, LastCall, CallNames
    <3>2. CASE t = <<"kill", "remove">>
      BY SMTT(30), <1>4, <2>5, <3>2 DEF Remaining, LastCall, CallNames
    <3>3. CASE t = <<"remove">>
      BY SMTT(30), <1>4, <2>5, <3>3 DEF Remaining, LastCall, CallNames
    <3> QED BY <1>4, <2>5, <3>1, <3>2, <3>3 DEF Remaining
  <2> QED BY <2>1, <2>2, <2>3, <2>4, <2>5
<1> QED BY <1>1, <1>2, <1>3, <1>4, RequestKinds

Lists == {<<>>} \cup UNION {Remaining(r) : r \in Requests}

\* What a request that has answered without an error leaves.
Carried(r, img, cont) ==
    CASE r.op = "create" -> img
      [] r.op = "destroy" -> ~img
      [] r.op = "start" -> cont \in {"running", "exited"}
      [] r.op = "stop" -> cont = IF r.dontremove THEN "exited" ELSE "none"

\* A goroutine under its lock is in the middle of its calls, with the
\* container created if it launches next, or it has answered; any other
\* goroutine has nothing to do.
InHand(p) ==
    IF pc[p] = "do"
    THEN /\ req[p] \in Requests
         /\ resp[p] = "none" =>
               /\ todo[p] \in Remaining(req[p])
               /\ Head(todo[p]) \in {"prelaunch", "start"} => container[id[p]] = "created"
         /\ resp[p] # "none" => todo[p] = <<>>
         /\ resp[p] = "ok" => Carried(req[p], image[id[p]], container[id[p]])
    ELSE todo[p] = <<>> /\ resp[p] = "none"

DInv ==
    /\ IInv
    /\ image \in [Id -> BOOLEAN]
    /\ container \in [Id -> {"none", "created", "running", "exited"}]
    /\ req \in [Proc -> Requests \cup {NoRequest}]
    /\ todo \in [Proc -> Lists]
    /\ resp \in [Proc -> {"none", "ok", "error"}]
    /\ \A p \in Proc : InHand(p)

\* Every step of the composed system is one of the controller's, or none.
LEMMA DockerSteps == [DNext]_allvars => [Next]_vars
<1> SUFFICES ASSUME [DNext]_allvars PROVE [Next]_vars
  OBVIOUS
<1>1. CASE Control  BY <1>1 DEF Control, Next
<1>2. ASSUME NEW p \in Proc, NEW r \in Requests, Begin(p, r) PROVE Next
  BY <1>2 DEF Begin, Next
<1>3. ASSUME NEW p \in Proc, Finish(p) PROVE Next
  BY <1>3 DEF Finish, Next
<1>4. ASSUME NEW p \in Proc, CallSucceeds(p) \/ CallFails(p) PROVE UNCHANGED vars
  BY <1>4 DEF CallSucceeds, CallFails
<1>5. ASSUME NEW i \in Id, Exits(i) PROVE UNCHANGED vars
  BY <1>5 DEF Exits
<1>6. CASE UNCHANGED allvars  BY <1>6 DEF allvars
<1> QED BY <1>1, <1>2, <1>3, <1>4, <1>5, <1>6 DEF DNext

LEMMA DInitDInv == DInit => DInv
<1> SUFFICES ASSUME DInit PROVE DInv
  OBVIOUS
<1>1. IInv  BY InitIInv DEF DInit
<1>2. \A p \in Proc : InHand(p)
  BY DEF DInit, Init, InHand
<1> QED BY <1>1, <1>2 DEF DInit, DInv, Lists

\* A step that leaves the daemon, the answers and those under a lock alone.
LEMMA ControlStep ==
    ASSUME DInv, IInv', Control
    PROVE  DInv'
<1>1. \A q \in Proc : (pc'[q] = "do" <=> pc[q] = "do") /\ (pc[q] = "do" => id'[q] = id[q])
  <2>1. PICK p \in Proc : \/ \E i \in Id : VMCProcess(p, i)
                          \/ GetVMNameFails(p) \/ LockContainer(p)
                          \/ Cancelled(p) \/ Returns(p)
    BY DEF Control
  <2>2. pc \in [Proc -> {"none", "name", "wait", "do", "closed"}] /\ id \in [Proc -> Id]
    BY DEF DInv, IInv, TypeOK
  <2>3. ASSUME NEW i \in Id, VMCProcess(p, i)
        PROVE  \A q \in Proc : (pc'[q] = "do" <=> pc[q] = "do") /\ (pc[q] = "do" => id'[q] = id[q])
    BY <2>2, <2>3 DEF VMCProcess, Goto
  <2>4. CASE GetVMNameFails(p)  BY <2>2, <2>4 DEF GetVMNameFails, Goto
  <2>5. CASE LockContainer(p)  BY <2>2, <2>5 DEF LockContainer, Goto
  <2>6. CASE Cancelled(p)  BY <2>2, <2>6 DEF Cancelled
  <2>7. CASE Returns(p)  BY <2>2, <2>7 DEF Returns, Goto
  <2> QED BY <2>1, <2>3, <2>4, <2>5, <2>6, <2>7
<1>2. UNCHANGED <<req, todo, resp, image, container>>
  BY DEF Control, daemon
<1>3. \A q \in Proc : InHand(q)'
  BY <1>1, <1>2 DEF DInv, InHand
<1> QED BY <1>2, <1>3 DEF DInv

LEMMA BeginStep ==
    ASSUME DInv, IInv', NEW p \in Proc, NEW r \in Requests, Begin(p, r)
    PROVE  DInv'
<1>1. /\ pc \in [Proc -> {"none", "name", "wait", "do", "closed"}]
      /\ pc[p] = "wait" /\ pc' = [pc EXCEPT ![p] = "do"] /\ id' = id
  BY DEF DInv, IInv, TypeOK, Begin, GotLock, Goto
<1>2. /\ req' = [req EXCEPT ![p] = r] /\ todo' = [todo EXCEPT ![p] = Calls(r)]
      /\ UNCHANGED <<resp, image, container>>
  BY DEF Begin, daemon
<1>3. Calls(r) \in Remaining(r) /\ Head(Calls(r)) \notin {"prelaunch", "start"}
  BY CallsRemain
<1>4. resp[p] = "none"
  BY <1>1 DEF DInv, InHand
<1>5. InHand(p)'
  BY <1>1, <1>2, <1>3, <1>4 DEF DInv, InHand
<1>6. ASSUME NEW q \in Proc, q # p PROVE InHand(q)'
  BY <1>1, <1>2, <1>6 DEF DInv, InHand
<1>7. Calls(r) \in Lists
  BY <1>3 DEF Lists
<1> QED BY <1>2, <1>5, <1>6, <1>7 DEF DInv

LEMMA FinishStep ==
    ASSUME DInv, IInv', NEW p \in Proc, Finish(p)
    PROVE  DInv'
<1>1. /\ pc \in [Proc -> {"none", "name", "wait", "do", "closed"}]
      /\ pc[p] = "do" /\ pc' = [pc EXCEPT ![p] = "closed"] /\ id' = id
  BY DEF DInv, IInv, TypeOK, Finish, UnlockContainer, Goto
<1>2. /\ resp[p] # "none" /\ resp' = [resp EXCEPT ![p] = "none"]
      /\ req' = [req EXCEPT ![p] = NoRequest]
      /\ UNCHANGED <<todo, image, container>>
  BY DEF Finish, Answered, daemon
<1>3. InHand(p)'
  BY <1>1, <1>2 DEF DInv, InHand
<1>4. ASSUME NEW q \in Proc, q # p PROVE InHand(q)'
  BY <1>1, <1>2, <1>4 DEF DInv, InHand
<1> QED BY <1>2, <1>3, <1>4 DEF DInv

LEMMA CallSucceedsStep ==
    ASSUME DInv, IInv', NEW p \in Proc, CallSucceeds(p)
    PROVE  DInv'
<1> DEFINE i == id[p]
           t == todo[p]
           r == req[p]
           call == CallOf(Head(t))
<1>1. UNCHANGED <<pc, id>> /\ req' = req
  BY DEF CallSucceeds, vars
<1>2. /\ pc[p] = "do" /\ t # <<>> /\ i \in Id
      /\ Possible(call, i) /\ Effect(call, i) /\ Continue(p, Tail(t), "ok")
  BY DEF CallSucceeds, Step, DInv, IInv, TypeOK
<1>3. resp[p] = "none" /\ r \in Requests /\ t \in Remaining(r)
  BY <1>2 DEF DInv, InHand
<1>4. /\ todo' = [todo EXCEPT ![p] = Tail(t)]
      /\ resp' = [resp EXCEPT ![p] = IF Tail(t) = <<>> THEN "ok" ELSE @]
  BY <1>2 DEF Continue
<1>5. /\ image' \in [Id -> BOOLEAN]
      /\ container' \in [Id -> {"none", "created", "running", "exited"}]
      /\ \A j \in Id : j # i => image'[j] = image[j] /\ container'[j] = container[j]
  BY <1>2 DEF Effect, DInv
<1>6. ASSUME NEW q \in Proc, q # p PROVE InHand(q)'
  <2>1. pc[q] = "do" => id[q] # i /\ id[q] \in Id
    BY <1>2, <1>6 DEF DInv, IInv, MutualExclusion, TypeOK
  <2>2. UNCHANGED <<todo[q], resp[q]>>
    BY <1>4, <1>6 DEF DInv
  <2> QED BY <1>1, <1>5, <2>1, <2>2 DEF DInv, InHand
<1>7. InHand(p)'
  <2>0. image \in [Id -> BOOLEAN] /\ todo \in [Proc -> Lists]
        /\ resp \in [Proc -> {"none", "ok", "error"}]
        /\ container \in [Id -> {"none", "created", "running", "exited"}]
    BY DEF DInv
  <2>1. todo'[p] = Tail(t) /\ resp'[p] = IF Tail(t) = <<>> THEN "ok" ELSE "none"
    BY <1>3, <1>4, <2>0
  <2>2. /\ Head(t) \in CallNames
        /\ Tail(t) = <<>> => Head(t) \in LastCall(r)
        /\ Tail(t) # <<>> =>
             /\ Tail(t) \in Remaining(r)
             /\ Head(Tail(t)) = "prelaunch" => Head(t) \in {"createContainer", "createAgain"}
             /\ Head(Tail(t)) = "start" => Head(t) = "prelaunch"
    BY <1>3, CallsGoOn
  <2>3. CASE Tail(t) = <<>>
    <3>1. Carried(r, image'[i], container'[i])
      <4>1. CASE r.op = "create"
        BY <1>2, <2>0, <2>2, <2>3, <4>1 DEF Carried, LastCall, Effect, CallOf
      <4>2. CASE r.op = "destroy"
        BY <1>2, <2>0, <2>2, <2>3, <4>2 DEF Carried, LastCall, Effect, CallOf
      <4>3. CASE r.op = "start"
        BY <1>2, <2>0, <2>2, <2>3, <4>3 DEF Carried, LastCall, Effect, CallOf
      <4>4. CASE r.op = "stop"
        BY <1>2, <2>0, <2>2, <2>3, <4>4 DEF Carried, LastCall, Effect, CallOf
      <4> QED BY <1>3, <4>1, <4>2, <4>3, <4>4, RequestKinds
    <3> QED BY <1>1, <1>2, <1>3, <2>1, <2>3, <3>1 DEF InHand
  <2>4. CASE Tail(t) # <<>>
    <3>1. Head(Tail(t)) = "prelaunch" => container'[i] = "created"
      BY <1>2, <2>0, <2>2, <2>4 DEF Effect, CallOf
    <3>2. Head(Tail(t)) = "start" => container'[i] = "created"
      <4>1. SUFFICES ASSUME Head(Tail(t)) = "start" PROVE container'[i] = "created"
        OBVIOUS
      <4>2. Head(t) = "prelaunch"  BY <2>2, <2>4, <4>1
      <4>3. container[i] = "created"
        BY <1>2, <1>3, <4>2 DEF DInv, InHand
      <4> QED BY <1>2, <2>0, <4>2, <4>3 DEF Effect, CallOf
    <3> QED BY <1>1, <1>2, <1>3, <2>1, <2>2, <2>4, <3>1, <3>2 DEF InHand
  <2> QED BY <2>3, <2>4
<1>8. Tail(t) \in Lists
  <2>1. Tail(t) # <<>> => Tail(t) \in Remaining(r)
    BY <1>3, CallsGoOn
  <2> QED BY <1>3, <2>1 DEF Lists
<1> QED BY <1>1, <1>4, <1>5, <1>6, <1>7, <1>8 DEF DInv

LEMMA CallFailsStep ==
    ASSUME DInv, IInv', NEW p \in Proc, CallFails(p)
    PROVE  DInv'
<1> DEFINE i == id[p]
           t == todo[p]
           r == req[p]
<1>1. UNCHANGED <<pc, id, image, container, req>>
  BY DEF CallFails, vars, daemon
<1>2. pc[p] = "do" /\ t # <<>>
  BY DEF CallFails, Step
<1>3. resp[p] = "none" /\ r \in Requests /\ t \in Remaining(r)
  BY <1>2 DEF DInv, InHand
<1>4. PICK left \in AfterFailure(p) :
         /\ todo' = [todo EXCEPT ![p] = left]
         /\ resp' = [resp EXCEPT ![p] = IF left = <<>> THEN "error" ELSE @]
  BY DEF CallFails, Continue
<1>5. left # <<>> =>
         left \in Remaining(r) /\ Head(left) \notin {"prelaunch", "start"}
  <2>1. \/ left = <<>>
        \/ Head(t) \in {"stop", "kill", "remove"} /\ left = Tail(t)
        \/ Head(t) = "createContainer" /\ left = <<"build", "createAgain">> \o Tail(t)
    BY <1>4 DEF AfterFailure
  <2> QED BY <1>3, <2>1, CallsGoOn
<1>6. ASSUME NEW q \in Proc, q # p PROVE InHand(q)'
  <2>1. UNCHANGED <<todo[q], resp[q]>>
    BY <1>4, <1>6 DEF DInv
  <2> QED BY <1>1, <2>1 DEF DInv, InHand
<1>7. InHand(p)'
  <2>1. todo'[p] = left /\ resp'[p] = IF left = <<>> THEN "error" ELSE "none"
    BY <1>3, <1>4 DEF DInv
  <2>2. pc'[p] = "do" /\ req'[p] = r
    BY <1>1, <1>2
  <2>3. CASE left = <<>>
    BY <1>3, <2>1, <2>2, <2>3 DEF InHand
  <2>4. CASE left # <<>>
    <3>1. resp'[p] = "none"
      BY <2>1, <2>4
    <3> QED BY <1>3, <1>5, <2>1, <2>2, <2>4, <3>1 DEF InHand
  <2> QED BY <2>3, <2>4
<1>8. left \in Lists
  BY <1>3, <1>5 DEF Lists
<1> QED BY <1>1, <1>4, <1>6, <1>7, <1>8 DEF DInv

LEMMA ExitsStep ==
    ASSUME DInv, IInv', NEW i \in Id, Exits(i)
    PROVE  DInv'
<1>1. /\ UNCHANGED <<pc, id, req, todo, resp, image>>
      /\ container[i] = "running" /\ container' = [container EXCEPT ![i] = "exited"]
  BY DEF Exits, vars
<1>2. ASSUME NEW q \in Proc PROVE InHand(q)'
  <2>1. CASE id[q] # i
    <3>0. id[q] \in Id
      BY DEF DInv, IInv, TypeOK
    <3>1. InHand(q) /\ container'[id[q]] = container[id[q]]
      BY <1>1, <2>1, <3>0 DEF DInv
    <3> QED BY <1>1, <3>1 DEF InHand
  <2>2. CASE id[q] = i
    <3>1. req[q] \in Requests => (Carried(req[q], image[i], "running")
                                    => Carried(req[q], image[i], "exited"))
      BY RequestKinds DEF Carried
    <3>2. InHand(q) /\ container'[i] = "exited"
      BY <1>1 DEF DInv
    <3> QED BY <1>1, <2>2, <3>1, <3>2 DEF InHand
  <2> QED BY <2>1, <2>2
<1> QED BY <1>1, <1>2 DEF DInv

LEMMA DockerInvariant == DSpec => []DInv
<1>1. DInv /\ [DNext]_allvars => DInv'
  <2> SUFFICES ASSUME DInv, [DNext]_allvars PROVE DInv'
    OBVIOUS
  <2>1. IInv'
    BY DockerSteps, NextIInv DEF DInv
  <2>2. CASE UNCHANGED allvars
    <3>1. UNCHANGED <<pc, id, req, todo, resp, image, container>>
      BY <2>2 DEF allvars, vars, daemon
    <3> QED BY <2>1, <3>1 DEF DInv, InHand
  <2> QED BY <2>1, <2>2, ControlStep, BeginStep, FinishStep, CallSucceedsStep,
             CallFailsStep, ExitsStep DEF DNext
<1> QED BY <1>1, DInitDInv, PTL DEF DSpec

\* The requests keep to the controller's locks: with everything they do under
\* them, the system still is a controller.
LEMMA DockerIsController == DSpec => Spec
<1>1. DInit => Init  BY DEF DInit
<1> QED BY <1>1, DockerSteps, PTL DEF DSpec, Spec

\* A start finds the container it created as it left it, and a request that
\* answers no error has brought about what it was asked for, for any number
\* of requests, containers and failing daemon calls.
THEOREM RequestsCarriedOut == DSpec => []RequestsUndisturbed
<1>1. ASSUME DInv PROVE RequestsUndisturbed
  <2> SUFFICES ASSUME NEW p \in Proc, pc[p] = "do"
               PROVE  /\ todo[p] # <<>> /\ Head(todo[p]) \in {"prelaunch", "start"} =>
                            container[id[p]] = "created"
                      /\ resp[p] = "ok" => Carried(req[p], image[id[p]], container[id[p]])
    BY DEF RequestsUndisturbed, Carried
  <2> QED BY <1>1 DEF DInv, InHand
<1> QED BY <1>1, DockerInvariant, PTL

\* The counts of the locks stay exact whatever the requests do under them:
\* none of dockercontroller's error paths leaves a lock behind.
THEOREM DockerCountsExact == DSpec => []RefCountExact
  BY DockerIsController, CountsExact, PTL

\* Controller and requests together implement one lock per container.
THEOREM DockerRefinement == DSpec => ImplementsContainerLock
  BY DockerIsController, Refinement, PTL

=============================================================================
