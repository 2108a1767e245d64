--------------------------- MODULE StateDBProofs ---------------------------
(***************************************************************************)
(* Proofs about the state database and the execution of transactions on    *)
(* it: their types, that they implement the plain ledger, so that no       *)
(* change is lost between an object and the trie, and that the accounts    *)
(* and the spaces of the committed state list the same bindings.           *)
(***************************************************************************)
EXTENDS Execution, TLAPS

\* The leaves with arithmetic or updated records cite SMT; Zenon is faster on the rest.
USE ZenonT(40)

\* A StateDB: its maps, the dirty sets and the objects without callback.
States ==
    [acc : [Address -> Account \cup {None}], spc : [SpaceId -> Space \cup {None}],
     accDirty : SUBSET Address, spcDirty : SUBSET SpaceId,
     accMarked : SUBSET Address, spcMarked : SUBSET SpaceId]

\* An account object that is not dirty is what the trie has, or new and empty.
CleanAccount(s, a) ==
    s.acc[a] # None /\ a \notin s.accDirty =>
      s.acc[a] = trieAccount[a]
      \/ (trieAccount[a] = None /\ EmptyAccount(s.acc[a]))

CleanSpace(s, i) ==
    s.spc[i] # None /\ i \notin s.spcDirty =>
      s.spc[i] = trieSpace[i]
      \/ (trieSpace[i] = None /\ EmptySpace(s.spc[i]))

\* An object that has used its callback is dirty, and a dirty one exists.
Good(s) ==
    /\ s \in States
    /\ s.accMarked \subseteq s.accDirty /\ s.spcMarked \subseteq s.spcDirty
    /\ \A a \in s.accDirty : s.acc[a] # None
    /\ \A i \in s.spcDirty : s.spc[i] # None
    /\ \A a \in Address : CleanAccount(s, a)
    /\ \A i \in SpaceId : CleanSpace(s, i)

TriesOK ==
    /\ trieAccount \in [Address -> Account \cup {None}]
    /\ trieSpace \in [SpaceId -> Space \cup {None}]

\* The tries hold no empty entry.
NoEmptyEntry ==
    /\ \A a \in Address : trieAccount[a] # None => ~EmptyAccount(trieAccount[a])
    /\ \A i \in SpaceId : trieSpace[i] # None => ~EmptySpace(trieSpace[i])

IInv == /\ TriesOK /\ NoEmptyEntry /\ Good(st)
        /\ panicked \in BOOLEAN /\ ops \in Nat /\ blocks \in Nat

LEMMA NoneApart == None \notin Account /\ None \notin Space
BY StateAssumption

LEMMA NewAccountType ==
  ASSUME NEW w \in Nat
  PROVE  NewAccount(w) \in Account /\ EmptyAccount(NewAccount(w))
BY StateAssumption, SMTT(30) DEF NewAccount, Account, EmptyAccount

LEMMA NewSpaceType == NewSpace \in Space /\ EmptySpace(NewSpace)
BY SMTT(30) DEF NewSpace, Space, EmptySpace

-----------------------------------------------------------------------------
(* The objects.                                                            *)

LEMMA GetAccountGood ==
  ASSUME TriesOK, NEW s, Good(s), NEW a \in Address
  PROVE  LET t == GetAccountObject(s, a)
         IN  /\ Good(t) /\ t.spc = s.spc
             /\ t.acc[a] = None => trieAccount[a] = None
             /\ \A b \in Address : s.acc[b] # None => t.acc[b] = s.acc[b]
<1> DEFINE t == GetAccountObject(s, a)
<1>1. CASE s.acc[a] # None
  BY <1>1 DEF GetAccountObject
<1>2. CASE s.acc[a] = None
  <2>1. t = [s EXCEPT !.acc = [s.acc EXCEPT ![a] = trieAccount[a]]]
    BY <1>2 DEF GetAccountObject
  <2>2. /\ t \in States /\ t.spc = s.spc /\ t.accDirty = s.accDirty
        /\ t.spcDirty = s.spcDirty /\ t.accMarked = s.accMarked
        /\ t.spcMarked = s.spcMarked
        /\ t.acc = [s.acc EXCEPT ![a] = trieAccount[a]]
    BY <2>1, SMTT(30) DEF Good, States, TriesOK
  <2>3. t.acc[a] = trieAccount[a] /\ \A b \in Address \ {a} : t.acc[b] = s.acc[b]
    BY <2>2 DEF Good, States
  <2>4. \A b \in Address : CleanAccount(t, b)
    BY <2>2, <2>3 DEF Good, CleanAccount
  <2>5. \A i \in SpaceId : CleanSpace(t, i)
    BY <2>2 DEF Good, CleanSpace
  <2>6. \A b \in t.accDirty : t.acc[b] # None
    BY <1>2, <2>2, <2>3 DEF Good, States
  <2>7. Good(t)
    BY <2>2, <2>4, <2>5, <2>6 DEF Good
  <2> QED
    BY <1>2, <2>2, <2>3, <2>7
<1> QED
  BY <1>1, <1>2

LEMMA GetSpaceGood ==
  ASSUME TriesOK, NEW s, Good(s), NEW i \in SpaceId
  PROVE  LET t == GetSpaceObject(s, i)
         IN  /\ Good(t) /\ t.acc = s.acc
             /\ t.spc[i] = None => trieSpace[i] = None
             /\ \A j \in SpaceId : s.spc[j] # None => t.spc[j] = s.spc[j]
<1> DEFINE t == GetSpaceObject(s, i)
<1>1. CASE s.spc[i] # None
  BY <1>1 DEF GetSpaceObject
<1>2. CASE s.spc[i] = None
  <2>1. t = [s EXCEPT !.spc = [s.spc EXCEPT ![i] = trieSpace[i]]]
    BY <1>2 DEF GetSpaceObject
  <2>2. /\ t \in States /\ t.acc = s.acc /\ t.accDirty = s.accDirty
        /\ t.spcDirty = s.spcDirty /\ t.accMarked = s.accMarked
        /\ t.spcMarked = s.spcMarked
        /\ t.spc = [s.spc EXCEPT ![i] = trieSpace[i]]
    BY <2>1, SMTT(30) DEF Good, States, TriesOK
  <2>3. t.spc[i] = trieSpace[i] /\ \A j \in SpaceId \ {i} : t.spc[j] = s.spc[j]
    BY <2>2 DEF Good, States
  <2>4. \A j \in SpaceId : CleanSpace(t, j)
    BY <2>2, <2>3 DEF Good, CleanSpace
  <2>5. \A a \in Address : CleanAccount(t, a)
    BY <2>2 DEF Good, CleanAccount
  <2>6. \A j \in t.spcDirty : t.spc[j] # None
    BY <1>2, <2>2, <2>3 DEF Good, States
  <2>7. Good(t)
    BY <2>2, <2>4, <2>5, <2>6 DEF Good
  <2> QED
    BY <1>2, <2>2, <2>3, <2>7
<1> QED
  BY <1>1, <1>2

LEMMA SetAccountGood ==
  ASSUME TriesOK, NEW s, Good(s), NEW a \in Address, NEW o \in Account
  PROVE  LET t == SetAccount(s, a, o)
         IN  Good(t) /\ t.spc = s.spc /\ t.acc = [s.acc EXCEPT ![a] = o]
<1> DEFINE t == SetAccount(s, a, o)
<1>1. MarkAccountObjectsDirty(s, a) = s.accDirty \cup {a}
  BY DEF MarkAccountObjectsDirty, Good
<1>2. /\ t \in States /\ t.spc = s.spc /\ t.spcDirty = s.spcDirty
      /\ t.spcMarked = s.spcMarked /\ t.acc = [s.acc EXCEPT ![a] = o]
      /\ t.accDirty = s.accDirty \cup {a} /\ t.accMarked = s.accMarked \cup {a}
  BY <1>1 DEF SetAccount, Good, States
<1>3. t.acc[a] = o /\ \A b \in Address \ {a} : t.acc[b] = s.acc[b]
  BY <1>2 DEF Good, States
<1>4. \A b \in Address : CleanAccount(t, b)
  BY <1>2, <1>3 DEF Good, CleanAccount
<1>5. \A i \in SpaceId : CleanSpace(t, i)
  BY <1>2 DEF Good, CleanSpace
<1>6. \A b \in t.accDirty : t.acc[b] # None
  BY <1>2, <1>3, NoneApart DEF Good, States
<1> QED
  BY <1>2, <1>4, <1>5, <1>6 DEF Good

LEMMA SetSpaceGood ==
  ASSUME TriesOK, NEW s, Good(s), NEW i \in SpaceId, NEW o \in Space
  PROVE  LET t == SetSpace(s, i, o)
         IN  Good(t) /\ t.acc = s.acc /\ t.spc = [s.spc EXCEPT ![i] = o]
<1> DEFINE t == SetSpace(s, i, o)
<1>1. MarkSpaceObjectsDirty(s, i) = s.spcDirty \cup {i}
  BY DEF MarkSpaceObjectsDirty, Good
<1>2. /\ t \in States /\ t.acc = s.acc /\ t.accDirty = s.accDirty
      /\ t.accMarked = s.accMarked /\ t.spc = [s.spc EXCEPT ![i] = o]
      /\ t.spcDirty = s.spcDirty \cup {i} /\ t.spcMarked = s.spcMarked \cup {i}
  BY <1>1 DEF SetSpace, Good, States
<1>3. t.spc[i] = o /\ \A j \in SpaceId \ {i} : t.spc[j] = s.spc[j]
  BY <1>2 DEF Good, States
<1>4. \A j \in SpaceId : CleanSpace(t, j)
  BY <1>2, <1>3 DEF Good, CleanSpace
<1>5. \A a \in Address : CleanAccount(t, a)
  BY <1>2 DEF Good, CleanAccount
<1>6. \A j \in t.spcDirty : t.spc[j] # None
  BY <1>2, <1>3, NoneApart DEF Good, States
<1> QED
  BY <1>2, <1>4, <1>5, <1>6 DEF Good

\* A new object replaces nothing: neither a map nor a trie has one.
LEMMA CreateAccountGood ==
  ASSUME TriesOK, NEW s, Good(s), NEW a \in Address, NEW w \in Nat,
         s.acc[a] = None, trieAccount[a] = None
  PROVE  LET t == CreateAccountObject(s, w, a)
         IN  Good(t) /\ t.spc = s.spc /\ t.acc[a] # None
<1> DEFINE t == CreateAccountObject(s, w, a)
<1>1. /\ t \in States /\ t.spc = s.spc /\ t.spcDirty = s.spcDirty
      /\ t.spcMarked = s.spcMarked /\ t.acc = [s.acc EXCEPT ![a] = NewAccount(w)]
      /\ t.accDirty = s.accDirty /\ t.accMarked = s.accMarked \ {a}
  BY NewAccountType DEF CreateAccountObject, Good, States
<1>2. /\ t.acc[a] = NewAccount(w)
      /\ \A b \in Address \ {a} : t.acc[b] = s.acc[b]
  BY <1>1 DEF Good, States
<1>3. t.acc[a] # None
  BY <1>2, NewAccountType, NoneApart
<1>4. \A b \in Address : CleanAccount(t, b)
  BY <1>1, <1>2, NewAccountType DEF Good, CleanAccount
<1>5. \A i \in SpaceId : CleanSpace(t, i)
  BY <1>1 DEF Good, CleanSpace
<1>6. \A b \in t.accDirty : t.acc[b] # None
  <2>1. \A b \in s.accDirty : b \in Address \ {a} /\ s.acc[b] # None
    BY DEF Good, States
  <2> QED
    BY <1>1, <1>2, <2>1
<1>7. t.accMarked \subseteq t.accDirty /\ t.spcMarked \subseteq t.spcDirty
  BY <1>1 DEF Good
<1>8. \A i \in t.spcDirty : t.spc[i] # None
  BY <1>1 DEF Good
<1> QED
  BY <1>1, <1>3, <1>4, <1>5, <1>6, <1>7, <1>8 DEF Good

LEMMA CreateSpaceGood ==
  ASSUME TriesOK, NEW s, Good(s), NEW i \in SpaceId,
         s.spc[i] = None, trieSpace[i] = None
  PROVE  LET t == CreateSpaceObject(s, i)
         IN  Good(t) /\ t.acc = s.acc /\ t.spc[i] # None
<1> DEFINE t == CreateSpaceObject(s, i)
<1>1. /\ t \in States /\ t.acc = s.acc /\ t.accDirty = s.accDirty
      /\ t.accMarked = s.accMarked /\ t.spc = [s.spc EXCEPT ![i] = NewSpace]
      /\ t.spcDirty = s.spcDirty /\ t.spcMarked = s.spcMarked \ {i}
  BY NewSpaceType DEF CreateSpaceObject, Good, States
<1>2. t.spc[i] = NewSpace /\ \A j \in SpaceId \ {i} : t.spc[j] = s.spc[j]
  BY <1>1 DEF Good, States
<1>3. t.spc[i] # None
  BY <1>2, NewSpaceType, NoneApart
<1>4. \A j \in SpaceId : CleanSpace(t, j)
  BY <1>1, <1>2, NewSpaceType DEF Good, CleanSpace
<1>5. \A a \in Address : CleanAccount(t, a)
  BY <1>1 DEF Good, CleanAccount
<1>6. \A j \in t.spcDirty : t.spc[j] # None
  BY <1>1, <1>2, <1>3, SMTT(30) DEF Good, States
<1> QED
  BY <1>1, <1>3, <1>4, <1>5, <1>6 DEF Good

-----------------------------------------------------------------------------
(* The operations.                                                         *)

LEMMA BalanceGood ==
  ASSUME TriesOK, NEW s, Good(s), NEW a \in Address, NEW n \in Int
  PROVE  /\ Good(SetBalance(s, a, n))
         /\ Good(AddBalance(s, a, n))
         /\ Good(SubBalance(s, a, n))
<1> DEFINE t == GetAccountObject(s, a)
<1>1. Good(t)
  BY GetAccountGood
<1>2. \A m \in Int : t.acc[a] # None =>
        Good(SetAccount(t, a, [t.acc[a] EXCEPT !.balance = m]))
  <2> SUFFICES ASSUME NEW m \in Int, t.acc[a] # None
               PROVE  Good(SetAccount(t, a, [t.acc[a] EXCEPT !.balance = m]))
    OBVIOUS
  <2>1. [t.acc[a] EXCEPT !.balance = m] \in Account
    BY <1>1, SMTT(30) DEF Good, States, Account
  <2> QED
    BY <1>1, <2>1, SetAccountGood
<1>3. \A m \in Int : Good(AddBalance(s, a, m))
  <2> SUFFICES ASSUME NEW m \in Int
               PROVE  Good(AddBalance(s, a, m))
    OBVIOUS
  <2>1. CASE t.acc[a] = None \/ m = 0
    BY <1>1, <2>1 DEF AddBalance
  <2>2. CASE ~(t.acc[a] = None \/ m = 0)
    <3>1. AddBalance(s, a, m)
            = SetAccount(t, a, [t.acc[a] EXCEPT !.balance = t.acc[a].balance + m])
      BY <2>2 DEF AddBalance
    <3>2. t.acc[a].balance + m \in Int
      BY <1>1, <2>2, SMTT(30) DEF Good, States, Account
    <3> QED
      BY <1>2, <2>2, <3>1, <3>2
  <2> QED
    BY <2>1, <2>2
<1>4. Good(SetBalance(s, a, n))
  BY <1>1, <1>2 DEF SetBalance
<1> QED
  BY <1>3, <1>4, SMTT(30) DEF SubBalance

LEMMA SetSpaceBalanceGood ==
  ASSUME TriesOK, NEW s, Good(s), NEW i \in SpaceId, NEW n \in Int,
         s.spc[i] # None
  PROVE  Good(SetSpaceBalance(s, i, n))
<1> DEFINE o == s.spc[i]
           p == [o EXCEPT !.balance = n, !.nonce = o.nonce + 1]
<1>1. o \in Space
  BY DEF Good, States
<1>2. p \in Space
  <2>1. o.nonce + 1 \in Nat /\ o.bind \in [Address -> Nat]
    BY <1>1, SMTT(30) DEF Space
  <2> HIDE DEF o
  <2> QED
    BY <1>1, <2>1 DEF Space
<1>3. SetSpaceBalance(s, i, n) = SetSpace(s, i, p)
  BY DEF SetSpaceBalance
<1>4. \A r \in Space : Good(SetSpace(s, i, r))
  BY SetSpaceGood
<1> HIDE DEF p
<1> QED
  BY <1>2, <1>3, <1>4

LEMMA SpaceBalanceGood ==
  ASSUME TriesOK, NEW s, Good(s), NEW i \in SpaceId, NEW n \in Int
  PROVE  /\ Good(AddSpaceBalanceByID(s, i, n))
         /\ Good(SubSpaceBalanceByID(s, i, n))
<1> DEFINE t == GetSpaceObject(s, i)
<1>1. Good(t)
  BY GetSpaceGood
<1>2. \A m \in Int : Good(AddSpaceBalanceByID(s, i, m))
  <2> SUFFICES ASSUME NEW m \in Int
               PROVE  Good(AddSpaceBalanceByID(s, i, m))
    OBVIOUS
  <2>1. CASE t.spc[i] = None \/ m = 0
    BY <1>1, <2>1 DEF AddSpaceBalanceByID
  <2>2. CASE ~(t.spc[i] = None \/ m = 0)
    <3>1. t.spc[i].balance + m \in Int
      BY <1>1, <2>2, SMTT(30) DEF Good, States, Space
    <3> QED
      BY <1>1, <2>2, <3>1, SetSpaceBalanceGood DEF AddSpaceBalanceByID
  <2> QED
    BY <2>1, <2>2
<1> QED
  BY <1>2, SMTT(30) DEF SubSpaceBalanceByID

LEMMA SpaceBalanceByAddressGood ==
  ASSUME TriesOK, NEW s, Good(s), NEW a \in Address, NEW n \in Int
  PROVE  /\ Good(AddSpaceBalanceByAddress(s, a, n))
         /\ Good(SubSpaceBalanceByAddress(s, a, n))
         /\ Good(SetSpaceBalanceByAddress(s, a, n))
<1> DEFINE t == GetAccountObject(s, a)
<1>1. Good(t)
  BY GetAccountGood
<1>2. t.acc[a] # None => t.acc[a].space \in SpaceId
  BY <1>1 DEF Good, States, Account
<1>3. \A m \in Int : Good(AddSpaceBalanceByAddress(s, a, m))
  BY <1>1, <1>2, SpaceBalanceGood DEF AddSpaceBalanceByAddress
<1>4. Good(SetSpaceBalanceByAddress(s, a, n))
  <2>1. CASE t.acc[a] = None
    BY <1>1, <2>1 DEF SetSpaceBalanceByAddress
  <2>2. CASE t.acc[a] # None
    <3> DEFINE u == GetSpaceObject(t, t.acc[a].space)
    <3>1. Good(u)
      BY <1>1, <1>2, <2>2, GetSpaceGood
    <3>2. SetSpaceBalanceByAddress(s, a, n)
            = IF u.spc[t.acc[a].space] = None THEN u
              ELSE SetSpaceBalance(u, t.acc[a].space, n)
      BY <2>2 DEF SetSpaceBalanceByAddress
    <3> QED
      BY <1>2, <2>2, <3>1, <3>2, SetSpaceBalanceGood
  <2> QED
    BY <2>1, <2>2
<1> QED
  BY <1>3, <1>4, SMTT(30) DEF SubSpaceBalanceByAddress

LEMMA AttributeGood ==
  ASSUME TriesOK, NEW s, Good(s), NEW a \in Address, NEW k \in Key,
         NEW v \in Value \cup {None}
  PROVE  Good(SetAttribute(s, a, k, v))
<1> DEFINE t == GetAccountObject(s, a)
<1>1. Good(t)
  BY GetAccountGood
<1>2. CASE t.acc[a] = None
  BY <1>1, <1>2 DEF SetAttribute
<1>3. CASE t.acc[a] # None
  <2>1. [t.acc[a] EXCEPT !.attr[k] = v] \in Account
    BY <1>1, <1>3, SMTT(30) DEF Good, States, Account
  <2> QED
    BY <1>1, <1>3, <2>1, SetAccountGood DEF SetAttribute
<1> QED
  BY <1>2, <1>3

-----------------------------------------------------------------------------
(* Binding.                                                                *)

\* Both sides change, and what exists stays in the maps.
LEMMA BothGood ==
  ASSUME TriesOK, NEW s, Good(s), NEW i \in SpaceId, NEW a \in Address,
         NEW o \in Account, NEW p \in Space
  PROVE  LET t == SetSpace(SetAccount(s, a, o), i, p)
         IN  /\ Good(t)
             /\ t.acc = [s.acc EXCEPT ![a] = o]
             /\ t.spc = [s.spc EXCEPT ![i] = p]
BY SetAccountGood, SetSpaceGood, SMTT(30)

\* Objects that exist in s still do in t.
Keeps(s, t) ==
    /\ \A a \in Address : s.acc[a] # None => t.acc[a] # None
    /\ \A i \in SpaceId : s.spc[i] # None => t.spc[i] # None

LEMMA UnassociateGood ==
  ASSUME TriesOK, NEW s, Good(s), NEW i \in SpaceId, NEW a \in Address
  PROVE  LET t == UnassociateSpaceAndAccount(s, i, a)
         IN  Good(t) /\ Keeps(s, t)
<1> DEFINE t == UnassociateSpaceAndAccount(s, i, a)
           o == [s.acc[a] EXCEPT !.space = 0]
           p == [s.spc[i] EXCEPT !.bind[a] = 0]
<1>1. CASE s.spc[i] = None \/ s.acc[a] = None
  BY <1>1 DEF UnassociateSpaceAndAccount, Keeps
<1>2. CASE ~(s.spc[i] = None \/ s.acc[a] = None)
  <2>1. t = SetSpace(SetAccount(s, a, o), i, p)
    BY <1>2 DEF UnassociateSpaceAndAccount
  <2>2. o \in Account
    BY <1>2, StateAssumption, SMTT(30) DEF Good, States, Account
  <2>3. p \in Space
    BY <1>2 DEF Good, States, Space
  <2>4. /\ Good(t) /\ t.acc = [s.acc EXCEPT ![a] = o]
        /\ t.spc = [s.spc EXCEPT ![i] = p]
    BY <2>1, <2>2, <2>3, BothGood, SMTT(30)
  <2>5. Keeps(s, t)
    BY <2>2, <2>3, <2>4, NoneApart, SMTT(30) DEF Keeps, Good, States
  <2> QED
    BY <2>4, <2>5
<1> QED
  BY <1>1, <1>2

LEMMA LeaveGood ==
  ASSUME TriesOK, NEW s, Good(s), NEW a \in Address, s.acc[a] # None
  PROVE  LET t == LeavePrevious(s, a)
         IN  Good(t) /\ Keeps(s, t)
<1> DEFINE i == s.acc[a].space
           u == GetSpaceObject(s, i)
<1>1. i \in SpaceId
  BY DEF Good, States, Account
<1>2. Good(u) /\ Keeps(s, u)
  BY <1>1, GetSpaceGood DEF Keeps
<1>3. LET t == UnassociateSpaceAndAccount(u, i, a) IN Good(t) /\ Keeps(u, t)
  BY <1>1, <1>2, UnassociateGood
<1> QED
  BY <1>2, <1>3 DEF LeavePrevious, Keeps

LEMMA AssociateGood ==
  ASSUME TriesOK, NEW s, Good(s), NEW i \in SpaceId, NEW a \in Address
  PROVE  Good(AssociateSpaceAndAccount(s, i, a))
<1>1. CASE s.spc[i] = None \/ s.acc[a] = None
  BY <1>1 DEF AssociateSpaceAndAccount
<1>2. CASE ~(s.spc[i] = None \/ s.acc[a] = None)
  <2> DEFINE t == LeavePrevious(s, a)
             o == [t.acc[a] EXCEPT !.space = i]
             q == t.spc[i]
             p == [q EXCEPT !.bind[a] = q.bind[a] + 1]
  <2>1. Good(t) /\ t.acc[a] # None /\ t.spc[i] # None
    BY <1>2, LeaveGood DEF Keeps
  <2>2. o \in Account
    BY <2>1, SMTT(30) DEF Good, States, Account
  <2>3. p \in Space
    <3>1. q \in Space
      BY <2>1 DEF Good, States
    <3>2. q.bind[a] + 1 \in Nat
      BY <3>1, SMTT(30) DEF Space
    <3> HIDE DEF q
    <3> QED
      BY <3>1, <3>2 DEF Space
  <2>4. AssociateSpaceAndAccount(s, i, a) = SetSpace(SetAccount(t, a, o), i, p)
    BY <1>2 DEF AssociateSpaceAndAccount
  <2>5. \A x \in Account, y \in Space : Good(SetSpace(SetAccount(t, a, x), i, y))
    BY <2>1, BothGood
  <2> HIDE DEF o, p
  <2> QED
    BY <2>2, <2>3, <2>4, <2>5
<1> QED
  BY <1>1, <1>2

LEMMA BindGood ==
  ASSUME TriesOK, NEW s, Good(s), NEW i \in SpaceId, NEW a \in Address
  PROVE  Good(BindAddr(s, i, a)) /\ Good(UnbindAddr(s, i, a))
<1>1. Good(GetSpaceObject(s, i))
  BY GetSpaceGood
<1>2. Good(GetAccountObject(GetSpaceObject(s, i), a))
  BY <1>1, GetAccountGood
<1>3. Good(BindAddr(s, i, a))
  BY <1>2, AssociateGood DEF BindAddr
<1>4. Good(UnbindAddr(s, i, a))
  BY <1>1, <1>2, UnassociateGood DEF UnbindAddr
<1> QED
  BY <1>3, <1>4

LEMMA CreateGood ==
  ASSUME TriesOK, NEW s, Good(s), NEW i \in SpaceId, NEW w \in Nat,
         NEW a \in Address
  PROVE  Good(CreateSpaceAndBindAddr(s, i, w, a))
<1> DEFINE s1 == GetAccountObject(s, a)
           s2 == IF s1.acc[a] = None THEN CreateAccountObject(s1, w, a) ELSE s1
           s3 == GetSpaceObject(s2, i)
<1>1. Good(s1) /\ (s1.acc[a] = None => trieAccount[a] = None)
  BY GetAccountGood
<1>2. Good(s2)
  BY <1>1, CreateAccountGood
<1>3. Good(s3) /\ (s3.spc[i] = None => trieSpace[i] = None)
  <2> HIDE DEF s2
  <2> QED
    BY <1>2, GetSpaceGood
<1>4. CASE s3.spc[i] # None
  <2>1. CreateSpaceAndBindAddr(s, i, w, a) = s3
    BY <1>4 DEF CreateSpaceAndBindAddr
  <2> QED
    BY <1>3, <2>1
<1>5. CASE s3.spc[i] = None
  <2>1. CreateSpaceAndBindAddr(s, i, w, a)
          = AssociateSpaceAndAccount(CreateSpaceObject(s3, i), i, a)
    BY <1>5 DEF CreateSpaceAndBindAddr
  <2> HIDE DEF s3
  <2>2. Good(CreateSpaceObject(s3, i))
    BY <1>3, <1>5, CreateSpaceGood
  <2> QED
    BY <2>1, <2>2, AssociateGood
<1> QED
  BY <1>4, <1>5

-----------------------------------------------------------------------------
(* The inductive invariant.                                                *)

LEMMA NewGood ==
  ASSUME TriesOK
  PROVE  Good(New)
BY DEF Good, New, States, CleanAccount, CleanSpace

LEMMA InitIInv == Init => IInv
<1> SUFFICES ASSUME Init PROVE IInv
  OBVIOUS
<1>1. TriesOK /\ NoEmptyEntry
  BY DEF Init, TriesOK, NoEmptyEntry
<1>2. Good(st)
  BY <1>1, NewGood DEF Init
<1> QED
  BY <1>1, <1>2 DEF Init, IInv

LEMMA DoIInv ==
  ASSUME IInv, NEW s, Good(s), Do(s)
  PROVE  IInv' /\ UNCHANGED <<trieAccount, trieSpace>>
<1>1. UNCHANGED <<trieAccount, trieSpace, panicked, blocks>> /\ st' = s
  BY DEF Do
<1>2. TriesOK' /\ NoEmptyEntry'
  BY <1>1 DEF IInv, TriesOK, NoEmptyEntry
<1>3. Good(st)'
  BY <1>1 DEF Good, CleanAccount, CleanSpace
<1> QED
  BY <1>1, <1>2, <1>3, SMTT(30) DEF IInv, Do

\* What CommitTo leaves in the tries is what the getters showed, without
\* the empty entries.
LEMMA FinaliseTypes ==
  ASSUME IInv
  PROVE  /\ AccountFinalise \in [Address -> Account \cup {None}]
         /\ SpaceFinalise \in [SpaceId -> Space \cup {None}]
         /\ \A a \in Address :
              AccountFinalise[a] # None => ~EmptyAccount(AccountFinalise[a])
         /\ \A i \in SpaceId :
              SpaceFinalise[i] # None => ~EmptySpace(SpaceFinalise[i])
BY DEF IInv, TriesOK, NoEmptyEntry, Good, States, AccountFinalise, SpaceFinalise

\* CommitTo, when it writes.
Writes == /\ trieSpace' = SpaceFinalise /\ trieAccount' = AccountFinalise
          /\ st' = New

LEMMA NextStateDBTypes ==
  ASSUME IInv, NextStateDB, panicked' \in BOOLEAN
  PROVE  (panicked \in BOOLEAN /\ ops \in Nat /\ blocks \in Nat)'
BY SMTT(30) DEF IInv, NextStateDB

LEMMA WritesIInv ==
  ASSUME IInv, Writes
  PROVE  TriesOK' /\ NoEmptyEntry' /\ Good(st)'
<1>1. TriesOK'
  BY FinaliseTypes DEF Writes, TriesOK
<1>2. NoEmptyEntry'
  BY FinaliseTypes DEF Writes, NoEmptyEntry
<1>3. Good(st)'
  BY <1>1 DEF Writes, Good, New, States, CleanAccount, CleanSpace
<1> QED
  BY <1>1, <1>2, <1>3

\* A step keeps the invariant, and leaves the tries alone or writes them.
LEMMA NextIInv ==
  ASSUME IInv, Next
  PROVE  IInv' /\ (UNCHANGED <<trieAccount, trieSpace>> \/ Writes)
<1> USE StateAssumption
<1>0. TriesOK /\ Good(st) /\ \A n \in Amount : n \in Int
  BY SMTT(30) DEF IInv
<1>1. CASE CommitTo
  <2>1. NextStateDB
    BY <1>1 DEF CommitTo
  <2>2. CASE Encodable
    <3>1. Writes /\ panicked' = panicked
      BY <1>1, <2>2 DEF CommitTo, Writes
    <3>2. (panicked \in BOOLEAN /\ ops \in Nat /\ blocks \in Nat)'
      BY <2>1, <3>1, NextStateDBTypes DEF IInv
    <3> QED
      BY <3>1, <3>2, WritesIInv DEF IInv
  <2>3. CASE ~Encodable
    <3>1. panicked' = TRUE /\ UNCHANGED <<trieAccount, trieSpace, st>>
      BY <1>1, <2>3 DEF CommitTo
    <3>2. (panicked \in BOOLEAN /\ ops \in Nat /\ blocks \in Nat)'
      BY <2>1, <3>1, NextStateDBTypes
    <3>3. TriesOK' /\ NoEmptyEntry' /\ Good(st)'
      BY <3>1 DEF IInv, TriesOK, NoEmptyEntry, Good, CleanAccount, CleanSpace
    <3> QED
      BY <3>1, <3>2, <3>3 DEF IInv
  <2> QED
    BY <2>2, <2>3
<1>2. CASE Abandon
  <2>1. /\ NextStateDB /\ st' = New
        /\ UNCHANGED <<trieAccount, trieSpace, panicked>>
    BY <1>2 DEF Abandon
  <2>2. (panicked \in BOOLEAN /\ ops \in Nat /\ blocks \in Nat)'
    BY <2>1, NextStateDBTypes DEF IInv
  <2>3. TriesOK' /\ NoEmptyEntry'
    BY <2>1 DEF IInv, TriesOK, NoEmptyEntry
  <2>4. Good(st)'
    BY <2>1 DEF Good, New, States, CleanAccount, CleanSpace
  <2> QED
    BY <2>1, <2>2, <2>3, <2>4 DEF IInv
<1>3. ASSUME NEW a \in Address, NEW n \in Amount,
             \/ Do(SetBalance(st, a, n))
             \/ Do(AddBalance(st, a, n))
             \/ Do(SubBalance(st, a, n))
             \/ Do(AddSpaceBalanceByAddress(st, a, n))
             \/ Do(SubSpaceBalanceByAddress(st, a, n))
             \/ Do(SetSpaceBalanceByAddress(st, a, n))
      PROVE  \E s : Good(s) /\ Do(s)
  <2>1. n \in Int
    BY <1>0
  <2> QED
    BY <1>0, <1>3, <2>1, BalanceGood, SpaceBalanceByAddressGood
<1>4. ASSUME NEW i \in SpaceId, NEW n \in Amount,
             \/ Do(AddSpaceBalanceByID(st, i, n))
             \/ Do(SubSpaceBalanceByID(st, i, n))
      PROVE  \E s : Good(s) /\ Do(s)
  <2>1. n \in Int
    BY <1>0
  <2> QED
    BY <1>0, <1>4, <2>1, SpaceBalanceGood
<1>5. ASSUME NEW a \in Address, NEW k \in Key, NEW v \in Value \cup {None},
             Do(SetAttribute(st, a, k, v))
      PROVE  \E s : Good(s) /\ Do(s)
  BY <1>0, <1>5, AttributeGood
<1>6. ASSUME NEW a \in Address, NEW i \in SpaceId,
             Do(BindAddr(st, i, a)) \/ Do(UnbindAddr(st, i, a))
      PROVE  \E s : Good(s) /\ Do(s)
  BY <1>0, <1>6, BindGood
<1>7. ASSUME NEW a \in Address, NEW i \in SpaceId, NEW w \in Wallet,
             Do(CreateSpaceAndBindAddr(st, i, w, a))
      PROVE  \E s : Good(s) /\ Do(s)
  <2>1. w \in Nat
    OBVIOUS
  <2> QED
    BY <1>0, <1>7, <2>1, CreateGood
<1>8. ASSUME \E s : Good(s) /\ Do(s)
      PROVE  IInv' /\ UNCHANGED <<trieAccount, trieSpace>>
  BY <1>8, DoIInv
<1>9. CommitTo \/ Abandon \/ \E s : Good(s) /\ Do(s)
  BY <1>3, <1>4, <1>5, <1>6, <1>7 DEF Next
<1> QED
  BY <1>1, <1>2, <1>8, <1>9

LEMMA StutterIInv ==
  ASSUME IInv, UNCHANGED vars
  PROVE  IInv'
BY DEF IInv, TriesOK, NoEmptyEntry, Good, CleanAccount, CleanSpace, vars

LEMMA InvariantHolds == Spec => []IInv
<1>1. IInv /\ [Next]_vars => IInv'
  BY NextIInv, StutterIInv
<1> QED
  BY <1>1, InitIInv, PTL DEF Spec

\* Whatever is done to a StateDB, its objects keep their types, and only
\* objects that exist are dirty, so that AccountFinalise and SpaceFinalise
\* dereference no missing one.
THEOREM TypeCorrect == Spec => []TypeOK
<1>1. IInv => TypeOK
  BY DEF IInv, TriesOK, Good, States, TypeOK
<1> QED
  BY <1>1, InvariantHolds, PTL

-----------------------------------------------------------------------------
(* The refinement.                                                         *)

Committed == [acc |-> trieAccount, spc |-> trieSpace]
Working == [acc |-> ViewAccount, spc |-> ViewSpace]

LEMMA ViewIs ==
  ASSUME IInv
  PROVE  /\ ViewAccount = [a \in Address |-> IF st.acc[a] # None THEN st.acc[a]
                                             ELSE trieAccount[a]]
         /\ ViewSpace = [i \in SpaceId |-> IF st.spc[i] # None THEN st.spc[i]
                                           ELSE trieSpace[i]]
BY DEF IInv, Good, States, ViewAccount, ViewSpace, GetAccountObject, GetSpaceObject

LEMMA CommitsView ==
  ASSUME IInv
  PROVE  /\ AccountFinalise = NonEmptyLedger(Working).acc
         /\ SpaceFinalise = NonEmptyLedger(Working).spc
<1>1. \A a \in Address :
        AccountFinalise[a] = IF ViewAccount[a] # None /\ EmptyAccount(ViewAccount[a])
                             THEN None ELSE ViewAccount[a]
  BY ViewIs DEF IInv, NoEmptyEntry, Good, CleanAccount, AccountFinalise
<1>2. \A i \in SpaceId :
        SpaceFinalise[i] = IF ViewSpace[i] # None /\ EmptySpace(ViewSpace[i])
                           THEN None ELSE ViewSpace[i]
  BY ViewIs DEF IInv, NoEmptyEntry, Good, CleanSpace, SpaceFinalise
<1> QED
  BY <1>1, <1>2 DEF NonEmptyLedger, Working, AccountFinalise, SpaceFinalise

LEMMA RefinesInit == Init => Plain!Init
<1> SUFFICES ASSUME Init PROVE Plain!Init
  OBVIOUS
<1>1. IInv
  BY InitIInv
<1>2. ViewAccount = trieAccount /\ ViewSpace = trieSpace
  BY <1>1, ViewIs DEF Init, New, IInv, TriesOK
<1>3. NonEmptyLedger(Committed) = Committed
  BY <1>1 DEF NonEmptyLedger, Committed, IInv, TriesOK, NoEmptyEntry
<1> QED
  BY <1>2, <1>3 DEF Plain!Init, Committed

LEMMA RefinesCommit ==
  ASSUME IInv, Writes, IInv'
  PROVE  Plain!Commit
<1>1. Committed' = NonEmptyLedger(Working)
  BY CommitsView DEF Writes, Committed, NonEmptyLedger
<1>2. (ViewAccount = trieAccount /\ ViewSpace = trieSpace)'
  BY DEF Writes, New, IInv, TriesOK, ViewAccount, ViewSpace, GetAccountObject,
         GetSpaceObject
<1> QED
  BY <1>1, <1>2 DEF Plain!Commit, Committed, Working

LEMMA RefinesNext ==
  ASSUME IInv, Next
  PROVE  Plain!Next
<1>1. CASE UNCHANGED <<trieAccount, trieSpace>>
  BY <1>1 DEF Plain!Next, Plain!Change
<1>2. CASE Writes
  BY <1>2, NextIInv, RefinesCommit DEF Plain!Next
<1> QED
  BY <1>1, <1>2, NextIInv

LEMMA RefinesStutter ==
  ASSUME UNCHANGED vars
  PROVE  UNCHANGED <<Committed, Working>>
BY SMTT(30) DEF vars, Committed, Working, ViewAccount, ViewSpace, GetAccountObject,
       GetSpaceObject

\* The object maps, the dirty sets and the callbacks that are dropped after
\* their first use lose no change: a commit makes durable exactly what the
\* getters showed, for every set of accounts and spaces and every sequence
\* of operations.
THEOREM Refinement == Spec => ImplementsLedger
<1>1. IInv /\ [Next]_vars =>
        [Plain!Next]_<<[acc |-> trieAccount, spc |-> trieSpace],
                       [acc |-> ViewAccount, spc |-> ViewSpace]>>
  BY RefinesNext, RefinesStutter DEF Committed, Working
<1> QED
  BY <1>1, RefinesInit, InvariantHolds, PTL DEF Spec, ImplementsLedger, Plain!Spec

-----------------------------------------------------------------------------
(* What the getters of a StateDB show.                                     *)

ShownAccounts(s) ==
    [a \in Address |-> IF s.acc[a] # None THEN s.acc[a] ELSE trieAccount[a]]
ShownSpaces(s) ==
    [i \in SpaceId |-> IF s.spc[i] # None THEN s.spc[i] ELSE trieSpace[i]]

\* Accounts A and spaces S list the same bindings.
Bound(A, a, i) == A[a] # None /\ A[a].space = i

Agree(A, S) ==
    \A a \in Address, i \in SpaceId \ {0} :
      IF S[i] = None THEN ~Bound(A, a, i)
      ELSE S[i].bind[a] = IF Bound(A, a, i) THEN 1 ELSE 0

\* The wallet numbers of A are below w and each of one account.
WalletsBelow(A, w) ==
    \A a \in Address : A[a] # None =>
      /\ A[a].wallet < w
      /\ \A b \in Address \ {a} : A[b] # None => A[a].wallet # A[b].wallet

\* The configuration file numbers the wallets in ascending order; ToBlock
\* takes the numbers as they come and keeps the last one as the next.
WalletsAscending ==
    \A m, n \in DOMAIN GenesisAccounts :
      m < n => GenesisAccounts[m].wallet < GenesisAccounts[n].wallet

\* The types of what Execution adds to a StateDB.
ExecTypes ==
    /\ phase \in {"genesis", "idle", "block", "direct"}
    /\ done \in 0..Len(GenesisAccounts)
    /\ idIndex \in Nat /\ walletIndex \in Nat
    /\ spaceid \in Nat /\ walletid \in Nat
    /\ all \subseteq Tx /\ todo \subseteq Tx

\* Bindings and wallets of the committed state and of the one shown.
BInv ==
    phase # "direct" =>
      /\ Agree(trieAccount, trieSpace) /\ WalletsBelow(trieAccount, walletIndex)
      /\ Agree(ShownAccounts(st), ShownSpaces(st))
      /\ phase = "genesis" =>
           /\ \A a \in Address : trieAccount[a] = None
           /\ WalletsBelow(ShownAccounts(st), walletid)
           /\ done < Len(GenesisAccounts) =>
                walletid <= GenesisAccounts[done + 1].wallet
      /\ phase = "block" => WalletsBelow(ShownAccounts(st), walletid)
      /\ phase = "idle" /\ ~panicked =>
           WalletsBelow(ShownAccounts(st), walletIndex)

-----------------------------------------------------------------------------
(* Operations and what they show.                                          *)

LEMMA ShownTypes ==
  ASSUME TriesOK, NEW s, Good(s)
  PROVE  /\ ShownAccounts(s) \in [Address -> Account \cup {None}]
         /\ ShownSpaces(s) \in [SpaceId -> Space \cup {None}]
BY DEF TriesOK, Good, States, ShownAccounts, ShownSpaces

LEMMA GetAccountShows ==
  ASSUME TriesOK, NEW s, Good(s), NEW a \in Address
  PROVE  LET t == GetAccountObject(s, a)
         IN  /\ ShownAccounts(t) = ShownAccounts(s)
             /\ ShownSpaces(t) = ShownSpaces(s)
             /\ t.acc[a] = ShownAccounts(s)[a]
<1> DEFINE t == GetAccountObject(s, a)
<1>1. CASE s.acc[a] # None
  BY <1>1 DEF GetAccountObject, ShownAccounts
<1>2. CASE s.acc[a] = None
  <2>1. /\ t.spc = s.spc
        /\ t.acc = [s.acc EXCEPT ![a] = trieAccount[a]]
    BY <1>2 DEF GetAccountObject, Good, States
  <2>2. t.acc[a] = trieAccount[a] /\ \A b \in Address \ {a} : t.acc[b] = s.acc[b]
    BY <2>1 DEF Good, States
  <2> HIDE DEF t
  <2>3. \A b \in Address : ShownAccounts(t)[b] = ShownAccounts(s)[b]
    BY <1>2, <2>2 DEF ShownAccounts
  <2>4. ShownAccounts(t) = ShownAccounts(s) /\ t.acc[a] = ShownAccounts(s)[a]
    BY <1>2, <2>2, <2>3 DEF ShownAccounts
  <2> QED
    BY <2>1, <2>4 DEF ShownSpaces, t
<1> QED
  BY <1>1, <1>2

LEMMA GetSpaceShows ==
  ASSUME TriesOK, NEW s, Good(s), NEW i \in SpaceId
  PROVE  LET t == GetSpaceObject(s, i)
         IN  /\ ShownAccounts(t) = ShownAccounts(s)
             /\ ShownSpaces(t) = ShownSpaces(s)
             /\ t.spc[i] = ShownSpaces(s)[i]
<1> DEFINE t == GetSpaceObject(s, i)
<1>1. CASE s.spc[i] # None
  BY <1>1 DEF GetSpaceObject, ShownSpaces
<1>2. CASE s.spc[i] = None
  <2>1. /\ t.acc = s.acc
        /\ t.spc = [s.spc EXCEPT ![i] = trieSpace[i]]
    BY <1>2 DEF GetSpaceObject, Good, States
  <2>2. t.spc[i] = trieSpace[i] /\ \A j \in SpaceId \ {i} : t.spc[j] = s.spc[j]
    BY <2>1 DEF Good, States
  <2> HIDE DEF t
  <2>3. \A j \in SpaceId : ShownSpaces(t)[j] = ShownSpaces(s)[j]
    BY <1>2, <2>2 DEF ShownSpaces
  <2>4. ShownSpaces(t) = ShownSpaces(s) /\ t.spc[i] = ShownSpaces(s)[i]
    BY <1>2, <2>2, <2>3 DEF ShownSpaces
  <2> QED
    BY <2>1, <2>4 DEF ShownAccounts, t
<1> QED
  BY <1>1, <1>2

\* A map with one entry replaced shows that entry.
LEMMA ShowsAccount ==
  ASSUME NEW s, NEW t, NEW a \in Address, NEW o \in Account, Good(s),
         t.spc = s.spc, t.acc = [s.acc EXCEPT ![a] = o]
  PROVE  /\ ShownAccounts(t) = [ShownAccounts(s) EXCEPT ![a] = o]
         /\ ShownSpaces(t) = ShownSpaces(s)
<1>1. t.acc[a] = o /\ \A b \in Address \ {a} : t.acc[b] = s.acc[b]
  BY DEF Good, States
<1>2. \A b \in Address :
        ShownAccounts(t)[b] = IF b = a THEN o ELSE ShownAccounts(s)[b]
  BY <1>1, NoneApart DEF ShownAccounts
<1> QED
  BY <1>2 DEF ShownAccounts, ShownSpaces

LEMMA ShowsSpace ==
  ASSUME NEW s, NEW t, NEW i \in SpaceId, NEW o \in Space, Good(s),
         t.acc = s.acc, t.spc = [s.spc EXCEPT ![i] = o]
  PROVE  /\ ShownSpaces(t) = [ShownSpaces(s) EXCEPT ![i] = o]
         /\ ShownAccounts(t) = ShownAccounts(s)
<1>1. t.spc[i] = o /\ \A j \in SpaceId \ {i} : t.spc[j] = s.spc[j]
  BY DEF Good, States
<1>2. \A j \in SpaceId :
        ShownSpaces(t)[j] = IF j = i THEN o ELSE ShownSpaces(s)[j]
  BY <1>1, NoneApart DEF ShownSpaces
<1> QED
  BY <1>2 DEF ShownAccounts, ShownSpaces

\* t shows what s does, up to balances, nonces and attributes.
SameAccounts(A, B) ==
    \A a \in Address :
      /\ A[a] = None <=> B[a] = None
      /\ A[a] # None => B[a].space = A[a].space /\ B[a].wallet = A[a].wallet
SameSpaces(S, T) ==
    \A i \in SpaceId :
      /\ S[i] = None <=> T[i] = None
      /\ S[i] # None => T[i].bind = S[i].bind
SameBindings(s, t) == /\ SameAccounts(ShownAccounts(s), ShownAccounts(t))
                      /\ SameSpaces(ShownSpaces(s), ShownSpaces(t))

LEMMA SameKeeps ==
  ASSUME NEW s, NEW t, SameBindings(s, t), NEW w
  PROVE  /\ Agree(ShownAccounts(s), ShownSpaces(s))
              => Agree(ShownAccounts(t), ShownSpaces(t))
         /\ WalletsBelow(ShownAccounts(s), w) => WalletsBelow(ShownAccounts(t), w)
<1> DEFINE A == ShownAccounts(s)  B == ShownAccounts(t)
           S == ShownSpaces(s)    T == ShownSpaces(t)
<1>1. SameAccounts(A, B) /\ SameSpaces(S, T)
  BY DEF SameBindings
<1> HIDE DEF A, B, S, T
<1>2. Agree(A, S) => Agree(B, T)
  BY <1>1, SMTT(30) DEF Agree, Bound, SameAccounts, SameSpaces
<1>3. WalletsBelow(A, w) => WalletsBelow(B, w)
  BY <1>1 DEF WalletsBelow, SameAccounts
<1> QED
  BY <1>2, <1>3 DEF A, B, S, T

LEMMA SameTransitive ==
  ASSUME NEW s, NEW t, NEW u, SameBindings(s, t), SameBindings(t, u)
  PROVE  SameBindings(s, u)
BY DEF SameBindings, SameAccounts, SameSpaces

\* The change of an account that keeps its space and its wallet.
LEMMA SetAccountSame ==
  ASSUME TriesOK, NEW s, Good(s), NEW a \in Address, NEW o \in Account,
         s.acc[a] # None, o.space = s.acc[a].space, o.wallet = s.acc[a].wallet
  PROVE  SameBindings(s, SetAccount(s, a, o))
<1> DEFINE t == SetAccount(s, a, o)
<1>1. t.spc = s.spc /\ t.acc = [s.acc EXCEPT ![a] = o]
  BY SetAccountGood, SMTT(30)
<1> HIDE DEF t
<1>2. /\ ShownAccounts(t) = [ShownAccounts(s) EXCEPT ![a] = o]
      /\ ShownSpaces(t) = ShownSpaces(s)
  BY <1>1, ShowsAccount, SMTT(30)
<1>3. /\ ShownAccounts(t)[a] = o /\ ShownAccounts(s)[a] = s.acc[a]
      /\ \A b \in Address \ {a} : ShownAccounts(t)[b] = ShownAccounts(s)[b]
  BY <1>2 DEF ShownAccounts
<1>4. SameAccounts(ShownAccounts(s), ShownAccounts(t))
  BY <1>3, NoneApart DEF SameAccounts
<1>5. SameBindings(s, t)
  BY <1>2, <1>4 DEF SameBindings, SameSpaces
<1> QED
  BY <1>5 DEF t

LEMMA SetSpaceSame ==
  ASSUME TriesOK, NEW s, Good(s), NEW i \in SpaceId, NEW o \in Space,
         s.spc[i] # None, o.bind = s.spc[i].bind
  PROVE  SameBindings(s, SetSpace(s, i, o))
<1> DEFINE t == SetSpace(s, i, o)
<1>1. t.acc = s.acc /\ t.spc = [s.spc EXCEPT ![i] = o]
  BY SetSpaceGood, SMTT(30)
<1> HIDE DEF t
<1>2. /\ ShownSpaces(t) = [ShownSpaces(s) EXCEPT ![i] = o]
      /\ ShownAccounts(t) = ShownAccounts(s)
  BY <1>1, ShowsSpace, SMTT(30)
<1>3. /\ ShownSpaces(t)[i] = o /\ ShownSpaces(s)[i] = s.spc[i]
      /\ \A j \in SpaceId \ {i} : ShownSpaces(t)[j] = ShownSpaces(s)[j]
  BY <1>2 DEF ShownSpaces
<1>4. SameSpaces(ShownSpaces(s), ShownSpaces(t))
  BY <1>3, NoneApart DEF SameSpaces
<1>5. SameBindings(s, t)
  BY <1>2, <1>4 DEF SameBindings, SameAccounts
<1> QED
  BY <1>5 DEF t

LEMMA GetSame ==
  ASSUME TriesOK, NEW s, Good(s)
  PROVE  /\ \A a \in Address : SameBindings(s, GetAccountObject(s, a))
         /\ \A i \in SpaceId : SameBindings(s, GetSpaceObject(s, i))
BY GetAccountShows, GetSpaceShows DEF SameBindings, SameAccounts, SameSpaces

LEMMA BalanceSame ==
  ASSUME TriesOK, NEW s, Good(s), NEW a \in Address, NEW n \in Int
  PROVE  /\ SameBindings(s, SetBalance(s, a, n))
         /\ SameBindings(s, AddBalance(s, a, n))
         /\ SameBindings(s, SubBalance(s, a, n))
<1> DEFINE t == GetAccountObject(s, a)
<1>1. Good(t) /\ SameBindings(s, t)
  BY GetAccountGood, GetSame
<1>2. \A m \in Int : t.acc[a] # None =>
        SameBindings(s, SetAccount(t, a, [t.acc[a] EXCEPT !.balance = m]))
  <2> SUFFICES ASSUME NEW m \in Int, t.acc[a] # None
               PROVE  SameBindings(s, SetAccount(t, a, [t.acc[a] EXCEPT !.balance = m]))
    OBVIOUS
  <2> DEFINE o == [t.acc[a] EXCEPT !.balance = m]
  <2>1. t.acc[a] \in Account
    BY <1>1 DEF Good, States
  <2>2. o \in Account /\ o.space = t.acc[a].space /\ o.wallet = t.acc[a].wallet
    BY <2>1 DEF Account
  <2> HIDE DEF t, o
  <2>3. SameBindings(t, SetAccount(t, a, o))
    BY <1>1, <2>2, SetAccountSame
  <2>4. SameBindings(s, SetAccount(t, a, o))
    BY <1>1, <2>3, SameTransitive
  <2> QED
    BY <2>4 DEF o
<1>3. \A m \in Int : SameBindings(s, AddBalance(s, a, m))
  <2> SUFFICES ASSUME NEW m \in Int
               PROVE  SameBindings(s, AddBalance(s, a, m))
    OBVIOUS
  <2>1. CASE t.acc[a] = None \/ m = 0
    BY <1>1, <2>1 DEF AddBalance
  <2>2. CASE ~(t.acc[a] = None \/ m = 0)
    <3>1. AddBalance(s, a, m)
            = SetAccount(t, a, [t.acc[a] EXCEPT !.balance = t.acc[a].balance + m])
      BY <2>2 DEF AddBalance
    <3>2. t.acc[a].balance + m \in Int
      BY <1>1, <2>2, SMTT(30) DEF Good, States, Account
    <3> QED
      BY <1>2, <2>2, <3>1, <3>2
  <2> QED
    BY <2>1, <2>2
<1>4. SameBindings(s, SetBalance(s, a, n))
  BY <1>1, <1>2 DEF SetBalance
<1> QED
  BY <1>3, <1>4, SMTT(30) DEF SubBalance

LEMMA AttributeSame ==
  ASSUME TriesOK, NEW s, Good(s), NEW a \in Address, NEW k \in Key,
         NEW v \in Value \cup {None}
  PROVE  SameBindings(s, SetAttribute(s, a, k, v))
<1> DEFINE t == GetAccountObject(s, a)
           o == [t.acc[a] EXCEPT !.attr[k] = v]
<1>1. Good(t) /\ SameBindings(s, t)
  BY GetAccountGood, GetSame
<1>2. CASE t.acc[a] = None
  BY <1>1, <1>2 DEF SetAttribute
<1>3. CASE t.acc[a] # None
  <2>1. t.acc[a] \in Account
    BY <1>1, <1>3 DEF Good, States
  <2>2. o \in Account /\ o.space = t.acc[a].space /\ o.wallet = t.acc[a].wallet
    BY <2>1 DEF Account
  <2>3. SetAttribute(s, a, k, v) = SetAccount(t, a, o)
    BY <1>3 DEF SetAttribute
  <2> HIDE DEF t, o
  <2>4. SameBindings(t, SetAccount(t, a, o))
    BY <1>1, <1>3, <2>2, SetAccountSame
  <2> QED
    BY <1>1, <2>3, <2>4, SameTransitive
<1> QED
  BY <1>2, <1>3

LEMMA SpaceBalanceSame ==
  ASSUME TriesOK, NEW s, Good(s), NEW i \in SpaceId, NEW n \in Int
  PROVE  SameBindings(s, AddSpaceBalanceByID(s, i, n))
<1> DEFINE t == GetSpaceObject(s, i)
           q == t.spc[i]
           o == [q EXCEPT !.balance = q.balance + n, !.nonce = q.nonce + 1]
<1>1. Good(t) /\ SameBindings(s, t)
  BY GetSpaceGood, GetSame
<1>2. CASE q = None \/ n = 0
  BY <1>1, <1>2 DEF AddSpaceBalanceByID
<1>3. CASE ~(q = None \/ n = 0)
  <2>1. q \in Space
    BY <1>1, <1>3 DEF Good, States
  <2>2. AddSpaceBalanceByID(s, i, n) = SetSpace(t, i, o)
    BY <1>3 DEF AddSpaceBalanceByID, SetSpaceBalance
  <2>3. o \in Space /\ o.bind = q.bind
    <3>1. q.balance + n \in Int /\ q.nonce + 1 \in Nat /\ q.bind \in [Address -> Nat]
      BY <2>1, SMTT(30) DEF Space
    <3> HIDE DEF q
    <3> QED
      BY <2>1, <3>1 DEF Space
  <2> HIDE DEF t, o
  <2>4. SameBindings(t, SetSpace(t, i, o))
    BY <1>1, <1>3, <2>3, SetSpaceSame
  <2> QED
    BY <1>1, <2>2, <2>4, SameTransitive
<1> QED
  BY <1>2, <1>3

LEMMA LiquidationSame ==
  ASSUME TriesOK, NEW s, Good(s), NEW i \in SpaceId, NEW n \in Int
  PROVE  /\ Good(LiquidationToState(s, i, n))
         /\ SameBindings(s, LiquidationToState(s, i, n))
<1> DEFINE t == GetSpaceObject(s, i)
           balance == IF t.spc[i] = None THEN 0 ELSE t.spc[i].balance
           m == IF balance > n THEN n ELSE balance
<1>1. Good(t) /\ SameBindings(s, t)
  BY GetSpaceGood, GetSame
<1>2. balance \in Int
  BY <1>1, SMTT(30) DEF Good, States, Space
<1>3. m \in Int /\ -m \in Int
  <2> HIDE DEF balance
  <2> QED
    BY <1>2, SMTT(30)
<1>4. LiquidationToState(s, i, n) = AddSpaceBalanceByID(t, i, -m)
  BY DEF LiquidationToState, SubSpaceBalanceByID
<1> HIDE DEF t, m
<1>5. \A k \in Int : /\ Good(AddSpaceBalanceByID(t, i, k))
                     /\ SameBindings(t, AddSpaceBalanceByID(t, i, k))
  BY <1>1, SpaceBalanceGood, SpaceBalanceSame
<1>6. /\ Good(AddSpaceBalanceByID(t, i, -m))
      /\ SameBindings(t, AddSpaceBalanceByID(t, i, -m))
  BY <1>3, <1>5
<1> QED
  BY <1>1, <1>4, <1>6, SameTransitive

-----------------------------------------------------------------------------
(* The account leaves its space and is bound to a new one.                 *)

\* The accounts of B are those of A, with their wallets, but for the space of a.
OnlySpaceOf(A, B, a) ==
    /\ \A b \in Address \ {a} : B[b] = A[b]
    /\ A[a] # None /\ B[a] # None /\ B[a].wallet = A[a].wallet

LEMMA BothShow ==
  ASSUME TriesOK, NEW s, Good(s), NEW i \in SpaceId, NEW a \in Address,
         NEW o \in Account, NEW p \in Space
  PROVE  LET t == SetSpace(SetAccount(s, a, o), i, p)
         IN  /\ Good(t)
             /\ ShownAccounts(t) = [ShownAccounts(s) EXCEPT ![a] = o]
             /\ ShownSpaces(t) = [ShownSpaces(s) EXCEPT ![i] = p]
<1> DEFINE u == SetAccount(s, a, o)
           t == SetSpace(u, i, p)
<1>1. Good(u) /\ u.spc = s.spc /\ u.acc = [s.acc EXCEPT ![a] = o]
  BY SetAccountGood, SMTT(30)
<1> HIDE DEF u
<1>2. Good(t) /\ t.acc = u.acc /\ t.spc = [u.spc EXCEPT ![i] = p]
  BY <1>1, SetSpaceGood, SMTT(30)
<1> HIDE DEF t
<1>3. /\ ShownAccounts(u) = [ShownAccounts(s) EXCEPT ![a] = o]
      /\ ShownSpaces(u) = ShownSpaces(s)
  BY <1>1, ShowsAccount
<1>4. /\ ShownSpaces(t) = [ShownSpaces(u) EXCEPT ![i] = p]
      /\ ShownAccounts(t) = ShownAccounts(u)
  BY <1>1, <1>2, ShowsSpace
<1>5. /\ Good(t)
      /\ ShownAccounts(t) = [ShownAccounts(s) EXCEPT ![a] = o]
      /\ ShownSpaces(t) = [ShownSpaces(s) EXCEPT ![i] = p]
  BY <1>2, <1>3, <1>4
<1> QED
  BY <1>5 DEF t, u

\* Taking an account off the space it is bound to, on both sides.
LEMMA UnbindAgrees ==
  ASSUME NEW A \in [Address -> Account \cup {None}],
         NEW S \in [SpaceId -> Space \cup {None}],
         NEW a \in Address, A[a] # None, NEW j \in SpaceId, A[a].space = j,
         S[j] # None, Agree(A, S)
  PROVE  Agree([A EXCEPT ![a] = [A[a] EXCEPT !.space = 0]],
               [S EXCEPT ![j] = [S[j] EXCEPT !.bind[a] = 0]])
<1> DEFINE o == [A[a] EXCEPT !.space = 0]
           p == [S[j] EXCEPT !.bind[a] = 0]
           B == [A EXCEPT ![a] = o]
           T == [S EXCEPT ![j] = p]
<1>1. A[a] \in Account /\ S[j] \in Space
  OBVIOUS
<1>2. o \in Account /\ o.space = 0
  BY <1>1, StateAssumption DEF Account
<1>3. /\ p \in Space /\ p.bind[a] = 0
      /\ \A b \in Address \ {a} : p.bind[b] = S[j].bind[b]
  BY <1>1 DEF Space
<1>4. o # None /\ p # None
  BY <1>2, <1>3, NoneApart
<1> HIDE DEF o, p
<1>5. /\ B[a] = o /\ \A b \in Address \ {a} : B[b] = A[b]
      /\ T[j] = p /\ \A i \in SpaceId \ {j} : T[i] = S[i]
  OBVIOUS
<1> HIDE DEF B, T
<1>6. ASSUME NEW b \in Address, NEW i \in SpaceId \ {0}
      PROVE  IF T[i] = None THEN ~Bound(B, b, i)
             ELSE T[i].bind[b] = IF Bound(B, b, i) THEN 1 ELSE 0
  <2>0. IF S[i] = None THEN ~Bound(A, b, i)
        ELSE S[i].bind[b] = IF Bound(A, b, i) THEN 1 ELSE 0
    BY DEF Agree
  <2>1. CASE b = a
    <3>1. ~Bound(B, b, i)
      BY <1>2, <1>5, <2>1 DEF Bound
    <3>2. CASE i = j
      BY <1>3, <1>5, <2>1, <3>1, <3>2
    <3>3. CASE i # j
      BY <1>5, <2>0, <2>1, <3>1, <3>3 DEF Bound
    <3> QED
      BY <3>2, <3>3
  <2>2. CASE b # a
    <3>1. Bound(B, b, i) <=> Bound(A, b, i)
      BY <1>5, <2>2 DEF Bound
    <3>2. CASE i = j
      BY <1>3, <1>4, <1>5, <2>0, <2>2, <3>1, <3>2
    <3>3. CASE i # j
      BY <1>5, <2>0, <3>1, <3>3
    <3> QED
      BY <3>2, <3>3
  <2> QED
    BY <2>1, <2>2
<1>7. Agree(B, T)
  BY <1>6 DEF Agree
<1> QED
  BY <1>7 DEF B, T, o, p

\* Binding an unbound account to a space that exists, on both sides.
LEMMA BindAgrees ==
  ASSUME NEW A \in [Address -> Account \cup {None}],
         NEW S \in [SpaceId -> Space \cup {None}],
         NEW a \in Address, A[a] # None, A[a].space = 0, NEW j \in SpaceId,
         S[j] # None, Agree(A, S)
  PROVE  Agree([A EXCEPT ![a] = [A[a] EXCEPT !.space = j]],
               [S EXCEPT ![j] = [S[j] EXCEPT !.bind[a] = S[j].bind[a] + 1]])
<1> DEFINE o == [A[a] EXCEPT !.space = j]
           q == S[j]
           p == [q EXCEPT !.bind[a] = q.bind[a] + 1]
           B == [A EXCEPT ![a] = o]
           T == [S EXCEPT ![j] = p]
<1>1. A[a] \in Account /\ q \in Space
  OBVIOUS
<1>2. o \in Account /\ o.space = j
  BY <1>1 DEF Account
<1>3. /\ p \in Space /\ p.bind[a] = q.bind[a] + 1
      /\ \A b \in Address \ {a} : p.bind[b] = q.bind[b]
  <2>1. q.bind \in [Address -> Nat] /\ q.bind[a] + 1 \in Nat
    BY <1>1, SMTT(30) DEF Space
  <2> HIDE DEF q
  <2> QED
    BY <1>1, <2>1 DEF Space
<1>4. o # None /\ p # None
  BY <1>2, <1>3, NoneApart
<1>5. /\ B[a] = o /\ \A b \in Address \ {a} : B[b] = A[b]
      /\ T[j] = p /\ \A i \in SpaceId \ {j} : T[i] = S[i]
  <2> HIDE DEF o, p
  <2> QED
    OBVIOUS
<1> HIDE DEF o, p, B, T
<1>6. ASSUME NEW b \in Address, NEW i \in SpaceId \ {0}
      PROVE  IF T[i] = None THEN ~Bound(B, b, i)
             ELSE T[i].bind[b] = IF Bound(B, b, i) THEN 1 ELSE 0
  <2>0. IF S[i] = None THEN ~Bound(A, b, i)
        ELSE S[i].bind[b] = IF Bound(A, b, i) THEN 1 ELSE 0
    BY DEF Agree
  <2>1. CASE b = a
    <3>1. ~Bound(A, b, i)
      BY <2>1 DEF Bound
    <3>2. CASE i = j
      <4>1. q.bind[a] = 0
        BY <2>0, <2>1, <3>1, <3>2
      <4>2. Bound(B, b, i)
        BY <1>2, <1>4, <1>5, <2>1, <3>2 DEF Bound
      <4>3. T[i] = p /\ p.bind[b] = 1
        BY <1>3, <1>5, <2>1, <3>2, <4>1, SMTT(30)
      <4> QED
        BY <1>4, <4>2, <4>3
    <3>3. CASE i # j
      <4>1. ~Bound(B, b, i)
        BY <1>2, <1>5, <2>1, <3>3 DEF Bound
      <4> QED
        BY <1>5, <2>0, <3>1, <3>3, <4>1
    <3> QED
      BY <3>2, <3>3
  <2>2. CASE b # a
    <3>1. Bound(B, b, i) <=> Bound(A, b, i)
      BY <1>5, <2>2 DEF Bound
    <3>2. CASE i = j
      BY <1>3, <1>4, <1>5, <2>0, <2>2, <3>1, <3>2
    <3>3. CASE i # j
      BY <1>5, <2>0, <3>1, <3>3
    <3> QED
      BY <3>2, <3>3
  <2> QED
    BY <2>1, <2>2
<1>7. Agree(B, T)
  BY <1>6 DEF Agree
<1> QED
  BY <1>7 DEF B, T, o, p

\* After LeavePrevious the account is bound to no space, and nothing else of
\* an account and no other binding has changed.
LEMMA LeaveShows ==
  ASSUME TriesOK, NEW s, Good(s), NEW a \in Address, s.acc[a] # None,
         Agree(ShownAccounts(s), ShownSpaces(s))
  PROVE  LET t == LeavePrevious(s, a)
         IN  /\ Agree(ShownAccounts(t), ShownSpaces(t))
             /\ OnlySpaceOf(ShownAccounts(s), ShownAccounts(t), a)
             /\ ShownAccounts(t)[a].space = 0
<1> DEFINE A == ShownAccounts(s)
           S == ShownSpaces(s)
           j == s.acc[a].space
           u == GetSpaceObject(s, j)
<1>1. s.acc[a] \in Account /\ j \in SpaceId /\ A[a] = s.acc[a]
  BY DEF Good, States, Account, ShownAccounts
<1>2. /\ A \in [Address -> Account \cup {None}]
      /\ S \in [SpaceId -> Space \cup {None}]
  BY ShownTypes
<1>3. CASE EmptyAccount(s.acc[a])
  BY <1>1, <1>3 DEF LeavePrevious, OnlySpaceOf, EmptyAccount
<1>4. CASE ~EmptyAccount(s.acc[a])
  <2>1. LeavePrevious(s, a) = UnassociateSpaceAndAccount(u, j, a)
    BY <1>4 DEF LeavePrevious
  <2>2. /\ Good(u) /\ ShownAccounts(u) = A /\ ShownSpaces(u) = S
        /\ u.spc[j] = S[j] /\ u.acc[a] = s.acc[a]
    BY <1>1, GetSpaceGood, GetSpaceShows
  <2> HIDE DEF u
  <2>3. CASE S[j] = None
    <3>1. LeavePrevious(s, a) = u
      BY <2>1, <2>2, <2>3 DEF UnassociateSpaceAndAccount
    <3>2. j = 0
      BY <1>1, <2>3 DEF Agree, Bound
    <3> QED
      BY <1>1, <2>2, <3>1, <3>2 DEF OnlySpaceOf
  <2>4. CASE S[j] # None
    <3> DEFINE o == [A[a] EXCEPT !.space = 0]
               p == [S[j] EXCEPT !.bind[a] = 0]
               t == SetSpace(SetAccount(u, a, o), j, p)
    <3>1. LeavePrevious(s, a) = t
      BY <1>1, <2>1, <2>2, <2>4 DEF UnassociateSpaceAndAccount
    <3>2. o \in Account /\ o.space = 0 /\ o.wallet = A[a].wallet
      BY <1>1, StateAssumption DEF Account
    <3>3. p \in Space
      BY <1>1, <1>2, <2>4 DEF Space
    <3>4. ShownAccounts(t) = [A EXCEPT ![a] = o] /\ ShownSpaces(t) = [S EXCEPT ![j] = p]
      <4> HIDE DEF o, p, j
      <4> QED
        BY <1>1, <2>2, <3>2, <3>3, BothShow, SMTT(30)
    <3>5. Agree([A EXCEPT ![a] = o], [S EXCEPT ![j] = p])
      <4>1. A[a] # None /\ A[a].space = j /\ Agree(A, S)
        BY <1>1
      <4> HIDE DEF A, S, j
      <4> QED
        BY <1>1, <1>2, <2>4, <4>1, UnbindAgrees
    <3>6. OnlySpaceOf(A, ShownAccounts(t), a) /\ ShownAccounts(t)[a].space = 0
      <4> HIDE DEF o, t, A
      <4> QED
        BY <1>1, <1>2, <3>2, <3>4, NoneApart DEF OnlySpaceOf
    <3> QED
      BY <3>1, <3>4, <3>5, <3>6
  <2> QED
    BY <2>3, <2>4
<1> QED
  BY <1>3, <1>4

LEMMA AssociateShows ==
  ASSUME TriesOK, NEW s, Good(s), NEW a \in Address, s.acc[a] # None,
         NEW i \in SpaceId, s.spc[i] # None,
         Agree(ShownAccounts(s), ShownSpaces(s))
  PROVE  LET t == AssociateSpaceAndAccount(s, i, a)
         IN  /\ Agree(ShownAccounts(t), ShownSpaces(t))
             /\ OnlySpaceOf(ShownAccounts(s), ShownAccounts(t), a)
<1> DEFINE u == LeavePrevious(s, a)
           A == ShownAccounts(u)
           S == ShownSpaces(u)
<1>1. Good(u) /\ u.acc[a] # None /\ u.spc[i] # None
  BY LeaveGood DEF Keeps
<1>2. Agree(A, S) /\ OnlySpaceOf(ShownAccounts(s), A, a) /\ A[a].space = 0
  BY LeaveShows
<1> HIDE DEF u
<1>3. /\ A \in [Address -> Account \cup {None}]
      /\ S \in [SpaceId -> Space \cup {None}]
  BY <1>1, ShownTypes
<1>4. A[a] = u.acc[a] /\ S[i] = u.spc[i] /\ A[a] \in Account /\ S[i] \in Space
  BY <1>1 DEF ShownAccounts, ShownSpaces, Good, States
<1> DEFINE o == [A[a] EXCEPT !.space = i]
           q == S[i]
           p == [q EXCEPT !.bind[a] = q.bind[a] + 1]
           t == SetSpace(SetAccount(u, a, o), i, p)
<1>5. AssociateSpaceAndAccount(s, i, a) = t
  BY <1>4 DEF AssociateSpaceAndAccount, u
<1>6. o \in Account /\ o.wallet = A[a].wallet
  BY <1>4 DEF Account
<1>7. p \in Space
  <2>1. q.bind[a] + 1 \in Nat
    BY <1>4, SMTT(30) DEF Space
  <2> HIDE DEF q
  <2> QED
    BY <1>4, <2>1 DEF Space, q
<1>8. ShownAccounts(t) = [A EXCEPT ![a] = o] /\ ShownSpaces(t) = [S EXCEPT ![i] = p]
  <2> HIDE DEF o, p
  <2> QED
    BY <1>1, <1>6, <1>7, BothShow, SMTT(30)
<1>9. Agree([A EXCEPT ![a] = o], [S EXCEPT ![i] = p])
  <2>1. S[i] # None /\ A[a] # None
    BY <1>1, <1>4
  <2> HIDE DEF A, S
  <2> QED
    BY <1>2, <1>3, <2>1, BindAgrees
<1>10. OnlySpaceOf(ShownAccounts(s), ShownAccounts(t), a)
  <2> HIDE DEF A, o, t
  <2> QED
    BY <1>2, <1>3, <1>6, <1>8, NoneApart DEF OnlySpaceOf
<1> QED
  BY <1>5, <1>8, <1>9, <1>10

-----------------------------------------------------------------------------
(* CreateSpaceAndBindAddr.                                                 *)

\* B has the accounts of A, with their wallets, and a, with wallet w if it is
\* new.
WithAccount(A, B, a, w) ==
    /\ \A b \in Address \ {a} : B[b] = A[b]
    /\ B[a] # None
    /\ B[a].wallet = IF A[a] = None THEN w ELSE A[a].wallet

LEMMA CreateAccountShows ==
  ASSUME TriesOK, NEW s, Good(s), NEW a \in Address, NEW w \in Nat,
         ShownAccounts(s)[a] = None, Agree(ShownAccounts(s), ShownSpaces(s))
  PROVE  LET t == CreateAccountObject(s, w, a)
         IN  /\ Good(t) /\ t.acc[a] # None
             /\ Agree(ShownAccounts(t), ShownSpaces(t))
             /\ WithAccount(ShownAccounts(s), ShownAccounts(t), a, w)
<1> DEFINE t == CreateAccountObject(s, w, a)
           A == ShownAccounts(s)
           B == ShownAccounts(t)
<1>1. s.acc[a] = None /\ trieAccount[a] = None
  BY DEF ShownAccounts
<1>2. Good(t) /\ t.acc[a] # None
  BY <1>1, CreateAccountGood
<1>3. t.spc = s.spc /\ t.acc = [s.acc EXCEPT ![a] = NewAccount(w)]
  BY DEF CreateAccountObject, Good, States
<1>4. NewAccount(w) \in Account /\ NewAccount(w).wallet = w /\ NewAccount(w).space = 0
  BY NewAccountType DEF NewAccount
<1> HIDE DEF t
<1>5. B = [A EXCEPT ![a] = NewAccount(w)] /\ ShownSpaces(t) = ShownSpaces(s)
  BY <1>3, <1>4, ShowsAccount
<1>6. B[a] = NewAccount(w) /\ \A b \in Address \ {a} : B[b] = A[b]
  BY <1>5 DEF ShownAccounts
<1>7. WithAccount(A, B, a, w)
  BY <1>4, <1>6, NoneApart DEF WithAccount
<1>8. Agree(B, ShownSpaces(t))
  <2>1. \A b \in Address, i \in SpaceId \ {0} : Bound(B, b, i) <=> Bound(A, b, i)
    BY <1>4, <1>6 DEF Bound
  <2> HIDE DEF A, B
  <2>2. Agree(A, ShownSpaces(s))
    BY DEF A
  <2> QED
    BY <1>5, <2>1, <2>2 DEF Agree
<1> QED
  BY <1>2, <1>7, <1>8 DEF t

LEMMA CreateSpaceShows ==
  ASSUME TriesOK, NEW s, Good(s), NEW i \in SpaceId,
         ShownSpaces(s)[i] = None, Agree(ShownAccounts(s), ShownSpaces(s))
  PROVE  LET t == CreateSpaceObject(s, i)
         IN  /\ Good(t) /\ t.acc = s.acc /\ t.spc[i] # None
             /\ Agree(ShownAccounts(t), ShownSpaces(t))
             /\ ShownAccounts(t) = ShownAccounts(s)
<1> DEFINE t == CreateSpaceObject(s, i)
           S == ShownSpaces(s)
           T == ShownSpaces(t)
<1>1. s.spc[i] = None /\ trieSpace[i] = None
  BY DEF ShownSpaces
<1>2. Good(t) /\ t.acc = s.acc /\ t.spc[i] # None
  BY <1>1, CreateSpaceGood
<1>3. t.spc = [s.spc EXCEPT ![i] = NewSpace]
  BY DEF CreateSpaceObject, Good, States
<1>4. NewSpace \in Space /\ NewSpace # None /\ \A b \in Address : NewSpace.bind[b] = 0
  BY NewSpaceType, NoneApart DEF NewSpace
<1> HIDE DEF t
<1>5. T = [S EXCEPT ![i] = NewSpace] /\ ShownAccounts(t) = ShownAccounts(s)
  BY <1>2, <1>3, <1>4, ShowsSpace, SMTT(30)
<1>6. T[i] = NewSpace /\ \A j \in SpaceId \ {i} : T[j] = S[j]
  BY <1>5 DEF ShownSpaces
<1>7. Agree(ShownAccounts(s), T)
  <2>1. Agree(ShownAccounts(s), S) /\ S[i] = None
    OBVIOUS
  <2> HIDE DEF S, T
  <2> QED
    BY <1>4, <1>6, <2>1, SMTT(30) DEF Agree
<1> QED
  BY <1>2, <1>5, <1>7 DEF t

\* The account is made if it is new, with the wallet number given, and every
\* account is bound to the spaces that list it.
LEMMA CreateShows ==
  ASSUME TriesOK, NEW s, Good(s), NEW i \in SpaceId, NEW w \in Nat,
         NEW a \in Address, Agree(ShownAccounts(s), ShownSpaces(s))
  PROVE  LET t == CreateSpaceAndBindAddr(s, i, w, a)
         IN  /\ Good(t)
             /\ Agree(ShownAccounts(t), ShownSpaces(t))
             /\ WithAccount(ShownAccounts(s), ShownAccounts(t), a, w)
<1> DEFINE t == CreateSpaceAndBindAddr(s, i, w, a)
           s1 == GetAccountObject(s, a)
           s2 == IF s1.acc[a] = None THEN CreateAccountObject(s1, w, a) ELSE s1
           s3 == GetSpaceObject(s2, i)
           s4 == CreateSpaceObject(s3, i)
<1>0. t = IF s3.spc[i] # None THEN s3 ELSE AssociateSpaceAndAccount(s4, i, a)
  BY DEF CreateSpaceAndBindAddr
<1>1. /\ Good(s1) /\ ShownAccounts(s1) = ShownAccounts(s)
      /\ ShownSpaces(s1) = ShownSpaces(s) /\ s1.acc[a] = ShownAccounts(s)[a]
  BY GetAccountGood, GetAccountShows
<1> HIDE DEF s1
<1>2. /\ Good(s2) /\ s2.acc[a] # None
      /\ Agree(ShownAccounts(s2), ShownSpaces(s2))
      /\ WithAccount(ShownAccounts(s), ShownAccounts(s2), a, w)
  <2>1. CASE s1.acc[a] = None
    BY <1>1, <2>1, CreateAccountShows
  <2>2. CASE s1.acc[a] # None
    BY <1>1, <2>2 DEF WithAccount
  <2> QED
    BY <2>1, <2>2
<1> HIDE DEF s2
<1>3. /\ Good(s3) /\ s3.acc[a] # None
      /\ ShownAccounts(s3) = ShownAccounts(s2)
      /\ ShownSpaces(s3) = ShownSpaces(s2) /\ s3.spc[i] = ShownSpaces(s2)[i]
  BY <1>2, GetSpaceGood, GetSpaceShows
<1>4. Good(t)
  BY CreateGood
<1> HIDE DEF s3
<1>5. CASE s3.spc[i] # None
  <2>1. t = s3
    BY <1>0, <1>5
  <2> HIDE DEF t
  <2>2. Agree(ShownAccounts(t), ShownSpaces(t))
    BY <1>2, <1>3, <2>1
  <2>3. WithAccount(ShownAccounts(s), ShownAccounts(t), a, w)
    BY <1>2, <1>3, <2>1
  <2> QED
    BY <1>4, <2>2, <2>3 DEF t
<1>6. CASE s3.spc[i] = None
  <2>1. t = AssociateSpaceAndAccount(s4, i, a)
    BY <1>0, <1>6
  <2>2. /\ Good(s4) /\ s4.acc[a] # None /\ s4.spc[i] # None
        /\ Agree(ShownAccounts(s4), ShownSpaces(s4))
        /\ ShownAccounts(s4) = ShownAccounts(s2)
    BY <1>2, <1>3, <1>6, CreateSpaceShows
  <2> HIDE DEF t, s4
  <2>3. /\ Agree(ShownAccounts(t), ShownSpaces(t))
        /\ OnlySpaceOf(ShownAccounts(s4), ShownAccounts(t), a)
    BY <2>1, <2>2, AssociateShows
  <2>4. WithAccount(ShownAccounts(s), ShownAccounts(t), a, w)
    BY <1>2, <2>2, <2>3 DEF OnlySpaceOf, WithAccount
  <2> QED
    BY <1>4, <2>3, <2>4 DEF t
<1> QED
  BY <1>5, <1>6

\* The wallet number a new account gets is below what WalletAfter returns,
\* and that of no other account.
LEMMA WalletsGrow ==
  ASSUME NEW A \in [Address -> Account \cup {None}],
         NEW B \in [Address -> Account \cup {None}], NEW a \in Address,
         NEW v \in Nat, NEW w \in Nat, v <= w,
         WalletsBelow(A, v), WithAccount(A, B, a, w)
  PROVE  WalletsBelow(B, IF A[a] = None THEN w + 1 ELSE w)
<1>0. \A b \in Address : /\ A[b] # None => A[b].wallet \in Nat
                         /\ B[b] # None => B[b].wallet \in Nat
  BY DEF Account
<1>1. \A b \in Address : A[b] # None => A[b].wallet < w
  BY <1>0, SMTT(30) DEF WalletsBelow
<1>2. CASE A[a] = None
  <2>1. B[a].wallet = w /\ \A b \in Address \ {a} : B[b] = A[b]
    BY <1>2 DEF WithAccount
  <2>2. \A b \in Address : B[b] # None => B[b].wallet < w + 1
    BY <1>0, <1>1, <2>1, SMTT(30)
  <2>3. \A b, c \in Address : b # c /\ B[b] # None /\ B[c] # None
                                => B[b].wallet # B[c].wallet
    BY <1>0, <1>1, <2>1, SMTT(30) DEF WalletsBelow
  <2> QED
    BY <1>2, <2>2, <2>3 DEF WalletsBelow
<1>3. CASE A[a] # None
  <2>1. B[a].wallet = A[a].wallet /\ \A b \in Address \ {a} : B[b] = A[b]
    BY <1>3 DEF WithAccount
  <2>2. \A b \in Address : B[b] # None => B[b].wallet < w
    BY <1>1, <1>3, <2>1
  <2>3. \A b, c \in Address : b # c /\ B[b] # None /\ B[c] # None
                                => B[b].wallet # B[c].wallet
    BY <1>3, <2>1, SMTT(30) DEF WalletsBelow
  <2> QED
    BY <1>3, <2>2, <2>3 DEF WalletsBelow
<1> QED
  BY <1>2, <1>3

-----------------------------------------------------------------------------
(* The execution of transactions implements the ledger.                    *)

\* A configuration file's account, on a StateDB.
MakeAccount(s, c) ==
    SetBalance(CreateSpaceAndBindAddr(s, c.space, c.wallet, c.addr),
               c.addr, c.balance)

GenesisRecord == [addr : Address, space : SpaceId, wallet : Nat, balance : Int]

LEMMA GenesisRecords ==
  \A n \in 1..Len(GenesisAccounts) : GenesisAccounts[n] \in GenesisRecord
<1>1. GenesisAccounts \in Seq(GenesisRecord)
  BY ExecutionAssumption DEF GenesisRecord
<1> QED
  BY <1>1, SMTT(30)

LEMMA MakeAccountGood ==
  ASSUME TriesOK, NEW s, Good(s), NEW c \in GenesisRecord
  PROVE  Good(MakeAccount(s, c))
<1>1. /\ c.space \in SpaceId /\ c.wallet \in Nat /\ c.addr \in Address
      /\ c.balance \in Int
  BY DEF GenesisRecord
<1> DEFINE t == CreateSpaceAndBindAddr(s, c.space, c.wallet, c.addr)
<1>2. Good(t)
  BY <1>1, CreateGood
<1> HIDE DEF t
<1>3. Good(SetBalance(t, c.addr, c.balance))
  BY <1>1, <1>2, BalanceGood
<1> QED
  BY <1>3 DEF MakeAccount, t

LEMMA TxTypes ==
  ASSUME NEW t \in Tx
  PROVE  /\ t.from \in Address /\ t.to \in Address
         /\ t.cost \in Int /\ t.value \in Int /\ t.space \in SpaceId
BY ExecutionAssumption, SMTT(30)

LEMMA ApplyOther ==
  ASSUME TriesOK, NEW s, Good(s), NEW t \in Tx, t.kind # "create"
  PROVE  Good(ApplyTransaction(t, s)) /\ SameBindings(s, ApplyTransaction(t, s))
<1>0. SameBindings(s, s)
  BY DEF SameBindings, SameAccounts, SameSpaces
<1>1. CASE t.kind = "recharge"
  <2> DEFINE u == AddBalance(s, t.to, t.value)
  <2>1. Good(u) /\ SameBindings(s, u)
    BY TxTypes, BalanceGood, BalanceSame
  <2> HIDE DEF u
  <2>2. Good(SubBalance(u, t.from, t.cost)) /\ SameBindings(u, SubBalance(u, t.from, t.cost))
    BY <2>1, TxTypes, BalanceGood, BalanceSame
  <2>3. ApplyTransaction(t, s) = SubBalance(u, t.from, t.cost)
    BY <1>1 DEF ApplyTransaction, u
  <2> QED
    BY <2>1, <2>2, <2>3, SameTransitive
<1>2. CASE t.kind = "attr"
  <2> DEFINE k == CHOOSE k \in Key : TRUE
             v == CHOOSE v \in Value : TRUE
             u == SetAttribute(s, t.to, k, v)
  <2>1. k \in Key /\ v \in Value
    BY ExecutionAssumption
  <2>2. ApplyTransaction(t, s) = SubBalance(u, t.from, t.cost)
    BY <1>2 DEF ApplyTransaction
  <2> HIDE DEF k, v
  <2>3. Good(u) /\ SameBindings(s, u)
    BY <2>1, TxTypes, AttributeGood, AttributeSame
  <2> HIDE DEF u
  <2>4. Good(SubBalance(u, t.from, t.cost)) /\ SameBindings(u, SubBalance(u, t.from, t.cost))
    BY <2>3, TxTypes, BalanceGood, BalanceSame
  <2> QED
    BY <2>2, <2>3, <2>4, SameTransitive
<1>3. CASE t.kind = "charge"
  <2>1. ApplyTransaction(t, s) = SubBalance(s, t.from, t.cost)
    BY <1>3 DEF ApplyTransaction
  <2> QED
    BY <2>1, TxTypes, BalanceGood, BalanceSame
<1>4. CASE t.kind = "report"
  <2>1. ApplyTransaction(t, s) = LiquidationToState(s, t.space, t.value)
    BY <1>4 DEF ApplyTransaction
  <2> QED
    BY <2>1, TxTypes, LiquidationSame
<1>5. CASE t.kind \notin {"create", "recharge", "attr", "charge", "report"}
  <2>1. ApplyTransaction(t, s) = s
    BY <1>5 DEF ApplyTransaction
  <2> QED
    BY <1>0, <2>1
<1> QED
  BY <1>1, <1>2, <1>3, <1>4, <1>5

LEMMA ApplyCreate ==
  ASSUME TriesOK, NEW s, Good(s), NEW t \in Tx, t.kind = "create",
         spaceid \in SpaceId, walletid \in Nat
  PROVE  Good(ApplyTransaction(t, s))
<1> DEFINE u == CreateSpaceAndBindAddr(s, spaceid, walletid, t.to)
<1>1. Good(u)
  BY TxTypes, CreateGood
<1>2. ApplyTransaction(t, s) = SetBalance(u, t.to, 0)
  BY DEF ApplyTransaction
<1> HIDE DEF u
<1> QED
  BY <1>1, <1>2, TxTypes, BalanceGood, SMTT(30)

EInv == IInv /\ ExecTypes

LEMMA WalletAfterType ==
  ASSUME NEW s, NEW w \in Nat, NEW a
  PROVE  WalletAfter(s, w, a) \in Nat
BY SMTT(30) DEF WalletAfter

LEMMA CommitIInv ==
  ASSUME IInv, CommitTo
  PROVE  IInv' /\ (UNCHANGED <<trieAccount, trieSpace>> \/ Writes)
BY NextIInv DEF Next

LEMMA ExecStep ==
  ASSUME EInv, ExecNext
  PROVE  EInv' /\ (UNCHANGED <<trieAccount, trieSpace>> \/ Writes)
<1>0. /\ IInv /\ ExecTypes /\ TriesOK /\ Good(st)
      /\ Len(GenesisAccounts) \in Nat
  BY ExecutionAssumption, SMTT(30) DEF EInv, IInv
<1>1. CASE GenesisAccount
  <2> DEFINE c == GenesisAccounts[done + 1]
  <2>1. done < Len(GenesisAccounts) /\ done + 1 \in 1..Len(GenesisAccounts)
    BY <1>0, <1>1, SMTT(30) DEF GenesisAccount, ExecTypes
  <2>2. c \in GenesisRecord
    BY <2>1, GenesisRecords
  <2>3. Do(MakeAccount(st, c)) /\ walletid' = WalletAfter(st, c.wallet, c.addr)
    BY <1>1 DEF GenesisAccount, MakeAccount
  <2>4. IInv' /\ UNCHANGED <<trieAccount, trieSpace>>
    <3> HIDE DEF c
    <3> QED
      BY <1>0, <2>2, <2>3, MakeAccountGood, DoIInv
  <2>5. walletid' \in Nat
    BY <2>2, <2>3, WalletAfterType DEF GenesisRecord
  <2>6. ExecTypes'
    BY <1>0, <1>1, <2>1, <2>5, SMTT(30) DEF GenesisAccount, ExecTypes, index
  <2> QED
    BY <2>4, <2>6 DEF EInv
<1>2. CASE GenesisBlock
  <2>1. IInv' /\ (UNCHANGED <<trieAccount, trieSpace>> \/ Writes)
    BY <1>0, <1>2, CommitIInv DEF GenesisBlock
  <2>2. ExecTypes'
    BY <1>0, <1>2 DEF GenesisBlock, ExecTypes, work
  <2> QED
    BY <2>1, <2>2 DEF EInv
<1>3. CASE BuildBlock
  <2>1. UNCHANGED vars
    BY <1>3 DEF BuildBlock
  <2>2. ExecTypes'
    BY <1>0, <1>3 DEF BuildBlock, ExecTypes, index
  <2> QED
    BY <1>0, <2>1, <2>2, StutterIInv DEF EInv, vars
<1>4. CASE FinishBlock
  <2>1. IInv' /\ (UNCHANGED <<trieAccount, trieSpace>> \/ Writes)
    BY <1>0, <1>4, CommitIInv DEF FinishBlock
  <2>2. ExecTypes'
    BY <1>0, <1>4 DEF FinishBlock, ExecTypes, index, work
  <2> QED
    BY <2>1, <2>2 DEF EInv
<1>5. ASSUME NEW t \in Tx, AddTx(t)
      PROVE  EInv' /\ UNCHANGED <<trieAccount, trieSpace>>
  <2>1. UNCHANGED vars
    BY <1>5 DEF AddTx
  <2>2. ExecTypes'
    BY <1>0, <1>5 DEF AddTx, ExecTypes, index, work
  <2> QED
    BY <1>0, <2>1, <2>2, StutterIInv DEF EInv, vars
<1>6. ASSUME NEW t \in Tx, Execute(t)
      PROVE  EInv' /\ UNCHANGED <<trieAccount, trieSpace>>
  <2>1. Do(ApplyTransaction(t, st)) /\ (t.kind = "create" => spaceid \in SpaceId)
    BY <1>6 DEF Execute
  <2>2. Good(ApplyTransaction(t, st))
    BY <1>0, <2>1, ApplyOther, ApplyCreate DEF ExecTypes
  <2>3. IInv' /\ UNCHANGED <<trieAccount, trieSpace>>
    BY <1>0, <2>1, <2>2, DoIInv
  <2>4. walletid' \in Nat /\ spaceid' \in Nat
    BY <1>0, <1>6, WalletAfterType, SMTT(30) DEF Execute, WalletIdAfter, ExecTypes
  <2>5. ExecTypes'
    BY <1>0, <1>6, <2>4 DEF Execute, ExecTypes, index
  <2> QED
    BY <2>3, <2>5 DEF EInv
<1>7. CASE Direct
  <2>1. IInv' /\ (UNCHANGED <<trieAccount, trieSpace>> \/ Writes)
    BY <1>0, <1>7, NextIInv DEF Direct
  <2>2. ExecTypes'
    BY <1>0, <1>7 DEF Direct, ExecTypes, index, work
  <2> QED
    BY <2>1, <2>2 DEF EInv
<1> QED
  BY <1>1, <1>2, <1>3, <1>4, <1>5, <1>6, <1>7 DEF ExecNext

LEMMA ExecStutter ==
  ASSUME EInv, UNCHANGED evars
  PROVE  EInv' /\ UNCHANGED vars
<1>1. UNCHANGED vars
  BY DEF evars
<1>2. ExecTypes'
  BY DEF evars, EInv, ExecTypes, index, work
<1> QED
  BY <1>1, <1>2, StutterIInv DEF EInv

LEMMA ExecInitInv == ExecInit => EInv
BY InitIInv, ExecutionAssumption, SMTT(30) DEF ExecInit, EInv, ExecTypes

LEMMA ExecInvariant == ExecSpec => []EInv
<1>1. EInv /\ [ExecNext]_evars => EInv'
  BY ExecStep, ExecStutter
<1> QED
  BY <1>1, ExecInitInv, PTL DEF ExecSpec

\* From the configuration file on, whatever transactions are executed, a
\* commit makes durable exactly what the StateDB showed: the genesis accounts
\* of ToBlock and the switch over the transactions are operations like any
\* other.
THEOREM ExecutionRefinement == ExecSpec => ImplementsLedger
<1>1. ASSUME EInv, ExecNext
      PROVE  Plain!Next
  <2>1. IInv /\ IInv'
    BY <1>1, ExecStep DEF EInv
  <2>2. CASE UNCHANGED <<trieAccount, trieSpace>>
    BY <2>2 DEF Plain!Next, Plain!Change
  <2>3. CASE Writes
    BY <2>1, <2>3, RefinesCommit DEF Plain!Next
  <2> QED
    BY <1>1, <2>2, <2>3, ExecStep
<1>2. EInv /\ [ExecNext]_evars =>
        [Plain!Next]_<<[acc |-> trieAccount, spc |-> trieSpace],
                       [acc |-> ViewAccount, spc |-> ViewSpace]>>
  BY <1>1, ExecStutter, RefinesStutter DEF Committed, Working
<1>3. ExecInit => Plain!Init
  BY RefinesInit DEF ExecInit
<1> QED
  BY <1>2, <1>3, ExecInvariant, PTL DEF ExecSpec, ImplementsLedger, Plain!Spec

-----------------------------------------------------------------------------
(* Bindings and wallets.                                                   *)

\* A commit writes the accounts and spaces shown, without the empty ones, and
\* an empty one is in no binding.
LEMMA CommitAgrees ==
  ASSUME IInv, Writes, NEW w, Agree(ShownAccounts(st), ShownSpaces(st))
  PROVE  /\ Agree(trieAccount, trieSpace)'
         /\ WalletsBelow(ShownAccounts(st), w) => WalletsBelow(trieAccount', w)
         /\ ShownAccounts(st)' = trieAccount' /\ ShownSpaces(st)' = trieSpace'
<1> DEFINE A == ShownAccounts(st)
           S == ShownSpaces(st)
           B == trieAccount'
           T == trieSpace'
<1>1. ViewAccount = A /\ ViewSpace = S
  BY ViewIs DEF ShownAccounts, ShownSpaces
<1>2. /\ \A a \in Address : B[a] = IF A[a] # None /\ EmptyAccount(A[a])
                                   THEN None ELSE A[a]
      /\ \A i \in SpaceId : T[i] = IF S[i] # None /\ EmptySpace(S[i])
                                   THEN None ELSE S[i]
  BY <1>1, CommitsView DEF Writes, NonEmptyLedger, Working
<1>3. /\ A \in [Address -> Account \cup {None}]
      /\ S \in [SpaceId -> Space \cup {None}]
  BY ShownTypes DEF IInv
<1>4. (ShownAccounts(st) = trieAccount /\ ShownSpaces(st) = trieSpace)'
  <2>1. TriesOK'
    BY WritesIInv
  <2> QED
    BY <2>1 DEF Writes, New, TriesOK, ShownAccounts, ShownSpaces
<1>5. Agree(A, S)
  OBVIOUS
<1> HIDE DEF A, S, B, T
<1>6. \A a \in Address, i \in SpaceId \ {0} : Bound(B, a, i) <=> Bound(A, a, i)
  BY <1>2 DEF Bound, EmptyAccount
<1>7. Agree(B, T)
  <2> SUFFICES ASSUME NEW a \in Address, NEW i \in SpaceId \ {0}
               PROVE  IF T[i] = None THEN ~Bound(B, a, i)
                      ELSE T[i].bind[a] = IF Bound(B, a, i) THEN 1 ELSE 0
    BY DEF Agree
  <2>0. IF S[i] = None THEN ~Bound(A, a, i)
        ELSE S[i].bind[a] = IF Bound(A, a, i) THEN 1 ELSE 0
    BY <1>5 DEF Agree
  <2>1. CASE S[i] # None /\ EmptySpace(S[i])
    <3>1. S[i].bind[a] = 0 /\ T[i] = None
      BY <1>2, <2>1 DEF EmptySpace
    <3>2. ~Bound(A, a, i)
      BY <2>0, <2>1, <3>1, SMTT(30)
    <3> QED
      BY <1>6, <3>1, <3>2
  <2>2. CASE ~(S[i] # None /\ EmptySpace(S[i]))
    <3>1. T[i] = S[i]
      BY <1>2, <2>2
    <3> QED
      BY <1>6, <2>0, <3>1
  <2> QED
    BY <2>1, <2>2
<1>8. WalletsBelow(A, w) => WalletsBelow(B, w)
  BY <1>2 DEF WalletsBelow
<1> QED
  BY <1>4, <1>7, <1>8 DEF A, B, T

\* A step on the StateDB that leaves the tries alone shows what its result
\* shows.
LEMMA DoShows ==
  ASSUME NEW s, Do(s)
  PROVE  /\ ShownAccounts(st)' = ShownAccounts(s)
         /\ ShownSpaces(st)' = ShownSpaces(s)
         /\ UNCHANGED <<trieAccount, trieSpace, panicked>> /\ ~panicked
BY DEF Do, ShownAccounts, ShownSpaces

LEMMA CreateAndSet ==
  ASSUME TriesOK, NEW s, Good(s), NEW i \in SpaceId, NEW w \in Nat,
         NEW a \in Address, NEW n \in Int, NEW v \in Nat, v <= w,
         Agree(ShownAccounts(s), ShownSpaces(s)),
         WalletsBelow(ShownAccounts(s), v)
  PROVE  LET t == SetBalance(CreateSpaceAndBindAddr(s, i, w, a), a, n)
         IN  /\ Agree(ShownAccounts(t), ShownSpaces(t))
             /\ WalletsBelow(ShownAccounts(t), WalletAfter(s, w, a))
<1> DEFINE u == CreateSpaceAndBindAddr(s, i, w, a)
           t == SetBalance(u, a, n)
<1>1. /\ Good(u) /\ Agree(ShownAccounts(u), ShownSpaces(u))
      /\ WithAccount(ShownAccounts(s), ShownAccounts(u), a, w)
  BY CreateShows
<1>2. WalletAfter(s, w, a) = IF ShownAccounts(s)[a] = None THEN w + 1 ELSE w
  BY GetAccountShows DEF WalletAfter
<1> HIDE DEF u
<1>3. /\ ShownAccounts(s) \in [Address -> Account \cup {None}]
      /\ ShownAccounts(u) \in [Address -> Account \cup {None}]
  BY <1>1, ShownTypes
<1>4. WalletsBelow(ShownAccounts(u), WalletAfter(s, w, a))
  BY <1>1, <1>2, <1>3, WalletsGrow
<1>5. SameBindings(u, t)
  BY <1>1, BalanceSame
<1> HIDE DEF t
<1>6. /\ Agree(ShownAccounts(t), ShownSpaces(t))
      /\ WalletsBelow(ShownAccounts(t), WalletAfter(s, w, a))
  BY <1>1, <1>4, <1>5, SameKeeps
<1> QED
  BY <1>6 DEF t, u

LEMMA InitBInv ==
  ASSUME ExecInit
  PROVE  BInv
<1>1. \A a \in Address : trieAccount[a] = None /\ ShownAccounts(st)[a] = None
  BY DEF ExecInit, Init, New, ShownAccounts
<1>2. \A i \in SpaceId : trieSpace[i] = None /\ ShownSpaces(st)[i] = None
  BY DEF ExecInit, Init, New, ShownSpaces
<1>3. /\ Agree(trieAccount, trieSpace) /\ Agree(ShownAccounts(st), ShownSpaces(st))
  BY <1>1, <1>2 DEF Agree, Bound
<1>4. /\ WalletsBelow(trieAccount, walletIndex)
      /\ WalletsBelow(ShownAccounts(st), walletid)
  BY <1>1 DEF WalletsBelow
<1>5. phase \in {"genesis", "direct"}
  BY DEF ExecInit
<1>6. done < Len(GenesisAccounts) => walletid <= GenesisAccounts[done + 1].wallet
  <2>1. walletid = 0 /\ done = 0
    BY DEF ExecInit
  <2>2. Len(GenesisAccounts) \in Nat
    BY ExecutionAssumption, SMTT(30)
  <2>3. done < Len(GenesisAccounts) => GenesisAccounts[done + 1].wallet \in Nat
    BY <2>1, <2>2, GenesisRecords, SMTT(30) DEF GenesisRecord
  <2> QED
    BY <2>1, <2>3, SMTT(30)
<1> QED
  BY <1>1, <1>3, <1>4, <1>5, <1>6 DEF BInv

LEMMA GenesisAccountB ==
  ASSUME EInv, BInv, WalletsAscending, GenesisAccount
  PROVE  BInv'
<1> DEFINE c == GenesisAccounts[done + 1]
<1>0. /\ TriesOK /\ Good(st) /\ walletid \in Nat /\ done \in Nat
      /\ Len(GenesisAccounts) \in Nat
  BY ExecutionAssumption, SMTT(30) DEF EInv, IInv, ExecTypes
<1>1. /\ done + 1 \in 1..Len(GenesisAccounts) /\ phase = "genesis"
      /\ phase' = "genesis" /\ done' = done + 1 /\ walletIndex' = walletIndex
      /\ walletid' = WalletAfter(st, c.wallet, c.addr) /\ Do(MakeAccount(st, c))
  BY <1>0, SMTT(30) DEF GenesisAccount, MakeAccount, index
<1>2. c \in GenesisRecord
  BY <1>1, GenesisRecords
<1>3. /\ Agree(trieAccount, trieSpace) /\ WalletsBelow(trieAccount, walletIndex)
      /\ Agree(ShownAccounts(st), ShownSpaces(st))
      /\ \A a \in Address : trieAccount[a] = None
      /\ WalletsBelow(ShownAccounts(st), walletid) /\ walletid <= c.wallet
  BY <1>0, <1>1, SMTT(30) DEF BInv
<1>4. walletid' <= c.wallet + 1
  BY <1>1, <1>2, SMTT(30) DEF WalletAfter, GenesisRecord
<1>5. done' < Len(GenesisAccounts) => walletid' <= GenesisAccounts[done' + 1].wallet
  <2> SUFFICES ASSUME done' < Len(GenesisAccounts)
               PROVE  walletid' <= GenesisAccounts[done' + 1].wallet
    OBVIOUS
  <2>1. done' + 1 \in 1..Len(GenesisAccounts) /\ done + 1 < done' + 1
    BY <1>0, <1>1, SMTT(30)
  <2>2. GenesisAccounts[done' + 1] \in GenesisRecord
    BY <2>1, GenesisRecords
  <2>3. c.wallet < GenesisAccounts[done' + 1].wallet
    BY <1>1, <2>1, ExecutionAssumption, SMTT(30) DEF WalletsAscending
  <2>4. walletid' \in Nat
    BY <1>1, <1>2, WalletAfterType DEF GenesisRecord
  <2> QED
    BY <1>2, <1>4, <2>2, <2>3, <2>4, SMTT(30) DEF GenesisRecord
<1> HIDE DEF c
<1>6. /\ Agree(ShownAccounts(MakeAccount(st, c)), ShownSpaces(MakeAccount(st, c)))
      /\ WalletsBelow(ShownAccounts(MakeAccount(st, c)), walletid')
  BY <1>0, <1>1, <1>2, <1>3, CreateAndSet DEF MakeAccount, GenesisRecord
<1>7. /\ ShownAccounts(st)' = ShownAccounts(MakeAccount(st, c))
      /\ ShownSpaces(st)' = ShownSpaces(MakeAccount(st, c))
      /\ UNCHANGED <<trieAccount, trieSpace>>
  BY <1>1, DoShows
<1> QED
  BY <1>1, <1>3, <1>5, <1>6, <1>7 DEF BInv

LEMMA ExecuteB ==
  ASSUME EInv, BInv, NEW t \in Tx, Execute(t)
  PROVE  BInv'
<1> DEFINE s == ApplyTransaction(t, st)
<1>0. TriesOK /\ Good(st) /\ walletid \in Nat
  BY DEF EInv, IInv, ExecTypes
<1>1. /\ phase = "block" /\ phase' = "block" /\ walletIndex' = walletIndex
      /\ walletid' = WalletIdAfter(t) /\ Do(s)
      /\ t.kind = "create" => spaceid \in SpaceId
  BY DEF Execute, index
<1>2. /\ Agree(trieAccount, trieSpace) /\ WalletsBelow(trieAccount, walletIndex)
      /\ Agree(ShownAccounts(st), ShownSpaces(st))
      /\ WalletsBelow(ShownAccounts(st), walletid)
  BY <1>1 DEF BInv
<1>3. Agree(ShownAccounts(s), ShownSpaces(s)) /\ WalletsBelow(ShownAccounts(s), walletid')
  <2>1. CASE t.kind = "create"
    <3>1. s = SetBalance(CreateSpaceAndBindAddr(st, spaceid, walletid, t.to), t.to, 0)
      BY <2>1 DEF ApplyTransaction
    <3>2. walletid' = WalletAfter(st, walletid, t.to)
      BY <1>1, <2>1 DEF WalletIdAfter
    <3> QED
      BY <1>0, <1>1, <1>2, <2>1, <3>1, <3>2, TxTypes, CreateAndSet, SMTT(30)
  <2>2. CASE t.kind # "create"
    <3>1. walletid' = walletid
      BY <1>1, <2>2 DEF WalletIdAfter
    <3>2. SameBindings(st, s)
      BY <1>0, <2>2, ApplyOther
    <3> QED
      BY <1>2, <3>1, <3>2, SameKeeps
  <2> QED
    BY <2>1, <2>2
<1>4. /\ ShownAccounts(st)' = ShownAccounts(s)
      /\ ShownSpaces(st)' = ShownSpaces(s)
      /\ UNCHANGED <<trieAccount, trieSpace>>
  BY <1>1, DoShows
<1> HIDE DEF s
<1> QED
  BY <1>1, <1>2, <1>3, <1>4 DEF BInv

LEMMA UnchangedShows ==
  ASSUME UNCHANGED <<trieAccount, trieSpace, st>>
  PROVE  UNCHANGED <<ShownAccounts(st), ShownSpaces(st)>>
BY DEF ShownAccounts, ShownSpaces

\* What a commit leaves, in either block: w is the new header's wallet index.
LEMMA CommitB ==
  ASSUME IInv, CommitTo, NEW w, Agree(ShownAccounts(st), ShownSpaces(st)),
         Agree(trieAccount, trieSpace), WalletsBelow(ShownAccounts(st), w)
  PROVE  /\ Agree(trieAccount, trieSpace)'
         /\ Agree(ShownAccounts(st), ShownSpaces(st))'
         /\ Encodable => /\ WalletsBelow(trieAccount', w)
                         /\ WalletsBelow(ShownAccounts(st)', w)
         /\ ~Encodable => panicked' /\ UNCHANGED trieAccount
<1>1. CASE Encodable
  <2>1. Writes
    BY <1>1 DEF CommitTo, Writes
  <2>2. /\ Agree(trieAccount, trieSpace)' /\ WalletsBelow(trieAccount', w)
        /\ ShownAccounts(st)' = trieAccount' /\ ShownSpaces(st)' = trieSpace'
    BY <2>1, CommitAgrees
  <2> QED
    BY <1>1, <2>2
<1>2. CASE ~Encodable
  <2>1. panicked' = TRUE /\ UNCHANGED <<trieAccount, trieSpace, st>>
    BY <1>2 DEF CommitTo
  <2>2. UNCHANGED <<ShownAccounts(st), ShownSpaces(st)>>
    BY <2>1, UnchangedShows
  <2> QED
    BY <1>2, <2>1, <2>2
<1> QED
  BY <1>1, <1>2

LEMMA GenesisBlockB ==
  ASSUME EInv, BInv, GenesisBlock
  PROVE  BInv'
<1>1. /\ phase = "genesis" /\ phase' = "idle" /\ CommitTo
      /\ walletIndex' = walletid /\ IInv
  BY DEF GenesisBlock, EInv
<1>2. /\ Agree(trieAccount, trieSpace) /\ Agree(ShownAccounts(st), ShownSpaces(st))
      /\ \A a \in Address : trieAccount[a] = None
      /\ WalletsBelow(ShownAccounts(st), walletid)
  BY <1>1 DEF BInv
<1>3. /\ Agree(trieAccount, trieSpace)'
      /\ Agree(ShownAccounts(st), ShownSpaces(st))'
      /\ Encodable => /\ WalletsBelow(trieAccount', walletid)
                      /\ WalletsBelow(ShownAccounts(st)', walletid)
      /\ ~Encodable => panicked' /\ UNCHANGED trieAccount
  BY <1>1, <1>2, CommitB
<1>4. WalletsBelow(trieAccount', walletid)
  BY <1>2, <1>3 DEF WalletsBelow
<1>5. phase' # "genesis" /\ phase' # "block" /\ phase' # "direct"
  BY <1>1
<1>6. ~panicked' => WalletsBelow(ShownAccounts(st)', walletid)
  BY <1>3
<1> QED
  BY <1>1, <1>3, <1>4, <1>5, <1>6 DEF BInv

LEMMA FinishBlockB ==
  ASSUME EInv, BInv, FinishBlock
  PROVE  BInv'
<1>1. /\ phase = "block" /\ phase' = "idle" /\ CommitTo /\ IInv
      /\ Encodable => walletIndex' = walletid
      /\ ~Encodable => walletIndex' = walletIndex
  BY DEF FinishBlock, EInv, index
<1>2. /\ Agree(trieAccount, trieSpace) /\ Agree(ShownAccounts(st), ShownSpaces(st))
      /\ WalletsBelow(trieAccount, walletIndex)
      /\ WalletsBelow(ShownAccounts(st), walletid)
  BY <1>1 DEF BInv
<1>3. /\ Agree(trieAccount, trieSpace)'
      /\ Agree(ShownAccounts(st), ShownSpaces(st))'
      /\ Encodable => /\ WalletsBelow(trieAccount', walletid)
                      /\ WalletsBelow(ShownAccounts(st)', walletid)
      /\ ~Encodable => panicked' /\ UNCHANGED trieAccount
  BY <1>1, <1>2, CommitB
<1>4. WalletsBelow(trieAccount', walletIndex')
  BY <1>1, <1>2, <1>3
<1>5. phase' # "genesis" /\ phase' # "block" /\ phase' # "direct"
  BY <1>1
<1>6. ~panicked' => WalletsBelow(ShownAccounts(st)', walletIndex')
  BY <1>1, <1>3
<1> QED
  BY <1>1, <1>3, <1>4, <1>5, <1>6 DEF BInv

LEMMA BStep ==
  ASSUME EInv, BInv, WalletsAscending, [ExecNext]_evars
  PROVE  BInv'
<1>1. CASE BuildBlock
  <2>1. /\ phase = "idle" /\ ~panicked /\ phase' = "block"
        /\ walletid' = walletIndex /\ walletIndex' = walletIndex
        /\ UNCHANGED <<trieAccount, trieSpace, st>>
    BY <1>1 DEF BuildBlock, vars, index
  <2>2. UNCHANGED <<ShownAccounts(st), ShownSpaces(st)>>
    BY <2>1, UnchangedShows
  <2> QED
    BY <2>1, <2>2 DEF BInv
<1>2. ASSUME NEW t \in Tx, AddTx(t)
      PROVE  BInv'
  <2>1. /\ UNCHANGED <<phase, done, walletid, walletIndex, panicked>>
        /\ UNCHANGED <<trieAccount, trieSpace, st>>
    BY <1>2 DEF AddTx, vars, index, work
  <2>2. UNCHANGED <<ShownAccounts(st), ShownSpaces(st)>>
    BY <2>1, UnchangedShows
  <2> QED
    BY <2>1, <2>2 DEF BInv
<1>3. CASE Direct
  <2>1. phase' = "direct"
    BY <1>3 DEF Direct
  <2> QED
    BY <2>1 DEF BInv
<1>4. CASE UNCHANGED evars
  <2>1. /\ UNCHANGED <<phase, done, walletid, walletIndex, panicked>>
        /\ UNCHANGED <<trieAccount, trieSpace, st>>
    BY <1>4 DEF evars, vars, index, work
  <2>2. UNCHANGED <<ShownAccounts(st), ShownSpaces(st)>>
    BY <2>1, UnchangedShows
  <2> QED
    BY <2>1, <2>2 DEF BInv
<1> QED
  BY <1>1, <1>2, <1>3, <1>4, GenesisAccountB, GenesisBlockB, FinishBlockB, ExecuteB
     DEF ExecNext

\* When the configuration file numbers the wallets in ascending order, the
\* committed accounts and spaces list the same bindings, each once, and no
\* wallet number is given twice: for every configuration and every order of
\* transactions, with accounts rebound, accounts and spaces dropped as empty,
\* and new accounts on spaces that exist (CreateSpaceAndBindAddr).
THEOREM BindingsAlwaysAgree == WalletsAscending => (ExecSpec => []BindingsAgree)
<1>1. WalletsAscending /\ EInv /\ BInv /\ [ExecNext]_evars => BInv'
  BY BStep
<1>2. BInv => BindingsAgree
  <2> SUFFICES ASSUME BInv, phase # "direct"
               PROVE  BindingsAgree
    BY DEF BindingsAgree
  <2>1. Agree(trieAccount, trieSpace) /\ WalletsBelow(trieAccount, walletIndex)
    BY DEF BInv
  <2> QED
    BY <2>1 DEF BindingsAgree, Agree, Bound, WalletsBelow
<1> SUFFICES ASSUME WalletsAscending
             PROVE  ExecSpec => []BindingsAgree
  OBVIOUS
<1>3. EInv /\ BInv /\ [ExecNext]_evars => BInv'
  BY <1>1
<1> QED
  BY <1>2, <1>3, InitBInv, ExecInvariant, PTL DEF ExecSpec

=============================================================================
