------------------------------- MODULE StateDB -------------------------------
(***************************************************************************)
(* The state database, libraries/chain/space/state: spaces and accounts in *)
(* two tries, with the objects that were read or made kept in maps, and    *)
(* the changed ones in dirty sets until CommitTo writes them.  An object   *)
(* reports its first change through its callback onDirty and then drops    *)
(* the callback.                                                           *)
(*                                                                         *)
(* A trie is the function it stores; that it is complete, so that TryGet   *)
(* gives no error, is BlockChain's ChainServable.  The list of addresses   *)
(* of a space is the number of times each one is in it.                    *)
(***************************************************************************)
EXTENDS Integers

CONSTANTS Address, SpaceId, Key, Value, Wallet,
          Amount,        \* what the operations are called with
          None,
          MaxOps, MaxBlocks   \* bounds: operations on a StateDB, StateDBs

VARIABLES trieAccount, trieSpace,  \* the committed tries
          st,                      \* the StateDB: objects, dirty sets, and the
                                   \* objects whose callback is used up
          panicked,
          ops, blocks              \* operations so far, StateDBs so far

vars == <<trieAccount, trieSpace, st, panicked, ops, blocks>>

Account == [space : SpaceId, balance : Int, wallet : Nat,
            attr : [Key -> Value \cup {None}]]
Space == [nonce : Nat, balance : Int, bind : [Address -> Nat]]

ASSUME StateAssumption ==
    /\ SpaceId \subseteq Nat /\ 0 \in SpaceId /\ Wallet \subseteq Nat
    /\ Amount \subseteq Nat
    /\ MaxOps \in Nat /\ MaxBlocks \in Nat
    /\ None \notin Value /\ None \notin Account /\ None \notin Space

NewAccount(w) == [space |-> 0, balance |-> 0, wallet |-> w,
                  attr |-> [k \in Key |-> None]]
NewSpace == [nonce |-> 0, balance |-> 0, bind |-> [a \in Address |-> 0]]

EmptyAccount(o) == /\ o.space = 0 /\ o.balance = 0
                   /\ \A k \in Key : o.attr[k] = None
EmptySpace(o) == /\ o.nonce = 0 /\ o.balance = 0
                 /\ \A a \in Address : o.bind[a] = 0

\* New: a StateDB on the committed tries.
New == [acc |-> [a \in Address |-> None], spc |-> [i \in SpaceId |-> None],
        accDirty |-> {}, spcDirty |-> {}, accMarked |-> {}, spcMarked |-> {}]

-----------------------------------------------------------------------------
(* The objects.                                                            *)

LoadMarkedDirty(s, a) ==
    IF s.acc[a] # None THEN s
    ELSE [s EXCEPT !.acc[a] = trieAccount[a], !.accDirty = @ \cup {a}]
GetAccountObject(s, a) ==
    IF s.acc[a] # None THEN s ELSE [s EXCEPT !.acc[a] = trieAccount[a]]

GetSpaceObject(s, i) ==
    IF s.spc[i] # None THEN s ELSE [s EXCEPT !.spc[i] = trieSpace[i]]

\* A change of an object, with its callback the first time.
MarkOnlyNew(s, a) == IF trieAccount[a] = None THEN s.accDirty \cup {a} ELSE s.accDirty
MarkAccountObjectsDirty(s, a) ==
    IF a \in s.accMarked THEN s.accDirty ELSE s.accDirty \cup {a}

SetAccount(s, a, o) ==
    [s EXCEPT !.acc[a] = o, !.accDirty = MarkAccountObjectsDirty(s, a),
              !.accMarked = @ \cup {a}]

MarkSpaceObjectsDirty(s, i) ==
    IF i \in s.spcMarked THEN s.spcDirty ELSE s.spcDirty \cup {i}

SetSpace(s, i, o) ==
    [s EXCEPT !.spc[i] = o, !.spcDirty = MarkSpaceObjectsDirty(s, i),
              !.spcMarked = @ \cup {i}]

CreateAccountObject(s, w, a) ==
    [s EXCEPT !.acc[a] = NewAccount(w), !.accMarked = @ \ {a}]

CreateSpaceObject(s, i) ==
    [s EXCEPT !.spc[i] = NewSpace, !.spcMarked = @ \ {i}]

-----------------------------------------------------------------------------
(* Balances and attributes.                                                *)

SetBalance(s0, a, n) ==
    LET s == GetAccountObject(s0, a)
    IN  IF s.acc[a] = None THEN s
        ELSE SetAccount(s, a, [s.acc[a] EXCEPT !.balance = n])

AddBalance(s0, a, n) ==
    LET s == GetAccountObject(s0, a)
    IN  IF s.acc[a] = None \/ n = 0 THEN s
        ELSE SetAccount(s, a, [s.acc[a] EXCEPT !.balance = @ + n])

SubBalance(s0, a, n) == AddBalance(s0, a, -n)

SetSpaceBalance(s, i, n) ==
    SetSpace(s, i, [s.spc[i] EXCEPT !.balance = n, !.nonce = @ + 1])

AddSpaceBalanceByID(s0, i, n) ==
    LET s == GetSpaceObject(s0, i)
    IN  IF s.spc[i] = None \/ n = 0 THEN s
        ELSE SetSpaceBalance(s, i, s.spc[i].balance + n)

SubSpaceBalanceByID(s, i, n) == AddSpaceBalanceByID(s, i, -n)

\* The operations by address: the same on the space the account is bound to.
AddSpaceBalanceByAddress(s0, a, n) ==
    LET s == GetAccountObject(s0, a)
    IN  IF s.acc[a] = None THEN s
        ELSE AddSpaceBalanceByID(s, s.acc[a].space, n)

SubSpaceBalanceByAddress(s, a, n) == AddSpaceBalanceByAddress(s, a, -n)

SetSpaceBalanceByAddress(s0, a, n) ==
    LET s1 == GetAccountObject(s0, a) IN
    IF s1.acc[a] = None THEN s1
    ELSE LET i == s1.acc[a].space
             s == GetSpaceObject(s1, i)
         IN  IF s.spc[i] = None THEN s ELSE SetSpaceBalance(s, i, n)

\* SetAttribute, and DelAttribute with None.
SetAttribute(s0, a, k, v) ==
    LET s == GetAccountObject(s0, a)
    IN  IF s.acc[a] = None THEN s
        ELSE SetAccount(s, a, [s.acc[a] EXCEPT !.attr[k] = v])

-----------------------------------------------------------------------------
(* Accounts and the spaces they are bound to.                              *)

UnassociateSpaceAndAccount(s, i, a) ==
    IF s.spc[i] = None \/ s.acc[a] = None THEN s
    ELSE SetSpace(SetAccount(s, a, [s.acc[a] EXCEPT !.space = 0]),
                  i, [s.spc[i] EXCEPT !.bind[a] = 0])

LeaveNothing(s, a) == s
LeavePrevious(s, a) ==
    IF EmptyAccount(s.acc[a]) THEN s
    ELSE UnassociateSpaceAndAccount(GetSpaceObject(s, s.acc[a].space),
                                    s.acc[a].space, a)

AssociateSpaceAndAccount(s0, i, a) ==
    IF s0.spc[i] = None \/ s0.acc[a] = None THEN s0
    ELSE LET s == LeavePrevious(s0, a)
         IN  SetSpace(SetAccount(s, a, [s.acc[a] EXCEPT !.space = i]),
                      i, [s.spc[i] EXCEPT !.bind[a] = @ + 1])

\* BindAddr never makes an account: a missing one gives no error.
BindAddr(s, i, a) ==
    AssociateSpaceAndAccount(GetAccountObject(GetSpaceObject(s, i), a), i, a)

UnbindAddr(s0, i, a) ==
    LET s == GetSpaceObject(s0, i)
    IN  IF s.spc[i] = None THEN s
        ELSE UnassociateSpaceAndAccount(GetAccountObject(s, a), i, a)

\* The account is made if it is new; the space must be new.
CreateSpaceAndBindAddr(s0, i, w, a) ==
    LET s1 == GetAccountObject(s0, a)
        s2 == IF s1.acc[a] = None THEN CreateAccountObject(s1, w, a) ELSE s1
        s3 == GetSpaceObject(s2, i)
    IN  IF s3.spc[i] # None THEN s3
        ELSE AssociateSpaceAndAccount(CreateSpaceObject(s3, i), i, a)

\* The wallet index it returns.
WalletAfter(s, w, a) ==
    IF GetAccountObject(s, a).acc[a] = None THEN w + 1 ELSE w

-----------------------------------------------------------------------------
(* CommitTo: SpaceFinalise and AccountFinalise, deleting empty objects.    *)

SpaceFinalise ==
    [i \in SpaceId |-> IF i \notin st.spcDirty THEN trieSpace[i]
                       ELSE IF EmptySpace(st.spc[i]) THEN None ELSE st.spc[i]]

AccountFinalise ==
    [a \in Address |-> IF a \notin st.accDirty THEN trieAccount[a]
                       ELSE IF EmptyAccount(st.acc[a]) THEN None ELSE st.acc[a]]

\* A negative number has no encoding: updateAccountObject or
\* updateSpaceObject panics.
Encodable ==
    /\ \A a \in st.accDirty : st.acc[a].balance >= 0
    /\ \A i \in st.spcDirty : st.spc[i].balance >= 0

NextStateDB ==
    /\ ~panicked
    /\ blocks < MaxBlocks
    /\ ops' = 0 /\ blocks' = blocks + 1

CommitTo ==
    /\ NextStateDB
    /\ IF Encodable
       THEN /\ trieSpace' = SpaceFinalise
            /\ trieAccount' = AccountFinalise
            /\ st' = New
            /\ UNCHANGED panicked
       ELSE panicked' = TRUE /\ UNCHANGED <<trieAccount, trieSpace, st>>

\* The block is not taken: the StateDB is dropped.
Abandon ==
    /\ NextStateDB
    /\ st' = New
    /\ UNCHANGED <<trieAccount, trieSpace, panicked>>

-----------------------------------------------------------------------------
(* Every operation of the package, in any order.                           *)

Init ==
    /\ trieAccount = [a \in Address |-> None]
    /\ trieSpace = [i \in SpaceId |-> None]
    /\ st = New
    /\ panicked = FALSE
    /\ ops = 0 /\ blocks = 0

Do(s) ==
    /\ ~panicked
    /\ ops < MaxOps /\ blocks < MaxBlocks
    /\ st' = s
    /\ ops' = ops + 1
    /\ UNCHANGED <<trieAccount, trieSpace, panicked, blocks>>

Next ==
    \/ CommitTo
    \/ Abandon
    \/ \E a \in Address, n \in Amount :
         \/ Do(SetBalance(st, a, n))
         \/ Do(AddBalance(st, a, n))
         \/ Do(SubBalance(st, a, n))
         \/ Do(AddSpaceBalanceByAddress(st, a, n))
         \/ Do(SubSpaceBalanceByAddress(st, a, n))
         \/ Do(SetSpaceBalanceByAddress(st, a, n))
    \/ \E i \in SpaceId, n \in Amount :
         \/ Do(AddSpaceBalanceByID(st, i, n))
         \/ Do(SubSpaceBalanceByID(st, i, n))
    \/ \E a \in Address, k \in Key, v \in Value \cup {None} :
         Do(SetAttribute(st, a, k, v))
    \/ \E a \in Address, i \in SpaceId :
         \/ Do(BindAddr(st, i, a))
         \/ Do(UnbindAddr(st, i, a))
         \/ \E w \in Wallet : Do(CreateSpaceAndBindAddr(st, i, w, a))

Spec == Init /\ [][Next]_vars

-----------------------------------------------------------------------------
(***************************************************************************)
(* Properties.                                                             *)
(***************************************************************************)

\* The types of the tries and of the StateDB; only objects that are in the
\* maps are dirty (AccountFinalise dereferences them).
TypeOK ==
    /\ trieAccount \in [Address -> Account \cup {None}]
    /\ trieSpace \in [SpaceId -> Space \cup {None}]
    /\ st \in [acc : [Address -> Account \cup {None}],
              spc : [SpaceId -> Space \cup {None}],
              accDirty : SUBSET Address, spcDirty : SUBSET SpaceId,
              accMarked : SUBSET Address, spcMarked : SUBSET SpaceId]
    /\ \A a \in st.accDirty : st.acc[a] # None
    /\ \A i \in st.spcDirty : st.spc[i] # None
    /\ panicked \in BOOLEAN /\ ops \in Nat /\ blocks \in Nat

\* What the getters of the StateDB show.
ViewAccount == [a \in Address |-> GetAccountObject(st, a).acc[a]]
ViewSpace == [i \in SpaceId |-> GetSpaceObject(st, i).spc[i]]

NonEmptyLedger(l) ==
    [acc |-> [a \in Address |-> IF l.acc[a] # None /\ EmptyAccount(l.acc[a])
                                THEN None ELSE l.acc[a]],
     spc |-> [i \in SpaceId |-> IF l.spc[i] # None /\ EmptySpace(l.spc[i])
                                THEN None ELSE l.spc[i]]]

Plain == INSTANCE StateLedger
           WITH NonEmpty <- NonEmptyLedger,
                committed <- [acc |-> trieAccount, spc |-> trieSpace],
                working <- [acc |-> ViewAccount, spc |-> ViewSpace]

\* The maps, the dirty sets and the callbacks that are dropped after their
\* first use are invisible: CommitTo makes durable exactly what the getters
\* showed, without the empty entries.
ImplementsLedger == Plain!Spec

=============================================================================
