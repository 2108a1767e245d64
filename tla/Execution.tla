------------------------------ MODULE Execution ------------------------------
(***************************************************************************)
(* From the transaction pool to the committed state: the genesis state of  *)
(* genesis.go, the pool's check of a transaction against the balance at    *)
(* the current block (TxPool.validateTx), and the execution of the pool's  *)
(* transactions on a StateDB (Worker.buildBlock; validateBlock and         *)
(* BlockChain.ApplyTransaction repeat the same switch on the same state).  *)
(*                                                                         *)
(* Included transactions leave the pool with the commit.  In the program   *)
(* RemoveTx is called from outside this repository, so that this is the    *)
(* best case.                                                              *)
(*                                                                         *)
(* The package offers more operations than the program uses.  They are     *)
(* explored as well, in behaviours of their own (phase "direct").          *)
(***************************************************************************)
EXTENDS StateDB, Sequences

CONSTANTS Tx,               \* transactions: kind, from, to, cost, value, space
          GenesisAccounts,  \* the accounts of the configuration file, in order
          MaxDirect         \* bound: operations on a StateDB in direct use

ASSUME ExecutionAssumption ==
    /\ \A t \in Tx : /\ t.from \in Address /\ t.to \in Address
                     /\ t.cost \in Nat /\ t.value \in Nat /\ t.space \in SpaceId
                     /\ t.kind \in {"create", "recharge", "attr", "charge",
                                    "report", "other"}
    /\ GenesisAccounts \in Seq([addr : Address, space : SpaceId, wallet : Nat,
                                balance : Int])
    /\ Key # {} /\ Value # {}
    /\ MaxDirect \in Nat

VARIABLES phase,                 \* "genesis", "idle" or "block"; "direct"
          done,                  \* genesis accounts that are made
          idIndex, walletIndex,  \* of the current block's header
          spaceid, walletid,     \* of the block under construction
          all,                   \* the pool
          txs, todo              \* GetAllTx's copy of it, and the rest of it

index == <<idIndex, walletIndex>>
work == <<spaceid, walletid>>
evars == <<vars, phase, done, index, work, all, txs, todo>>

ExecInit ==
    /\ Init
    /\ phase \in {"genesis", "direct"} /\ done = 0
    /\ idIndex = 0 /\ walletIndex = 0 /\ spaceid = 0 /\ walletid = 0
    /\ all = {} /\ txs = {} /\ todo = {}

\* One account of the configuration file (ToBlock).
GenesisAccount ==
    LET c == GenesisAccounts[done + 1]
    IN  /\ phase = "genesis" /\ done < Len(GenesisAccounts)
        /\ Do(SetBalance(CreateSpaceAndBindAddr(st, c.space, c.wallet, c.addr),
                         c.addr, c.balance))
        /\ walletid' = WalletAfter(st, c.wallet, c.addr)
        /\ done' = done + 1
        /\ UNCHANGED <<phase, index, spaceid, all, txs, todo>>

\* The genesis header: IdIndex is 1 whatever the configuration says.
GenesisBlock ==
    /\ phase = "genesis" /\ done = Len(GenesisAccounts)
    /\ CommitTo
    /\ phase' = "idle"
    /\ idIndex' = 1 /\ walletIndex' = walletid
    /\ UNCHANGED <<done, work, all, txs, todo>>

\* validateTx: the balance at the current block, whatever else is pending.
CanPay(t) ==
    LET o == trieAccount[t.from]
    IN  (IF o = None THEN 0 ELSE o.balance) >= t.cost + t.value

AddTx(t) ==
    /\ phase \in {"idle", "block"} /\ ~panicked
    /\ t \notin all
    /\ CanPay(t)
    /\ all' = all \cup {t}
    /\ UNCHANGED <<vars, phase, done, index, work, txs, todo>>

BuildBlock ==
    /\ phase = "idle" /\ all # {} /\ ~panicked
    /\ phase' = "block"
    /\ txs' = all /\ todo' = all
    /\ spaceid' = idIndex /\ walletid' = walletIndex
    /\ UNCHANGED <<vars, done, index, all>>

\* The space balance less the gas used, never below zero.
LiquidationToState(s0, i, gas) ==
    LET s == GetSpaceObject(s0, i)
        balance == IF s.spc[i] = None THEN 0 ELSE s.spc[i].balance
    IN  SubSpaceBalanceByID(s, i, IF balance > gas THEN gas ELSE balance)

\* The switch over the types: recharge is 2, attr 3, report 9; charge stands
\* for 4, 5, 7, 8, 10, 11 and 12, other for 6 and the unknown ones.
ApplyTransaction(t, s) ==
    CASE t.kind = "create" ->
           SetBalance(CreateSpaceAndBindAddr(s, spaceid, walletid, t.to), t.to, 0)
      [] t.kind = "recharge" ->
           SubBalance(AddBalance(s, t.to, t.value), t.from, t.cost)
      [] t.kind = "attr" ->
           LET k == CHOOSE k \in Key : TRUE
               v == CHOOSE v \in Value : TRUE
           IN  SubBalance(SetAttribute(s, t.to, k, v), t.from, t.cost)
      [] t.kind = "charge" -> SubBalance(s, t.from, t.cost)
      [] t.kind = "report" ->
           LiquidationToState(s, t.space, t.value)
      [] OTHER -> s

WalletIdKept(t) == walletid
WalletIdAfter(t) ==
    IF t.kind = "create" THEN WalletAfter(st, walletid, t.to) ELSE walletid

\* Bound: the space numbers are those of SpaceId.
Execute(t) ==
    /\ phase = "block" /\ t \in todo
    /\ t.kind = "create" => spaceid \in SpaceId
    /\ Do(ApplyTransaction(t, st))
    /\ spaceid' = IF t.kind = "create" THEN spaceid + 1 ELSE spaceid
    /\ walletid' = WalletIdAfter(t)
    /\ todo' = todo \ {t}
    /\ UNCHANGED <<phase, done, index, all, txs>>

FinishBlock ==
    /\ phase = "block" /\ todo = {}
    /\ CommitTo
    /\ phase' = "idle"
    /\ IF Encodable THEN idIndex' = spaceid /\ walletIndex' = walletid
                    ELSE UNCHANGED index
    /\ all' = all \ txs
    /\ UNCHANGED <<done, work, txs, todo>>

Direct ==
    /\ phase = "direct"
    /\ Next
    /\ ops' <= MaxDirect
    /\ UNCHANGED <<phase, done, index, work, all, txs, todo>>

ExecNext ==
    \/ GenesisAccount \/ GenesisBlock \/ BuildBlock \/ FinishBlock
    \/ \E t \in Tx : AddTx(t) \/ Execute(t)
    \/ Direct

ExecSpec == ExecInit /\ [][ExecNext]_evars

-----------------------------------------------------------------------------
(***************************************************************************)
(* Properties.                                                             *)
(***************************************************************************)

\* In the committed state a space lists an address, once, exactly when that
\* account is bound to it: rebinding an account takes it off its old space,
\* and neither side is dropped as empty under the other.  No two accounts share
\* a wallet number, and the header's wallet index is above all of them.
BindingsAgree ==
    phase # "direct" => \A a \in Address :
      /\ \A i \in SpaceId \ {0} :
           LET bound == trieAccount[a] # None /\ trieAccount[a].space = i
           IN  IF trieSpace[i] = None THEN ~bound
               ELSE trieSpace[i].bind[a] = IF bound THEN 1 ELSE 0
      /\ trieAccount[a] # None =>
           /\ trieAccount[a].wallet < walletIndex
           /\ \A b \in Address \ {a} :
                trieAccount[b] # None => trieAccount[a].wallet # trieAccount[b].wallet

=============================================================================
