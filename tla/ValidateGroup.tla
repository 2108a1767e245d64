--------------------------- MODULE ValidateGroup ---------------------------
(***************************************************************************)
(* The validator groups of a node (chain/validategroup/validategroup.go)   *)
(* as the block processor drives them (chain/space/blockchain.go, Process  *)
(* and ApplyTransaction; chain/space/genesis.go for the first member).     *)
(*                                                                         *)
(* A member joins by a transaction and moves through three lists, one set  *)
(* of lists per family:                                                    *)
(*                                                                         *)
(*     newm  --epoch block-->  threshold  --next epoch block-->  group     *)
(*                                                                         *)
(* "newm" waits for the next epoch block, "threshold" is the list whose    *)
(* members are told to generate a threshold key, "group" is the list that  *)
(* is on duty.  The stellar family has the first list only.                *)
(*                                                                         *)
(* Every database write of the code is a step of its own, so that a crash  *)
(* can fall between any two of them; a restart is NewValidateGroup.        *)
(***************************************************************************)
EXTENDS Integers, Sequences, FiniteSets, Functions

CONSTANTS
  Addr,          \* the addresses that may apply by a transaction
  GenesisAddr,   \* the address of the genesis file
  Time,          \* the time stamps a transaction may carry
  GenesisTime,   \* the time stamp of the genesis member
  Candidates,    \* [Family -> SUBSET Address]: who applies to which family
  Foreign,       \* a group hash computed by a node with another genesis list
  Epoch,         \* blocks between two resets (3 in blockchain.go)
  ValidateLimit, \* size of a drawn committee (10 in validategroup.go)
  MaxNumber,     \* bound: the last block number of a behaviour
  MaxCrashes     \* bound: the crashes of a behaviour

Pipeline == {"space", "coin", "tx"}
Family == Pipeline \cup {"stell"}

\* The order in which Process resets the families.
After(f) == CASE f = "space" -> "coin" [] f = "coin" -> "tx" [] OTHER -> "done"

\* "if bc.validateGroup.GetThresholdSize() >= 3"
MinThreshold == 3

Address == Addr \cup {GenesisAddr}
Member == [addr: Address, time: Time \cup {GenesisTime}]
GenesisMember == [addr |-> GenesisAddr, time |-> GenesisTime]

\* rlpHash of a list is taken as injective: the key carries the list.
HashOf(s) == <<"list", s>>
AddressHash == <<"address", <<>>>>
FamilyKey(f) == <<f, <<>>>>

ASSUME ConstantsAssumption ==
  /\ Time \subseteq Nat /\ GenesisTime \in Nat
  /\ GenesisAddr \notin Addr
  /\ Foreign \notin {FamilyKey(f) : f \in Pipeline}
  /\ Candidates \in [Family -> SUBSET Address]
  /\ Epoch \in Nat \ {0} /\ ValidateLimit \in Nat \ {0}
  /\ MaxNumber \in Nat /\ MaxCrashes \in Nat

VARIABLES
  newm, threshold, group,   \* the lists in memory, by family
  marked,                   \* the address sets that Add consults, by family
  dNew, dThreshold,         \* the lists on disk, by family
  groupDb,                  \* the groups on disk, by key
  curHash,                  \* ConsensusGroupHash of the current block
  number,                   \* number of the current block
  stage, fam,               \* where Process stands, and in which family
  blkHash,                  \* ConsensusGroupHash of the block in process
  update,                   \* the local variable updateValidate of a reset
  announced,                \* history: the committees sent by createthresholdFeed
  torn,                     \* history: the stages a crash interrupted, by family
  crashes                   \* history: number of crashes

memory == <<newm, threshold, group, marked>>
disk == <<dNew, dThreshold, groupDb>>
chain == <<curHash, number, blkHash>>
control == <<stage, fam, update>>
history == <<announced, torn, crashes>>
vars == <<memory, disk, chain, control, history>>

----------------------------------------------------------------------------
(* Helpers *)

AddrsOf(s) == {s[i].addr : i \in DOMAIN s}
LastOf(s) == s[Len(s)]

\* Mutant: the transaction group is stored under the key of the coin group.
GroupKeyShared(f, hash) == IF f = "space" THEN hash ELSE FamilyKey("coin")

\* The key under which a family's group is stored: the space group under the
\* hash of a block, the others under a fixed name.
GroupKey(f, hash) == IF f = "space" THEN hash ELSE FamilyKey(f)

\* WriteValidateGroup, DeleteValidateGroup and their like for the other families
WriteNew(f, s) == [dNew EXCEPT ![f] = s]

GetGroup(db, key) == IF key \in DOMAIN db THEN db[key] ELSE <<>>
PutGroup(db, key, s) == [k \in DOMAIN db \cup {key} |-> IF k = key THEN s ELSE db[k]]

\* The orders sort.Sort may leave a list in: by Time, and since a list of
\* fewer than twelve elements is sorted by insertion, ties keep their order.
TimeOrders(s) ==
  {[i \in DOMAIN s |-> s[p[i]]] :
     p \in {q \in Bijection(DOMAIN s, DOMAIN s) :
              \A i, j \in DOMAIN s :
                 i < j => \/ s[q[i]].time < s[q[j]].time
                          \/ /\ s[q[i]].time = s[q[j]].time
                             /\ Len(s) < 12 => q[i] < q[j]}}

\* SelectThresholds, SelectCoinThresholds and SelectTxThresholds: the whole
\* list while it is short, otherwise the ValidateLimit places RandomPerm draws.
SelectThresholds(s) ==
  IF Len(s) < ValidateLimit
  THEN {AddrsOf(s)}
  ELSE {AddrsOf([i \in 1..ValidateLimit |-> s[p[i]]]) :
          p \in Injection(1..ValidateLimit, DOMAIN s)}

----------------------------------------------------------------------------
(* GetGenesisBlock, once the genesis block and its head pointers are on    *)
(* disk: a group that holds one member is made and stored.                 *)

Init ==
  /\ newm = [f \in Family |-> <<>>] /\ threshold = [f \in Pipeline |-> <<>>]
  /\ group = [f \in Pipeline |-> <<>>] /\ marked = [f \in Family |-> {}]
  /\ dNew = [f \in Family |-> <<>>] /\ dThreshold = [f \in Pipeline |-> <<>>]
  /\ groupDb = [k \in {} |-> <<>>]
  /\ curHash = AddressHash /\ number = 0 /\ blkHash = AddressHash
  /\ stage = "genesisAdd" /\ fam = "space" /\ update = FALSE
  /\ announced = [f \in Pipeline |-> {}] /\ torn = [f \in Pipeline |-> {}]
  /\ crashes = 0

GenesisAdd ==
  /\ stage = "genesisAdd"
  /\ newm' = [newm EXCEPT !["space"] = <<GenesisMember>>]
  /\ dNew' = WriteNew("space", <<GenesisMember>>)
  /\ marked' = [marked EXCEPT !["space"] = {GenesisAddr}]
  /\ stage' = "genesisDelete"
  /\ UNCHANGED <<threshold, group, dThreshold, groupDb, chain, fam, update, history>>

\* Reset(hash, true) up to DeleteValidateGroup ...
GenesisDelete ==
  /\ stage = "genesisDelete"
  /\ group' = [group EXCEPT !["space"] = @ \o newm["space"]]
  /\ newm' = [newm EXCEPT !["space"] = <<>>]
  /\ dNew' = WriteNew("space", <<>>)
  /\ stage' = "genesisWrite"
  /\ UNCHANGED <<threshold, marked, dThreshold, groupDb, chain, fam, update, history>>

\* ... and WriteGroupConst.
GenesisWrite ==
  /\ stage = "genesisWrite"
  /\ groupDb' = PutGroup(groupDb, AddressHash, group["space"])
  /\ stage' = "idle"
  /\ UNCHANGED <<memory, dNew, dThreshold, chain, fam, update, history>>

----------------------------------------------------------------------------
(* Blocks *)

\* buildBlock, fixed path: the producer of a group of one or two files its
\* group under the hash its next block carries.
SetlastGroupHash ==
  /\ stage = "idle"
  /\ Len(group["space"]) \in 1..(MinThreshold - 1)
  /\ groupDb' = PutGroup(groupDb, HashOf(group["space"]), group["space"])
  /\ UNCHANGED <<memory, dNew, dThreshold, chain, control, history>>

\* The group hashes a block may carry.  A group of three or more comes from
\* transactions and is the same on every node; a smaller one holds the time
\* stamp of its node's own genesis, and its hash is known to the producer only.
\* A node that restarted may differ from the others, by the marks it forgot or
\* by a reset it did twice.
BlockHashes ==
  {h \in {HashOf(group["space"])} :
     Len(group["space"]) >= MinThreshold \/ h \in DOMAIN groupDb}
  \cup {h \in {Foreign} : Len(group["space"]) < MinThreshold \/ crashes # 0}

\* Insert starts to process a block.
BeginBlock(hash) ==
  /\ stage = "idle" /\ number < MaxNumber
  /\ blkHash' = hash
  /\ stage' = "apply"
  /\ UNCHANGED <<memory, disk, curHash, number, fam, update, history>>

\* "last.Time.Cmp(member.Time) < 0", when there is a last member
InTime(f, m) == newm[f] # <<>> => LastOf(newm[f]).time < m.time

\* Add, AddCoin, AddTransaction and AddStell on an address not seen before:
\* the member is appended when the list is empty or its time is later ...
AddAccepted(f, m) ==
  /\ stage = "apply"
  /\ m.addr \notin marked[f]
  /\ InTime(f, m)
  /\ marked' = [marked EXCEPT ![f] = @ \cup {m.addr}]
  /\ newm' = [newm EXCEPT ![f] = Append(@, m)]
  /\ dNew' = WriteNew(f, newm'[f])
  /\ UNCHANGED <<threshold, group, dThreshold, groupDb, chain, control, history>>

\* ... and otherwise dropped, but the address stays marked, in memory.
AddRejected(f, m) ==
  /\ stage = "apply"
  /\ m.addr \notin marked[f]
  /\ ~InTime(f, m)
  /\ marked' = [marked EXCEPT ![f] = @ \cup {m.addr}]
  /\ UNCHANGED <<newm, threshold, group, disk, chain, control, history>>

EndApply ==
  /\ stage = "apply"
  /\ IF (number + 1) % Epoch = 0
     THEN stage' = "install" /\ fam' = "space"
     ELSE stage' = "commit" /\ UNCHANGED fam
  /\ UNCHANGED <<memory, disk, chain, update, history>>

\* Insert stores the head pointers: the block is the current block.
Commit ==
  /\ stage = "commit"
  /\ number' = number + 1
  /\ curHash' = blkHash
  /\ stage' = "idle"
  /\ UNCHANGED <<memory, disk, blkHash, fam, update, history>>

----------------------------------------------------------------------------
(* Reset(hash, false), ResetCoinGroup and ResetTxGroup *)

\* WriteThresholdGroup and its like.  Mutant: the list before the append.
WriteThresholdEarly(f) == [dThreshold EXCEPT ![f] = threshold[f]]
WriteThreshold(f) == [dThreshold EXCEPT ![f] = threshold[f] \o newm[f]]

\* The list that goes on duty, when it is long enough.  Mutant: after the append.
OnDutyTooEarly(f) == threshold[f] \o newm[f]
OnDuty(f) == threshold[f]

\* The threshold list goes on duty, and the new members join it.
ResetInstall(f) ==
  /\ stage = "install" /\ fam = f
  /\ update' = (Len(OnDuty(f)) >= MinThreshold)
  /\ group' = [group EXCEPT ![f] = IF update' THEN OnDuty(f) ELSE @]
  /\ threshold' = [threshold EXCEPT ![f] = @ \o newm[f]]
  /\ IF newm[f] # <<>>
     THEN dThreshold' = WriteThreshold(f) /\ stage' = "delete"
     ELSE UNCHANGED dThreshold /\ stage' = "write"
  /\ UNCHANGED <<newm, marked, dNew, groupDb, chain, fam, history>>

\* DeleteValidateGroup, DeleteCoinValidateGroup, DeleteNewTxMembers
ResetDelete(f) ==
  /\ stage = "delete" /\ fam = f
  /\ newm' = [newm EXCEPT ![f] = <<>>]
  /\ dNew' = WriteNew(f, <<>>)
  /\ stage' = "write"
  /\ UNCHANGED <<threshold, group, marked, dThreshold, groupDb, chain, fam, update, history>>

\* The list is sorted and stored under the block's hash or the fixed key; the
\* space list also under its own hash, by a second write.
ResetWrite(f) ==
  /\ stage = "write" /\ fam = f
  /\ \E s \in TimeOrders(group[f]) :
       /\ group' = [group EXCEPT ![f] = s]
       /\ groupDb' = IF update THEN PutGroup(groupDb, GroupKey(f, blkHash), s) ELSE groupDb
       /\ stage' = IF update /\ f = "space" /\ HashOf(s) # blkHash THEN "rewrite" ELSE "announce"
  /\ UNCHANGED <<newm, threshold, marked, dNew, dThreshold, chain, fam, update, history>>

\* Mutant: the second write stores the threshold list.
ResetRewriteThreshold ==
  /\ stage = "rewrite"
  /\ groupDb' = PutGroup(groupDb, HashOf(group["space"]), threshold["space"])
  /\ stage' = "announce"
  /\ UNCHANGED <<memory, dNew, dThreshold, chain, fam, update, history>>

ResetRewrite ==
  /\ stage = "rewrite"
  /\ groupDb' = PutGroup(groupDb, HashOf(group["space"]), group["space"])
  /\ stage' = "announce"
  /\ UNCHANGED <<memory, dNew, dThreshold, chain, fam, update, history>>

\* Process sends the CreatethresholdEvent and goes to the next family.
Announce(f) ==
  /\ stage = "announce" /\ fam = f
  /\ IF Len(threshold[f]) >= MinThreshold
     THEN \E c \in SelectThresholds(threshold[f]) :
            announced' = [announced EXCEPT ![f] = @ \cup {c}]
     ELSE UNCHANGED announced
  /\ IF After(f) = "done"
     THEN stage' = "commit" /\ UNCHANGED fam
     ELSE stage' = "install" /\ fam' = After(f)
  /\ UNCHANGED <<memory, disk, chain, update, torn, crashes>>

----------------------------------------------------------------------------
(* The process stops anywhere and NewValidateGroup reads the lists back,   *)
(* with the group hash of the block the head pointer names.                *)

ResetStages == {"install", "delete", "write", "rewrite", "announce"}

LoadGroup(f) == GetGroup(groupDb, GroupKey(f, curHash))

\* The address sets are rebuilt from the lists.  Mutant: not from the threshold list.
LoadMarksPartly(f) ==
  AddrsOf(dNew[f]) \cup IF f \in Pipeline THEN AddrsOf(LoadGroup(f)) ELSE {}
LoadMarks(f) ==
  AddrsOf(dNew[f]) \cup
  IF f \in Pipeline THEN AddrsOf(dThreshold[f]) \cup AddrsOf(LoadGroup(f)) ELSE {}

\* GetValidateGroup, GetThresholdGroup and their like: the lists last written,
\* empty where there is none.
GetNewMembers == dNew
GetThresholdMembers == dThreshold

NewValidateGroup ==
  /\ newm' = GetNewMembers
  /\ threshold' = GetThresholdMembers
  /\ \E s \in TimeOrders(LoadGroup("space")) :
       group' = [f \in Pipeline |-> IF f = "space" THEN s ELSE LoadGroup(f)]
  /\ marked' = [f \in Family |-> LoadMarks(f)]

CrashAndRestart ==
  /\ crashes < MaxCrashes
  /\ crashes' = crashes + 1
  /\ NewValidateGroup
  /\ torn' = IF stage \in ResetStages THEN [torn EXCEPT ![fam] = @ \cup {stage}] ELSE torn
  /\ stage' = "idle"
  /\ UNCHANGED <<disk, chain, fam, update, announced>>

----------------------------------------------------------------------------
Join(f) == \E a \in Candidates[f], t \in Time :
             LET m == [addr |-> a, time |-> t] IN AddAccepted(f, m) \/ AddRejected(f, m)

Reset(f) == ResetInstall(f) \/ ResetDelete(f) \/ ResetWrite(f) \/ Announce(f)

Next ==
  \/ GenesisAdd \/ GenesisDelete \/ GenesisWrite
  \/ SetlastGroupHash
  \/ \E hash \in BlockHashes : BeginBlock(hash)
  \/ \E f \in Family : Join(f)
  \/ EndApply
  \/ \E f \in Pipeline : Reset(f)
  \/ ResetRewrite
  \/ Commit
  \/ CrashAndRestart

Spec == Init /\ [][Next]_vars

----------------------------------------------------------------------------
(* Properties *)

Stages == {"genesisAdd", "genesisDelete", "genesisWrite", "idle", "apply", "commit"} \cup ResetStages

\* Every list holds members, every set addresses, and the control variables
\* stay within the stages of Process.
TypeOK ==
  /\ newm \in [Family -> Seq(Member)] /\ threshold \in [Pipeline -> Seq(Member)]
  /\ group \in [Pipeline -> Seq(Member)] /\ marked \in [Family -> SUBSET Address]
  /\ dNew \in [Family -> Seq(Member)] /\ dThreshold \in [Pipeline -> Seq(Member)]
  /\ \A k \in DOMAIN groupDb : groupDb[k] \in Seq(Member)
  /\ number \in Nat /\ crashes \in Nat
  /\ stage \in Stages /\ fam \in Pipeline /\ update \in BOOLEAN
  /\ announced \in [Pipeline -> SUBSET SUBSET Address]
  /\ torn \in [Pipeline -> SUBSET ResetStages]

Distinct(s) == \A i, j \in DOMAIN s : s[i].addr = s[j].addr => i = j

\* The members that wait and the members that generate a key, in memory; while
\* ResetDelete is pending the threshold list already holds both.
Queue(f) == IF stage = "delete" /\ fam = f THEN threshold[f] ELSE threshold[f] \o newm[f]

\* An address has one place in a family: Add's address set, rebuilt by every
\* restart, keeps an address out of the lists it is already in.  The exception
\* is a crash between WriteThresholdGroup and DeleteValidateGroup, after which
\* the next reset appends the same members again.
UniqueMembers ==
  \A f \in Pipeline :
     "delete" \notin torn[f] => Distinct(Queue(f)) /\ Distinct(group[f])

\* A member that is on disk in the waiting or the threshold list is never lost
\* from both, wherever the process stops: Reset writes the longer threshold
\* list before it deletes the waiting one.
NoMemberLost ==
  [][stage # "genesisDelete" =>
       \A f \in Pipeline :
          AddrsOf(dThreshold[f]) \cup AddrsOf(dNew[f])
            \subseteq AddrsOf(dThreshold'[f]) \cup AddrsOf(dNew'[f])]_vars

\* A group comes on duty only after its members were sent the event that makes
\* them generate the key they sign with, one epoch earlier.  A crash within a
\* reset voids this: the members are on disk, the event is never sent.
DutyAnnounced ==
  \A f \in Pipeline :
     torn[f] \subseteq {"install"} /\ Len(group[f]) \in MinThreshold..(ValidateLimit - 1)
       => AddrsOf(group[f]) \in announced[f]

\* Between two blocks a restart changes no list: what NewValidateGroup reads is
\* what is in memory.  The space group is found again when the hash of the
\* current block is one the node has stored a group under; once a restart has
\* set the node apart from the producers, that hash may name an older group.
RestartTransparent ==
  stage = "idle" =>
    /\ newm = dNew /\ threshold = dThreshold
    /\ \A f \in Pipeline :
         (f = "space" => crashes = 0 /\ curHash \in DOMAIN groupDb) => group[f] = LoadGroup(f)

=============================================================================
