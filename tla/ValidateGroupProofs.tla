------------------------ MODULE ValidateGroupProofs ------------------------
(***************************************************************************)
(* Theorems about ValidateGroup, for every set of addresses and time       *)
(* stamps and for any number of blocks and crashes.                        *)
(***************************************************************************)
EXTENDS ValidateGroup, SequenceTheorems, TLAPS

\* Leaves about lengths and numbers cite SMT; Zenon is faster on the rest.
USE ZenonT(40)

----------------------------------------------------------------------------
(* Lemmas about the helpers *)

\* The addresses of a list of members are addresses.
LEMMA AddrsOfType ==
  ASSUME NEW s \in Seq(Member)
  PROVE  AddrsOf(s) \subseteq Address
<1>1. \A m \in Member : m.addr \in Address
  BY DEF Member
<1>2. \A i \in DOMAIN s : s[i] \in Member
  BY SMTT(30)
<1> QED BY <1>1, <1>2 DEF AddrsOf

\* sort.Sort keeps a list a list of the same length and the same members.
LEMMA TimeOrdersType ==
  ASSUME NEW s \in Seq(Member), NEW t \in TimeOrders(s)
  PROVE  /\ t \in Seq(Member)
         /\ Len(t) = Len(s)
         /\ AddrsOf(t) = AddrsOf(s)
<1>1. PICK p \in Bijection(DOMAIN s, DOMAIN s) : t = [i \in DOMAIN s |-> s[p[i]]]
  BY DEF TimeOrders
<1>2. p \in [DOMAIN s -> DOMAIN s] /\ \A j \in DOMAIN s : \E i \in DOMAIN s : p[i] = j
  BY <1>1 DEF Bijection, Injection, Surjection
<1>3. t \in Seq(Member) /\ Len(t) = Len(s)
  <2>1. DOMAIN s = 1..Len(s) /\ Len(s) \in Nat
    BY SMTT(30)
  <2>2. t \in [1..Len(s) -> Member]
    BY <1>1, <1>2, <2>1, SMTT(30)
  <2>3. t \in Seq(Member)
    BY <2>1, <2>2, SeqDef
  <2> QED BY <2>1, <2>2, <2>3, LenProperties, SMTT(30)
<1>4. AddrsOf(t) = AddrsOf(s)
  BY <1>1, <1>2, <1>3 DEF AddrsOf
<1> QED BY <1>3, <1>4

\* A committee that is announced consists of addresses.
LEMMA SelectThresholdsType ==
  ASSUME NEW s \in Seq(Member), NEW c \in SelectThresholds(s)
  PROVE  c \subseteq Address
<1>1. CASE Len(s) < ValidateLimit
  BY <1>1, AddrsOfType DEF SelectThresholds
<1>2. CASE ~(Len(s) < ValidateLimit)
  <2>1. PICK p \in Injection(1..ValidateLimit, DOMAIN s) :
             c = AddrsOf([i \in 1..ValidateLimit |-> s[p[i]]])
    BY <1>2 DEF SelectThresholds
  <2>2. \A i \in 1..ValidateLimit : s[p[i]] \in Member
    BY <2>1, SMTT(30) DEF Injection
  <2>3. \A m \in Member : m.addr \in Address
    BY DEF Member
  <2> QED BY <2>1, <2>2, <2>3 DEF AddrsOf
<1> QED BY <1>1, <1>2

----------------------------------------------------------------------------
(* Type correctness *)

\* What a restart reads back is well typed.
LEMMA LoadType ==
  ASSUME TypeOK, NEW f \in Pipeline
  PROVE  LoadGroup(f) \in Seq(Member)
BY SMTT(30) DEF TypeOK, LoadGroup, GetGroup

\* Storing a list keeps the store well typed.
LEMMA PutGroupType ==
  ASSUME NEW db, NEW key, NEW s \in Seq(Member),
         \A k \in DOMAIN db : db[k] \in Seq(Member)
  PROVE  \A k \in DOMAIN PutGroup(db, key, s) : PutGroup(db, key, s)[k] \in Seq(Member)
BY DEF PutGroup

\* NewValidateGroup builds well-typed lists and address sets from a well-typed
\* disk.
LEMMA NewValidateGroupType ==
  ASSUME TypeOK, NewValidateGroup
  PROVE  /\ newm' \in [Family -> Seq(Member)]
         /\ threshold' \in [Pipeline -> Seq(Member)]
         /\ group' \in [Pipeline -> Seq(Member)]
         /\ marked' \in [Family -> SUBSET Address]
<1>1. group' \in [Pipeline -> Seq(Member)]
  <2>1. PICK s \in TimeOrders(LoadGroup("space")) :
             group' = [f \in Pipeline |-> IF f = "space" THEN s ELSE LoadGroup(f)]
    BY DEF NewValidateGroup, GetNewMembers, GetThresholdMembers
  <2>2. LoadGroup("space") \in Seq(Member)
    BY LoadType DEF Pipeline
  <2>3. s \in Seq(Member)
    BY <2>2, TimeOrdersType
  <2> QED BY <2>1, <2>3, LoadType
<1>2. marked' \in [Family -> SUBSET Address]
  <2>1. \A f \in Family : LoadMarks(f) \subseteq Address
    <3> SUFFICES ASSUME NEW f \in Family PROVE LoadMarks(f) \subseteq Address
      OBVIOUS
    <3>1. AddrsOf(dNew[f]) \subseteq Address
      BY AddrsOfType DEF TypeOK
    <3>2. f \in Pipeline => /\ AddrsOf(dThreshold[f]) \subseteq Address
                            /\ AddrsOf(LoadGroup(f)) \subseteq Address
      BY AddrsOfType, LoadType DEF TypeOK
    <3> QED BY <3>1, <3>2 DEF LoadMarks
  <2> QED BY <2>1 DEF NewValidateGroup, GetNewMembers, GetThresholdMembers
<1> QED BY <1>1, <1>2 DEF NewValidateGroup, GetNewMembers, GetThresholdMembers, TypeOK

LEMMA TypeInit == Init => TypeOK
<1> SUFFICES ASSUME Init PROVE TypeOK
  OBVIOUS
<1>1. <<>> \in Seq(Member)
  BY SMTT(30)
<1>2. /\ newm \in [Family -> Seq(Member)] /\ threshold \in [Pipeline -> Seq(Member)]
      /\ group \in [Pipeline -> Seq(Member)] /\ marked \in [Family -> SUBSET Address]
      /\ dNew \in [Family -> Seq(Member)] /\ dThreshold \in [Pipeline -> Seq(Member)]
  BY <1>1 DEF Init
<1>3. /\ \A k \in DOMAIN groupDb : groupDb[k] \in Seq(Member)
      /\ announced \in [Pipeline -> SUBSET SUBSET Address]
      /\ torn \in [Pipeline -> SUBSET ResetStages]
  BY DEF Init
<1> QED BY <1>2, <1>3 DEF Init, TypeOK, Stages, Pipeline

\* Every step of the groups keeps the variables within their types.
LEMMA TypeStep == TypeOK /\ [Next]_vars => TypeOK'
<1> SUFFICES ASSUME TypeOK, [Next]_vars PROVE TypeOK'
  OBVIOUS
<1> USE DEF TypeOK
<1>1. CASE GenesisAdd
  <2>1. <<GenesisMember>> \in Seq(Member) /\ {GenesisAddr} \subseteq Address
    BY SMTT(30) DEF GenesisMember, Member, Address
  <2> QED BY <1>1, <2>1 DEF GenesisAdd, WriteNew, chain, history, Stages, Family, Pipeline
<1>2. CASE GenesisDelete
  <2>1. newm["space"] \in Seq(Member) /\ group["space"] \in Seq(Member)
    BY DEF Family, Pipeline
  <2>2. group["space"] \o newm["space"] \in Seq(Member) /\ <<>> \in Seq(Member)
    BY <2>1, SMTT(30)
  <2> QED BY <1>2, <2>2 DEF GenesisDelete, WriteNew, chain, history, Stages
<1>3. CASE GenesisWrite
  <2>1. group["space"] \in Seq(Member)
    BY DEF Pipeline
  <2> QED BY <1>3, <2>1, PutGroupType DEF GenesisWrite, memory, chain, history, Stages
<1>4. CASE SetlastGroupHash
  <2>1. group["space"] \in Seq(Member)
    BY DEF Pipeline
  <2> QED BY <1>4, <2>1, PutGroupType DEF SetlastGroupHash, memory, chain, control, history
<1>5. CASE \E hash \in BlockHashes : BeginBlock(hash)
  BY <1>5 DEF BeginBlock, memory, disk, history, Stages
<1>6. CASE \E f \in Family : Join(f)
  <2>0. PICK f \in Family : Join(f)
    BY <1>6
  <2>1. PICK a \in Candidates[f], t \in Time :
             \/ AddAccepted(f, [addr |-> a, time |-> t])
             \/ AddRejected(f, [addr |-> a, time |-> t])
    BY <2>0 DEF Join
  <2> DEFINE m == [addr |-> a, time |-> t]
  <2>2. a \in Address /\ m \in Member
    BY ConstantsAssumption DEF Member
  <2> HIDE DEF m
  <2>3. m.addr \in Address /\ Append(newm[f], m) \in Seq(Member)
    <3>1. m.addr \in Address
      BY <2>2 DEF m
    <3>2. newm[f] \in Seq(Member)
      OBVIOUS
    <3> QED BY <2>2, <3>1, <3>2, SMTT(30)
  <2>4. CASE AddAccepted(f, m)
    BY <2>3, <2>4 DEF AddAccepted, WriteNew, chain, control, history
  <2>5. CASE AddRejected(f, m)
    BY <2>3, <2>5 DEF AddRejected, disk, chain, control, history
  <2> QED BY <2>1, <2>4, <2>5 DEF m
<1>7. CASE EndApply
  BY <1>7 DEF EndApply, memory, disk, chain, history, Stages, ResetStages, Pipeline
<1>8. CASE \E f \in Pipeline : Reset(f)
  <2> SUFFICES ASSUME NEW f \in Pipeline, Reset(f) PROVE TypeOK'
    BY <1>8
  <2>0. /\ f \in Family /\ newm[f] \in Seq(Member) /\ threshold[f] \in Seq(Member)
        /\ group[f] \in Seq(Member) /\ threshold[f] \o newm[f] \in Seq(Member)
    BY SMTT(30) DEF Family
  <2>1. CASE ResetInstall(f)
    <3>1. update' \in BOOLEAN /\ group' \in [Pipeline -> Seq(Member)]
      BY <2>0, <2>1, SMTT(30) DEF ResetInstall, OnDuty
    <3>2. /\ threshold' \in [Pipeline -> Seq(Member)]
          /\ dThreshold' \in [Pipeline -> Seq(Member)]
      BY <2>0, <2>1 DEF ResetInstall, WriteThreshold
    <3>3. stage' \in Stages
      BY <2>1 DEF ResetInstall, Stages, ResetStages
    <3> QED BY <2>1, <3>1, <3>2, <3>3 DEF ResetInstall, chain, history
  <2>2. CASE ResetDelete(f)
    BY <2>0, <2>2, SMTT(30) DEF ResetDelete, WriteNew, chain, history, Stages, ResetStages
  <2>3. CASE ResetWrite(f)
    <3>1. PICK s \in TimeOrders(group[f]) :
               /\ group' = [group EXCEPT ![f] = s]
               /\ groupDb' = IF update THEN PutGroup(groupDb, GroupKey(f, blkHash), s) ELSE groupDb
               /\ stage' \in {"rewrite", "announce"}
      BY <2>3 DEF ResetWrite
    <3>2. s \in Seq(Member)
      BY <2>0, TimeOrdersType
    <3>3. \A k \in DOMAIN groupDb' : groupDb'[k] \in Seq(Member)
      BY <3>1, <3>2, PutGroupType
    <3> QED BY <2>3, <3>1, <3>2, <3>3 DEF ResetWrite, chain, history, Stages, ResetStages
  <2>4. CASE Announce(f)
    <3>1. announced' \in [Pipeline -> SUBSET SUBSET Address]
      <4>1. CASE Len(threshold[f]) >= MinThreshold
        <5>1. PICK c \in SelectThresholds(threshold[f]) :
                   announced' = [announced EXCEPT ![f] = @ \cup {c}]
          BY <2>4, <4>1 DEF Announce
        <5>2. c \in SUBSET Address
          BY <2>0, SelectThresholdsType
        <5> QED BY <5>1, <5>2
      <4>2. CASE ~(Len(threshold[f]) >= MinThreshold)
        BY <2>4, <4>2 DEF Announce
      <4> QED BY <4>1, <4>2
    <3> QED BY <2>4, <3>1 DEF Announce, After, memory, disk, chain, Stages, ResetStages, Pipeline
  <2> QED BY <2>1, <2>2, <2>3, <2>4 DEF Reset
<1>9. CASE ResetRewrite
  <2>1. group["space"] \in Seq(Member)
    BY DEF Pipeline
  <2> QED BY <1>9, <2>1, PutGroupType
          DEF ResetRewrite, memory, chain, history, Stages, ResetStages
<1>10. CASE Commit
  BY <1>10, SMTT(30) DEF Commit, memory, disk, history, Stages
<1>11. CASE CrashAndRestart
  BY <1>11, NewValidateGroupType, SMTT(30) DEF CrashAndRestart, disk, chain, Stages
<1>12. CASE UNCHANGED vars
  BY <1>12 DEF vars, memory, disk, chain, control, history
<1> QED
  BY <1>1, <1>2, <1>3, <1>4, <1>5, <1>6, <1>7, <1>8, <1>9, <1>10, <1>11, <1>12 DEF Next

\* The lists, the stores and the control variables stay within their types, for
\* any addresses, time stamps and number of blocks and crashes.
THEOREM TypeCorrect == Spec => []TypeOK
<1>1. Init => TypeOK BY TypeInit
<1>2. TypeOK /\ [Next]_vars => TypeOK' BY TypeStep
<1> QED BY <1>1, <1>2, PTL DEF Spec

----------------------------------------------------------------------------
(* Lemmas about lists of members *)

\* A concatenation has the addresses of its parts.
LEMMA ConcatAddrs ==
  ASSUME NEW s \in Seq(Member), NEW t \in Seq(Member)
  PROVE  AddrsOf(s \o t) = AddrsOf(s) \cup AddrsOf(t)
<1>1. \A a : a \in AddrsOf(s \o t) => a \in AddrsOf(s) \cup AddrsOf(t)
  BY SMTT(30) DEF AddrsOf
<1>2. \A a \in AddrsOf(s) : a \in AddrsOf(s \o t)
  <2> SUFFICES ASSUME NEW i \in DOMAIN s PROVE s[i].addr \in AddrsOf(s \o t)
    BY DEF AddrsOf
  <2>1. i \in DOMAIN (s \o t) /\ (s \o t)[i] = s[i]
    BY SMTT(30)
  <2> QED BY <2>1 DEF AddrsOf
<1>3. \A a \in AddrsOf(t) : a \in AddrsOf(s \o t)
  <2> SUFFICES ASSUME NEW i \in DOMAIN t PROVE t[i].addr \in AddrsOf(s \o t)
    BY DEF AddrsOf
  <2>1. Len(s) + i \in DOMAIN (s \o t) /\ (s \o t)[Len(s) + i] = t[i]
    BY SMTT(30)
  <2> QED BY <2>1 DEF AddrsOf
<1> QED BY <1>1, <1>2, <1>3

\* A prefix of a list without repetition has none.
LEMMA DistinctPrefix ==
  ASSUME NEW s \in Seq(Member), NEW t \in Seq(Member), Distinct(s \o t)
  PROVE  Distinct(s)
BY SMTT(30) DEF Distinct

\* A new address keeps a list without repetition.
LEMMA DistinctAppend ==
  ASSUME NEW s \in Seq(Member), NEW m \in Member, Distinct(s), m.addr \notin AddrsOf(s)
  PROVE  Distinct(Append(s, m))
<1> SUFFICES ASSUME NEW i \in DOMAIN Append(s, m), NEW j \in DOMAIN Append(s, m),
                    Append(s, m)[i].addr = Append(s, m)[j].addr
             PROVE  i = j
  BY DEF Distinct
<1>1. DOMAIN Append(s, m) = 1..(Len(s) + 1) /\ Len(s) \in Nat
  BY SMTT(30)
<1>2. \A k \in DOMAIN s : Append(s, m)[k] = s[k] /\ s[k].addr # m.addr
  BY SMTT(30) DEF AddrsOf
<1>3. Append(s, m)[Len(s) + 1] = m
  BY SMTT(30)
<1> QED BY <1>1, <1>2, <1>3, SMTT(30) DEF Distinct

\* Appending to the second part of a concatenation appends to the whole.
LEMMA AppendConcat ==
  ASSUME NEW s \in Seq(Member), NEW t \in Seq(Member), NEW m \in Member
  PROVE  s \o Append(t, m) = Append(s \o t, m)
<1>1. /\ Append(t, m) \in Seq(Member) /\ s \o t \in Seq(Member)
      /\ s \o Append(t, m) \in Seq(Member) /\ Append(s \o t, m) \in Seq(Member)
  BY SMTT(30)
<1>2. Len(s \o Append(t, m)) = Len(Append(s \o t, m))
  BY <1>1, SMTT(30)
<1>3. \A i \in 1..Len(s \o Append(t, m)) : (s \o Append(t, m))[i] = Append(s \o t, m)[i]
  BY <1>1, SMTT(30)
<1> QED BY <1>1, <1>2, <1>3, SeqEqual

\* sort.Sort repeats nobody.
LEMMA TimeOrdersDistinct ==
  ASSUME NEW s \in Seq(Member), NEW t \in TimeOrders(s), Distinct(s)
  PROVE  Distinct(t)
<1>1. PICK p \in Bijection(DOMAIN s, DOMAIN s) : t = [i \in DOMAIN s |-> s[p[i]]]
  BY DEF TimeOrders
<1>2. p \in [DOMAIN s -> DOMAIN s] /\ \A i, j \in DOMAIN s : p[i] = p[j] => i = j
  BY <1>1 DEF Bijection, Injection, IsInjective
<1> QED BY <1>1, <1>2, SMTT(30) DEF Distinct

----------------------------------------------------------------------------
(* The inductive invariant *)

\* The family a key of the group store belongs to.
FamilyOf(k) == IF k = FamilyKey("coin") THEN "coin"
               ELSE IF k = FamilyKey("tx") THEN "tx" ELSE "space"

\* The hashes in use are keys of the space family.
HashesApart == FamilyOf(curHash) = "space" /\ FamilyOf(blkHash) = "space"

\* The waiting and the threshold lists in memory are those on disk, at every
\* step: each assignment is followed by its write.
MemoryOnDisk == newm = dNew /\ threshold = dThreshold

\* Every listed address is marked, and Add lets no marked address in.
MarkedCovers ==
  \A f \in Pipeline :
     /\ AddrsOf(newm[f]) \subseteq marked[f]
     /\ AddrsOf(threshold[f]) \subseteq marked[f]

\* While the waiting list is about to be deleted, the threshold list holds it.
DeletePending == stage = "delete" => AddrsOf(newm[fam]) \subseteq AddrsOf(threshold[fam])

\* The lists while the genesis group is made.
GenesisLists ==
  /\ stage = "genesisAdd" => newm["space"] = <<>> /\ threshold["space"] = <<>>
  /\ stage \in {"genesisAdd", "genesisDelete"} => group["space"] = <<>>
  /\ stage = "genesisDelete" => newm["space"] = <<GenesisMember>>
  /\ stage = "genesisWrite" => group["space"] = <<GenesisMember>>

\* No stored group repeats an address.
StoredDistinct ==
  \A k \in DOMAIN groupDb :
     "delete" \notin torn[FamilyOf(k)] => Distinct(groupDb[k])

IInv == /\ TypeOK /\ HashesApart /\ MemoryOnDisk /\ MarkedCovers
        /\ DeletePending /\ GenesisLists /\ StoredDistinct /\ UniqueMembers

LEMMA IInvInit == Init => IInv
<1> SUFFICES ASSUME Init PROVE IInv
  OBVIOUS
<1>1. TypeOK
  BY TypeInit
<1>2. HashesApart
  BY DEF Init, HashesApart, FamilyOf, FamilyKey, AddressHash
<1>3. MarkedCovers
  BY SMTT(30) DEF Init, MarkedCovers, AddrsOf, Family
<1>4. UniqueMembers
  <2> SUFFICES ASSUME NEW f \in Pipeline PROVE Distinct(Queue(f)) /\ Distinct(group[f])
    BY DEF UniqueMembers
  <2>1. newm[f] = <<>> /\ threshold[f] = <<>> /\ group[f] = <<>> /\ stage # "delete"
    BY DEF Init, Family
  <2>2. Queue(f) = <<>>
    BY <2>1, SMTT(30) DEF Queue
  <2> QED BY <2>1, <2>2, SMTT(30) DEF Distinct
<1>5. MemoryOnDisk /\ DeletePending /\ StoredDistinct
  BY DEF Init, MemoryOnDisk, DeletePending, StoredDistinct
<1>6. GenesisLists
  BY DEF Init, GenesisLists, Pipeline, Family
<1> QED BY <1>1, <1>2, <1>3, <1>4, <1>5, <1>6 DEF IInv

\* The hash of a list and the hashes of blocks are keys of the space family.
LEMMA HashFamily ==
  /\ \A s : FamilyOf(HashOf(s)) = "space"
  /\ FamilyOf(AddressHash) = "space"
  /\ FamilyOf(Foreign) = "space"
  /\ \A f \in Pipeline : \A h : FamilyOf(h) = "space" => FamilyOf(GroupKey(f, h)) = f
<1>1. \A s : FamilyOf(HashOf(s)) = "space"
  BY DEF FamilyOf, HashOf, FamilyKey
<1>2. FamilyOf(AddressHash) = "space"
  BY DEF FamilyOf, AddressHash, FamilyKey
<1>3. FamilyOf(Foreign) = "space"
  BY ConstantsAssumption DEF FamilyOf, Pipeline
<1>4. ASSUME NEW f \in Pipeline, NEW h, FamilyOf(h) = "space"
      PROVE  FamilyOf(GroupKey(f, h)) = f
  <2>1. CASE f = "space" BY <1>4, <2>1 DEF GroupKey
  <2>2. CASE f = "coin" BY <2>2 DEF GroupKey, FamilyOf
  <2>3. CASE f = "tx" BY <2>3 DEF GroupKey, FamilyOf, FamilyKey
  <2> QED BY <2>1, <2>2, <2>3 DEF Pipeline
<1> QED BY <1>1, <1>2, <1>3, <1>4

\* Storing a list without repetition under a key of its family.
LEMMA PutDistinct ==
  ASSUME StoredDistinct, UNCHANGED torn, NEW key, NEW s,
         "delete" \notin torn[FamilyOf(key)] => Distinct(s),
         groupDb' = PutGroup(groupDb, key, s)
  PROVE  StoredDistinct'
BY DEF StoredDistinct, PutGroup

\* The steps that touch no list.
LEMMA Frame ==
  ASSUME IInv, TypeOK', HashesApart', marked' = marked \/ MarkedCovers',
         UNCHANGED <<newm, threshold, group, dNew, dThreshold, groupDb, torn>>,
         stage # "delete",
         stage' \notin {"delete", "genesisAdd", "genesisDelete", "genesisWrite"}
  PROVE  IInv'
<1>1. MemoryOnDisk' /\ MarkedCovers' /\ DeletePending' /\ GenesisLists' /\ StoredDistinct'
  BY DEF IInv, MemoryOnDisk, MarkedCovers, DeletePending, GenesisLists, StoredDistinct
<1>2. UniqueMembers'
  BY DEF IInv, UniqueMembers, Queue
<1> QED BY <1>1, <1>2 DEF IInv

\* The steps of the genesis file.
LEMMA GenesisStep ==
  ASSUME IInv, TypeOK', GenesisAdd \/ GenesisDelete \/ GenesisWrite
  PROVE  IInv'
<1> USE DEF IInv
<1>0. "space" \in Pipeline /\ "space" \in Family /\ Pipeline \subseteq Family
  BY DEF Pipeline, Family
<1>g. GenesisMember \in Member /\ <<GenesisMember>> \in Seq(Member)
  BY SMTT(30) DEF GenesisMember, Member, Address
<1>e. <<>> \o <<GenesisMember>> = <<GenesisMember>>
  BY <1>g, ConcatEmptySeq
<1>d. Distinct(<<GenesisMember>>) /\ AddrsOf(<<GenesisMember>>) = {GenesisAddr}
  BY SMTT(30) DEF Distinct, AddrsOf, GenesisMember
<1>1. CASE GenesisAdd
  <2>1. HashesApart' /\ MemoryOnDisk' /\ DeletePending' /\ GenesisLists' /\ StoredDistinct'
    BY <1>0, <1>1 DEF GenesisAdd, WriteNew, chain, history, HashesApart, MemoryOnDisk,
       DeletePending, GenesisLists, StoredDistinct, TypeOK
  <2>2. MarkedCovers'
    <3>1. AddrsOf(threshold["space"]) = {}
      BY <1>1, SMTT(30) DEF GenesisAdd, GenesisLists, AddrsOf
    <3> QED BY <1>0, <1>1, <1>d, <3>1 DEF GenesisAdd, MarkedCovers, TypeOK
  <2>3. UniqueMembers'
    <3> SUFFICES ASSUME NEW f \in Pipeline, "delete" \notin torn[f]
                 PROVE  Distinct(Queue(f))' /\ Distinct(group[f])'
      BY <1>1 DEF GenesisAdd, history, UniqueMembers
    <3>1. Distinct(Queue(f)) /\ Distinct(group[f])
      BY DEF UniqueMembers
    <3>2. CASE f = "space"
      <4>1. threshold[f] \o <<GenesisMember>> = <<GenesisMember>>
        BY <1>1, <1>e, <3>2 DEF GenesisAdd, GenesisLists
      <4> QED BY <1>0, <1>1, <1>d, <3>1, <3>2, <4>1 DEF GenesisAdd, Queue, TypeOK
    <3>3. CASE f # "space"
      BY <1>0, <1>1, <3>1, <3>3 DEF GenesisAdd, Queue, TypeOK
    <3> QED BY <3>2, <3>3
  <2> QED BY <2>1, <2>2, <2>3
<1>2. CASE GenesisDelete
  <2>0. group["space"] \o newm["space"] = <<GenesisMember>>
    BY <1>2, <1>e DEF GenesisDelete, GenesisLists
  <2>1. HashesApart' /\ MemoryOnDisk' /\ DeletePending' /\ GenesisLists' /\ StoredDistinct'
    BY <1>0, <1>2, <2>0 DEF GenesisDelete, WriteNew, chain, history, HashesApart, MemoryOnDisk,
       DeletePending, GenesisLists, StoredDistinct, TypeOK
  <2>2. MarkedCovers'
    <3>1. AddrsOf(<<>>) = {}
      BY SMTT(30) DEF AddrsOf
    <3> QED BY <1>0, <1>2, <3>1 DEF GenesisDelete, MarkedCovers, TypeOK
  <2>3. UniqueMembers'
    <3> SUFFICES ASSUME NEW f \in Pipeline, "delete" \notin torn[f]
                 PROVE  Distinct(Queue(f))' /\ Distinct(group[f])'
      BY <1>2 DEF GenesisDelete, history, UniqueMembers
    <3>1. Distinct(threshold[f] \o newm[f]) /\ Distinct(group[f])
      BY <1>2 DEF UniqueMembers, GenesisDelete, Queue
    <3>2. CASE f = "space"
      <4>1. newm'[f] = <<>> /\ threshold'[f] = threshold[f] /\ group'[f] = <<GenesisMember>>
        BY <1>0, <1>2, <2>0, <3>2 DEF GenesisDelete, TypeOK
      <4>2. Distinct(threshold[f]) /\ threshold[f] \o <<>> = threshold[f]
        BY <1>0, <3>1, DistinctPrefix, SMTT(30) DEF TypeOK
      <4> QED BY <1>2, <1>d, <4>1, <4>2 DEF GenesisDelete, Queue
    <3>3. CASE f # "space"
      BY <1>0, <1>2, <3>1, <3>3 DEF GenesisDelete, Queue, TypeOK
    <3> QED BY <3>2, <3>3
  <2> QED BY <2>1, <2>2, <2>3
<1>3. CASE GenesisWrite
  <2>1. HashesApart' /\ MemoryOnDisk' /\ MarkedCovers' /\ DeletePending' /\ GenesisLists'
    BY <1>3 DEF GenesisWrite, memory, chain, history, HashesApart, MemoryOnDisk, MarkedCovers,
       DeletePending, GenesisLists
  <2>2. StoredDistinct'
    BY <1>3, <1>d, PutDistinct DEF GenesisWrite, GenesisLists, history
  <2>3. UniqueMembers'
    BY <1>3 DEF GenesisWrite, memory, history, UniqueMembers, Queue
  <2> QED BY <2>1, <2>2, <2>3
<1> QED BY <1>1, <1>2, <1>3

\* Add, accepted: a marked address is in none of the lists, so the new one has
\* one place.
LEMMA AddAcceptedStep ==
  ASSUME IInv, TypeOK', NEW f \in Family, NEW m \in Member, AddAccepted(f, m)
  PROVE  IInv'
<1> USE DEF IInv
<1>0. Pipeline \subseteq Family
  BY DEF Family
<1>1. HashesApart' /\ MemoryOnDisk' /\ DeletePending' /\ GenesisLists' /\ StoredDistinct'
  BY DEF AddAccepted, WriteNew, chain, control, history, HashesApart, MemoryOnDisk,
     DeletePending, GenesisLists, StoredDistinct, TypeOK
<1>2. ASSUME NEW e \in Pipeline
      PROVE  /\ (AddrsOf(newm[e]) \subseteq marked[e])'
             /\ (AddrsOf(threshold[e]) \subseteq marked[e])'
             /\ "delete" \notin torn[e] => Distinct(Queue(e))' /\ Distinct(group[e])'
  <2>1. /\ AddrsOf(newm[e]) \subseteq marked[e] /\ AddrsOf(threshold[e]) \subseteq marked[e]
        /\ "delete" \notin torn[e] => Distinct(threshold[e] \o newm[e]) /\ Distinct(group[e])
    BY DEF MarkedCovers, UniqueMembers, Queue, AddAccepted
  <2>2. CASE e # f
    BY <1>0, <2>1, <2>2 DEF AddAccepted, control, Queue, TypeOK
  <2>3. CASE e = f
    <3>1. newm[e] \in Seq(Member) /\ threshold[e] \in Seq(Member)
      BY <1>0 DEF TypeOK
    <3>2. newm'[e] = Append(newm[e], m) /\ marked'[e] = marked[e] \cup {m.addr}
          /\ threshold'[e] = threshold[e] /\ group'[e] = group[e] /\ stage' = stage
      BY <2>3, <1>0 DEF AddAccepted, control, TypeOK
    <3>3. AddrsOf(Append(newm[e], m)) = AddrsOf(newm[e]) \cup {m.addr}
      <4>1. AddrsOf(<<m>>) = {m.addr} /\ <<m>> \in Seq(Member)
        BY SMTT(30) DEF AddrsOf
      <4>2. Append(newm[e], m) = newm[e] \o <<m>>
        BY <3>1, AppendIsConcat
      <4> QED BY <3>1, <4>1, <4>2, ConcatAddrs
    <3>s. threshold[e] \o newm[e] \in Seq(Member) /\ <<m>> \in Seq(Member)
      BY <3>1, SMTT(30)
    <3>4. threshold[e] \o Append(newm[e], m) = Append(threshold[e] \o newm[e], m)
      BY <3>1, AppendConcat
    <3>5. m.addr \notin AddrsOf(threshold[e] \o newm[e])
      BY <2>1, <2>3, <3>1, ConcatAddrs DEF AddAccepted
    <3>6. "delete" \notin torn[e] => Distinct(Append(threshold[e] \o newm[e], m))
      BY <2>1, <3>s, <3>5, DistinctAppend
    <3> QED BY <2>1, <3>2, <3>3, <3>4, <3>6 DEF Queue, AddAccepted
  <2> QED BY <2>2, <2>3
<1>3. MarkedCovers'
  BY <1>2 DEF MarkedCovers
<1>4. UniqueMembers'
  BY <1>2 DEF UniqueMembers, AddAccepted, history
<1> QED BY <1>1, <1>3, <1>4

\* A reset moves the waiting members to the threshold list, and the threshold
\* list on duty, and repeats nobody unless it is interrupted.
LEMMA ResetStep ==
  ASSUME IInv, TypeOK', NEW f \in Pipeline, Reset(f)
  PROVE  IInv'
<1> USE DEF IInv
<1>0. Pipeline \subseteq Family /\ f \in Family
  BY DEF Family
<1>t. /\ newm[f] \in Seq(Member) /\ threshold[f] \in Seq(Member) /\ group[f] \in Seq(Member)
      /\ threshold[f] \o newm[f] \in Seq(Member)
  BY <1>0, SMTT(30) DEF TypeOK
<1>a. AddrsOf(<<>>) = {} /\ AddrsOf(threshold[f] \o newm[f]) = AddrsOf(threshold[f]) \cup AddrsOf(newm[f])
  <2>1. AddrsOf(<<>>) = {}
    BY SMTT(30) DEF AddrsOf
  <2> QED BY <1>t, <2>1, ConcatAddrs
<1>e. threshold[f] \o <<>> = threshold[f] /\ (threshold[f] \o newm[f]) \o <<>> = threshold[f] \o newm[f]
  BY <1>t, ConcatEmptySeq
<1>1. CASE ResetInstall(f)
  <2>1. /\ threshold' = [threshold EXCEPT ![f] = threshold[f] \o newm[f]]
        /\ newm' = newm /\ marked' = marked /\ torn' = torn /\ groupDb' = groupDb
        /\ fam = f /\ fam' = f /\ stage = "install"
    BY <1>1 DEF ResetInstall, history
  <2>2. HashesApart' /\ GenesisLists' /\ StoredDistinct'
    BY <1>1, <2>1 DEF ResetInstall, chain, HashesApart, GenesisLists, StoredDistinct
  <2>3. MemoryOnDisk'
    <3>1. CASE newm[f] # <<>>
      BY <1>1, <2>1, <3>1 DEF ResetInstall, WriteThreshold, MemoryOnDisk
    <3>2. CASE newm[f] = <<>>
      BY <1>1, <1>e, <2>1, <3>2, SMTT(30) DEF ResetInstall, MemoryOnDisk, TypeOK
    <3> QED BY <3>1, <3>2
  <2>4. MarkedCovers' /\ DeletePending'
    BY <1>0, <1>a, <2>1 DEF MarkedCovers, DeletePending, TypeOK
  <2>5. UniqueMembers'
    <3> SUFFICES ASSUME NEW e \in Pipeline, "delete" \notin torn[e]
                 PROVE  Distinct(Queue(e))' /\ Distinct(group[e])'
      BY <2>1 DEF UniqueMembers
    <3>1. Distinct(threshold[e] \o newm[e]) /\ Distinct(group[e])
      BY <2>1 DEF UniqueMembers, Queue
    <3>2. CASE e # f
      BY <1>1, <2>1, <3>1, <3>2 DEF ResetInstall, Queue, TypeOK
    <3>3. CASE e = f
      <4>1. threshold'[f] = threshold[f] \o newm[f]
        BY <2>1 DEF TypeOK
      <4>2. Distinct(Queue(f))'
        <5>1. CASE newm[f] # <<>>
          BY <1>1, <2>1, <3>1, <3>3, <4>1, <5>1 DEF ResetInstall, Queue
        <5>2. CASE newm[f] = <<>>
          BY <1>1, <1>e, <2>1, <3>1, <3>3, <4>1, <5>2 DEF ResetInstall, Queue
        <5> QED BY <5>1, <5>2
      <4>3. Distinct(threshold[f])
        BY <1>t, <3>1, <3>3, DistinctPrefix
      <4>4. group'[f] = threshold[f] \/ group'[f] = group[f]
        BY <1>1 DEF ResetInstall, OnDuty, TypeOK
      <4> QED BY <3>1, <3>3, <4>2, <4>3, <4>4
    <3> QED BY <3>2, <3>3
  <2> QED BY <2>2, <2>3, <2>4, <2>5
<1>2. CASE ResetDelete(f)
  <2>1. HashesApart' /\ MemoryOnDisk' /\ DeletePending' /\ GenesisLists' /\ StoredDistinct'
    BY <1>2 DEF ResetDelete, WriteNew, chain, history, HashesApart, MemoryOnDisk, DeletePending,
       GenesisLists, StoredDistinct
  <2>2. MarkedCovers'
    BY <1>0, <1>2, <1>a DEF ResetDelete, MarkedCovers, TypeOK
  <2>3. UniqueMembers'
    <3> SUFFICES ASSUME NEW e \in Pipeline, "delete" \notin torn[e]
                 PROVE  Distinct(Queue(e))' /\ Distinct(group[e])'
      BY <1>2 DEF ResetDelete, history, UniqueMembers
    <3>1. Distinct(Queue(e)) /\ Distinct(group[e])
      BY DEF UniqueMembers
    <3>2. CASE e = f
      BY <1>0, <1>2, <1>e, <3>1, <3>2 DEF ResetDelete, Queue, TypeOK
    <3>3. CASE e # f
      BY <1>0, <1>2, <3>1, <3>3 DEF ResetDelete, Queue, TypeOK
    <3> QED BY <3>2, <3>3
  <2> QED BY <2>1, <2>2, <2>3
<1>3. CASE ResetWrite(f)
  <2>1. PICK s \in TimeOrders(group[f]) :
             /\ group' = [group EXCEPT ![f] = s]
             /\ groupDb' = IF update THEN PutGroup(groupDb, GroupKey(f, blkHash), s) ELSE groupDb
             /\ stage' \in {"rewrite", "announce"}
    BY <1>3 DEF ResetWrite
  <2>2. /\ UNCHANGED <<newm, threshold, marked, dNew, dThreshold, chain, fam, torn>>
        /\ stage = "write"
    BY <1>3 DEF ResetWrite, history
  <2>3. HashesApart' /\ MemoryOnDisk' /\ MarkedCovers' /\ DeletePending' /\ GenesisLists'
    BY <2>1, <2>2 DEF chain, HashesApart, MemoryOnDisk, MarkedCovers, DeletePending, GenesisLists
  <2>4. "delete" \notin torn[f] => Distinct(s)
    BY <1>t, TimeOrdersDistinct DEF UniqueMembers
  <2>5. StoredDistinct'
    <3>1. CASE update
      BY <2>1, <2>2, <2>4, <3>1, HashFamily, PutDistinct DEF HashesApart
    <3>2. CASE ~update
      BY <2>1, <2>2, <3>2 DEF StoredDistinct
    <3> QED BY <3>1, <3>2
  <2>6. UniqueMembers'
    BY <2>1, <2>2, <2>4 DEF UniqueMembers, Queue, TypeOK
  <2> QED BY <2>3, <2>5, <2>6
<1>4. CASE Announce(f)
  BY <1>4, Frame DEF Announce, memory, disk, chain, HashesApart
<1> QED BY <1>1, <1>2, <1>3, <1>4 DEF Reset

\* A crash and a restart: the lists come back, with an address set that covers
\* them; a crash that falls before a pending delete is recorded in torn.
LEMMA CrashStep ==
  ASSUME IInv, TypeOK', CrashAndRestart
  PROVE  IInv'
<1> USE DEF IInv
<1>0. Pipeline \subseteq Family /\ "space" \in Pipeline
  BY DEF Pipeline, Family
<1>1. /\ newm' = newm /\ threshold' = threshold /\ stage' = "idle" /\ fam' = fam
      /\ UNCHANGED <<dNew, dThreshold, groupDb, curHash, blkHash>>
  BY DEF CrashAndRestart, NewValidateGroup, GetNewMembers, GetThresholdMembers, MemoryOnDisk, disk, chain
<1>2. \A e \in Pipeline : torn[e] \subseteq torn'[e]
  BY DEF CrashAndRestart, TypeOK
<1>3. \A e \in Pipeline : stage = "delete" /\ fam = e => "delete" \in torn'[e]
  BY DEF CrashAndRestart, TypeOK, ResetStages
<1>4. HashesApart' /\ MemoryOnDisk' /\ DeletePending' /\ GenesisLists'
  BY <1>1 DEF HashesApart, MemoryOnDisk, DeletePending, GenesisLists
<1>5. StoredDistinct'
  <2>1. \A k : FamilyOf(k) \in Pipeline
    BY DEF FamilyOf, Pipeline
  <2> QED BY <1>1, <1>2, <2>1 DEF StoredDistinct
<1>6. MarkedCovers'
  <2> SUFFICES ASSUME NEW e \in Pipeline
               PROVE  AddrsOf(newm'[e]) \subseteq marked'[e] /\ AddrsOf(threshold'[e]) \subseteq marked'[e]
    BY DEF MarkedCovers
  <2>1. marked'[e] = LoadMarks(e)
    BY <1>0 DEF CrashAndRestart, NewValidateGroup, GetNewMembers, GetThresholdMembers
  <2> QED BY <1>1, <2>1 DEF LoadMarks, MemoryOnDisk
<1>7. UniqueMembers'
  <2> SUFFICES ASSUME NEW e \in Pipeline, "delete" \notin torn'[e]
               PROVE  Distinct(Queue(e))' /\ Distinct(group[e])'
    BY DEF UniqueMembers
  <2>1. "delete" \notin torn[e] /\ ~(stage = "delete" /\ fam = e)
    BY <1>2, <1>3
  <2>2. Distinct(Queue(e))'
    BY <1>1, <2>1 DEF UniqueMembers, Queue
  <2>3. Distinct(LoadGroup(e))
    <3>1. FamilyOf(GroupKey(e, curHash)) = e
      BY HashFamily DEF HashesApart
    <3> QED BY <2>1, <3>1, SMTT(30) DEF LoadGroup, GetGroup, StoredDistinct, Distinct
  <2>4. PICK s \in TimeOrders(LoadGroup("space")) :
             group' = [f \in Pipeline |-> IF f = "space" THEN s ELSE LoadGroup(f)]
    BY DEF CrashAndRestart, NewValidateGroup, GetNewMembers, GetThresholdMembers
  <2>5. e = "space" => Distinct(s)
    <3>1. LoadGroup("space") \in Seq(Member)
      BY <1>0, LoadType
    <3> QED BY <2>3, <3>1, TimeOrdersDistinct
  <2> QED BY <2>2, <2>3, <2>4, <2>5
<1> QED BY <1>4, <1>5, <1>6, <1>7

\* The step of the inductive invariant.
LEMMA IInvStep == IInv /\ [Next]_vars => IInv'
<1> SUFFICES ASSUME IInv, [Next]_vars PROVE IInv'
  OBVIOUS
<1>t. TypeOK'
  BY TypeStep DEF IInv
<1>1. CASE GenesisAdd \/ GenesisDelete \/ GenesisWrite
  BY <1>1, <1>t, GenesisStep
<1>2. CASE SetlastGroupHash
  <2> USE DEF IInv
  <2>1. /\ HashesApart' /\ MemoryOnDisk' /\ MarkedCovers' /\ DeletePending' /\ GenesisLists'
        /\ UniqueMembers'
    BY <1>2 DEF SetlastGroupHash, memory, chain, control, history, HashesApart, MemoryOnDisk,
       MarkedCovers, DeletePending, GenesisLists, UniqueMembers, Queue
  <2>2. StoredDistinct'
    <3>1. "space" \in Pipeline
      BY DEF Pipeline
    <3> QED BY <1>2, <3>1, HashFamily, PutDistinct DEF SetlastGroupHash, history, UniqueMembers
  <2> QED BY <1>t, <2>1, <2>2
<1>3. CASE \E hash \in BlockHashes : BeginBlock(hash)
  <2>1. PICK hash \in BlockHashes : BeginBlock(hash)
    BY <1>3
  <2>2. HashesApart'
    BY <2>1, HashFamily DEF BlockHashes, BeginBlock, IInv, HashesApart
  <2> QED BY <1>t, <2>1, <2>2, Frame DEF BeginBlock, memory, disk, history
<1>4. CASE \E f \in Family : Join(f)
  <2>0. PICK f \in Family : Join(f)
    BY <1>4
  <2>1. PICK a \in Candidates[f], t \in Time :
             \/ AddAccepted(f, [addr |-> a, time |-> t])
             \/ AddRejected(f, [addr |-> a, time |-> t])
    BY <2>0 DEF Join
  <2>2. [addr |-> a, time |-> t] \in Member
    BY ConstantsAssumption DEF Member
  <2>3. CASE AddAccepted(f, [addr |-> a, time |-> t])
    BY <1>t, <2>2, <2>3, AddAcceptedStep
  <2>4. CASE AddRejected(f, [addr |-> a, time |-> t])
    <3>1. MarkedCovers' /\ HashesApart'
      BY <2>4 DEF AddRejected, chain, IInv, MarkedCovers, HashesApart, TypeOK, Family
    <3> QED BY <1>t, <2>4, <3>1, Frame DEF AddRejected, disk, control, history
  <2> QED BY <2>1, <2>3, <2>4
<1>5. CASE EndApply
  <2>1. HashesApart'
    BY <1>5 DEF EndApply, chain, IInv, HashesApart
  <2> QED BY <1>t, <1>5, <2>1, Frame DEF EndApply, memory, disk, history
<1>6. CASE \E f \in Pipeline : Reset(f)
  BY <1>t, <1>6, ResetStep
<1>7. CASE ResetRewrite
  <2> USE DEF IInv
  <2>1. /\ HashesApart' /\ MemoryOnDisk' /\ MarkedCovers' /\ DeletePending' /\ GenesisLists'
        /\ UniqueMembers'
    BY <1>7 DEF ResetRewrite, memory, chain, history, HashesApart, MemoryOnDisk,
       MarkedCovers, DeletePending, GenesisLists, UniqueMembers, Queue
  <2>2. StoredDistinct'
    <3>1. "space" \in Pipeline
      BY DEF Pipeline
    <3> QED BY <1>7, <3>1, HashFamily, PutDistinct DEF ResetRewrite, history, UniqueMembers
  <2> QED BY <1>t, <2>1, <2>2
<1>8. CASE Commit
  <2>1. HashesApart'
    BY <1>8 DEF Commit, IInv, HashesApart
  <2> QED BY <1>t, <1>8, <2>1, Frame DEF Commit, memory, disk, history
<1>9. CASE CrashAndRestart
  BY <1>t, <1>9, CrashStep
<1>10. CASE UNCHANGED vars
  BY <1>10, <1>t DEF vars, memory, disk, chain, control, history, IInv, HashesApart, MemoryOnDisk,
     MarkedCovers, DeletePending, GenesisLists, StoredDistinct, UniqueMembers, Queue
<1> QED BY <1>1, <1>2, <1>3, <1>4, <1>5, <1>6, <1>7, <1>8, <1>9, <1>10 DEF Next

LEMMA Inductive == Spec => []IInv
<1>1. Init => IInv BY IInvInit
<1>2. IInv /\ [Next]_vars => IInv' BY IInvStep
<1> QED BY <1>1, <1>2, PTL DEF Spec

\* An address has one place in the lists of a family, whatever joins, epochs
\* and crashes happen, unless a crash fell between WriteThresholdGroup and
\* DeleteValidateGroup of that family.
THEOREM MembersUnique == Spec => []UniqueMembers
<1>1. IInv => UniqueMembers BY DEF IInv
<1> QED BY <1>1, Inductive, PTL

----------------------------------------------------------------------------
(* Durability *)

\* The members a family has on disk before it is on duty.
OnDisk(f) == AddrsOf(dThreshold[f]) \cup AddrsOf(dNew[f])

\* No step shrinks the members on disk, but for the delete of the genesis file.
LEMMA NoMemberLostStep ==
  ASSUME IInv, Next, stage # "genesisDelete", NEW f \in Pipeline
  PROVE  OnDisk(f) \subseteq OnDisk(f)'
<1> USE DEF IInv
<1>0. Pipeline \subseteq Family
  BY DEF Family
<1>t. newm[f] \in Seq(Member) /\ threshold[f] \in Seq(Member)
  BY <1>0 DEF TypeOK
<1>1. CASE dNew' = dNew /\ dThreshold' = dThreshold
  BY <1>1 DEF OnDisk
<1>2. CASE GenesisAdd
  <2>1. f = "space" => AddrsOf(dNew[f]) = {}
    BY <1>2, SMTT(30) DEF GenesisAdd, GenesisLists, MemoryOnDisk, AddrsOf
  <2> QED BY <1>0, <1>2, <2>1 DEF GenesisAdd, WriteNew, OnDisk, TypeOK
<1>3. CASE \E g \in Family : Join(g)
  <2>0. PICK g \in Family : Join(g)
    BY <1>3
  <2>1. PICK m : AddAccepted(g, m) \/ AddRejected(g, m)
    BY <2>0 DEF Join
  <2>2. CASE AddRejected(g, m)
    BY <2>2, <1>1 DEF AddRejected, disk
  <2>3. CASE AddAccepted(g, m)
    <3>1. dThreshold' = dThreshold /\ dNew' = [dNew EXCEPT ![g] = Append(dNew[g], m)]
      BY <2>3 DEF AddAccepted, WriteNew, MemoryOnDisk, TypeOK
    <3>2. AddrsOf(dNew[f]) \subseteq AddrsOf(Append(dNew[f], m))
      BY <1>t, SMTT(30) DEF AddrsOf, MemoryOnDisk
    <3> QED BY <1>0, <3>1, <3>2 DEF OnDisk, TypeOK
  <2> QED BY <2>1, <2>2, <2>3
<1>4. CASE \E g \in Pipeline : ResetInstall(g)
  <2>1. PICK g \in Pipeline : ResetInstall(g)
    BY <1>4
  <2>2. dNew' = dNew
    BY <2>1 DEF ResetInstall
  <2>3. dThreshold' = dThreshold \/ dThreshold' = [dThreshold EXCEPT ![g] = threshold[g] \o newm[g]]
    BY <2>1 DEF ResetInstall, WriteThreshold
  <2>4. AddrsOf(dThreshold[f]) \subseteq AddrsOf(threshold[f] \o newm[f])
    BY <1>t, ConcatAddrs DEF MemoryOnDisk
  <2> QED BY <2>2, <2>3, <2>4 DEF OnDisk, TypeOK
<1>5. CASE \E g \in Pipeline : ResetDelete(g)
  <2>1. PICK g \in Pipeline : ResetDelete(g)
    BY <1>5
  <2>2. dThreshold' = dThreshold /\ dNew' = [dNew EXCEPT ![g] = <<>>]
    BY <2>1 DEF ResetDelete, WriteNew
  <2>3. AddrsOf(dNew[g]) \subseteq AddrsOf(dThreshold[g])
    BY <2>1 DEF ResetDelete, DeletePending, MemoryOnDisk
  <2> QED BY <1>0, <2>2, <2>3 DEF OnDisk, TypeOK
<1>6. \/ GenesisDelete \/ GenesisWrite \/ SetlastGroupHash \/ EndApply \/ ResetRewrite \/ Commit
      \/ CrashAndRestart \/ (\E hash \in BlockHashes : BeginBlock(hash))
      \/ (\E g \in Pipeline : ResetWrite(g) \/ Announce(g))
      => stage = "genesisDelete" \/ (dNew' = dNew /\ dThreshold' = dThreshold)
  BY DEF GenesisDelete, GenesisWrite, SetlastGroupHash, EndApply, ResetRewrite, Commit,
     CrashAndRestart, BeginBlock, ResetWrite, Announce, disk
<1> QED BY <1>1, <1>2, <1>3, <1>4, <1>5, <1>6 DEF Next, Reset

\* A member that is on disk, waiting or in the threshold list, stays on disk,
\* wherever the process stops: the write comes before the delete.
THEOREM MembersDurable == Spec => NoMemberLost
<1>1. IInv /\ [Next]_vars =>
        [stage # "genesisDelete" =>
           \A f \in Pipeline :
              AddrsOf(dThreshold[f]) \cup AddrsOf(dNew[f])
                \subseteq AddrsOf(dThreshold'[f]) \cup AddrsOf(dNew'[f])]_vars
  BY NoMemberLostStep DEF OnDisk
<1> QED BY <1>1, Inductive, PTL DEF Spec, NoMemberLost

----------------------------------------------------------------------------
(* Announcements *)

\* The sizes of a list that is announced as a whole.
ShortList(s) == Len(s) \in MinThreshold..(ValidateLimit - 1)

\* No crash fell between the write of a family's threshold list and its event.
Untorn(f) == torn[f] \subseteq {"install"}

\* A stored group was announced.
StoredAnnounced ==
  \A k \in DOMAIN groupDb :
     Untorn(FamilyOf(k)) /\ ShortList(groupDb[k])
       => AddrsOf(groupDb[k]) \in announced[FamilyOf(k)]

\* The threshold list was announced, but for the reset that is under way.
ThresholdAnnounced ==
  \A f \in Pipeline :
     Untorn(f) /\ ~(fam = f /\ stage \in {"delete", "write", "rewrite", "announce"})
       /\ ShortList(threshold[f])
       => AddrsOf(threshold[f]) \in announced[f]

AInv == IInv /\ StoredAnnounced /\ ThresholdAnnounced /\ DutyAnnounced

\* Storing a list that is short of a committee or was announced.
LEMMA PutAnnounced ==
  ASSUME StoredAnnounced, UNCHANGED <<torn, announced>>, NEW key, NEW s,
         Untorn(FamilyOf(key)) /\ ShortList(s) => AddrsOf(s) \in announced[FamilyOf(key)],
         groupDb' = PutGroup(groupDb, key, s)
  PROVE  StoredAnnounced'
BY DEF StoredAnnounced, PutGroup, Untorn

\* Steps that change neither the lists, nor the store, nor the announcements,
\* and neither enter nor leave a reset after its first stage.
LEMMA AnnounceFrame ==
  ASSUME AInv, UNCHANGED <<threshold, group, groupDb, torn, announced>>,
         stage' \notin {"delete", "write", "rewrite", "announce"},
         stage \notin {"delete", "write", "rewrite", "announce"}
  PROVE  StoredAnnounced' /\ ThresholdAnnounced' /\ DutyAnnounced'
BY DEF AInv, StoredAnnounced, ThresholdAnnounced, DutyAnnounced, Untorn

\* The steps of a reset: the list that goes on duty was announced by an earlier
\* reset, and the longer list is announced before the reset ends.
LEMMA AnnounceReset ==
  ASSUME AInv, TypeOK', NEW f \in Pipeline, Reset(f)
  PROVE  StoredAnnounced' /\ ThresholdAnnounced' /\ DutyAnnounced'
<1> USE DEF AInv, IInv
<1>t. threshold[f] \in Seq(Member) /\ group[f] \in Seq(Member)
  BY DEF TypeOK
<1>1. CASE ResetInstall(f)
  <2>1. /\ UNCHANGED <<groupDb, torn, announced>> /\ stage = "install" /\ fam' = f /\ fam = f
        /\ stage' \in {"delete", "write"}
        /\ threshold' = [threshold EXCEPT ![f] = threshold[f] \o newm[f]]
        /\ group' = [group EXCEPT ![f] = threshold[f]] \/ group' = group
    BY <1>1 DEF ResetInstall, OnDuty, history, TypeOK
  <2>2. StoredAnnounced'
    BY <2>1 DEF StoredAnnounced, Untorn
  <2>3. ThresholdAnnounced'
    BY <2>1 DEF ThresholdAnnounced, Untorn, TypeOK
  <2>4. DutyAnnounced'
    BY <2>1 DEF DutyAnnounced, ThresholdAnnounced, ShortList, Untorn, TypeOK
  <2> QED BY <2>2, <2>3, <2>4
<1>2. CASE ResetDelete(f)
  BY <1>2 DEF ResetDelete, history, StoredAnnounced, ThresholdAnnounced, DutyAnnounced, Untorn
<1>3. CASE ResetWrite(f)
  <2>1. PICK s \in TimeOrders(group[f]) :
             /\ group' = [group EXCEPT ![f] = s]
             /\ groupDb' = IF update THEN PutGroup(groupDb, GroupKey(f, blkHash), s) ELSE groupDb
             /\ stage' \in {"rewrite", "announce"}
    BY <1>3 DEF ResetWrite
  <2>2. UNCHANGED <<threshold, fam, torn, announced>> /\ stage = "write" /\ fam = f
    BY <1>3 DEF ResetWrite, history
  <2>3. Len(s) = Len(group[f]) /\ AddrsOf(s) = AddrsOf(group[f])
    BY <1>t, TimeOrdersType
  <2>4. Untorn(f) /\ ShortList(s) => AddrsOf(s) \in announced[f]
    BY <2>3 DEF DutyAnnounced, Untorn, ShortList
  <2>5. StoredAnnounced'
    <3>1. CASE update
      BY <2>1, <2>2, <2>4, <3>1, HashFamily, PutAnnounced DEF HashesApart
    <3>2. CASE ~update
      BY <2>1, <2>2, <3>2 DEF StoredAnnounced, Untorn
    <3> QED BY <3>1, <3>2
  <2>6. ThresholdAnnounced'
    BY <2>1, <2>2 DEF ThresholdAnnounced, Untorn
  <2>7. DutyAnnounced'
    BY <2>1, <2>2, <2>4 DEF DutyAnnounced, Untorn, ShortList, TypeOK
  <2> QED BY <2>5, <2>6, <2>7
<1>4. CASE Announce(f)
  <2>1. /\ UNCHANGED <<threshold, group, groupDb, torn>> /\ fam = f
        /\ stage' \notin {"delete", "write", "rewrite", "announce"}
    BY <1>4 DEF Announce, memory, disk
  <2>2. \A e \in Pipeline : announced[e] \subseteq announced'[e]
    BY <1>4 DEF Announce, TypeOK
  <2>3. ShortList(threshold[f]) => AddrsOf(threshold[f]) \in announced'[f]
    <3> SUFFICES ASSUME ShortList(threshold[f]) PROVE AddrsOf(threshold[f]) \in announced'[f]
      OBVIOUS
    <3>1. Len(threshold[f]) >= MinThreshold /\ Len(threshold[f]) < ValidateLimit
      BY <1>t, ConstantsAssumption, SMTT(30) DEF ShortList, MinThreshold
    <3>2. SelectThresholds(threshold[f]) = {AddrsOf(threshold[f])}
      BY <3>1 DEF SelectThresholds
    <3> QED BY <1>4, <3>1, <3>2 DEF Announce, TypeOK
  <2>4. StoredAnnounced'
    <3>1. \A k : FamilyOf(k) \in Pipeline
      BY DEF FamilyOf, Pipeline
    <3> QED BY <2>1, <2>2, <3>1 DEF StoredAnnounced, Untorn
  <2>5. ThresholdAnnounced'
    BY <2>1, <2>2, <2>3 DEF ThresholdAnnounced, Untorn
  <2>6. DutyAnnounced'
    BY <2>1, <2>2 DEF DutyAnnounced
  <2> QED BY <2>4, <2>5, <2>6
<1> QED BY <1>1, <1>2, <1>3, <1>4 DEF Reset

LEMMA AInvStep == AInv /\ [Next]_vars => AInv'
<1> SUFFICES ASSUME AInv, [Next]_vars PROVE StoredAnnounced' /\ ThresholdAnnounced' /\ DutyAnnounced'
  BY IInvStep DEF AInv
<1> USE DEF AInv
<1>t. TypeOK /\ TypeOK'
  BY TypeStep DEF IInv
<1>0. "space" \in Pipeline /\ Pipeline \subseteq Family
  BY DEF Pipeline, Family
<1>g. ~ShortList(<<>>) /\ ~ShortList(<<GenesisMember>>)
  BY ConstantsAssumption, SMTT(30) DEF ShortList, MinThreshold
<1>1. CASE GenesisAdd
  BY <1>1, AnnounceFrame DEF GenesisAdd, history
<1>2. CASE GenesisDelete
  <2>0. <<GenesisMember>> \in Seq(Member)
    BY SMTT(30) DEF GenesisMember, Member, Address
  <2>1. group'["space"] = <<>> \o <<GenesisMember>>
    BY <1>0, <1>2, <1>t DEF GenesisDelete, IInv, GenesisLists, TypeOK
  <2>2. ~ShortList(group'["space"])
    BY <1>g, <2>0, <2>1, ConcatEmptySeq
  <2>3. StoredAnnounced' /\ ThresholdAnnounced'
    BY <1>2 DEF GenesisDelete, history, StoredAnnounced, ThresholdAnnounced, Untorn
  <2>4. DutyAnnounced'
    BY <1>0, <1>2, <1>t, <2>2 DEF GenesisDelete, history, DutyAnnounced, ShortList, TypeOK
  <2> QED BY <2>3, <2>4
<1>3. CASE GenesisWrite
  <2>1. ~ShortList(group["space"])
    BY <1>3, <1>g DEF GenesisWrite, IInv, GenesisLists
  <2>2. StoredAnnounced'
    BY <1>3, <2>1, PutAnnounced DEF GenesisWrite, history
  <2>3. ThresholdAnnounced' /\ DutyAnnounced'
    BY <1>3 DEF GenesisWrite, memory, history, ThresholdAnnounced, DutyAnnounced, Untorn
  <2> QED BY <2>2, <2>3
<1>4. CASE SetlastGroupHash
  <2>1. ~ShortList(group["space"])
    <3>1. Len(group["space"]) \in 1..2
      BY <1>4, SMTT(30) DEF SetlastGroupHash, MinThreshold
    <3>2. Len(group["space"]) \notin 3..(ValidateLimit - 1)
      <4>1. ValidateLimit \in Nat
        BY ConstantsAssumption
      <4>2. \A n \in 1..2 : n \notin 3..(ValidateLimit - 1)
        BY <4>1, SMTT(30)
      <4> QED BY <3>1, <4>2
    <3> QED BY <3>2 DEF ShortList, MinThreshold
  <2>2. StoredAnnounced'
    BY <1>4, <2>1, PutAnnounced DEF SetlastGroupHash, history
  <2>3. ThresholdAnnounced' /\ DutyAnnounced'
    BY <1>4 DEF SetlastGroupHash, memory, control, history, ThresholdAnnounced, DutyAnnounced, Untorn
  <2> QED BY <2>2, <2>3
<1>5. CASE \E hash \in BlockHashes : BeginBlock(hash)
  BY <1>5, AnnounceFrame DEF BeginBlock, memory, disk, history
<1>6. CASE \E f \in Family : Join(f)
  BY <1>6, AnnounceFrame DEF Join, AddAccepted, AddRejected, disk, control, history
<1>7. CASE EndApply
  BY <1>7, AnnounceFrame DEF EndApply, memory, disk, history
<1>8. CASE \E f \in Pipeline : Reset(f)
  BY <1>8, <1>t, AnnounceReset
<1>9. CASE ResetRewrite
  <2>1. StoredAnnounced'
    BY <1>0, <1>9, HashFamily, PutAnnounced
       DEF ResetRewrite, history, DutyAnnounced, Untorn, ShortList
  <2>2. ThresholdAnnounced' /\ DutyAnnounced'
    BY <1>9 DEF ResetRewrite, memory, history, ThresholdAnnounced, DutyAnnounced, Untorn
  <2> QED BY <2>1, <2>2
<1>10. CASE Commit
  BY <1>10, AnnounceFrame DEF Commit, memory, disk, history
<1>11. CASE CrashAndRestart
  <2>1. /\ UNCHANGED <<groupDb, curHash, announced>> /\ threshold' = threshold /\ stage' = "idle"
    BY <1>11 DEF CrashAndRestart, NewValidateGroup, GetNewMembers, GetThresholdMembers, IInv, MemoryOnDisk, disk, chain
  <2>2. \A e \in Pipeline : Untorn(e)' => Untorn(e) /\ ~(fam = e /\ stage \in ResetStages \ {"install"})
    BY <1>11, <1>t DEF CrashAndRestart, TypeOK, Untorn, ResetStages
  <2>3. \A k : FamilyOf(k) \in Pipeline
    BY DEF FamilyOf, Pipeline
  <2>4. StoredAnnounced'
    BY <2>1, <2>2, <2>3 DEF StoredAnnounced
  <2>5. ThresholdAnnounced'
    BY <2>1, <2>2 DEF ThresholdAnnounced, ResetStages
  <2>6. DutyAnnounced'
    <3> SUFFICES ASSUME NEW e \in Pipeline, Untorn(e)', ShortList(group'[e])
                 PROVE  AddrsOf(group'[e]) \in announced[e]
      BY <2>1 DEF DutyAnnounced, Untorn, ShortList
    <3>1. FamilyOf(GroupKey(e, curHash)) = e
      BY HashFamily DEF IInv, HashesApart
    <3>2. Untorn(e)
      BY <2>2
    <3>3. ShortList(LoadGroup(e)) => AddrsOf(LoadGroup(e)) \in announced[e]
      BY <1>g, <3>1, <3>2 DEF LoadGroup, GetGroup, StoredAnnounced
    <3>4. PICK s \in TimeOrders(LoadGroup("space")) :
               group' = [f \in Pipeline |-> IF f = "space" THEN s ELSE LoadGroup(f)]
      BY <1>11 DEF CrashAndRestart, NewValidateGroup, GetNewMembers, GetThresholdMembers
    <3>5. LoadGroup("space") \in Seq(Member)
      BY <1>0, <1>t, LoadType
    <3>6. Len(s) = Len(LoadGroup("space")) /\ AddrsOf(s) = AddrsOf(LoadGroup("space"))
      BY <3>5, TimeOrdersType
    <3> QED BY <3>3, <3>4, <3>6 DEF ShortList
  <2> QED BY <2>4, <2>5, <2>6
<1>12. CASE UNCHANGED vars
  BY <1>12 DEF vars, memory, disk, chain, control, history, StoredAnnounced, ThresholdAnnounced,
     DutyAnnounced, Untorn
<1> QED
  BY <1>1, <1>2, <1>3, <1>4, <1>5, <1>6, <1>7, <1>8, <1>9, <1>10, <1>11, <1>12 DEF Next

\* No group goes on duty before its members were told to generate their key,
\* unless a crash fell inside an earlier reset of that family.
THEOREM GroupsAnnounced == Spec => []DutyAnnounced
<1>1. Init => AInv
  <2> SUFFICES ASSUME Init PROVE AInv
    OBVIOUS
  <2>1. \A f \in Pipeline : ~ShortList(threshold[f]) /\ ~ShortList(group[f])
    BY SMTT(30) DEF Init, ShortList, MinThreshold
  <2> QED BY <2>1, IInvInit
          DEF Init, AInv, StoredAnnounced, ThresholdAnnounced, DutyAnnounced, ShortList
<1>2. AInv /\ [Next]_vars => AInv' BY AInvStep
<1>3. AInv => DutyAnnounced BY DEF AInv
<1> QED BY <1>1, <1>2, <1>3, PTL DEF Spec

----------------------------------------------------------------------------
(* Restarts between blocks *)

\* A reset has put the list of family f on duty and not stored it yet, or has
\* found that there is none to put on duty.
Installed(f) == stage \in {"delete", "write"} /\ fam = f /\ update
LeftAlone(f) == stage \in {"delete", "write"} /\ fam = f /\ ~update

\* The coin and the transaction group on duty are the ones on disk, but while a
\* reset has yet to store them.  None is stored before the threshold list was
\* long enough once, and that list never gets shorter: a reset that stores no
\* group has none to sort.
Fixed(f) ==
  /\ Installed(f) => Len(threshold[f]) >= MinThreshold
  /\ ~Installed(f) => group[f] = GetGroup(groupDb, FamilyKey(f))
  /\ FamilyKey(f) \in DOMAIN groupDb => Len(threshold[f]) >= MinThreshold
  /\ LeftAlone(f) => FamilyKey(f) \notin DOMAIN groupDb

FixedStored == \A f \in Pipeline \ {"space"} : Fixed(f)

\* What is stored under a hash, if anything, is the list s.
Names(db, h, s) == h \in DOMAIN db => db[h] = s
NamesOnly(db, s) == \A k \in DOMAIN db : FamilyOf(k) = "space" => db[k] = s

GenesisStages == {"genesisAdd", "genesisDelete", "genesisWrite"}

\* Until the first crash: the space group is still the one of the genesis file
\* and so is all that is stored of it, or the threshold list has been long
\* enough.
GenesisOnDuty == group["space"] = <<GenesisMember>> /\ NamesOnly(groupDb, <<GenesisMember>>)

GroupsGrow ==
  \/ GenesisOnDuty
  \/ Len(group["space"]) >= MinThreshold /\ Len(threshold["space"]) >= MinThreshold

\* ... and the hash of the current block, of the block in process and of the
\* group itself name the group on duty, but while a reset has yet to store it.
HashesName ==
  /\ stage = "idle" => Names(groupDb, curHash, group["space"])
  /\ stage # "idle" /\ ~Installed("space") => Names(groupDb, blkHash, group["space"])
  /\ stage # "rewrite" /\ ~Installed("space")
       => Names(groupDb, HashOf(group["space"]), group["space"])

SpaceStored ==
  crashes = 0 =>
    IF stage \in GenesisStages
    THEN \A k \in DOMAIN groupDb : FamilyOf(k) # "space"
    ELSE GroupsGrow /\ HashesName /\ (LeftAlone("space") => GenesisOnDuty)

RInv == IInv /\ FixedStored /\ SpaceStored

\* A list of at most one member has one order.
LEMMA TimeOrdersShort ==
  ASSUME NEW s \in Seq(Member), Len(s) \in {0, 1}, NEW t \in TimeOrders(s)
  PROVE  t = s
<1>1. PICK p \in Bijection(DOMAIN s, DOMAIN s) : t = [i \in DOMAIN s |-> s[p[i]]]
  BY DEF TimeOrders
<1>2. p \in [DOMAIN s -> DOMAIN s] /\ DOMAIN s = 1..Len(s)
  BY <1>1, SMTT(30) DEF Bijection, Injection
<1>3. \A i \in DOMAIN s : p[i] = i
  BY <1>2, SMTT(30)
<1>4. t = [i \in DOMAIN s |-> s[i]]
  BY <1>1, <1>3
<1> QED BY <1>4, SMTT(30)

\* A list that is long enough stays so.
LEMMA ConcatLong ==
  ASSUME NEW s \in Seq(Member), NEW t \in Seq(Member), Len(s) >= MinThreshold
  PROVE  Len(s \o t) >= MinThreshold
<1>1. Len(s \o t) = Len(s) + Len(t) /\ Len(s) \in Nat /\ Len(t) \in Nat
  BY ConcatProperties, LenProperties
<1> QED BY <1>1, SMTT(30) DEF MinThreshold

\* What PutGroup does to a key, and to the others.
LEMMA PutSame ==
  ASSUME NEW db, NEW key, NEW s
  PROVE  /\ key \in DOMAIN PutGroup(db, key, s) /\ PutGroup(db, key, s)[key] = s
         /\ GetGroup(PutGroup(db, key, s), key) = s
BY DEF PutGroup, GetGroup

LEMMA PutOther ==
  ASSUME NEW db, NEW key, NEW s, NEW k, k # key
  PROVE  /\ k \in DOMAIN PutGroup(db, key, s) <=> k \in DOMAIN db
         /\ k \in DOMAIN db => PutGroup(db, key, s)[k] = db[k]
         /\ GetGroup(PutGroup(db, key, s), k) = GetGroup(db, k)
BY DEF PutGroup, GetGroup

\* The fixed keys are apart from each other and from the hashes.
LEMMA FixedKeys ==
  /\ \A f \in Pipeline \ {"space"} :
        FamilyOf(FamilyKey(f)) = f /\ \A h : GroupKey(f, h) = FamilyKey(f)
  /\ \A h : GroupKey("space", h) = h
<1>1. ASSUME NEW f \in Pipeline \ {"space"}
      PROVE  FamilyOf(FamilyKey(f)) = f /\ \A h : GroupKey(f, h) = FamilyKey(f)
  <2>1. CASE f = "coin" BY <2>1 DEF GroupKey, FamilyOf
  <2>2. CASE f = "tx" BY <2>2 DEF GroupKey, FamilyOf, FamilyKey
  <2> QED BY <2>1, <2>2 DEF Pipeline
<1> QED BY <1>1 DEF GroupKey

\* Steps that are not of f's own reset and store nothing under its key.
LEMMA FixedFrame ==
  ASSUME NEW f \in Pipeline \ {"space"}, Fixed(f),
         threshold'[f] = threshold[f], group'[f] = group[f],
         \/ groupDb' = groupDb
         \/ \E key, s : FamilyOf(key) # f /\ groupDb' = PutGroup(groupDb, key, s),
         ~(stage \in {"delete", "write"} /\ fam = f),
         ~(stage' \in {"delete", "write"} /\ fam' = f)
  PROVE  Fixed(f)'
<1>1. /\ FamilyKey(f) \in DOMAIN groupDb' <=> FamilyKey(f) \in DOMAIN groupDb
      /\ GetGroup(groupDb', FamilyKey(f)) = GetGroup(groupDb, FamilyKey(f))
  BY FixedKeys, PutOther, SMTT(30)
<1> QED BY <1>1 DEF Fixed, Installed, LeftAlone

\* The list on duty is stored when the threshold list is long enough.
LEMMA FixedReset ==
  ASSUME IInv, NEW f \in Pipeline \ {"space"}, Fixed(f),
         ResetInstall(f) \/ ResetDelete(f) \/ ResetWrite(f)
  PROVE  Fixed(f)'
<1> USE DEF IInv
<1>t. /\ newm[f] \in Seq(Member) /\ threshold[f] \in Seq(Member) /\ group[f] \in Seq(Member)
      /\ f \in Pipeline
  BY DEF TypeOK, Family
<1>1. CASE ResetInstall(f)
  <2>1. /\ stage = "install" /\ update' = (Len(threshold[f]) >= MinThreshold)
        /\ group' = [group EXCEPT ![f] = IF update' THEN threshold[f] ELSE @]
        /\ threshold' = [threshold EXCEPT ![f] = @ \o newm[f]]
        /\ stage' \in {"delete", "write"} /\ fam' = f /\ groupDb' = groupDb
    BY <1>1 DEF ResetInstall, OnDuty
  <2>2. threshold'[f] = threshold[f] \o newm[f]
    BY <1>t, <2>1 DEF TypeOK
  <2>3. group[f] = GetGroup(groupDb, FamilyKey(f))
        /\ (FamilyKey(f) \in DOMAIN groupDb => Len(threshold[f]) >= MinThreshold)
    BY <2>1 DEF Fixed, Installed
  <2>4. CASE Len(threshold[f]) >= MinThreshold
    <3>1. Installed(f)' /\ ~LeftAlone(f)'
      BY <2>1, <2>4 DEF Installed, LeftAlone
    <3>2. Len(threshold'[f]) >= MinThreshold
      BY <1>t, <2>2, <2>4, ConcatLong
    <3> QED BY <3>1, <3>2 DEF Fixed
  <2>5. CASE ~(Len(threshold[f]) >= MinThreshold)
    <3>1. ~Installed(f)' /\ FamilyKey(f) \notin DOMAIN groupDb'
      BY <2>1, <2>3, <2>5 DEF Installed, LeftAlone
    <3>2. group'[f] = group[f]
      BY <1>t, <2>1, <2>5 DEF TypeOK
    <3> QED BY <2>1, <2>3, <3>1, <3>2 DEF Fixed
  <2> QED BY <2>4, <2>5
<1>2. CASE ResetDelete(f)
  BY <1>2 DEF ResetDelete, Fixed, Installed, LeftAlone
<1>3. CASE ResetWrite(f)
  <2>1. PICK s \in TimeOrders(group[f]) :
             /\ group' = [group EXCEPT ![f] = s]
             /\ groupDb' = IF update THEN PutGroup(groupDb, FamilyKey(f), s) ELSE groupDb
    BY <1>3, FixedKeys DEF ResetWrite
  <2>2. /\ stage = "write" /\ fam = f /\ stage' \notin {"delete", "write"}
        /\ threshold' = threshold
    BY <1>3 DEF ResetWrite
  <2>3. group'[f] = s /\ ~Installed(f)' /\ ~LeftAlone(f)'
    BY <1>t, <2>1, <2>2 DEF TypeOK, Installed, LeftAlone
  <2>4. CASE update
    BY <2>1, <2>2, <2>3, <2>4, PutSame, SMTT(30) DEF Fixed, Installed
  <2>5. CASE ~update
    <3>1. FamilyKey(f) \notin DOMAIN groupDb /\ group[f] = <<>>
      BY <2>2, <2>5 DEF Fixed, Installed, LeftAlone, GetGroup
    <3>2. s = <<>>
      BY <1>t, <3>1, TimeOrdersShort
    <3> QED BY <2>1, <2>2, <2>3, <2>5, <3>1, <3>2 DEF Fixed, GetGroup
  <2> QED BY <2>4, <2>5
<1> QED BY <1>1, <1>2, <1>3

\* Every step keeps the coin and the transaction group.
LEMMA FixedStep ==
  ASSUME IInv, IInv', FixedStored, [Next]_vars PROVE FixedStored'
<1> SUFFICES ASSUME NEW f \in Pipeline \ {"space"}, Fixed(f) PROVE Fixed(f)'
  BY DEF FixedStored
<1>0. f \in Pipeline /\ f \in Family /\ f # "space"
  BY DEF Family
<1>1. CASE GenesisAdd \/ GenesisDelete \/ GenesisWrite \/ SetlastGroupHash \/ ResetRewrite
  <2>1. group'[f] = group[f] /\ threshold' = threshold
    BY <1>0, <1>1 DEF GenesisAdd, GenesisDelete, GenesisWrite, SetlastGroupHash, ResetRewrite,
       memory, IInv, TypeOK
  <2>2. stage \notin {"delete", "write"} /\ stage' \notin {"delete", "write"}
    BY <1>1 DEF GenesisAdd, GenesisDelete, GenesisWrite, SetlastGroupHash, ResetRewrite, control
  <2>3. \/ groupDb' = groupDb
        \/ groupDb' = PutGroup(groupDb, AddressHash, group["space"])
        \/ groupDb' = PutGroup(groupDb, HashOf(group["space"]), group["space"])
    BY <1>1 DEF GenesisAdd, GenesisDelete, GenesisWrite, SetlastGroupHash, ResetRewrite
  <2>4. FamilyOf(AddressHash) # f /\ FamilyOf(HashOf(group["space"])) # f
    BY <1>0, HashFamily
  <2> QED BY <2>1, <2>2, <2>3, <2>4, FixedFrame
<1>2. CASE \/ \E hash \in BlockHashes : BeginBlock(hash)
           \/ EndApply \/ Commit \/ \E e \in Family : Join(e)
  <2>1. /\ group' = group /\ threshold' = threshold /\ groupDb' = groupDb
        /\ stage \notin {"delete", "write"} /\ stage' \notin {"delete", "write"}
    BY <1>2 DEF BeginBlock, EndApply, Commit, Join, AddAccepted, AddRejected, memory, disk, control
  <2> QED BY <2>1, FixedFrame
<1>3. ASSUME NEW e \in Pipeline, Reset(e), e # f PROVE Fixed(f)'
  <2>1. group'[f] = group[f] /\ threshold'[f] = threshold[f]
    BY <1>0, <1>3 DEF Reset, ResetInstall, ResetDelete, ResetWrite, Announce, memory, IInv, TypeOK
  <2>2. /\ ~(stage \in {"delete", "write"} /\ fam = f)
        /\ ~(stage' \in {"delete", "write"} /\ fam' = f)
    BY <1>3 DEF Reset, ResetInstall, ResetDelete, ResetWrite, Announce
  <2>3. \/ groupDb' = groupDb
        \/ \E s : groupDb' = PutGroup(groupDb, GroupKey(e, blkHash), s)
    BY <1>3 DEF Reset, ResetInstall, ResetDelete, ResetWrite, Announce, disk
  <2>4. FamilyOf(GroupKey(e, blkHash)) # f
    BY <1>3, HashFamily DEF IInv, HashesApart
  <2> QED BY <2>1, <2>2, <2>3, <2>4, FixedFrame
<1>4. CASE Reset(f)
  <2>1. ASSUME Announce(f) PROVE Fixed(f)'
    <3>1. /\ group' = group /\ threshold' = threshold /\ groupDb' = groupDb
          /\ stage = "announce" /\ stage' \notin {"delete", "write"}
      BY <2>1 DEF Announce, memory, disk
    <3> QED BY <3>1, FixedFrame
  <2> QED BY <1>4, <2>1, FixedReset DEF Reset
<1>5. CASE CrashAndRestart
  <2>1. /\ group'[f] = GetGroup(groupDb, FamilyKey(f)) /\ stage' = "idle" /\ groupDb' = groupDb
        /\ threshold'[f] = threshold[f]
    BY <1>0, <1>5, FixedKeys DEF CrashAndRestart, NewValidateGroup, GetThresholdMembers, LoadGroup,
       disk, IInv, MemoryOnDisk
  <2> QED BY <2>1 DEF Fixed, Installed, LeftAlone
<1>6. CASE UNCHANGED vars
  BY <1>6 DEF vars, memory, disk, control, Fixed, Installed, LeftAlone
<1> QED BY <1>1, <1>2, <1>3, <1>4, <1>5, <1>6 DEF Next

\* While all that is stored is the group of the genesis file, every hash names it.
LEMMA GenesisNames ==
  ASSUME GenesisOnDuty, NEW h, FamilyOf(h) = "space"
  PROVE  Names(groupDb, h, group["space"])
BY DEF GenesisOnDuty, NamesOnly, Names

\* Steps that change neither the space group nor what is stored of it.
LEMMA SpaceFrame ==
  ASSUME SpaceStored, crashes' = 0, crashes = 0,
         stage \notin GenesisStages, stage' \notin GenesisStages,
         group'["space"] = group["space"], threshold'["space"] = threshold["space"],
         \/ groupDb' = groupDb
         \/ \E key, s : FamilyOf(key) # "space" /\ groupDb' = PutGroup(groupDb, key, s)
  PROVE  /\ GroupsGrow' /\ (GenesisOnDuty => GenesisOnDuty')
         /\ \A h, s : FamilyOf(h) = "space" /\ Names(groupDb, h, s) => Names(groupDb', h, s)
<1>1. \A k : FamilyOf(k) = "space" => /\ k \in DOMAIN groupDb' <=> k \in DOMAIN groupDb
                                      /\ k \in DOMAIN groupDb => groupDb'[k] = groupDb[k]
  BY PutOther, SMTT(30)
<1>2. GenesisOnDuty => GenesisOnDuty'
  BY <1>1 DEF GenesisOnDuty, NamesOnly
<1>3. \A h, s : FamilyOf(h) = "space" /\ Names(groupDb, h, s) => Names(groupDb', h, s)
  BY <1>1 DEF Names
<1>4. GroupsGrow'
  BY <1>2 DEF SpaceStored, GroupsGrow
<1> QED BY <1>2, <1>3, <1>4

\* The reset of the space group: what it puts on duty it stores under the hash
\* of the block and under its own.
LEMMA SpaceReset ==
  ASSUME IInv, SpaceStored, crashes = 0, crashes' = 0,
         ResetInstall("space") \/ ResetDelete("space") \/ ResetWrite("space")
  PROVE  SpaceStored'
<1> USE DEF IInv
<1>t. /\ newm["space"] \in Seq(Member) /\ threshold["space"] \in Seq(Member)
      /\ group["space"] \in Seq(Member) /\ group \in [Pipeline -> Seq(Member)]
      /\ threshold \in [Pipeline -> Seq(Member)] /\ "space" \in Pipeline
  BY DEF TypeOK, Pipeline, Family
<1>s. stage \in {"install", "delete", "write"} /\ fam = "space"
  BY DEF ResetInstall, ResetDelete, ResetWrite
<1>p. GroupsGrow /\ HashesName /\ (LeftAlone("space") => GenesisOnDuty)
  BY <1>s DEF SpaceStored, GenesisStages
<1>h. FamilyOf(blkHash) = "space" /\ \A s : FamilyOf(HashOf(s)) = "space"
  BY HashFamily DEF HashesApart
<1>1. CASE ResetInstall("space")
  <2>1. /\ update' = (Len(threshold["space"]) >= MinThreshold)
        /\ group' = [group EXCEPT !["space"] = IF update' THEN threshold["space"] ELSE @]
        /\ threshold' = [threshold EXCEPT !["space"] = @ \o newm["space"]]
        /\ stage' \in {"delete", "write"} /\ fam' = "space"
        /\ groupDb' = groupDb /\ blkHash' = blkHash
    BY <1>1 DEF ResetInstall, OnDuty, chain
  <2>2. stage' \notin GenesisStages /\ stage' \notin {"idle", "rewrite"}
    BY <2>1 DEF GenesisStages
  <2>3. CASE Len(threshold["space"]) >= MinThreshold
    <3>1. Installed("space")' /\ ~LeftAlone("space")'
      BY <2>1, <2>3 DEF Installed, LeftAlone
    <3>2. group'["space"] = threshold["space"] /\ threshold'["space"] = threshold["space"] \o newm["space"]
      BY <1>t, <2>1, <2>3
    <3>3. GroupsGrow'
      BY <1>t, <2>3, <3>2, ConcatLong DEF GroupsGrow
    <3>4. HashesName'
      BY <2>2, <3>1 DEF HashesName
    <3> QED BY <2>2, <3>1, <3>3, <3>4 DEF SpaceStored
  <2>4. CASE ~(Len(threshold["space"]) >= MinThreshold)
    <3>1. GenesisOnDuty
      BY <1>p, <2>4 DEF GroupsGrow
    <3>2. group'["space"] = group["space"]
      BY <1>t, <2>1, <2>4
    <3>3. GenesisOnDuty'
      BY <2>1, <3>1, <3>2 DEF GenesisOnDuty
    <3>4. Names(groupDb, blkHash, group["space"]) /\ Names(groupDb, HashOf(group["space"]), group["space"])
      BY <1>h, <3>1, GenesisNames
    <3>5. HashesName'
      BY <2>1, <2>2, <3>2, <3>4 DEF HashesName
    <3> QED BY <2>2, <3>3, <3>5 DEF SpaceStored, GroupsGrow
  <2> QED BY <2>3, <2>4
<1>2. CASE ResetDelete("space")
  <2>1. /\ stage = "delete" /\ stage' = "write" /\ fam' = fam /\ update' = update
        /\ group' = group /\ threshold' = threshold /\ groupDb' = groupDb /\ blkHash' = blkHash
    BY <1>2 DEF ResetDelete, chain
  <2>2. (Installed("space")' <=> Installed("space")) /\ (LeftAlone("space")' <=> LeftAlone("space"))
    BY <2>1 DEF Installed, LeftAlone
  <2>3. GroupsGrow' /\ (GenesisOnDuty => GenesisOnDuty')
    BY <1>p, <2>1 DEF GroupsGrow, GenesisOnDuty
  <2>4. HashesName'
    BY <1>p, <2>1, <2>2 DEF HashesName
  <2> QED BY <1>p, <2>1, <2>2, <2>3, <2>4 DEF SpaceStored, GenesisStages
<1>3. CASE ResetWrite("space")
  <2>1. PICK s \in TimeOrders(group["space"]) :
             /\ group' = [group EXCEPT !["space"] = s]
             /\ groupDb' = IF update THEN PutGroup(groupDb, blkHash, s) ELSE groupDb
             /\ stage' = IF update /\ HashOf(s) # blkHash THEN "rewrite" ELSE "announce"
    BY <1>3, FixedKeys DEF ResetWrite
  <2>2. stage = "write" /\ threshold' = threshold /\ blkHash' = blkHash
    BY <1>3 DEF ResetWrite, chain
  <2>3. group'["space"] = s /\ ~Installed("space")' /\ ~LeftAlone("space")'
        /\ stage' \notin GenesisStages /\ stage' # "idle"
    BY <1>t, <2>1 DEF Installed, LeftAlone, GenesisStages
  <2>4. CASE update
    <3>1. Installed("space")
      BY <1>s, <2>2, <2>4 DEF Installed
    <3>2. Names(groupDb', blkHash, s) /\ (stage' # "rewrite" => HashOf(s) = blkHash)
      BY <2>1, <2>4, PutSame, SMTT(30) DEF Names
    <3>3. HashesName'
      BY <2>2, <2>3, <3>2 DEF HashesName
    <3>4. GroupsGrow'
      <4>1. CASE GenesisOnDuty
        <5>1. s = <<GenesisMember>>
          <6>1. Len(group["space"]) = 1 /\ group["space"] = <<GenesisMember>>
            BY <4>1 DEF GenesisOnDuty
          <6> QED BY <1>t, <6>1, TimeOrdersShort
        <5>2. NamesOnly(groupDb', s)
          BY <2>1, <2>4, <4>1, <5>1, PutSame, PutOther DEF GenesisOnDuty, NamesOnly, PutGroup
        <5> QED BY <2>3, <5>1, <5>2 DEF GroupsGrow, GenesisOnDuty
      <4>2. CASE Len(group["space"]) >= MinThreshold /\ Len(threshold["space"]) >= MinThreshold
        BY <1>t, <2>2, <2>3, <4>2, TimeOrdersType DEF GroupsGrow
      <4> QED BY <1>p, <4>1, <4>2 DEF GroupsGrow
    <3> QED BY <2>3, <3>3, <3>4 DEF SpaceStored
  <2>5. CASE ~update
    <3>1. GenesisOnDuty
      BY <1>p, <1>s, <2>2, <2>5 DEF LeftAlone
    <3>2. s = group["space"]
      <4>1. Len(group["space"]) = 1
        BY <3>1, SMTT(30) DEF GenesisOnDuty
      <4> QED BY <1>t, <4>1, TimeOrdersShort
    <3>3. GenesisOnDuty'
      BY <2>1, <2>3, <2>5, <3>1, <3>2 DEF GenesisOnDuty
    <3>4. Names(groupDb, blkHash, s) /\ Names(groupDb, HashOf(s), s)
      BY <1>h, <3>1, <3>2, GenesisNames
    <3>5. HashesName'
      BY <2>1, <2>2, <2>3, <2>5, <3>4 DEF HashesName
    <3> QED BY <2>3, <3>3, <3>5 DEF SpaceStored, GroupsGrow
  <2> QED BY <2>4, <2>5
<1> QED BY <1>1, <1>2, <1>3

\* Every step keeps what the hashes name, until the first crash.
LEMMA SpaceStep ==
  ASSUME IInv, IInv', SpaceStored, [Next]_vars PROVE SpaceStored'
<1> SUFFICES ASSUME crashes' = 0 PROVE SpaceStored'
  BY DEF SpaceStored
<1>c. crashes = 0 /\ ~CrashAndRestart
  <2>1. crashes \in Nat
    BY DEF IInv, TypeOK
  <2>2. ~CrashAndRestart
    BY <2>1, SMTT(30) DEF CrashAndRestart
  <2>3. crashes' = crashes
    BY <2>2 DEF Next, vars, history, GenesisAdd, GenesisDelete, GenesisWrite, SetlastGroupHash,
       BeginBlock, Join, AddAccepted, AddRejected, EndApply, Reset, ResetInstall, ResetDelete,
       ResetWrite, Announce, ResetRewrite, Commit
  <2> QED BY <2>2, <2>3
<1>h. /\ FamilyOf(curHash) = "space" /\ FamilyOf(blkHash) = "space" /\ FamilyOf(AddressHash) = "space"
      /\ FamilyOf(Foreign) = "space" /\ \A s : FamilyOf(HashOf(s)) = "space"
      /\ FamilyOf(curHash') = "space" /\ FamilyOf(blkHash') = "space"
  BY HashFamily DEF IInv, HashesApart
<1>p. stage \notin GenesisStages => GroupsGrow /\ HashesName /\ (LeftAlone("space") => GenesisOnDuty)
  BY <1>c DEF SpaceStored
<1>1. CASE GenesisAdd \/ GenesisDelete
  <2>1. stage \in GenesisStages /\ stage' \in GenesisStages /\ groupDb' = groupDb
    BY <1>1 DEF GenesisAdd, GenesisDelete, GenesisStages
  <2> QED BY <1>c, <2>1 DEF SpaceStored
<1>2. CASE GenesisWrite
  <2>1. /\ stage \in GenesisStages /\ stage' = "idle" /\ group' = group
        /\ group["space"] = <<GenesisMember>>
        /\ groupDb' = PutGroup(groupDb, AddressHash, <<GenesisMember>>)
    BY <1>2 DEF GenesisWrite, GenesisStages, memory, IInv, GenesisLists
  <2>2. GenesisOnDuty'
    BY <1>c, <2>1 DEF SpaceStored, GenesisOnDuty, NamesOnly, PutGroup
  <2>3. HashesName'
    <3>1. /\ Names(groupDb', curHash', group'["space"])
          /\ Names(groupDb', HashOf(group'["space"]), group'["space"])
      BY <1>h, <2>2 DEF GenesisOnDuty, NamesOnly, Names
    <3> QED BY <2>1, <3>1 DEF HashesName
  <2> QED BY <2>1, <2>2, <2>3 DEF SpaceStored, GroupsGrow, GenesisStages, LeftAlone
<1>3. CASE SetlastGroupHash
  <2>1. /\ stage = "idle" /\ stage' = "idle" /\ group' = group /\ curHash' = curHash
        /\ Len(group["space"]) \in 1..(MinThreshold - 1)
        /\ groupDb' = PutGroup(groupDb, HashOf(group["space"]), group["space"])
    BY <1>3 DEF SetlastGroupHash, memory, chain, control
  <2>2. GenesisOnDuty
    <3>1. ASSUME NEW n \in 1..(MinThreshold - 1) PROVE ~(n >= MinThreshold)
      BY SMTT(30) DEF MinThreshold
    <3>2. ~(Len(group["space"]) >= MinThreshold)
      BY <2>1, <3>1
    <3> QED BY <1>p, <2>1, <3>2 DEF GroupsGrow, GenesisStages
  <2>3. GenesisOnDuty'
    BY <2>1, <2>2 DEF GenesisOnDuty, NamesOnly, PutGroup
  <2>4. HashesName'
    <3>1. /\ Names(groupDb', curHash', group'["space"])
          /\ Names(groupDb', HashOf(group'["space"]), group'["space"])
      BY <1>h, <2>3 DEF GenesisOnDuty, NamesOnly, Names
    <3> QED BY <2>1, <3>1 DEF HashesName
  <2> QED BY <2>1, <2>3, <2>4 DEF SpaceStored, GroupsGrow, GenesisStages, LeftAlone
<1>4. ASSUME NEW hash \in BlockHashes, BeginBlock(hash) PROVE SpaceStored'
  <2>1. /\ stage = "idle" /\ stage' = "apply" /\ blkHash' = hash
        /\ group' = group /\ threshold' = threshold /\ groupDb' = groupDb
    BY <1>4 DEF BeginBlock, memory, disk
  <2>2. Names(groupDb, HashOf(group["space"]), group["space"])
    BY <1>p, <2>1 DEF HashesName, GenesisStages, Installed
  <2>3. Names(groupDb, hash, group["space"])
    <3>1. CASE hash = HashOf(group["space"])
      BY <2>2, <3>1
    <3>2. CASE hash = Foreign /\ Len(group["space"]) < MinThreshold
      <4>1. Len(group["space"]) \in Nat
        BY SMTT(30) DEF IInv, TypeOK, Pipeline
      <4>2. GenesisOnDuty
        BY <1>p, <2>1, <3>2, <4>1, SMTT(30) DEF GroupsGrow, GenesisStages, MinThreshold
      <4> QED BY <1>h, <3>2, <4>2, GenesisNames
    <3> QED BY <1>c, <3>1, <3>2 DEF BlockHashes
  <2>4. HashesName'
    BY <2>1, <2>2, <2>3 DEF HashesName
  <2>5. GroupsGrow'
    BY <1>p, <2>1 DEF GroupsGrow, GenesisOnDuty, GenesisStages
  <2> QED BY <2>1, <2>4, <2>5 DEF SpaceStored, GenesisStages, LeftAlone
<1>5. CASE (\E f \in Family : Join(f)) \/ EndApply \/ Commit
  <2>1. /\ group' = group /\ threshold' = threshold /\ groupDb' = groupDb /\ blkHash' = blkHash
        /\ stage \in {"apply", "commit"} /\ stage' \in {"apply", "install", "commit", "idle"}
        /\ stage' = "idle" => curHash' = blkHash
    BY <1>5 DEF Join, AddAccepted, AddRejected, EndApply, Commit, memory, disk, chain, control
  <2>2. /\ Names(groupDb, blkHash, group["space"])
        /\ Names(groupDb, HashOf(group["space"]), group["space"])
    BY <1>p, <2>1 DEF HashesName, GenesisStages, Installed
  <2>3. HashesName'
    BY <2>1, <2>2 DEF HashesName
  <2>4. GroupsGrow'
    BY <1>p, <2>1 DEF GroupsGrow, GenesisOnDuty, GenesisStages
  <2> QED BY <2>1, <2>3, <2>4 DEF SpaceStored, GenesisStages, LeftAlone
<1>6. ASSUME NEW f \in Pipeline \ {"space"}, ResetInstall(f) \/ ResetDelete(f) \/ ResetWrite(f)
      PROVE  SpaceStored'
  <2>1. /\ group'["space"] = group["space"] /\ threshold'["space"] = threshold["space"]
        /\ blkHash' = blkHash /\ fam = f /\ fam' = f
        /\ stage \in ResetStages /\ stage \notin {"idle", "rewrite"} /\ stage' \in ResetStages
    BY <1>6 DEF ResetInstall, ResetDelete, ResetWrite, chain, IInv, TypeOK, ResetStages, Pipeline
  <2>2. \/ groupDb' = groupDb
        \/ \E s : groupDb' = PutGroup(groupDb, FamilyKey(f), s)
    BY <1>6, FixedKeys DEF ResetInstall, ResetDelete, ResetWrite
  <2>3. FamilyOf(FamilyKey(f)) # "space"
    BY FixedKeys
  <2>4. stage \notin GenesisStages /\ stage' \notin GenesisStages /\ stage' # "idle"
    BY <2>1 DEF ResetStages, GenesisStages
  <2>5. /\ GroupsGrow'
        /\ \A h, s : FamilyOf(h) = "space" /\ Names(groupDb, h, s) => Names(groupDb', h, s)
    BY <1>c, <2>1, <2>2, <2>3, <2>4, SpaceFrame
  <2>6. ~Installed("space") /\ ~LeftAlone("space")'
    BY <2>1 DEF Installed, LeftAlone
  <2>7. HashesName'
    BY <1>h, <1>p, <2>1, <2>4, <2>5, <2>6 DEF HashesName
  <2> QED BY <2>4, <2>5, <2>6, <2>7 DEF SpaceStored
<1>7. CASE ResetInstall("space") \/ ResetDelete("space") \/ ResetWrite("space")
  BY <1>7, <1>c, SpaceReset
<1>8. ASSUME NEW f \in Pipeline, Announce(f) PROVE SpaceStored'
  <2>1. /\ group' = group /\ threshold' = threshold /\ groupDb' = groupDb /\ blkHash' = blkHash
        /\ stage = "announce" /\ stage' \in {"install", "commit"}
    BY <1>8 DEF Announce, memory, disk, chain
  <2>2. /\ Names(groupDb, blkHash, group["space"])
        /\ Names(groupDb, HashOf(group["space"]), group["space"])
    BY <1>p, <2>1 DEF HashesName, GenesisStages, Installed
  <2>3. HashesName'
    BY <2>1, <2>2 DEF HashesName
  <2>4. GroupsGrow'
    BY <1>p, <2>1 DEF GroupsGrow, GenesisOnDuty, GenesisStages
  <2> QED BY <2>1, <2>3, <2>4 DEF SpaceStored, GenesisStages, LeftAlone
<1>9. CASE ResetRewrite
  <2> DEFINE g == group["space"]
  <2>1. /\ group' = group /\ threshold' = threshold /\ blkHash' = blkHash
        /\ stage = "rewrite" /\ stage' = "announce"
        /\ groupDb' = PutGroup(groupDb, HashOf(g), g)
    BY <1>9 DEF ResetRewrite, memory, chain
  <2>2. Names(groupDb, blkHash, g)
    BY <1>p, <2>1 DEF HashesName, GenesisStages, Installed
  <2>3. Names(groupDb', blkHash, g) /\ Names(groupDb', HashOf(g), g)
    BY <2>1, <2>2 DEF Names, PutGroup
  <2>4. HashesName'
    BY <2>1, <2>3 DEF HashesName
  <2>5. GroupsGrow'
    BY <1>p, <2>1 DEF GroupsGrow, GenesisOnDuty, NamesOnly, PutGroup, GenesisStages
  <2> QED BY <2>1, <2>4, <2>5 DEF SpaceStored, GenesisStages, LeftAlone
<1>10. CASE UNCHANGED vars
  BY <1>10 DEF vars, memory, disk, chain, control, history, SpaceStored, GroupsGrow, GenesisOnDuty,
     HashesName, Installed, LeftAlone
<1> QED BY <1>c, <1>1, <1>2, <1>3, <1>4, <1>5, <1>6, <1>7, <1>8, <1>9, <1>10 DEF Next, Reset

\* Between two blocks, NewValidateGroup would read what is in memory: for any
\* number of members, blocks and crashes, wherever the crashes fell.  The space
\* group is found under the hash of the current block until the first crash.
THEOREM RestartsTransparent == Spec => []RestartTransparent
<1>1. Init => RInv
  <2> SUFFICES ASSUME Init PROVE RInv
    OBVIOUS
  <2>1. FixedStored
    BY DEF Init, FixedStored, Fixed, Installed, LeftAlone, GetGroup
  <2>2. SpaceStored
    BY DEF Init, SpaceStored, GenesisStages
  <2> QED BY <2>1, <2>2, IInvInit DEF RInv
<1>2. RInv /\ [Next]_vars => RInv'
  BY IInvStep, FixedStep, SpaceStep DEF RInv
<1>3. RInv => RestartTransparent
  <2> SUFFICES ASSUME RInv, stage = "idle" PROVE RestartTransparent
    BY DEF RestartTransparent
  <2>1. newm = dNew /\ threshold = dThreshold
    BY DEF RInv, IInv, MemoryOnDisk
  <2>2. ASSUME NEW f \in Pipeline \ {"space"} PROVE group[f] = LoadGroup(f)
    BY FixedKeys DEF RInv, FixedStored, Fixed, Installed, LoadGroup
  <2>3. ASSUME crashes = 0, curHash \in DOMAIN groupDb PROVE group["space"] = LoadGroup("space")
    BY <2>3, FixedKeys DEF RInv, SpaceStored, HashesName, Names, LoadGroup, GetGroup, GenesisStages
  <2> QED BY <2>1, <2>2, <2>3 DEF RestartTransparent
<1> QED BY <1>1, <1>2, <1>3, PTL DEF Spec
=============================================================================
