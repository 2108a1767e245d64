------------------------------ MODULE Committee ------------------------------
(***************************************************************************)
(* Who builds and signs the next block: the committees drawn from the      *)
(* validator groups (SelectConsensus of validategroup.go, which goroutines *)
(* of the worker call while blocks are processed, and its like for the     *)
(* other families) and the order of their members (chain/vrf).             *)
(*                                                                         *)
(* A committee is kept in memory until it is drawn again.  The code keeps  *)
(* the epoch it was drawn for in vg.number, which is never assigned: it is *)
(* 0, so that in the first epoch the first committee stays.                *)
(***************************************************************************)
EXTENDS ValidateGroup, SequencesExt

CONSTANTS BlockNumberLimet,  \* blocks between two draws (10 in validategroup.go)
          Draw,              \* Draw[e][i]: the hash Deri(i) of epoch e, as a number
          CoinLists,         \* lists of coins to validate, ascending
          CoinHash           \* CoinHash[cid]: the hash of a coin and its transaction

ASSUME DrawAssumption ==
    /\ BlockNumberLimet \in Nat \ {0}
    /\ \A e \in 0..(MaxNumber + 1) \div BlockNumberLimet :
          Draw[e] \in [0..(ValidateLimit - 1) -> Nat]
    /\ \A cids \in CoinLists :
          /\ \A i \in DOMAIN cids : CoinHash[cids[i]] \in Nat
          /\ \A i \in 1..(Len(cids) - 1) : cids[i] < cids[i + 1]

VARIABLES selected,    \* consensusMembers, validateMembers, consensusTxMembers
          address      \* consensusAddress, validateAddress, consensusTxAddress

cvars == <<vars, selected, address>>

vgNumber == 0

\* RandomPerm: the first k places of a shuffle of n, by the draws of an epoch.
RandomPerm(n, k, e) ==
    LET swap(l, i) == LET j == (Draw[e][i] % (n - i)) + i
                      IN  [l EXCEPT ![i + 1] = l[j + 1], ![j + 1] = l[i + 1]]
    IN  SubSeq(FoldLeft(swap, [i \in 1..n |-> i], [i \in 1..k |-> i - 1]), 1, k)

Chosen(f, e) ==
    LET members == group[f]
        p == RandomPerm(Len(members), ValidateLimit, e)
    IN  IF Len(members) < ValidateLimit THEN [i \in DOMAIN members |-> members[i].addr]
        ELSE [i \in DOMAIN p |-> members[p[i]].addr]

\* What the members drawn are appended to.  Mutant: the last committee.
KeptAlways(f, e) == selected[f]
Kept(f, e) == IF vgNumber = e THEN selected[f] ELSE <<>>

\* The selection for a block of epoch e: a committee of the same epoch is
\* returned as it is; else one is drawn.  (Without a group there is nothing to
\* draw, and without a committee nothing to clear.)
Select(f, e) ==
    /\ ~(vgNumber = e /\ selected[f] # <<>>)
    /\ group[f] # <<>> \/ selected[f] # <<>>
    /\ selected' = [selected EXCEPT ![f] = Kept(f, e) \o Chosen(f, e)]
    /\ address' = [address EXCEPT ![f] = Range(Chosen(f, e))]
    /\ UNCHANGED vars

SelectConsensus(e) == Select("space", e)
SelectValidate(e) == Select("coin", e)
SelectTxConsensus(e) == Select("tx", e)

NoCommittees ==
    /\ selected' = [f \in Pipeline |-> <<>>]
    /\ address' = [f \in Pipeline |-> {}]

CInit ==
    /\ Init
    /\ selected = [f \in Pipeline |-> <<>>]
    /\ address = [f \in Pipeline |-> {}]

CNext ==
    \/ Next /\ IF crashes' # crashes THEN NoCommittees ELSE UNCHANGED <<selected, address>>
    \/ \E e \in {n \div BlockNumberLimet : n \in {number, number + 1}} :
          SelectConsensus(e) \/ SelectValidate(e) \/ SelectTxConsensus(e)

CSpec == CInit /\ [][CNext]_cvars

-----------------------------------------------------------------------------
(* chain/vrf: the committee in the order of its addresses, of which the    *)
(* last block's hash names the first.                                      *)

\* sortByHex, by the order hex of the addresses.
RECURSIVE Partition(_, _, _, _, _)
Partition(s, hex, pivot, i, j) ==
    LET i1 == CHOOSE k \in i..Len(s) :
                 hex[s[k]] >= pivot /\ \A m \in i..(k - 1) : hex[s[m]] < pivot
        j1 == CHOOSE k \in 1..j :
                 hex[s[k]] <= pivot /\ \A m \in (k + 1)..j : hex[s[m]] > pivot
    IN  IF i > j THEN [s |-> s, i |-> i, j |-> j]
        ELSE IF i1 > j1 THEN [s |-> s, i |-> i1, j |-> j1]
        ELSE Partition([s EXCEPT ![i1] = s[j1], ![j1] = s[i1]], hex, pivot, i1 + 1, j1 - 1)

RECURSIVE sortByHex(_, _, _, _)
sortByHex(s, hex, l, r) ==
    LET p == Partition(s, hex, hex[s[(l + r) \div 2]], l, r)
        left == IF l < p.j THEN sortByHex(p.s, hex, l, p.j) ELSE p.s
    IN  IF l >= r THEN s
        ELSE IF p.i < r THEN sortByHex(left, hex, p.i, r) ELSE left

NewVrf(s, hex) == sortByHex(s, hex, 1, Len(s))

\* ValidateBlock: the places from the one the hash names to the member's.
MaxIndex == 10

ValidateBlock(s, hash, a) ==
    LET n == Len(s)
        index == (hash % n) + 1
        i == CHOOSE k \in 1..n : s[k] = a
        sortIndex == IF i < index THEN n - index + i ELSE i - index
    IN  IF sortIndex > MaxIndex THEN MaxIndex ELSE sortIndex

\* Who validates a coin.  Mutant: the last member, where the code goes round.
validateAddress(s, hash) == s[(hash % Len(s)) + 1]

multiplevalidateAddressLast(s, times, hash) ==
    LET index == (hash % Len(s)) + times
    IN  s[IF index >= Len(s) THEN Len(s) ELSE index + 1]
multiplevalidateAddress(s, times, hash) ==
    LET index == (hash % Len(s)) + times
    IN  s[IF index >= Len(s) THEN index - Len(s) + 1 ELSE index + 1]

\* The loop over the coins: one that follows the last goes to the same member,
\* unless limit of them did (the count is not reset where the run is broken).
Assigned(cids, limit, pick(_)) ==
    LET step(st, cid) ==
          LET follows == st.old > 0 /\ st.old + 1 = cid
              kept == follows /\ st.run < limit
              addr == IF kept THEN st.addr ELSE pick(CoinHash[cid])
          IN  [old |-> cid, addr |-> addr, info |-> (cid :> addr) @@ st.info,
               run |-> IF kept THEN st.run + 1 ELSE IF follows THEN 0 ELSE st.run]
    IN  FoldLeft(step, [old |-> 0, addr |-> "none", info |-> << >>, run |-> 0], cids).info

\* CoinValidateInfo, as ValidateCoin leaves it, and the coins it returns to a.
CoinValidateInfo(s, cids) == Assigned(cids, 4, LAMBDA h : validateAddress(s, h))

ValidateCoin(s, cids, a) == SelectSeq(cids, LAMBDA c : CoinValidateInfo(s, cids)[c] = a)

MultipleValidateCoin(s, times, cids, a) ==
    LET info == Assigned(cids, 5, LAMBDA h : multiplevalidateAddress(s, times, h))
    IN  SelectSeq(cids, LAMBDA c : info[c] = a)

CheckValidateCoin(info, cids, a) ==
    cids # <<>> /\ \A i \in DOMAIN cids : cids[i] \in DOMAIN info /\ info[cids[i]] = a

-----------------------------------------------------------------------------
(* Properties                                                              *)

\* The members share the coins of a list: every coin is validated by one of
\* them, whose claim CheckValidateCoin grants and no other's; and over as many
\* rounds as there are members every coin comes to each of them once.
CoinsShared(c) ==
    \A cids \in CoinLists :
        LET info == CoinValidateInfo(c, cids)
            of == [a \in Range(c) |-> ValidateCoin(c, cids, a)]
            rounds == [a \in Range(c) |-> [t \in 0..(Len(c) - 1) |->
                          Range(MultipleValidateCoin(c, t, cids, a))]]
        IN  /\ \A x \in Range(cids) : \E a \in Range(c) :
                  \A b \in Range(c) : x \in Range(of[b]) <=> a = b
            /\ \A a, b \in Range(c) :
                  CheckValidateCoin(info, of[a], b) <=> a = b /\ of[a] # <<>>
            /\ \A x \in Range(cids), a \in Range(c) :
                  Cardinality({t \in 0..(Len(c) - 1) : x \in rounds[a][t]}) = 1

\* A coin goes to a place in the committee: the sizes of which this holds.
SharingSizes == {n \in 1..ValidateLimit : CoinsShared([i \in 1..n |-> i])}

\* For any order of the addresses and any hash, the members of a committee
\* take the places 0, 1, 2, ... in it, whichever order they were drawn in.
Ranked(c) ==
    \A hex \in Bijection(Range(c), 1..Cardinality(Range(c))) :
        LET s == NewVrf(c, hex)
        IN  /\ \A i \in 1..(Len(c) - 1) : hex[s[i]] < hex[s[i + 1]]
            /\ \A hash \in 0..(Len(c) - 1) :
                  {ValidateBlock(s, hash, a) : a \in Range(c)} = 0..(Len(c) - 1)

\* A committee is drawn from the group on duty, whole or ValidateLimit of it
\* without repetition, IsConsensusGroup answers for its members alone, and one
\* of them has the first place and every coin its validator: whatever resets, restarts and draws came
\* before.  (In the first epoch it then stays though the group changes.)
CommitteeExact ==
    [][\A f \in Pipeline :
          LET c == selected'[f]
          IN  /\ address'[f] = Range(c)
              /\ c # selected[f] /\ c # <<>> =>
                   /\ Range(c) \subseteq AddrsOf(group[f])
                   /\ Len(c) = IF Len(group[f]) < ValidateLimit THEN Len(group[f])
                               ELSE ValidateLimit
                   /\ "delete" \notin torn[f] => Ranked(c) /\ Len(c) \in SharingSizes]_cvars
=============================================================================
