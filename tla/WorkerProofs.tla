---------------------------- MODULE WorkerProofs ----------------------------
(***************************************************************************)
(* The committee's agreement, for committees of any size, any tree of      *)
(* blocks and any ranking: a completed block has its quorum, a fork has a  *)
(* double signer, and no rank outlives the block it stands for.  And the   *)
(* keys its members sign with (BlsGroup), for any nodes and events: a key  *)
(* that was saved stays.                                                   *)
(***************************************************************************)
EXTENDS Worker, BlsGroup, FiniteSetTheorems, TLAPS

Message == [type : {"last", "sig", "new"}, block : Block, from : Member, to : Member]

Typed ==
    /\ sigBlocks \in [Member -> SUBSET Block]
    /\ sigInfos \in [Member -> [Member -> Block \cup {None}]]
    /\ coefficientMax \in [Member -> Nat]
    /\ currBlock \in [Member -> Block \cup {None}]
    /\ blockIsTrue \in [Member -> BOOLEAN]
    /\ \A n \in Member : blockIsTrue[n] => currBlock[n] \in Block
    /\ net \subseteq Message
    /\ failures \in Nat
    /\ signed \in [Member -> SUBSET Block]
    /\ certified \subseteq Member \X Block

-----------------------------------------------------------------------------
(* The operators.                                                          *)

(* Every rank counts for something: 0 is left for "no block yet".          *)
LEMMA PercentPositive == \A b \in Block : Percent(b) \in Nat /\ Percent(b) > 0
BY WorkerAssumption DEF Percent, Top

(* Receiving takes at most the message received out of the network.        *)
LEMMA RestSubset == ASSUME NEW msg PROVE Rest(msg) \subseteq net
BY DEF Rest

(* What a feed hands out are messages from n to the others.                *)
LEMMA OthersTyped ==
    ASSUME NEW n \in Member, NEW b \in Block, NEW type \in {"last", "sig", "new"}
    PROVE  /\ Others(n, type, b) \subseteq Message
           /\ Msg(type, b, n, n) \in Message
           /\ \A msg \in Others(n, type, b) \cup {Msg(type, b, n, n)} :
                 msg.type = type /\ msg.block = b /\ msg.from = n
BY DEF Others, Msg, Message

(* Recording a signature changes the sender's entry, to the block signed,  *)
(* or nothing.                                                             *)
LEMMA RecordedEntries ==
    ASSUME Typed, NEW n \in Member, NEW sig \in net
    PROVE  /\ Recorded(n, sig) \in [Member -> Block \cup {None}]
           /\ \A m \in Member : \/ Recorded(n, sig)[m] = sigInfos[n][m]
                                \/ m = sig.from /\ Recorded(n, sig)[m] = sig.block
<1>1. sig \in Message /\ sigInfos[n] \in [Member -> Block \cup {None}]
      BY DEF Typed
<1>2. sig.block \in Block /\ sig.from \in Member
      BY <1>1 DEF Message
<1>3. QED BY <1>1, <1>2 DEF Recorded

-----------------------------------------------------------------------------
(* Types.                                                                  *)

LEMMA TypedInit == Init => Typed
BY WorkerAssumption DEF Init, Typed

(* The proposals of buildBlock and timeoutSubmission.                      *)
LEMMA TypedPropose ==
    ASSUME Typed, NEW n \in Member,
           (\E b \in Block : BuildBlock(n, b)) \/ TimeoutSubmission(n)
    PROVE  Typed'
<1>1. CASE \E b \in Block : BuildBlock(n, b)
  <2>1. PICK b \in Block : BuildBlock(n, b)
        BY <1>1
  <2>2. net' \subseteq Message
    <3>1. Offered(n, b) \subseteq Message
          BY OthersTyped DEF Offered
    <3>2. QED BY <2>1, <3>1 DEF BuildBlock, Typed
  <2>3. /\ currBlock' = [currBlock EXCEPT ![n] = b]
        /\ blockIsTrue' = [blockIsTrue EXCEPT ![n] = SortIndex[b] # 0]
        /\ UNCHANGED <<sigBlocks, sigInfos, coefficientMax, failures, signed, certified>>
        BY <2>1 DEF BuildBlock, collecting, history
  <2>4. /\ currBlock' \in [Member -> Block \cup {None}]
        /\ blockIsTrue' \in [Member -> BOOLEAN]
        BY <2>3 DEF Typed
  <2>5. \A m \in Member : blockIsTrue'[m] => currBlock'[m] \in Block
        BY <2>3 DEF Typed
  <2>6. QED BY <2>2, <2>3, <2>4, <2>5 DEF Typed
<1>2. CASE TimeoutSubmission(n)
  <2>1. currBlock[n] \in Block
        BY <1>2 DEF TimeoutSubmission, Typed
  <2>2. net' \subseteq Message
        BY <1>2, <2>1, OthersTyped DEF TimeoutSubmission, Typed
  <2>3. /\ blockIsTrue' = [blockIsTrue EXCEPT ![n] = FALSE]
        /\ UNCHANGED <<currBlock, sigBlocks, sigInfos, coefficientMax, failures, signed,
                       certified>>
        BY <1>2 DEF TimeoutSubmission, collecting, history
  <2>4. QED BY <2>2, <2>3 DEF Typed
<1>3. QED BY <1>1, <1>2

(* The cases of update, and a completed block from the network.            *)
LEMMA TypedReceive ==
    ASSUME Typed, NEW n \in Member, NEW msg \in net, Receive(n, msg)
    PROVE  Typed'
<1>1. msg \in Message /\ msg.block \in Block
      BY DEF Typed, Message
<1>2. Rest(msg) \subseteq Message
      BY RestSubset DEF Typed
<1>3. CASE IgnoreLastBlock(n, msg) \/ ReceiveNewBlock(n, msg)
  <2>1. /\ net' = Rest(msg)
        /\ UNCHANGED <<collecting, currBlock, blockIsTrue, failures, history>>
        BY <1>3 DEF IgnoreLastBlock, ReceiveNewBlock, proposing
  <2>2. QED BY <1>2, <2>1 DEF Typed, collecting, history
<1>4. CASE SignSenderFails(n, msg)
  <2>1. /\ net' = Rest(msg) /\ failures' = failures + 1
        /\ UNCHANGED <<collecting, currBlock, blockIsTrue, history>>
        BY <1>4 DEF SignSenderFails, proposing
  <2>2. QED BY <1>2, <2>1 DEF Typed, collecting, history
<1>5. CASE SignLastBlock(n, msg)
  <2>1. /\ coefficientMax' = [coefficientMax EXCEPT ![n] = Percent(msg.block)]
        /\ sigBlocks' = [sigBlocks EXCEPT ![n] = @ \cup {msg.block}]
        /\ sigInfos' = [sigInfos EXCEPT ![n][n] = msg.block]
        /\ signed' = [signed EXCEPT ![n] = @ \cup {msg.block}]
        /\ UNCHANGED <<currBlock, blockIsTrue, failures, certified>>
        BY <1>5 DEF SignLastBlock
  <2>2. net' \subseteq Message
        BY <1>1, <1>2, <1>5, OthersTyped DEF SignLastBlock
  <2>3. QED BY <1>1, <2>1, <2>2, PercentPositive DEF Typed
<1>6. CASE CollectSig(n, msg)
  <2>0. \/ UNCHANGED sigInfos
        \/ sigInfos' = [sigInfos EXCEPT ![n] = Recorded(n, msg)]
        BY <1>6 DEF CollectSig
  <2>1. sigInfos' \in [Member -> [Member -> Block \cup {None}]]
    <3>1. Recorded(n, msg) \in [Member -> Block \cup {None}]
          BY RecordedEntries
    <3>2. QED BY <2>0, <3>1 DEF Typed
  <2>2. /\ net' = Rest(msg)
        /\ UNCHANGED <<sigBlocks, coefficientMax, currBlock, blockIsTrue, failures, history>>
        BY <1>6 DEF CollectSig, proposing
  <2>3. QED BY <1>2, <2>1, <2>2 DEF Typed, history
<1>7. CASE CompleteBlock(n, msg)
  <2>1. PICK b \in Block : /\ certified' = certified \cup {<<n, b>>}
                           /\ net' = Rest(msg) \cup Others(n, "new", b)
        BY <1>7 DEF CompleteBlock
  <2>2. net' \subseteq Message
        BY <1>2, <2>1, OthersTyped
  <2>3. /\ sigInfos' = [sigInfos EXCEPT ![n] = [m \in Member |-> None]]
        /\ coefficientMax' = [coefficientMax EXCEPT ![n] = 0]
        /\ sigBlocks' = [sigBlocks EXCEPT ![n] = {}]
        /\ UNCHANGED <<currBlock, blockIsTrue, failures, signed>>
        BY <1>7 DEF CompleteBlock, CoefficientMaxAfter, proposing
  <2>4. QED BY <2>1, <2>2, <2>3 DEF Typed
<1>8. CASE VerigyFails(n, msg)
  <2>1. /\ net' = Rest(msg) /\ failures' = failures + 1
        /\ sigInfos' = [sigInfos EXCEPT ![n] = [m \in Member |-> None]]
        /\ UNCHANGED <<sigBlocks, coefficientMax, currBlock, blockIsTrue, history>>
        BY <1>8 DEF VerigyFails, proposing
  <2>2. QED BY <1>2, <2>1 DEF Typed, history
<1>9. QED BY <1>3, <1>4, <1>5, <1>6, <1>7, <1>8 DEF Receive

(* Blocks that reach the chain, and stuttering, change none of it.         *)
LEMMA ChainStep ==
    ASSUME (\E n \in Member, b \in Block : CommitNewBlock(n, b)) \/ UNCHANGED vars
    PROVE  UNCHANGED <<collecting, currBlock, blockIsTrue, net, failures, history>>
BY DEF CommitNewBlock, vars, proposing

LEMMA TypedNext == Typed /\ [Next]_vars => Typed'
<1> SUFFICES ASSUME Typed, [Next]_vars PROVE Typed'
    OBVIOUS
<1>1. ASSUME NEW n \in Member, (\E b \in Block : BuildBlock(n, b)) \/ TimeoutSubmission(n)
      PROVE  Typed'
      BY <1>1, TypedPropose
<1>2. ASSUME NEW n \in Member, NEW msg \in net, Receive(n, msg) PROVE Typed'
      BY <1>2, TypedReceive
<1>3. ASSUME (\E n \in Member, b \in Block : CommitNewBlock(n, b)) \/ UNCHANGED vars
      PROVE  Typed'
      BY <1>3, ChainStep DEF Typed, collecting, history
<1>4. QED BY <1>1, <1>2, <1>3 DEF Next
-----------------------------------------------------------------------------
(* Agreement.                                                              *)

Signers(b) == {m \in Member : b \in signed[m]}

(* Nobody speaks for another: a signature under way, and an entry of any   *)
(* member's sigInfos, is of a block its sender has signed; and a completed *)
(* block has a threshold of signers.                                       *)
SignedInv ==
    /\ \A msg \in net : msg.type = "sig" => msg.block \in signed[msg.from]
    /\ \A n, m \in Member : sigInfos[n][m] # None => sigInfos[n][m] \in signed[m]
    /\ \A c \in certified : Cardinality(Signers(c[2])) >= Threshold

(* A set of members is finite.                                             *)
LEMMA MembersFinite ==
    ASSUME NEW S, S \subseteq Member
    PROVE  IsFiniteSet(S) /\ Cardinality(S) \in Nat
BY WorkerAssumption, FS_Subset, FS_CardinalityType

(* A larger set of members still is a quorum.                              *)
LEMMA QuorumGrows ==
    ASSUME NEW S, NEW T, S \subseteq T, T \subseteq Member, Cardinality(S) >= Threshold
    PROVE  Cardinality(T) >= Threshold
<1>1. IsFiniteSet(T) /\ Cardinality(S) \in Nat /\ Cardinality(T) \in Nat
      BY MembersFinite
<1>2. Cardinality(S) <= Cardinality(T)
      BY <1>1, FS_Subset
<1>3. Threshold \in Int
      BY WorkerAssumption, FS_CardinalityType DEF Threshold
<1>4. QED BY <1>1, <1>2, <1>3

(* Steps that make no signature: the messages that are new are not         *)
(* signatures, and an entry of sigInfos is kept or cleared.                *)
LEMMA SignedInvKept ==
    ASSUME SignedInv, UNCHANGED <<signed, certified>>,
           \A msg \in net' : msg \in net \/ msg.type # "sig",
           \A n, m \in Member : sigInfos'[n][m] = sigInfos[n][m] \/ sigInfos'[n][m] = None
    PROVE  SignedInv'
BY DEF SignedInv, Signers, Threshold

LEMMA SignedInvInit == Init => SignedInv
BY DEF Init, SignedInv

(* Signing: the signature goes out with the block already among the        *)
(* signed ones, and signers are only ever added.                           *)
LEMMA SignedInvSign ==
    ASSUME Typed, SignedInv, NEW n \in Member, NEW msg \in net, SignLastBlock(n, msg)
    PROVE  SignedInv'
<1>1. msg.block \in Block
      BY DEF Typed, Message
<1>2. /\ sigInfos' = [sigInfos EXCEPT ![n][n] = msg.block]
      /\ signed' = [signed EXCEPT ![n] = @ \cup {msg.block}]
      /\ UNCHANGED certified
      BY DEF SignLastBlock
<1>3. /\ \A m \in Member : signed[m] \subseteq signed'[m]
      /\ msg.block \in signed'[n]
      BY <1>2 DEF Typed
<1>4. \A sig \in net' : sig.type = "sig" => sig.block \in signed'[sig.from]
  <2>1. net' \subseteq net \cup Others(n, "sig", msg.block) \cup {Msg("sig", msg.block, n, n)}
        BY RestSubset DEF SignLastBlock
  <2>2. \A sig \in Others(n, "sig", msg.block) \cup {Msg("sig", msg.block, n, n)} :
           sig.block = msg.block /\ sig.from = n
        BY <1>1, OthersTyped
  <2>3. \A sig \in net : sig.from \in Member
        BY DEF Typed, Message
  <2>4. QED BY <1>3, <2>1, <2>2, <2>3 DEF SignedInv
<1>5. \A i, m \in Member : sigInfos'[i][m] # None => sigInfos'[i][m] \in signed'[m]
      BY <1>2, <1>3 DEF SignedInv, Typed
<1>6. \A c \in certified' : Cardinality(Signers(c[2])') >= Threshold
  <2>1. ASSUME NEW c \in certified PROVE Cardinality(Signers(c[2])') >= Threshold
    <3>1. Cardinality(Signers(c[2])) >= Threshold
          BY <2>1 DEF SignedInv
    <3>2. Signers(c[2]) \subseteq Signers(c[2])' /\ Signers(c[2])' \subseteq Member
          BY <1>3 DEF Signers
    <3>3. QED BY <3>1, <3>2, QuorumGrows
  <2>2. QED BY <1>2, <2>1
<1>7. QED BY <1>4, <1>5, <1>6 DEF SignedInv, Signers, Threshold

(* An entry that a signature under way makes is one its sender signed.     *)
LEMMA RecordedSigned ==
    ASSUME Typed, SignedInv, NEW n \in Member, NEW sig \in net, sig.type = "sig"
    PROVE  \A m \in Member :
              Recorded(n, sig)[m] # None => Recorded(n, sig)[m] \in signed[m]
BY RecordedEntries DEF SignedInv

(* Collecting a signature.                                                 *)
LEMMA SignedInvCollect ==
    ASSUME Typed, SignedInv, NEW n \in Member, NEW sig \in net, CollectSig(n, sig)
    PROVE  SignedInv'
<1>1. /\ sig.type = "sig" /\ net' \subseteq net /\ UNCHANGED <<signed, certified>>
      /\ \/ UNCHANGED sigInfos
         \/ sigInfos' = [sigInfos EXCEPT ![n] = Recorded(n, sig)]
      BY RestSubset DEF CollectSig, Takes, history
<1>2. \A i, m \in Member : sigInfos'[i][m] # None => sigInfos'[i][m] \in signed[m]
      BY SMTT(30), <1>1, RecordedSigned DEF SignedInv, Typed
<1>3. QED BY SMTT(30), <1>1, <1>2 DEF SignedInv, Signers, Threshold

(* Completing a block: who is counted for it has signed it.                *)
LEMMA SignedInvComplete ==
    ASSUME Typed, SignedInv, NEW n \in Member, NEW sig \in net, CompleteBlock(n, sig)
    PROVE  SignedInv'
<1>1. PICK b \in Block : /\ Count(Recorded(n, sig), b) >= Threshold
                         /\ certified' = certified \cup {<<n, b>>}
                         /\ net' = Rest(sig) \cup Others(n, "new", b)
      BY DEF CompleteBlock
<1>2. /\ sig.type = "sig" /\ UNCHANGED signed
      /\ sigInfos' = [sigInfos EXCEPT ![n] = [m \in Member |-> None]]
      BY DEF CompleteBlock, Takes
<1>3. Cardinality(Signers(b)) >= Threshold
  <2>1. {m \in Member : Recorded(n, sig)[m] = b} \subseteq Signers(b)
        BY <1>2, RecordedSigned, WorkerAssumption DEF Signers
  <2>2. QED BY <1>1, <2>1, QuorumGrows DEF Count, Signers
<1>4. \A msg \in net' : msg.type = "sig" => msg.block \in signed'[msg.from]
  <2>1. \A msg \in Others(n, "new", b) : msg.type # "sig"
        BY OthersTyped
  <2>2. QED BY <1>1, <1>2, <2>1, RestSubset DEF SignedInv
<1>5. \A i, m \in Member : sigInfos'[i][m] # None => sigInfos'[i][m] \in signed'[m]
      BY <1>2 DEF SignedInv, Typed
<1>6. \A c \in certified' : Cardinality(Signers(c[2])) >= Threshold
      BY <1>1, <1>3 DEF SignedInv
<1>7. QED BY <1>2, <1>4, <1>5, <1>6 DEF SignedInv, Signers, Threshold

LEMMA SignedInvNext == Typed /\ SignedInv /\ [Next]_vars => SignedInv'
<1> SUFFICES ASSUME Typed, SignedInv, [Next]_vars PROVE SignedInv'
    OBVIOUS
<1>1. ASSUME NEW n \in Member, NEW b \in Block, BuildBlock(n, b) PROVE SignedInv'
  <2>1. \A msg \in Offered(n, b) : msg.type # "sig"
        BY OthersTyped DEF Offered
  <2>2. net' = net \cup Offered(n, b) /\ UNCHANGED <<sigInfos, signed, certified>>
        BY <1>1 DEF BuildBlock, collecting, history
  <2>3. QED BY <2>1, <2>2, SignedInvKept
<1>2. ASSUME NEW n \in Member, TimeoutSubmission(n) PROVE SignedInv'
  <2>1. currBlock[n] \in Block
        BY <1>2 DEF TimeoutSubmission, Typed
  <2>2. \A msg \in Others(n, "last", currBlock[n]) : msg.type # "sig"
        BY <2>1, OthersTyped
  <2>3. /\ net' = net \cup Others(n, "last", currBlock[n])
        /\ UNCHANGED <<sigInfos, signed, certified>>
        BY <1>2 DEF TimeoutSubmission, collecting, history
  <2>4. QED BY <2>2, <2>3, SignedInvKept
<1>3. ASSUME NEW n \in Member, NEW msg \in net,
             \/ IgnoreLastBlock(n, msg) \/ SignSenderFails(n, msg)
             \/ ReceiveNewBlock(n, msg) \/ VerigyFails(n, msg)
      PROVE  SignedInv'
  <2>1. /\ net' \subseteq net /\ UNCHANGED <<signed, certified>>
        /\ \/ UNCHANGED sigInfos
           \/ sigInfos' = [sigInfos EXCEPT ![n] = [m \in Member |-> None]]
        BY <1>3, RestSubset DEF IgnoreLastBlock, SignSenderFails, ReceiveNewBlock,
                                VerigyFails, collecting, history
  <2>2. \A i, m \in Member : sigInfos'[i][m] = sigInfos[i][m] \/ sigInfos'[i][m] = None
        BY <2>1 DEF Typed
  <2>3. QED BY SMTT(30), <2>1, <2>2, SignedInvKept
<1>4. ASSUME (\E n \in Member, b \in Block : CommitNewBlock(n, b)) \/ UNCHANGED vars
      PROVE  SignedInv'
  <2>1. UNCHANGED <<net, sigInfos, signed, certified>>
        BY <1>4, ChainStep DEF collecting, history
  <2>2. QED BY <2>1, SignedInvKept
<1>5. QED BY <1>1, <1>2, <1>3, <1>4, SignedInvSign, SignedInvCollect, SignedInvComplete
          DEF Next, Receive

(* Two quorums of a committee have a member in common.                     *)
LEMMA QuorumsMeet ==
    ASSUME NEW S, NEW T, S \subseteq Member, T \subseteq Member,
           Cardinality(S) >= Threshold, Cardinality(T) >= Threshold
    PROVE  S \cap T # {}
<1>1. /\ Cardinality(S) \in Nat /\ Cardinality(T) \in Nat /\ Cardinality(Member) \in Nat
      BY MembersFinite
<1>2. Cardinality(S) + Cardinality(T) > Cardinality(Member)
      BY <1>1 DEF Threshold
<1>3. QED BY <1>2, WorkerAssumption, FS_MajoritiesIntersect

(* However messages are lost, repeated and reordered, update completes a   *)
(* block only with a threshold of signatures of that very block, and two   *)
(* completed blocks of one parent have a member that signed both.          *)
THEOREM Agreement == Spec => []QuorumSigned
<1>1. SignedInv => QuorumSigned
  <2> SUFFICES ASSUME SignedInv PROVE QuorumSigned
      OBVIOUS
  <2>1. \A c \in certified :
           Cardinality(Signers(c[2])) >= Threshold /\ Signers(c[2]) \subseteq Member
        BY DEF SignedInv, Signers
  <2>2. ASSUME NEW c \in certified, NEW d \in certified
        PROVE  \E m \in Member : {c[2], d[2]} \subseteq signed[m]
    <3>1. Signers(c[2]) \cap Signers(d[2]) # {}
          BY <2>1, <2>2, QuorumsMeet
    <3>2. QED BY <3>1 DEF Signers
  <2>3. QED BY <2>1, <2>2 DEF QuorumSigned, Signers
<1>2. QED BY TypedInit, TypedNext, SignedInvInit, SignedInvNext, <1>1, PTL DEF Spec

-----------------------------------------------------------------------------
(* The rank that is held.                                                  *)

LEMMA RankInit == Init => RankHeldByBlock
BY DEF Init, RankHeldByBlock

(* Steps that leave the collection alone; a failure only weakens what is   *)
(* claimed.                                                                *)
LEMMA RankKept ==
    ASSUME Typed, RankHeldByBlock, UNCHANGED <<sigBlocks, coefficientMax>>,
           \/ UNCHANGED sigInfos /\ failures' \in {failures, failures + 1}
           \/ failures' = failures + 1
    PROVE  RankHeldByBlock'
BY SMTT(30) DEF RankHeldByBlock, Percent, Typed

(* Signing a better block: its rank is above all that are held.            *)
LEMMA RankSign ==
    ASSUME Typed, RankHeldByBlock, NEW n \in Member, NEW msg \in net, SignLastBlock(n, msg)
    PROVE  RankHeldByBlock'
<1>1. msg.block \in Block
      BY DEF Typed, Message
<1>2. /\ coefficientMax[n] < Percent(msg.block)
      /\ coefficientMax' = [coefficientMax EXCEPT ![n] = Percent(msg.block)]
      /\ sigBlocks' = [sigBlocks EXCEPT ![n] = @ \cup {msg.block}]
      /\ sigInfos' = [sigInfos EXCEPT ![n][n] = msg.block]
      /\ UNCHANGED failures
      BY DEF SignLastBlock
<1>3. \A b \in Block : Percent(b) \in Nat
      BY PercentPositive
<1>4. \A m \in Member \ {n} : /\ coefficientMax'[m] = coefficientMax[m]
                              /\ sigBlocks'[m] = sigBlocks[m]
                              /\ sigInfos'[m][m] = sigInfos[m][m]
      BY <1>2 DEF Typed
<1>5. /\ coefficientMax'[n] = Percent(msg.block)
      /\ sigBlocks'[n] = sigBlocks[n] \cup {msg.block}
      /\ sigInfos'[n][n] = msg.block
      BY <1>1, <1>2 DEF Typed
<1>6. \A b \in sigBlocks'[n] : Percent(b) <= coefficientMax'[n]
  <2>1. \A b \in sigBlocks[n] : b \in Block /\ Percent(b) <= coefficientMax[n]
        BY DEF RankHeldByBlock, Typed
  <2>2. coefficientMax[n] \in Nat
        BY DEF Typed
  <2>3. QED BY <1>1, <1>2, <1>3, <1>5, <2>1, <2>2
<1>7. QED BY <1>2, <1>4, <1>5, <1>6 DEF RankHeldByBlock, Percent

(* Collecting a signature: a member's own entry ranks as high as any block *)
(* it collects for, so that none displaces it.                             *)
LEMMA RankCollect ==
    ASSUME Typed, RankHeldByBlock, NEW n \in Member, NEW sig \in net, CollectSig(n, sig)
    PROVE  RankHeldByBlock'
<1>1. UNCHANGED <<sigBlocks, coefficientMax, failures>>
      BY DEF CollectSig
<1>2. CASE sig.block \notin sigBlocks[n]
  <2>1. UNCHANGED sigInfos
        BY SMTT(30), <1>2 DEF CollectSig
  <2>2. QED BY <1>1, <2>1, RankKept
<1>3. CASE sig.block \in sigBlocks[n]
  <2>1. sigInfos' = [sigInfos EXCEPT ![n] = Recorded(n, sig)]
        BY <1>3 DEF CollectSig
  <2>2. \A m \in Member \ {n} : sigInfos'[m][m] = sigInfos[m][m]
        BY <2>1 DEF Typed
  <2>3. sigInfos'[n][n] = Recorded(n, sig)[n]
        BY <2>1 DEF Typed
  <2>4. failures = 0 => Recorded(n, sig)[n] = sigInfos[n][n]
    <3> SUFFICES ASSUME failures = 0 PROVE Recorded(n, sig)[n] = sigInfos[n][n]
        OBVIOUS
    <3>1. /\ sigInfos[n][n] \in sigBlocks[n]
          /\ Percent(sigInfos[n][n]) = coefficientMax[n]
          /\ Percent(sig.block) <= coefficientMax[n]
          BY <1>3 DEF RankHeldByBlock
    <3>2. sigInfos[n][n] \in Block /\ sig.block \in Block
          BY <1>3, <3>1 DEF Typed
    <3>3. sigInfos[n][n] # None
          BY <3>2, WorkerAssumption
    <3>4. ~(Percent(sigInfos[n][n]) < Percent(sig.block))
          BY <3>1, <3>2, PercentPositive
    <3>5. sigInfos[n] \in [Member -> Block \cup {None}]
          BY DEF Typed
    <3>6. CASE sig.from = n
          BY <3>3, <3>4, <3>6 DEF Recorded
    <3>7. CASE sig.from # n
          BY <3>5, <3>7 DEF Recorded
    <3>8. QED BY <3>6, <3>7
  <2>5. \A m \in Member : failures = 0 => sigInfos'[m][m] = sigInfos[m][m]
        BY <2>2, <2>3, <2>4
  <2>6. QED BY ZenonT(40), <1>1, <2>5 DEF RankHeldByBlock, Percent
<1>4. QED BY <1>2, <1>3

(* Completing a block: the blocks, their rank and the entries go together. *)
LEMMA RankComplete ==
    ASSUME Typed, RankHeldByBlock, NEW n \in Member, NEW sig \in net, CompleteBlock(n, sig)
    PROVE  RankHeldByBlock'
<1>1. /\ sigInfos' = [sigInfos EXCEPT ![n] = [m \in Member |-> None]]
      /\ coefficientMax' = [coefficientMax EXCEPT ![n] = 0]
      /\ sigBlocks' = [sigBlocks EXCEPT ![n] = {}]
      /\ UNCHANGED failures
      BY DEF CompleteBlock, CoefficientMaxAfter
<1>2. coefficientMax'[n] = 0 /\ sigBlocks'[n] = {}
      BY <1>1 DEF Typed
<1>3. \A m \in Member \ {n} : /\ coefficientMax'[m] = coefficientMax[m]
                              /\ sigBlocks'[m] = sigBlocks[m]
                              /\ sigInfos'[m][m] = sigInfos[m][m]
      BY <1>1 DEF Typed
<1>4. QED BY <1>1, <1>2, <1>3 DEF RankHeldByBlock, Percent

LEMMA RankNext == Typed /\ RankHeldByBlock /\ [Next]_vars => RankHeldByBlock'
<1> SUFFICES ASSUME Typed, RankHeldByBlock, [Next]_vars PROVE RankHeldByBlock'
    OBVIOUS
<1>1. ASSUME NEW n \in Member,
             (\E b \in Block : BuildBlock(n, b)) \/ TimeoutSubmission(n)
      PROVE  RankHeldByBlock'
  <2>1. UNCHANGED <<sigBlocks, coefficientMax, sigInfos, failures>>
        BY <1>1 DEF BuildBlock, TimeoutSubmission, collecting
  <2>2. QED BY <2>1, RankKept
<1>2. ASSUME NEW n \in Member, NEW msg \in net,
             \/ IgnoreLastBlock(n, msg) \/ SignSenderFails(n, msg)
             \/ ReceiveNewBlock(n, msg) \/ VerigyFails(n, msg)
      PROVE  RankHeldByBlock'
  <2>1. /\ UNCHANGED <<sigBlocks, coefficientMax>>
        /\ \/ UNCHANGED sigInfos /\ failures' \in {failures, failures + 1}
           \/ failures' = failures + 1
        BY <1>2 DEF IgnoreLastBlock, SignSenderFails, ReceiveNewBlock, VerigyFails, collecting
  <2>2. QED BY SMTT(30), <2>1, RankKept
<1>3. ASSUME (\E n \in Member, b \in Block : CommitNewBlock(n, b)) \/ UNCHANGED vars
      PROVE  RankHeldByBlock'
  <2>1. UNCHANGED <<sigBlocks, coefficientMax, sigInfos, failures>>
        BY <1>3, ChainStep DEF collecting
  <2>2. QED BY <2>1, RankKept
<1>4. QED BY <1>1, <1>2, <1>3, RankSign, RankCollect, RankComplete DEF Next, Receive

(* coefficientMax never outlives the blocks it stands for, and a member's  *)
(* own signature is never displaced from its collection.                   *)
THEOREM RanksHeld == Spec => []RankHeldByBlock
BY TypedInit, TypedNext, RankInit, RankNext, PTL DEF Spec

-----------------------------------------------------------------------------
(***************************************************************************)
(* The keys of BlsGroup.                                                   *)
(***************************************************************************)

USE ZenonT(40)

Address == 1..(P - 1)

(* What the arithmetic of package bls makes.                               *)
Polynomial == UNION {[1..k -> 0..(P - 1)] : k \in Nat}

Share == {0} \cup {Evaluate(msk, v) : msk \in Polynomial, v \in Address}

Key == {0} \cup {RecoverValue(f) : f \in UNION {[S -> Share \cup Address] :
                                                S \in SUBSET Address}}

(* The functions from some of A to B.                                      *)
Partial(A, B) == UNION {[S -> B] : S \in SUBSET A}

BlsInfo == [gid : Nat, sec : Key, pub : Key, n : Nat, k : Nat]

BlsMemory ==
    [members : Seq(Address), n : Nat, k : Nat, gid : Nat, hash : Seq(Address),
     groups : SUBSET Nat, hashes : SUBSET Seq(Address), starting : Nat,
     running : SUBSET Share, psec : Partial(Address, [pub : Address, sec : Share]),
     ready : Nat, created : BOOLEAN, sec : Key, pub : Key,
     saving : {"no", "info", "id"}]

BlsDisk == [info : Partial(Seq(Address), BlsInfo), ids : Partial(Nat, Seq(Address))]

BlsMsg == [gid : Nat, from : Node, pub : Node, shares : Partial(Address, Share)]

BlsTyped ==
    /\ next \in [Node -> Nat] /\ \A i \in Node : next[i] >= 1
    /\ mem \in [Node -> BlsMemory] /\ disk \in [Node -> BlsDisk]
    /\ network \subseteq BlsMsg

(* The hypothesis: two groups that the chain announces have the same       *)
(* members or none in common.                                              *)
OneGroupEach ==
    \A a, b \in Range(Event) :
      Range(a.addrs) \cap Range(b.addrs) # {} => Range(a.addrs) = Range(b.addrs)

(* The members of the groups i is in.                                      *)
Peers(i) == UNION {Range(e.addrs) : e \in {e \in Range(Event) : i \in Range(e.addrs)}}

(* A node deals with its peers only.                                       *)
AmongPeers ==
    /\ \A i \in Node : Range(mem[i].members) \subseteq Peers(i)
    /\ \A msg \in network : DOMAIN msg.shares \subseteq Peers(msg.from)

SecVec(i, psec, own) ==
    [j \in DOMAIN psec \cup {i} |-> IF j = i THEN own ELSE psec[j].sec]

PubVec(i, psec) == [j \in DOMAIN psec \cup {i} |-> IF j = i THEN i ELSE psec[j].pub]

NoDisk == [info |-> << >>, ids |-> << >>]

InfoOf(g) == [gid |-> g.gid, sec |-> g.sec, pub |-> g.pub, n |-> g.n, k |-> g.k]

(* All peers' messages have come.                                          *)
Full(i, g) == DOMAIN g.psec = Peers(i) \ {i}

(* A node with memory g and database d that has a group and was not        *)
(* disturbed: it has one polynomial; it is told to recover only when all   *)
(* messages are there, so that a second time gives the same key; and a key *)
(* that is saved is the one a restart loads.                               *)
Exchanging(i, g) ==
    /\ i \in Peers(i) /\ g.n >= Cardinality(Peers(i))
    /\ DOMAIN g.psec \subseteq Peers(i) \ {i}
    /\ g.ready > 0 => Full(i, g)
    /\ g.starting \in {0, 1}
    /\ g.starting = 1 => g.running = {} /\ ~g.created
    /\ \A a, b \in g.running : a = b
    /\ g.saving # "no" => g.created
    /\ g.created => \A own \in g.running :
         /\ Full(i, g) /\ g.sec = RecoverValue(SecVec(i, g.psec, own))
         /\ g.pub = RecoverValue(PubVec(i, g.psec))

Stored(g, d) ==
    /\ DOMAIN d.ids \subseteq {g.gid}
    /\ g.saving = "id" => g.hash \in DOMAIN d.info /\ d.info[g.hash] = InfoOf(g)
    /\ (g.created /\ g.saving = "no") =>
         /\ g.gid \in DOMAIN d.ids /\ d.ids[g.gid] \in DOMAIN d.info
         /\ d.info[d.ids[g.gid]] = InfoOf(g)

Peaceful(i, g, d) ==
    \/ g = Fresh /\ d = NoDisk
    \/ g.n # 0 /\ Exchanging(i, g) /\ Stored(g, d)

KeyInv == BlsTyped /\ AmongPeers /\ \A i \in Node \ disturbed : Peaceful(i, mem[i], disk[i])

-----------------------------------------------------------------------------
(* Functions on part of a set, and Put.                                    *)

LEMMA EmptyPartial == \A A, B : << >> \in Partial(A, B)
<1> SUFFICES ASSUME NEW A, NEW B PROVE << >> \in Partial(A, B)
  OBVIOUS
<1>1. << >> \in [{} -> B]
  BY SMTT(30)
<1> QED BY <1>1 DEF Partial

LEMMA PartialIs ==
    ASSUME NEW A, NEW B, NEW f \in Partial(A, B)
    PROVE  DOMAIN f \subseteq A /\ f \in [DOMAIN f -> B] /\ \A x \in DOMAIN f : f[x] \in B
BY DEF Partial

LEMMA PutIs ==
    ASSUME NEW f, NEW x, NEW v
    PROVE  DOMAIN Put(f, x, v) = DOMAIN f \cup {x} /\ Put(f, x, v)[x] = v
BY DEF Put

LEMMA PutPartial ==
    ASSUME NEW A, NEW B, NEW f \in Partial(A, B), NEW x \in A, NEW v \in B
    PROVE  Put(f, x, v) \in Partial(A, B)
<1>1. DOMAIN f \subseteq A /\ \A y \in DOMAIN f : f[y] \in B
  BY PartialIs
<1>2. Put(f, x, v) \in [DOMAIN f \cup {x} -> B]
  BY <1>1 DEF Put
<1>3. DOMAIN f \cup {x} \in SUBSET A
  BY <1>1
<1> QED BY <1>2, <1>3 DEF Partial

LEMMA NodeAddress == Node \subseteq Address
BY BlsAssumption DEF Address

LEMMA FreshTyped == Fresh \in BlsMemory /\ NoDisk \in BlsDisk
<1>1. <<>> \in Seq(Address) /\ 0 \in Nat /\ {0} \in SUBSET Nat
  BY SMTT(30)
<1>2. 0 \in Key
  BY DEF Key
<1> QED BY <1>1, <1>2, EmptyPartial DEF Fresh, NoDisk, BlsMemory, BlsDisk

-----------------------------------------------------------------------------
(* Groups and their members.                                               *)

LEMMA InList ==
    ASSUME NEW R, NEW s \in Seq(R), NEW n \in DOMAIN s
    PROVE  s[n] \in R
BY SMTT(30)

LEMMA EventTyped ==
    ASSUME NEW e \in Range(Event)
    PROVE  e.gid \in Nat /\ e.addrs \in Seq(Address)
<1>1. PICK n \in DOMAIN Event : e = Event[n]
  BY DEF Range
<1>2. Event[n] \in [gid : Nat, addrs : Seq(Address)]
  BY BlsAssumption, InList DEF Address
<1> QED BY <1>1, <1>2

LEMMA OfPeers ==
    ASSUME OneGroupEach, NEW i, NEW e \in Range(Event), i \in Range(e.addrs)
    PROVE  Peers(i) = Range(e.addrs)
BY DEF OneGroupEach, Peers

LEMMA SamePeers ==
    ASSUME OneGroupEach, NEW i, NEW j, i \in Peers(j)
    PROVE  Peers(i) = Peers(j) /\ j \in Peers(i) /\ i \in Peers(i)
<1>1. PICK e \in Range(Event) : j \in Range(e.addrs) /\ i \in Range(e.addrs)
  BY DEF Peers
<1> QED BY <1>1, OfPeers

(* A group has no more members than its list is long.                      *)
LEMMA ListBounds ==
    ASSUME NEW s \in Seq(Address)
    PROVE  IsFiniteSet(Range(s)) /\ Cardinality(Range(s)) <= Len(s)
<1>1. PICK n \in Nat : n = Len(s) /\ DOMAIN s = 1..n
  BY SMTT(30)
<1>2. IsFiniteSet(1..n) /\ Cardinality(1..n) = n
  <2>1. 1 \in Int /\ n \in Int
    BY SMTT(30)
  <2>2. IsFiniteSet(1..n) /\ Cardinality(1..n) = IF 1 > n THEN 0 ELSE n - 1 + 1
    BY <2>1, FS_Interval
  <2> QED BY <2>2, SMTT(30)
<1>3. s \in Surjection(1..n, Range(s))
  <2>1. s \in [1..n -> Range(s)]
    BY <1>1, SMTT(30) DEF Range
  <2> QED BY <1>1, <2>1 DEF Surjection, Range
<1>4. IsFiniteSet(Range(s)) /\ Cardinality(Range(s)) <= Cardinality(1..n)
  BY <1>2, <1>3, FS_Surjection
<1> QED BY <1>1, <1>2, <1>4

(* Who has heard of as many as there are peers has heard of all of them.   *)
LEMMA AllCame ==
    ASSUME NEW S, NEW T, NEW i \in T, IsFiniteSet(T), S \subseteq T \ {i},
           NEW n \in Nat, n >= Cardinality(T), Cardinality(S) = n - 1
    PROVE  S = T \ {i}
<1>1. IsFiniteSet(T \ {i}) /\ Cardinality(T \ {i}) = Cardinality(T) - 1
  BY FS_RemoveElement
<1>2. Cardinality(T) \in Nat /\ Cardinality(S) \in Nat /\ IsFiniteSet(S)
  BY <1>1, FS_CardinalityType, FS_Subset
<1>3. Cardinality(S) <= Cardinality(T \ {i})
  BY <1>1, FS_Subset
<1>4. Cardinality(S) = Cardinality(T \ {i})
  BY <1>1, <1>2, <1>3, SMTT(30)
<1> QED BY <1>1, <1>4, FS_Subset

LEMMA ListsJoined ==
    ASSUME NEW s \in Seq(Address), NEW t \in Seq(Address)
    PROVE  s \o t \in Seq(Address) /\ Range(s \o t) \subseteq Range(s) \cup Range(t)
<1>1. s \o t \in Seq(Address)
  BY SMTT(30)
<1>2. ASSUME NEW n \in DOMAIN (s \o t) PROVE (s \o t)[n] \in Range(s) \cup Range(t)
  <2>1. \/ n \in DOMAIN s /\ (s \o t)[n] = s[n]
        \/ (n - Len(s)) \in DOMAIN t /\ (s \o t)[n] = t[n - Len(s)]
    BY SMTT(30)
  <2> QED BY <2>1 DEF Range
<1> QED BY <1>1, <1>2 DEF Range

LEMMA EmptyList ==
    /\ <<>> \in Seq(Address) /\ Range(<<>>) = {} /\ DOMAIN << >> = {}
    /\ \A s \in Seq(Address) : <<>> \o s = s /\ (Range(s) # {} => Len(s) # 0)
<1>1. <<>> \in Seq(Address) /\ DOMAIN << >> = {} /\ \A s \in Seq(Address) : <<>> \o s = s
  BY SMTT(30)
<1>2. \A s \in Seq(Address) : Len(s) = 0 => DOMAIN s = {}
  BY SMTT(30)
<1> QED BY <1>1, <1>2 DEF Range

LEMMA QuorumTyped == \A n \in Nat : QuorumOf(n) \in Nat
BY SMTT(30) DEF QuorumOf

-----------------------------------------------------------------------------
(* The invariant, action by action.                                        *)

(* A step of node i leaves the other nodes alone.                          *)
LEMMA OfOneNode ==
    ASSUME KeyInv, NEW i \in Node, NEW g \in BlsMemory, NEW d \in BlsDisk,
           mem' = [mem EXCEPT ![i] = g], disk' = [disk EXCEPT ![i] = d],
           next' \in [Node -> Nat], \A j \in Node : next'[j] >= 1,
           network' \subseteq BlsMsg, Range(g.members) \subseteq Peers(i),
           \A msg \in network' : DOMAIN msg.shares \subseteq Peers(msg.from),
           disturbed \subseteq disturbed', i \notin disturbed' => Peaceful(i, g, d)
    PROVE  KeyInv'
<1>1. /\ mem \in [Node -> BlsMemory] /\ disk \in [Node -> BlsDisk] /\ AmongPeers
      /\ \A j \in Node \ disturbed : Peaceful(j, mem[j], disk[j])
  BY DEF KeyInv, BlsTyped
<1>2. /\ mem' \in [Node -> BlsMemory] /\ mem'[i] = g
      /\ \A j \in Node \ {i} : mem'[j] = mem[j]
  BY <1>1
<1>3. /\ disk' \in [Node -> BlsDisk] /\ disk'[i] = d
      /\ \A j \in Node \ {i} : disk'[j] = disk[j]
  BY <1>1
<1>4. BlsTyped'
  BY <1>2, <1>3 DEF BlsTyped
<1>5. AmongPeers'
  BY <1>1, <1>2 DEF AmongPeers
<1>6. ASSUME NEW j \in Node \ disturbed' PROVE Peaceful(j, mem'[j], disk'[j])
  <2>1. CASE j = i
    BY <1>2, <1>3, <2>1
  <2>2. CASE j # i
    <3>1. mem'[j] = mem[j] /\ disk'[j] = disk[j] /\ j \in Node \ disturbed
      BY <1>2, <1>3, <2>2
    <3> QED BY <1>1, <3>1
  <2> QED BY <2>1, <2>2
<1> QED BY <1>4, <1>5, <1>6 DEF KeyInv

LEMMA OfNode ==
    ASSUME KeyInv, NEW i \in Node
    PROVE  /\ mem[i] \in BlsMemory /\ disk[i] \in BlsDisk /\ next[i] \in Nat /\ next[i] >= 1
           /\ Range(mem[i].members) \subseteq Peers(i) /\ network \subseteq BlsMsg
           /\ \A msg \in network : DOMAIN msg.shares \subseteq Peers(msg.from)
           /\ i \notin disturbed => Peaceful(i, mem[i], disk[i])
           /\ next \in [Node -> Nat] /\ \A j \in Node : next[j] >= 1
           /\ mem \in [Node -> BlsMemory] /\ disk \in [Node -> BlsDisk]
           /\ disk = [disk EXCEPT ![i] = disk[i]] /\ mem = [mem EXCEPT ![i] = mem[i]]
<1>1. BlsTyped /\ AmongPeers
  BY DEF KeyInv
<1>2. i \notin disturbed => Peaceful(i, mem[i], disk[i])
  BY DEF KeyInv
<1>3. disk = [disk EXCEPT ![i] = disk[i]] /\ mem = [mem EXCEPT ![i] = mem[i]]
  BY <1>1 DEF BlsTyped
<1> QED BY <1>1, <1>2, <1>3 DEF BlsTyped, AmongPeers

(* Before the first event with the node among the members all is fresh.    *)
LEMMA FreshIs ==
    /\ Fresh.n = 0 /\ Fresh.hashes = {} /\ Fresh.members = <<>> /\ Fresh.starting = 0
    /\ Fresh.running = {} /\ Fresh.psec = << >> /\ Fresh.ready = 0 /\ ~Fresh.created
    /\ Fresh.saving = "no" /\ NoDisk.ids = << >> /\ NoDisk.info = << >>
BY DEF Fresh, NoDisk

LEMMA KeyInvInit == BlsInit => KeyInv
<1> SUFFICES ASSUME BlsInit PROVE KeyInv
  OBVIOUS
<1>1. \A i \in Node : mem[i] = Fresh /\ disk[i] = NoDisk
  BY DEF BlsInit, NoDisk
<1>2. 1 \in Nat /\ 1 >= 1
  BY SMTT(30)
<1>3. BlsTyped
  BY <1>2, FreshTyped DEF BlsInit, BlsTyped, NoDisk
<1>4. AmongPeers
  BY <1>1, FreshIs, EmptyList DEF BlsInit, AmongPeers
<1> QED BY <1>1, <1>3, <1>4 DEF KeyInv, Peaceful

LEMMA WorkerKeepsKeys ==
    ASSUME OneGroupEach, KeyInv, NEW i \in Node, Worker(i)
    PROVE  KeyInv'
<1>0. PICK g : g = mem[i]
  OBVIOUS
<1>1. PICK d : d = disk[i]
  OBVIOUS
<1>2. PICK e : e = Event[next[i]]
  OBVIOUS
<1>3. e \in Range(Event) /\ e.gid \in Nat /\ e.addrs \in Seq(Address)
  <2>1. next[i] \in DOMAIN Event
    <3>1. next[i] \in Nat /\ next[i] >= 1 /\ next[i] <= Len(Event)
      BY OfNode DEF Worker
    <3>2. ASSUME NEW R, NEW s \in Seq(R), NEW n \in Nat, n >= 1, n <= Len(s) PROVE n \in DOMAIN s
      BY <3>2, SMTT(30)
    <3> QED BY <3>1, <3>2, BlsAssumption
  <2>2. e \in Range(Event)
    BY <1>2, <2>1 DEF Range
  <2> QED BY <2>2, EventTyped
<1>4. /\ g \in BlsMemory /\ d \in BlsDisk /\ Range(g.members) \subseteq Peers(i)
      /\ i \notin disturbed => Peaceful(i, g, d)
  BY <1>0, <1>1, OfNode
<1>5. /\ disturbed \subseteq disturbed' /\ network' = network
      /\ i \notin disturbed' => i \notin disturbed /\ (g.n = 0 \/ (g.created /\ g.saving = "no"))
  BY <1>0 DEF Worker, MakingKey, Saved
<1>6. next' \in [Node -> Nat] /\ \A j \in Node : next'[j] >= 1
  <2>1. next[i] + 1 \in Nat /\ next[i] + 1 >= 1
    BY OfNode, SMTT(30)
  <2>2. next' = [next EXCEPT ![i] = next[i] + 1]
    BY DEF Worker
  <2> QED BY <2>1, <2>2, OfNode
<1>7. network' \subseteq BlsMsg /\ \A msg \in network' : DOMAIN msg.shares \subseteq Peers(msg.from)
  BY <1>5, OfNode
<1>8. (i \notin disturbed' /\ ~g.created) => g = Fresh /\ d = NoDisk
  BY <1>4, <1>5 DEF Peaceful
<1>9. CASE g.created
  <2>1. mem' = [mem EXCEPT ![i] = g] /\ disk' = [disk EXCEPT ![i] = d]
    <3>1. mem' = [mem EXCEPT ![i] = g] /\ disk' = disk
      BY <1>0, <1>9 DEF Worker
    <3> QED BY <1>1, <3>1, OfNode
  <2> QED BY <1>4, <1>5, <1>6, <1>7, <2>1, OfOneNode
<1>10. CASE ~g.created /\ i \notin Range(e.addrs)
  <2>0. PICK r : r = [g EXCEPT !.members = <<>>]
    OBVIOUS
  <2>1. mem' = [mem EXCEPT ![i] = r] /\ disk' = [disk EXCEPT ![i] = d]
    <3>1. mem' = [mem EXCEPT ![i] = r] /\ disk' = disk
      BY <1>0, <1>2, <1>10, <2>0 DEF Worker
    <3> QED BY <1>1, <3>1, OfNode
  <2>2. r \in BlsMemory /\ r.members = <<>>
    BY <1>4, <2>0, EmptyList DEF BlsMemory
  <2>3. i \notin disturbed' => Peaceful(i, r, d)
    <3>1. [Fresh EXCEPT !.members = <<>>] = Fresh
      BY SMTT(30) DEF Fresh
    <3> QED BY <1>8, <1>10, <2>0, <3>1 DEF Peaceful
  <2>4. Range(r.members) \subseteq Peers(i)
    BY <2>2, EmptyList
  <2> QED BY <1>4, <1>5, <1>6, <1>7, <2>1, <2>2, <2>3, <2>4, OfOneNode
<1>11. PICK c : c = g.members \o e.addrs
  OBVIOUS
<1>12. c \in Seq(Address) /\ (i \in Range(e.addrs) => Range(c) \subseteq Peers(i))
  <2>1. g.members \in Seq(Address)
    BY <1>4 DEF BlsMemory
  <2>2. c \in Seq(Address) /\ Range(c) \subseteq Range(g.members) \cup Range(e.addrs)
    BY <1>3, <1>11, <2>1, ListsJoined
  <2> QED BY <1>3, <1>4, <2>2, OfPeers
<1>13. CASE ~g.created /\ i \in Range(e.addrs) /\ e.addrs \in g.hashes
  <2>0. PICK r : r = [g EXCEPT !.members = c, !.groups = g.groups \cup {e.gid}]
    OBVIOUS
  <2>1. PICK f : f = [d EXCEPT !.ids = Put(d.ids, e.gid, e.addrs)]
    OBVIOUS
  <2>2. mem' = [mem EXCEPT ![i] = r]
    <3>1. [[g EXCEPT !.members = c] EXCEPT !.groups = @ \cup {e.gid}] = r
      BY <1>4, <2>0 DEF BlsMemory
    <3> QED BY <1>0, <1>2, <1>11, <1>13, <3>1 DEF Worker
  <2>3. disk' = [disk EXCEPT ![i] = f]
    BY <1>0, <1>1, <1>2, <1>13, <2>1, OfNode DEF Worker
  <2>4. r \in BlsMemory /\ r.members = c
    <3>1. g.groups \cup {e.gid} \in SUBSET Nat
      BY <1>3, <1>4 DEF BlsMemory
    <3> QED BY <1>4, <1>12, <2>0, <3>1 DEF BlsMemory
  <2>5. f \in BlsDisk
    <3>1. Put(d.ids, e.gid, e.addrs) \in Partial(Nat, Seq(Address))
      BY <1>3, <1>4, PutPartial DEF BlsDisk
    <3> QED BY <1>4, <2>1, <3>1 DEF BlsDisk
  <2>6. i \in disturbed'
    BY <1>8, <1>13, FreshIs
  <2> QED BY <1>5, <1>6, <1>7, <1>12, <1>13, <2>2, <2>3, <2>4, <2>5, <2>6, OfOneNode
<1>14. CASE ~g.created /\ i \in Range(e.addrs) /\ e.addrs \notin g.hashes
  <2>a. Len(c) \in Nat /\ QuorumOf(Len(c)) \in Nat
    <3>1. Len(c) \in Nat
      BY <1>12, SMTT(30)
    <3> QED BY <3>1, QuorumTyped
  <2>0. PICK r : r = [g EXCEPT !.members = c, !.gid = e.gid, !.hash = e.addrs,
                        !.n = Len(c), !.k = QuorumOf(Len(c)),
                        !.hashes = g.hashes \cup {e.addrs}, !.starting = g.starting + 1]
    OBVIOUS
  <2>1. mem' = [mem EXCEPT ![i] = r] /\ disk' = [disk EXCEPT ![i] = d]
    <3>1. [[g EXCEPT !.members = c] EXCEPT
              !.gid = e.gid, !.hash = e.addrs,
              !.n = Len([g EXCEPT !.members = c].members),
              !.k = QuorumOf(Len([g EXCEPT !.members = c].members)),
              !.hashes = @ \cup {e.addrs}, !.starting = @ + 1] = r
      BY <1>4, <2>0 DEF BlsMemory
    <3>2. mem' = [mem EXCEPT ![i] = r] /\ disk' = disk
      BY <1>0, <1>2, <1>11, <1>14, <3>1 DEF Worker
    <3> QED BY <1>1, <3>2, OfNode
  <2>2. g.starting + 1 \in Nat
    <3>1. g.starting \in Nat
      BY <1>4 DEF BlsMemory
    <3> QED BY <3>1, SMTT(30)
  <2>3. r \in BlsMemory /\ r.members = c
    <3>1. g.hashes \cup {e.addrs} \in SUBSET Seq(Address)
      BY <1>3, <1>4 DEF BlsMemory
    <3> QED BY <1>3, <1>4, <1>12, <2>a, <2>0, <2>2, <3>1 DEF BlsMemory
  <2>4. ASSUME i \notin disturbed' PROVE Peaceful(i, r, d)
    <3>1. g = Fresh /\ d = NoDisk /\ c = e.addrs
      BY <1>3, <1>8, <1>11, <1>14, <2>4, FreshIs, EmptyList
    <3>2. /\ r.n = Len(e.addrs) /\ r.starting = 0 + 1 /\ r.running = {} /\ ~r.created
          /\ r.psec = << >> /\ r.ready = 0 /\ r.saving = "no"
      BY <1>4, <2>0, <3>1, FreshIs DEF BlsMemory
    <3>3. r.starting = 1 /\ ~(0 > 0) /\ Len(e.addrs) # 0
      BY <1>3, <1>14, <3>2, EmptyList, SMTT(30)
    <3>4. Peers(i) = Range(e.addrs) /\ r.n >= Cardinality(Peers(i))
      <4>1. Peers(i) = Range(e.addrs) /\ Cardinality(Range(e.addrs)) <= Len(e.addrs)
            /\ IsFiniteSet(Range(e.addrs))
        BY <1>3, <1>14, OfPeers, ListBounds
      <4>2. Cardinality(Range(e.addrs)) \in Nat /\ Len(e.addrs) \in Nat
        BY <2>a, <3>1, <4>1, FS_CardinalityType
      <4> QED BY <3>2, <4>1, <4>2, SMTT(30)
    <3>5. Exchanging(i, r)
      BY <1>14, <3>2, <3>3, <3>4, EmptyList DEF Exchanging
    <3>6. Stored(r, d)
      BY <3>1, <3>2, FreshIs, EmptyList DEF Stored
    <3> QED BY <3>2, <3>3, <3>5, <3>6 DEF Peaceful
  <2> QED BY <1>4, <1>5, <1>6, <1>7, <1>12, <1>14, <2>1, <2>3, <2>4, OfOneNode
<1> QED BY <1>9, <1>10, <1>13, <1>14

LEMMA ShareIs == 0 \in Share /\ \A msk \in Polynomial, v \in Address : Evaluate(msk, v) \in Share
<1>1. ASSUME NEW msk \in Polynomial, NEW v \in Address PROVE Evaluate(msk, v) \in Share
  BY SMTT(30) DEF Share
<1>2. 0 \in Share
  BY SMTT(30) DEF Share
<1> QED BY <1>1, <1>2

(* A step that leaves the events, the network, the database and the other  *)
(* nodes alone.                                                            *)
LEMMA InMemory ==
    ASSUME KeyInv, NEW i \in Node, NEW r \in BlsMemory, mem' = [mem EXCEPT ![i] = r],
           UNCHANGED <<next, disk, network, disturbed>>, r.members = mem[i].members,
           i \notin disturbed => Peaceful(i, r, disk[i])
    PROVE  KeyInv'
<1>1. disk' = [disk EXCEPT ![i] = disk[i]] /\ disk[i] \in BlsDisk
  BY OfNode
<1>2. /\ next' \in [Node -> Nat] /\ \A j \in Node : next'[j] >= 1
      /\ network' \subseteq BlsMsg /\ Range(r.members) \subseteq Peers(i)
      /\ \A msg \in network' : DOMAIN msg.shares \subseteq Peers(msg.from)
  BY OfNode
<1>3. disturbed \subseteq disturbed' /\ (i \notin disturbed' => Peaceful(i, r, disk[i]))
  OBVIOUS
<1> QED BY <1>1, <1>2, <1>3, OfOneNode

LEMMA CreateKeepsKeys ==
    ASSUME KeyInv, NEW i \in Node, CreateBlsGroup(i)
    PROVE  KeyInv'
<1>0. PICK g : g = mem[i]
  OBVIOUS
<1>1. /\ g \in BlsMemory /\ disk[i] \in BlsDisk /\ Range(g.members) \subseteq Peers(i)
      /\ i \notin disturbed => Peaceful(i, g, disk[i])
  BY <1>0, OfNode
<1>2. PICK c \in [2..g.k -> Coef] :
        LET msk == [d \in 1..g.k |-> IF d = 1 THEN i ELSE c[d]]
            share(v) == IF v = i THEN 0 ELSE Evaluate(msk, v)
        IN  /\ mem' = [mem EXCEPT ![i].starting = @ - 1,
                                  ![i].running = @ \cup {Evaluate(msk, i)}]
            /\ network' = network \cup
                 {[gid |-> g.gid, from |-> i, pub |-> i,
                   shares |-> [v \in Range(g.members) |-> share(v)]]}
  BY <1>0 DEF CreateBlsGroup
<1>3. PICK msk : msk = [d \in 1..g.k |-> IF d = 1 THEN i ELSE c[d]]
  OBVIOUS
<1>4. msk \in Polynomial
  <2>1. g.k \in Nat
    BY <1>1 DEF BlsMemory
  <2>2. i \in 0..(P - 1) /\ \A d \in 1..g.k : d # 1 => d \in 2..g.k
    BY <2>1, BlsAssumption, SMTT(30)
  <2>3. \A d \in 2..g.k : c[d] \in 0..(P - 1)
    BY BlsAssumption
  <2>4. msk \in [1..g.k -> 0..(P - 1)]
    BY <1>3, <2>2, <2>3
  <2> QED BY <2>1, <2>4 DEF Polynomial
<1>5. PICK own \in Share : own = Evaluate(msk, i)
  BY <1>4, NodeAddress, ShareIs
<1>6. PICK msg : msg = [gid |-> g.gid, from |-> i, pub |-> i,
                        shares |-> [v \in Range(g.members) |->
                                      IF v = i THEN 0 ELSE Evaluate(msk, v)]]
  OBVIOUS
<1>7. PICK r : r = [g EXCEPT !.starting = g.starting - 1, !.running = g.running \cup {own}]
  OBVIOUS
<1>8. mem' = [mem EXCEPT ![i] = r] /\ network' = network \cup {msg}
  BY <1>0, <1>2, <1>3, <1>5, <1>6, <1>7, OfNode
<1>9. msg \in BlsMsg /\ DOMAIN msg.shares \subseteq Peers(msg.from)
  <2>1. Range(g.members) \in SUBSET Address
    <3>1. g.members \in Seq(Address)
      BY <1>1 DEF BlsMemory
    <3> QED BY <3>1, InList DEF Range
  <2>2. \A v \in Range(g.members) : (IF v = i THEN 0 ELSE Evaluate(msk, v)) \in Share
    BY <1>4, <2>1, ShareIs
  <2>3. msg.shares \in [Range(g.members) -> Share]
    BY <1>6, <2>2
  <2>4. msg.shares \in Partial(Address, Share)
    BY <2>1, <2>3 DEF Partial
  <2> QED BY <1>1, <1>6, <2>3, <2>4 DEF BlsMsg, BlsMemory
<1>10. g.starting \in Nat /\ g.starting > 0 /\ g.starting - 1 \in Nat
  <2>1. g.starting \in Nat /\ g.starting > 0
    BY <1>0, <1>1 DEF BlsMemory, CreateBlsGroup
  <2> QED BY <2>1, SMTT(30)
<1>11. r \in BlsMemory /\ r.members = g.members
  <2>1. g.running \cup {own} \in SUBSET Share
    BY <1>1 DEF BlsMemory
  <2> QED BY <1>1, <1>7, <1>10, <2>1 DEF BlsMemory
<1>12. ASSUME i \notin disturbed PROVE Peaceful(i, r, disk[i])
  <2>1. g.n # 0 /\ Exchanging(i, g) /\ Stored(g, disk[i])
    <3>1. g # Fresh
      BY <1>10, FreshIs, SMTT(30)
    <3> QED BY <1>1, <1>12, <3>1 DEF Peaceful
  <2>2. g.starting = 1 /\ g.starting - 1 = 0 /\ 0 # 1
    <3>1. g.starting \in {0, 1}
      BY <2>1 DEF Exchanging
    <3> QED BY <1>10, <3>1, SMTT(30)
  <2>3. g.running = {} /\ ~g.created
    BY <2>1, <2>2 DEF Exchanging
  <2>4. r = [g EXCEPT !.starting = 0, !.running = {own}]
    BY <1>7, <2>2, <2>3
  <2>5. /\ r.starting = 0 /\ r.running = {own} /\ r.n = g.n /\ r.psec = g.psec
        /\ r.ready = g.ready /\ r.created = g.created /\ r.saving = g.saving
        /\ r.gid = g.gid /\ r.hash = g.hash /\ r.sec = g.sec /\ r.pub = g.pub /\ r.k = g.k
    BY <1>1, <2>4 DEF BlsMemory
  <2>6. Exchanging(i, r)
    BY <2>1, <2>2, <2>3, <2>5 DEF Exchanging, Full
  <2>7. Stored(r, disk[i])
    BY <2>1, <2>5 DEF Stored, InfoOf
  <2> QED BY <2>1, <2>5, <2>6, <2>7 DEF Peaceful
<1>13. disk' = [disk EXCEPT ![i] = disk[i]]
  BY OfNode DEF CreateBlsGroup
<1>14. next' = next /\ disturbed' = disturbed
  BY DEF CreateBlsGroup
<1>15. /\ next' \in [Node -> Nat] /\ \A j \in Node : next'[j] >= 1
       /\ network' \subseteq BlsMsg /\ Range(r.members) \subseteq Peers(i)
       /\ \A m \in network' : DOMAIN m.shares \subseteq Peers(m.from)
  BY <1>1, <1>8, <1>9, <1>11, <1>14, OfNode
<1> QED BY <1>1, <1>8, <1>11, <1>12, <1>13, <1>14, <1>15, OfOneNode

LEMMA PeersFinite == \A i : i \in Peers(i) /\ OneGroupEach => IsFiniteSet(Peers(i))
<1> SUFFICES ASSUME NEW i, i \in Peers(i), OneGroupEach PROVE IsFiniteSet(Peers(i))
  OBVIOUS
<1>1. PICK e \in Range(Event) : i \in Range(e.addrs)
  BY DEF Peers
<1>2. Peers(i) = Range(e.addrs) /\ e.addrs \in Seq(Address)
  BY <1>1, OfPeers, EventTyped
<1> QED BY <1>2, ListBounds

LEMMA AddMsgKeepsKeys ==
    ASSUME OneGroupEach, KeyInv, NEW i \in Node, NEW msg \in network, AddMsg(i, msg)
    PROVE  KeyInv'
<1>0. PICK g : g = mem[i]
  OBVIOUS
<1>1. /\ g \in BlsMemory /\ msg \in BlsMsg /\ DOMAIN msg.shares \subseteq Peers(msg.from)
      /\ i \notin disturbed => Peaceful(i, g, disk[i])
  BY <1>0, OfNode
<1>2. PICK q : q = IF i \in DOMAIN msg.shares
                   THEN Put(g.psec, msg.from, [pub |-> msg.pub, sec |-> msg.shares[i]])
                   ELSE g.psec
  OBVIOUS
<1>3. PICK w : w = IF IsLast(g, q) THEN g.ready + 1 ELSE g.ready
  OBVIOUS
<1>4. PICK r : r = [g EXCEPT !.psec = q, !.ready = w]
  OBVIOUS
<1>5. /\ mem' = [mem EXCEPT ![i] = r] /\ UNCHANGED <<next, disk, network, disturbed>>
      /\ msg.from # i /\ g.n # 0 /\ msg.from \notin DOMAIN g.psec
  BY <1>0, <1>2, <1>3, <1>4, OfNode DEF AddMsg
<1>6. q \in Partial(Address, [pub : Address, sec : Share])
  <2>1. g.psec \in Partial(Address, [pub : Address, sec : Share])
    BY <1>1 DEF BlsMemory
  <2>2. msg.from \in Address /\ msg.pub \in Address /\ msg.shares \in Partial(Address, Share)
    BY <1>1, NodeAddress DEF BlsMsg
  <2>3. ASSUME i \in DOMAIN msg.shares
        PROVE  [pub |-> msg.pub, sec |-> msg.shares[i]] \in [pub : Address, sec : Share]
    <3>1. msg.shares[i] \in Share
      BY <2>2, <2>3, PartialIs
    <3> QED BY <2>2, <3>1
  <2> QED BY <1>2, <2>1, <2>2, <2>3, PutPartial
<1>7. w \in Nat
  <2>1. g.ready \in Nat
    BY <1>1 DEF BlsMemory
  <2> QED BY <1>3, <2>1, SMTT(30)
<1>8. r \in BlsMemory /\ r.members = g.members
  BY <1>1, <1>4, <1>6, <1>7 DEF BlsMemory
<1>9. /\ r.psec = q /\ r.ready = w /\ r.starting = g.starting /\ r.running = g.running
      /\ r.n = g.n /\ r.created = g.created /\ r.saving = g.saving /\ r.k = g.k
      /\ r.gid = g.gid /\ r.hash = g.hash /\ r.sec = g.sec /\ r.pub = g.pub
  BY <1>1, <1>4 DEF BlsMemory
<1>10. ASSUME i \notin disturbed PROVE Peaceful(i, r, disk[i])
  <2>1. g.n # 0 /\ Exchanging(i, g) /\ Stored(g, disk[i])
    BY <1>1, <1>5, <1>10, FreshIs DEF Peaceful
  <2>2. /\ i \in Peers(i) /\ g.n >= Cardinality(Peers(i)) /\ DOMAIN g.psec \subseteq Peers(i) \ {i}
        /\ IsFiniteSet(Peers(i)) /\ g.n \in Nat
    BY <1>1, <2>1, PeersFinite DEF Exchanging, BlsMemory
  <2>3. i \in DOMAIN msg.shares => msg.from \in Peers(i) \ {i}
    BY <1>1, <1>5, SamePeers
  <2>4. DOMAIN q \subseteq Peers(i) \ {i}
    <3>1. CASE i \in DOMAIN msg.shares
      <4>1. PICK v : v = [pub |-> msg.pub, sec |-> msg.shares[i]]
        OBVIOUS
      <4>2. DOMAIN Put(g.psec, msg.from, v) = DOMAIN g.psec \cup {msg.from}
        BY PutIs
      <4> QED BY <1>2, <2>2, <2>3, <3>1, <4>1, <4>2
    <3>2. CASE i \notin DOMAIN msg.shares
      BY <1>2, <2>2, <3>2
    <3> QED BY <3>1, <3>2
  <2>5. Full(i, g) => q = g.psec
    BY <1>2, <1>5, <2>3 DEF Full
  <2>6. w > 0 => Full(i, r)
    <3>1. CASE IsLast(g, q)
      <4>1. Cardinality(DOMAIN q) = g.n - 1
        BY <3>1 DEF IsLast
      <4> QED BY <1>9, <2>2, <2>4, <4>1, AllCame DEF Full
    <3>2. CASE ~IsLast(g, q)
      <4>1. w > 0 => Full(i, g)
        BY <1>3, <2>1, <3>2 DEF Exchanging
      <4> QED BY <1>9, <2>5, <4>1 DEF Full
    <3> QED BY <3>1, <3>2
  <2>7. r.created => \A own \in r.running :
          /\ Full(i, r) /\ r.sec = RecoverValue(SecVec(i, r.psec, own))
          /\ r.pub = RecoverValue(PubVec(i, r.psec))
    <3> SUFFICES ASSUME r.created, NEW own \in r.running
                 PROVE  /\ Full(i, r) /\ r.sec = RecoverValue(SecVec(i, r.psec, own))
                        /\ r.pub = RecoverValue(PubVec(i, r.psec))
      OBVIOUS
    <3>1. /\ Full(i, g) /\ g.sec = RecoverValue(SecVec(i, g.psec, own))
          /\ g.pub = RecoverValue(PubVec(i, g.psec))
      BY <1>9, <2>1 DEF Exchanging
    <3>2. r.psec = g.psec
      BY <1>9, <2>5, <3>1
    <3>3. Full(i, r)
      BY <3>1, <3>2 DEF Full
    <3> QED BY <1>9, <3>1, <3>2, <3>3
  <2>8. Exchanging(i, r)
    BY <1>9, <2>1, <2>2, <2>4, <2>6, <2>7 DEF Exchanging
  <2>9. Stored(r, disk[i])
    BY <1>9, <2>1 DEF Stored, InfoOf
  <2> QED BY <1>9, <2>1, <2>8, <2>9 DEF Peaceful
<1> QED BY <1>0, <1>5, <1>8, <1>10, InMemory

LEMMA RecoveredIsKey ==
    ASSUME KeyInv, NEW i \in Node, NEW own \in mem[i].running
    PROVE  /\ RecoverValue(SecVec(i, mem[i].psec, own)) \in Key
           /\ RecoverValue(PubVec(i, mem[i].psec)) \in Key
<1>0. PICK q : q = mem[i].psec
  OBVIOUS
<1>1. q \in Partial(Address, [pub : Address, sec : Share]) /\ own \in Share
  BY <1>0, OfNode DEF BlsMemory
<1>2. DOMAIN q \subseteq Address /\ \A j \in DOMAIN q : q[j].pub \in Address /\ q[j].sec \in Share
  <2>1. PICK R : R = [pub : Address, sec : Share]
    OBVIOUS
  <2>2. q \in Partial(Address, R)
    BY <1>1, <2>1
  <2>3. DOMAIN q \subseteq Address /\ \A j \in DOMAIN q : q[j] \in R
    BY <2>2, PartialIs
  <2> QED BY <2>1, <2>3
<1>3. PICK S \in SUBSET Address : S = DOMAIN q \cup {i}
  BY <1>2, NodeAddress
<1>4. SecVec(i, q, own) \in [S -> Share \cup Address] /\ PubVec(i, q) \in [S -> Share \cup Address]
  BY <1>1, <1>2, <1>3, NodeAddress DEF SecVec, PubVec
<1>5. \A h \in [S -> Share \cup Address] : RecoverValue(h) \in Key
  BY DEF Key
<1> QED BY <1>0, <1>4, <1>5

LEMMA RecoverKeepsKeys ==
    ASSUME KeyInv, NEW i \in Node, Recover(i)
    PROVE  /\ KeyInv'
           /\ (i \notin disturbed /\ mem[i].created) =>
                /\ mem'[i].created /\ mem'[i].sec = mem[i].sec
                /\ mem'[i].pub = mem[i].pub /\ mem'[i].k = mem[i].k
<1>0. PICK g : g = mem[i]
  OBVIOUS
<1>1. g \in BlsMemory /\ (i \notin disturbed => Peaceful(i, g, disk[i]))
  BY <1>0, OfNode
<1>2. PICK own \in g.running :
        mem' = [mem EXCEPT ![i] = Made(g, RecoverValue(SecVec(i, g.psec, own)),
                                       RecoverValue(PubVec(i, g.psec)))]
  BY <1>0 DEF Recover, SecVec, PubVec
<1>3. PICK a \in Key : a = RecoverValue(SecVec(i, g.psec, own))
  BY <1>0, <1>2, RecoveredIsKey
<1>4. PICK b \in Key : b = RecoverValue(PubVec(i, g.psec))
  BY <1>0, <1>2, RecoveredIsKey
<1>5. PICK r : r = [g EXCEPT !.ready = g.ready - 1, !.sec = a, !.pub = b, !.saving = "info",
                             !.created = TRUE]
  OBVIOUS
<1>6. mem' = [mem EXCEPT ![i] = r] /\ UNCHANGED <<next, disk, network, disturbed>>
  BY <1>2, <1>3, <1>4, <1>5 DEF Recover, Made
<1>7. g.ready \in Nat /\ g.ready > 0 /\ g.ready - 1 \in Nat
  <2>1. g.ready \in Nat /\ g.ready > 0
    BY <1>0, <1>1 DEF BlsMemory, Recover
  <2> QED BY <2>1, SMTT(30)
<1>8. r \in BlsMemory /\ r.members = g.members
  BY <1>1, <1>5, <1>7 DEF BlsMemory
<1>9. /\ r.psec = g.psec /\ r.starting = g.starting /\ r.running = g.running
      /\ r.n = g.n /\ r.created = TRUE /\ r.saving = "info" /\ r.k = g.k
      /\ r.gid = g.gid /\ r.sec = a /\ r.pub = b
  BY <1>1, <1>5 DEF BlsMemory
<1>10. ASSUME i \notin disturbed PROVE g.n # 0 /\ Exchanging(i, g) /\ Stored(g, disk[i])
  <2>1. g # Fresh
    BY <1>7, FreshIs, SMTT(30)
  <2> QED BY <1>1, <1>10, <2>1 DEF Peaceful
<1>11. ASSUME i \notin disturbed PROVE Peaceful(i, r, disk[i])
  <2>1. Full(i, g) /\ \A x, y \in g.running : x = y
    BY <1>7, <1>10, <1>11 DEF Exchanging
  <2>2. \A x \in r.running : /\ Full(i, r) /\ r.sec = RecoverValue(SecVec(i, r.psec, x))
                             /\ r.pub = RecoverValue(PubVec(i, r.psec))
    <3> SUFFICES ASSUME NEW x \in r.running
                 PROVE  /\ Full(i, r) /\ r.sec = RecoverValue(SecVec(i, r.psec, x))
                        /\ r.pub = RecoverValue(PubVec(i, r.psec))
      OBVIOUS
    <3>1. x = own
      BY <1>2, <1>9, <2>1
    <3> QED BY <1>3, <1>4, <1>9, <2>1, <3>1 DEF Full
  <2>3. r.starting \in {0, 1} /\ r.starting # 1
    BY <1>2, <1>9, <1>10, <1>11 DEF Exchanging
  <2>4. Exchanging(i, r)
    BY <1>9, <1>10, <1>11, <2>1, <2>2, <2>3 DEF Exchanging, Full
  <2>5. Stored(r, disk[i])
    BY <1>9, <1>10, <1>11 DEF Stored
  <2> QED BY <1>9, <1>10, <1>11, <2>4, <2>5 DEF Peaceful
<1>12. ASSUME i \notin disturbed, g.created PROVE a = g.sec /\ b = g.pub
  BY <1>2, <1>3, <1>4, <1>10, <1>12 DEF Exchanging
<1>13. KeyInv'
  BY <1>0, <1>6, <1>8, <1>11, InMemory
<1>14. mem'[i] = r
  BY <1>6, OfNode
<1> QED BY <1>0, <1>9, <1>12, <1>13, <1>14

LEMMA SaveKeepsKeys ==
    ASSUME KeyInv, NEW i \in Node, SaveInfo(i) \/ SaveId(i)
    PROVE  KeyInv'
<1>0. PICK g : g = mem[i]
  OBVIOUS
<1>1. PICK d : d = disk[i]
  OBVIOUS
<1>2. /\ g \in BlsMemory /\ d \in BlsDisk /\ Range(g.members) \subseteq Peers(i)
      /\ i \notin disturbed => Peaceful(i, g, d)
  BY <1>0, <1>1, OfNode
<1>3. /\ next' \in [Node -> Nat] /\ \A j \in Node : next'[j] >= 1
      /\ network' \subseteq BlsMsg /\ disturbed' = disturbed
      /\ \A m \in network' : DOMAIN m.shares \subseteq Peers(m.from)
  BY OfNode DEF SaveInfo, SaveId
<1>4. InfoOf(g) \in BlsInfo
  BY <1>2 DEF InfoOf, BlsInfo, BlsMemory
<1>5. ASSUME i \notin disturbed, g.saving # "no"
      PROVE  g.n # 0 /\ Exchanging(i, g) /\ Stored(g, d) /\ g.created
  BY <1>2, <1>5, FreshIs DEF Peaceful, Exchanging
<1>6. CASE SaveInfo(i)
  <2>1. PICK r : r = [g EXCEPT !.saving = "id"]
    OBVIOUS
  <2>2. PICK f : f = [d EXCEPT !.info = Put(d.info, g.hash, InfoOf(g))]
    OBVIOUS
  <2>3. mem' = [mem EXCEPT ![i] = r] /\ disk' = [disk EXCEPT ![i] = f] /\ g.saving = "info"
    BY <1>0, <1>1, <1>6, <2>1, <2>2, OfNode DEF SaveInfo, InfoOf
  <2>4. r \in BlsMemory /\ r.members = g.members
    BY <1>2, <2>1 DEF BlsMemory
  <2>5. f \in BlsDisk
    <3>1. Put(d.info, g.hash, InfoOf(g)) \in Partial(Seq(Address), BlsInfo)
      BY <1>2, <1>4, PutPartial DEF BlsDisk, BlsMemory
    <3> QED BY <1>2, <2>2, <3>1 DEF BlsDisk
  <2>6. /\ r.psec = g.psec /\ r.starting = g.starting /\ r.running = g.running
        /\ r.n = g.n /\ r.created = g.created /\ r.saving = "id" /\ r.k = g.k /\ r.ready = g.ready
        /\ r.gid = g.gid /\ r.sec = g.sec /\ r.pub = g.pub /\ r.hash = g.hash
    BY <1>2, <2>1 DEF BlsMemory
  <2>7. f.ids = d.ids /\ f.info = Put(d.info, g.hash, InfoOf(g))
    BY <1>2, <2>2 DEF BlsDisk
  <2>8. ASSUME i \notin disturbed PROVE Peaceful(i, r, f)
    <3>1. g.n # 0 /\ Exchanging(i, g) /\ Stored(g, d) /\ g.created
      BY <1>5, <2>3, <2>8
    <3>2. Exchanging(i, r)
      BY <2>6, <3>1 DEF Exchanging, Full
    <3>3. g.hash \in DOMAIN f.info /\ f.info[g.hash] = InfoOf(g) /\ InfoOf(r) = InfoOf(g)
      <4>1. InfoOf(r) = InfoOf(g)
        BY <2>6 DEF InfoOf
      <4>2. PICK v : v = InfoOf(g)
        OBVIOUS
      <4>3. /\ DOMAIN Put(d.info, g.hash, v) = DOMAIN d.info \cup {g.hash}
            /\ Put(d.info, g.hash, v)[g.hash] = v
        BY DEF Put
      <4> QED BY <2>7, <4>1, <4>2, <4>3
    <3>4. Stored(r, f)
      BY <2>6, <2>7, <3>1, <3>3 DEF Stored
    <3> QED BY <2>6, <3>1, <3>2, <3>4 DEF Peaceful
  <2> QED BY <1>2, <1>3, <2>3, <2>4, <2>5, <2>8, OfOneNode
<1>7. CASE SaveId(i)
  <2>1. PICK r : r = [g EXCEPT !.saving = "no", !.groups = g.groups \cup {g.gid}]
    OBVIOUS
  <2>2. PICK f : f = [d EXCEPT !.ids = Put(d.ids, g.gid, g.hash)]
    OBVIOUS
  <2>3. mem' = [mem EXCEPT ![i] = r] /\ disk' = [disk EXCEPT ![i] = f] /\ g.saving = "id"
    BY <1>0, <1>1, <1>7, <2>1, <2>2, OfNode DEF SaveId
  <2>4. r \in BlsMemory /\ r.members = g.members
    <3>1. g.groups \cup {g.gid} \in SUBSET Nat
      BY <1>2 DEF BlsMemory
    <3> QED BY <1>2, <2>1, <3>1 DEF BlsMemory
  <2>5. f \in BlsDisk
    <3>1. Put(d.ids, g.gid, g.hash) \in Partial(Nat, Seq(Address))
      BY <1>2, PutPartial DEF BlsDisk, BlsMemory
    <3> QED BY <1>2, <2>2, <3>1 DEF BlsDisk
  <2>6. /\ r.psec = g.psec /\ r.starting = g.starting /\ r.running = g.running
        /\ r.n = g.n /\ r.created = g.created /\ r.saving = "no" /\ r.k = g.k /\ r.ready = g.ready
        /\ r.gid = g.gid /\ r.sec = g.sec /\ r.pub = g.pub /\ r.hash = g.hash
    BY <1>2, <2>1 DEF BlsMemory
  <2>7. f.info = d.info /\ f.ids = Put(d.ids, g.gid, g.hash)
    BY <1>2, <2>2 DEF BlsDisk
  <2>8. ASSUME i \notin disturbed PROVE Peaceful(i, r, f)
    <3>1. g.n # 0 /\ Exchanging(i, g) /\ Stored(g, d) /\ g.created
      BY <1>5, <2>3, <2>8
    <3>2. Exchanging(i, r)
      BY <2>6, <3>1 DEF Exchanging, Full
    <3>3. DOMAIN f.ids \subseteq {g.gid} /\ g.gid \in DOMAIN f.ids /\ f.ids[g.gid] = g.hash
      <4>1. DOMAIN d.ids \subseteq {g.gid}
        BY <3>1 DEF Stored
      <4>2. /\ DOMAIN Put(d.ids, g.gid, g.hash) = DOMAIN d.ids \cup {g.gid}
            /\ Put(d.ids, g.gid, g.hash)[g.gid] = g.hash
        BY DEF Put
      <4> QED BY <2>7, <4>1, <4>2
    <3>4. g.hash \in DOMAIN f.info /\ f.info[g.hash] = InfoOf(g) /\ InfoOf(r) = InfoOf(g)
      <4>1. InfoOf(r) = InfoOf(g)
        BY <2>6 DEF InfoOf
      <4> QED BY <2>3, <2>7, <3>1, <4>1 DEF Stored
    <3>5. Stored(r, f)
      BY <2>6, <3>3, <3>4 DEF Stored
    <3> QED BY <2>6, <3>1, <3>2, <3>5 DEF Peaceful
  <2> QED BY <1>2, <1>3, <2>3, <2>4, <2>5, <2>8, OfOneNode
<1> QED BY <1>6, <1>7

(* What a restart reads back has the type of a memory.                     *)
LEMMA LoadTyped ==
    ASSUME KeyInv, NEW i \in Node
    PROVE  LoadBlsInfo(i) \in BlsMemory /\ LoadBlsInfo(i).members = <<>>
<1>0. PICK ids : ids = disk[i].ids
  OBVIOUS
<1>1. PICK info : info = disk[i].info
  OBVIOUS
<1>2. ids \in Partial(Nat, Seq(Address)) /\ info \in Partial(Seq(Address), BlsInfo)
  BY <1>0, <1>1, OfNode DEF BlsDisk
<1>3. PICK known : known = [Fresh EXCEPT !.groups = Fresh.groups \cup DOMAIN ids,
                                         !.hashes = {ids[v] : v \in DOMAIN ids}]
  OBVIOUS
<1>4. known \in BlsMemory /\ known.members = <<>>
  <2>1. DOMAIN ids \subseteq Nat /\ \A v \in DOMAIN ids : ids[v] \in Seq(Address)
    BY <1>2, PartialIs
  <2>2. Fresh \in BlsMemory /\ Fresh.members = <<>>
    BY FreshTyped, FreshIs
  <2>3. Fresh.groups \cup DOMAIN ids \in SUBSET Nat
    BY <2>1, <2>2 DEF BlsMemory
  <2>4. {ids[v] : v \in DOMAIN ids} \in SUBSET Seq(Address)
    BY <2>1
  <2> QED BY <1>3, <2>2, <2>3, <2>4 DEF BlsMemory
<1>5. ASSUME NEW h \in DOMAIN info
      PROVE  Loaded(known, info[h]) \in BlsMemory /\ Loaded(known, info[h]).members = <<>>
  <2>1. PICK f \in BlsInfo : f = info[h]
    BY <1>2, <1>5, PartialIs
  <2>2. known.groups \cup {f.gid} \in SUBSET Nat
    BY <1>4, <2>1 DEF BlsMemory, BlsInfo
  <2>3. PICK r : r = [known EXCEPT !.gid = f.gid, !.n = f.n, !.k = f.k, !.sec = f.sec,
                        !.pub = f.pub, !.groups = known.groups \cup {f.gid}, !.created = TRUE]
    OBVIOUS
  <2>4. f.gid \in Nat /\ f.n \in Nat /\ f.k \in Nat /\ f.sec \in Key /\ f.pub \in Key
    BY <2>1 DEF BlsInfo
  <2>5. r \in BlsMemory
    BY <1>4, <2>2, <2>3, <2>4 DEF BlsMemory
  <2>6. r.members = <<>>
    BY <1>4, <2>3 DEF BlsMemory
  <2> QED BY <2>1, <2>3, <2>5, <2>6 DEF Loaded
<1>6. PICK h : h = ids[CHOOSE v \in DOMAIN ids : \A w \in DOMAIN ids : w <= v]
  OBVIOUS
<1>7. CASE DOMAIN ids = {}
  <2>1. LoadBlsInfo(i) = Fresh
    BY <1>0, <1>7 DEF LoadBlsInfo
  <2> QED BY <2>1, FreshTyped, FreshIs
<1>8. CASE DOMAIN ids # {} /\ h \notin DOMAIN info
  <2>1. LoadBlsInfo(i) = known
    BY <1>0, <1>1, <1>3, <1>6, <1>8 DEF LoadBlsInfo
  <2> QED BY <1>4, <2>1
<1>9. CASE DOMAIN ids # {} /\ h \in DOMAIN info
  <2>1. LoadBlsInfo(i) = Loaded(known, info[h])
    BY <1>0, <1>1, <1>3, <1>6, <1>9 DEF LoadBlsInfo
  <2> QED BY <1>5, <1>9, <2>1
<1> QED BY <1>7, <1>8, <1>9

(* A restart loads the key of a node that was saved in peace.              *)
LEMMA LoadsSaved ==
    ASSUME KeyInv, NEW i \in Node, mem[i].n # 0, Exchanging(i, mem[i]),
           Stored(mem[i], disk[i]), mem[i].created, mem[i].saving = "no"
    PROVE  LET g == mem[i]
               r == LoadBlsInfo(i)
           IN  /\ r.created /\ InfoOf(r) = InfoOf(g) /\ r.running = {} /\ r.psec = << >>
               /\ r.ready = 0 /\ r.starting = 0 /\ r.saving = "no"
<1>0. PICK g : g = mem[i]
  OBVIOUS
<1>1. PICK ids : ids = disk[i].ids
  OBVIOUS
<1>2. PICK info : info = disk[i].info
  OBVIOUS
<1>3. /\ g.gid \in Nat /\ DOMAIN ids = {g.gid} /\ ids[g.gid] \in DOMAIN info
      /\ info[ids[g.gid]] = InfoOf(g)
  <2>1. g.gid \in Nat
    BY <1>0, OfNode DEF BlsMemory
  <2> QED BY <1>0, <1>1, <1>2, <2>1 DEF Stored
<1>4. (CHOOSE v \in DOMAIN ids : \A w \in DOMAIN ids : w <= v) = g.gid
  <2>1. g.gid <= g.gid
    BY <1>3, SMTT(30)
  <2> QED BY <1>3, <2>1
<1>5. PICK known : known = [Fresh EXCEPT !.groups = Fresh.groups \cup DOMAIN ids,
                                         !.hashes = {ids[v] : v \in DOMAIN ids}]
  OBVIOUS
<1>6. LoadBlsInfo(i) = Loaded(known, InfoOf(g))
  BY <1>1, <1>2, <1>3, <1>4, <1>5 DEF LoadBlsInfo
<1>7. /\ known.running = {} /\ known.psec = << >> /\ known.ready = 0 /\ known.starting = 0
      /\ known.saving = "no"
      /\ DOMAIN known = DOMAIN Fresh
  BY <1>5 DEF Fresh
<1>8. /\ InfoOf(g).gid = g.gid /\ InfoOf(g).sec = g.sec /\ InfoOf(g).pub = g.pub
      /\ InfoOf(g).n = g.n /\ InfoOf(g).k = g.k
  BY DEF InfoOf
<1>9. PICK r : r = Loaded(known, InfoOf(g))
  OBVIOUS
<1>10. /\ r.created /\ r.gid = g.gid /\ r.sec = g.sec /\ r.pub = g.pub /\ r.n = g.n /\ r.k = g.k
       /\ r.running = {} /\ r.psec = << >> /\ r.ready = 0 /\ r.starting = 0 /\ r.saving = "no"
  BY <1>5, <1>8, <1>9 DEF Loaded, Fresh
<1>11. InfoOf(r) = InfoOf(g)
  BY <1>10 DEF InfoOf
<1> QED BY <1>0, <1>6, <1>9, <1>10, <1>11

LEMMA CrashKeepsKeys ==
    ASSUME KeyInv, NEW i \in Node, Crash(i)
    PROVE  /\ KeyInv'
           /\ (i \notin disturbed /\ Saved(i)) =>
                /\ mem'[i].created /\ mem'[i].sec = mem[i].sec
                /\ mem'[i].pub = mem[i].pub /\ mem'[i].k = mem[i].k
<1>0. PICK g : g = mem[i]
  OBVIOUS
<1>1. PICK r : r = LoadBlsInfo(i)
  OBVIOUS
<1>2. /\ g \in BlsMemory /\ disk[i] \in BlsDisk
      /\ i \notin disturbed => Peaceful(i, g, disk[i])
  BY <1>0, OfNode
<1>3. r \in BlsMemory /\ Range(r.members) \subseteq Peers(i)
  BY <1>1, LoadTyped, EmptyList
<1>4. /\ mem' = [mem EXCEPT ![i] = r] /\ disk' = [disk EXCEPT ![i] = disk[i]]
      /\ disturbed \subseteq disturbed'
      /\ i \notin disturbed' => i \notin disturbed /\ (g.n = 0 \/ (g.created /\ g.saving = "no"))
  BY <1>0, <1>1, OfNode DEF Crash, MakingKey, Saved
<1>5. /\ next' \in [Node -> Nat] /\ \A j \in Node : next'[j] >= 1
      /\ network' \subseteq BlsMsg
      /\ \A m \in network' : DOMAIN m.shares \subseteq Peers(m.from)
  BY OfNode DEF Crash
<1>6. ASSUME i \notin disturbed, g.created, g.saving = "no"
      PROVE  /\ g.n # 0 /\ Exchanging(i, g) /\ Stored(g, disk[i])
             /\ r.created /\ InfoOf(r) = InfoOf(g) /\ r.running = {} /\ r.psec = << >>
             /\ r.ready = 0 /\ r.starting = 0 /\ r.saving = "no"
  <2>1. g.n # 0 /\ Exchanging(i, g) /\ Stored(g, disk[i])
    BY <1>2, <1>6, FreshIs DEF Peaceful
  <2> QED BY <1>0, <1>1, <1>6, <2>1, LoadsSaved
<1>7. ASSUME InfoOf(r) = InfoOf(g)
      PROVE  r.n = g.n /\ r.k = g.k /\ r.sec = g.sec /\ r.pub = g.pub /\ r.gid = g.gid
  <2>1. \A x : /\ InfoOf(x).gid = x.gid /\ InfoOf(x).sec = x.sec /\ InfoOf(x).pub = x.pub
               /\ InfoOf(x).n = x.n /\ InfoOf(x).k = x.k
    BY DEF InfoOf
  <2> QED BY <1>7, <2>1
<1>8. ASSUME i \notin disturbed' PROVE Peaceful(i, r, disk[i])
  <2>1. CASE g.n = 0
    <3>1. g = Fresh /\ disk[i] = NoDisk
      BY <1>2, <1>4, <1>8, <2>1 DEF Peaceful
    <3>2. r = Fresh
      BY <1>1, <3>1, FreshIs, EmptyList DEF LoadBlsInfo
    <3> QED BY <3>1, <3>2 DEF Peaceful
  <2>2. CASE g.n # 0
    <3>1. i \notin disturbed /\ g.created /\ g.saving = "no"
      BY <1>4, <1>8, <2>2
    <3>2. /\ Exchanging(i, g) /\ Stored(g, disk[i])
          /\ r.created /\ InfoOf(r) = InfoOf(g) /\ r.running = {} /\ r.psec = << >>
          /\ r.ready = 0 /\ r.starting = 0 /\ r.saving = "no"
      BY <1>6, <3>1
    <3>3. r.n = g.n /\ r.gid = g.gid
      BY <1>7, <3>2
    <3>4. ~(0 > 0) /\ 0 # 1
      BY SMTT(30)
    <3>5. Exchanging(i, r)
      BY <3>2, <3>3, <3>4, EmptyList DEF Exchanging
    <3>6. Stored(r, disk[i])
      BY <3>1, <3>2, <3>3 DEF Stored
    <3> QED BY <2>2, <3>3, <3>5, <3>6 DEF Peaceful
  <2> QED BY <2>1, <2>2
<1>9. KeyInv'
  BY <1>2, <1>3, <1>4, <1>5, <1>8, OfOneNode
<1>10. mem'[i] = r
  BY <1>4, OfNode
<1> QED BY <1>0, <1>6, <1>7, <1>9, <1>10 DEF Saved

LEMMA KeyInvNext ==
    ASSUME OneGroupEach, KeyInv, [BlsNext]_blsvars
    PROVE  KeyInv'
<1>1. ASSUME NEW i \in Node,
             \/ Worker(i) \/ Exchange(i) \/ Crash(i) \/ \E msg \in network : AddMsg(i, msg)
      PROVE  KeyInv'
  <2>1. CASE Exchange(i)
    BY <2>1, CreateKeepsKeys, RecoverKeepsKeys, SaveKeepsKeys DEF Exchange
  <2> QED BY <1>1, <2>1, WorkerKeepsKeys, CrashKeepsKeys, AddMsgKeepsKeys
<1>2. CASE UNCHANGED blsvars
  BY <1>2 DEF blsvars, KeyInv, BlsTyped, AmongPeers
<1> QED BY <1>1, <1>2 DEF BlsNext

LEMMA KeysStay ==
    ASSUME KeyInv, BlsNext, NEW j \in Node \ disturbed, Saved(j)
    PROVE  /\ mem'[j].created /\ mem'[j].sec = mem[j].sec
           /\ mem'[j].pub = mem[j].pub /\ mem'[j].k = mem[j].k
<1> DEFINE Stays == /\ mem'[j].created /\ mem'[j].sec = mem[j].sec
                    /\ mem'[j].pub = mem[j].pub /\ mem'[j].k = mem[j].k
<1>0. mem[j].created /\ mem[j].saving = "no" /\ mem[j] \in BlsMemory /\ mem \in [Node -> BlsMemory]
  BY OfNode DEF Saved
<1>1. PICK i \in Node :
        \/ Worker(i) \/ Exchange(i) \/ Crash(i) \/ \E msg \in network : AddMsg(i, msg)
  BY DEF BlsNext
<1>2. CASE i # j
  <2>1. \E r : mem' = [mem EXCEPT ![i] = r]
    <3>1. CASE Worker(i)
      BY <3>1 DEF Worker
    <3>2. CASE Exchange(i)
      BY <1>0, <3>2 DEF Exchange, CreateBlsGroup, Recover, SaveInfo, SaveId
    <3>3. CASE Crash(i)
      BY <3>3 DEF Crash
    <3>4. CASE \E msg \in network : AddMsg(i, msg)
      BY <1>0, <3>4 DEF AddMsg
    <3> QED BY <1>1, <3>1, <3>2, <3>3, <3>4
  <2>2. mem'[j] = mem[j]
    BY <1>0, <1>2, <2>1
  <2> QED BY <1>0, <2>2
<1>3. CASE i = j
  <2>1. CASE Worker(j)
    <3>1. mem' = [mem EXCEPT ![j] = mem[j]]
      BY <1>0, <2>1 DEF Worker
    <3> QED BY <1>0, <3>1
  <2>2. CASE CreateBlsGroup(j)
    <3>1. ~(mem[j].starting > 0)
      <4>1. mem[j].starting = 0
        BY <1>0, FreshIs DEF KeyInv, Peaceful, Exchanging
      <4> QED BY <4>1, SMTT(30)
    <3> QED BY <2>2, <3>1 DEF CreateBlsGroup
  <2>3. CASE Recover(j)
    BY <1>0, <2>3, RecoverKeepsKeys
  <2>4. CASE SaveInfo(j) \/ SaveId(j)
    BY <1>0, <2>4 DEF SaveInfo, SaveId
  <2>5. CASE Crash(j)
    BY <2>5, CrashKeepsKeys
  <2>6. CASE \E msg \in network : AddMsg(j, msg)
    <3>1. PICK q, w : mem' = [mem EXCEPT ![j].psec = q, ![j].ready = w]
      BY <2>6 DEF AddMsg
    <3>2. mem'[j] = [[mem[j] EXCEPT !.psec = q] EXCEPT !.ready = w]
      BY <1>0, <3>1
    <3> QED BY <1>0, <3>2 DEF BlsMemory
  <2> QED BY <1>1, <1>3, <2>1, <2>2, <2>3, <2>4, <2>5, <2>6 DEF Exchange
<1> QED BY <1>2, <1>3

(* A key that was made and saved in peace stays: when no two groups that   *)
(* the chain announces share some but not all of their members, then for   *)
(* any nodes, events, field and number of crashes no restart, late message *)
(* or later event gives the node another key, or none.                     *)
THEOREM KeysKept == OneGroupEach => (BlsSpec => KeyKept)
<1> SUFFICES ASSUME OneGroupEach PROVE BlsSpec => KeyKept
  OBVIOUS
<1>1. KeyInv /\ [BlsNext]_blsvars => KeyInv'
  BY KeyInvNext
<1>2. KeyInv /\ [BlsNext]_blsvars
        => [\A i \in Node \ disturbed :
              Saved(i) => /\ mem'[i].created
                          /\ mem'[i].sec = mem[i].sec
                          /\ mem'[i].pub = mem[i].pub
                          /\ mem'[i].k = mem[i].k]_blsvars
  BY KeysStay
<1> QED BY <1>1, <1>2, KeyInvInit, PTL DEF BlsSpec, KeyKept
=============================================================================
