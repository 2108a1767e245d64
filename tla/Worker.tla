------------------------------- MODULE Worker -------------------------------
(***************************************************************************)
(* The committee's consensus on space blocks: the Worker of                *)
(* libraries/chain/space/worker.go on every member, and the network        *)
(* between them.                                                           *)
(*                                                                         *)
(* A member builds a block on its head and, if the ranking puts it first,  *)
(* proposes it at once, otherwise when timeoutSubmission finds that no     *)
(* proposal has come.  The update goroutine signs a proposal that extends  *)
(* its head and ranks above what it has signed, collects the signatures    *)
(* of the others and, with a threshold of them for one block, completes    *)
(* the group signature, announces the block and starts a goroutine that    *)
(* inserts it.                                                             *)
(*                                                                         *)
(* The modelled committee has at least three members (fewer means a fixed  *)
(* producer and no signatures) and does not change.  The network, which    *)
(* is outside this repository, delivers in any order and may lose; it and  *)
(* the channels lastBlockCh and SigInfoCh, which it fills from goroutines  *)
(* of its own, are one set of messages that update takes from.             *)
(***************************************************************************)
EXTENDS Integers, FiniteSets

CONSTANTS Member,       \* SelectConsensus: the committee
          Block,        \* blocks by HashNoSig
          Genesis,
          None,         \* nil
          Number,       \* [Block -> Nat]
          Parent,       \* [Block -> Block \cup {None}]
          Proposer,     \* [Block -> Member \cup {None}]
          SortIndex,    \* [Block -> Nat], the proposer's place in the ranking
          SigCap,       \* capacity of SigInfoCh
          Duplicating,  \* whether the network may deliver a message again
          MaxFailures   \* bound on signatures that fail to verify

ASSUME WorkerAssumption ==
    /\ IsFiniteSet(Member) /\ Cardinality(Member) >= 3
    /\ Genesis \in Block /\ None \notin Block \cup Member
    /\ Number \in [Block -> Nat]
    /\ Parent \in [Block -> Block \cup {None}]
    /\ \A b \in Block \ {Genesis} :
          Parent[b] \in Block /\ Number[b] = Number[Parent[b]] + 1
    /\ Proposer \in [Block -> Member \cup {None}]
    /\ SortIndex \in [Block -> Nat]
    /\ SigCap \in Nat \ {0} /\ Duplicating \in BOOLEAN
    /\ MaxFailures \in Nat

VARIABLES
    head,               \* spaceChain.CurrentBlock()
    canonical,          \* the node's number -> hash keys
    blockHashs,         \* proposals already taken from the network
    sigBlocks,          \* blocks this member has signed and may complete
    sigInfos,           \* latest signature of each sender, by its block
    coefficientMax,
    currBlock, blockIsTrue, receiveBlockIsTrue,
    halted,             \* update has returned, or waits to send to itself
    commits,            \* commitNewBlock goroutines that have not run yet
    net,                \* messages under way or waiting in a channel
    failures,
    signed, certified   \* history: who signed and who completed what

chain == <<head, canonical>>
collecting == <<sigBlocks, sigInfos, coefficientMax>>
proposing == <<currBlock, blockIsTrue, receiveBlockIsTrue>>
history == <<signed, certified>>
vars == <<chain, blockHashs, collecting, proposing, halted, commits, net,
          failures, history>>

Top == 10  \* ValidateBlock stops halving after ten places

\* head.Percent: 1 / 2^sortIndex, kept as Top - sortIndex; 0 is below all.
Percent(b) == (IF SortIndex[b] > Top THEN 0 ELSE Top - SortIndex[b]) + 1

ThresholdHalf == Cardinality(Member) \div 2

Threshold == Cardinality(Member) \div 2 + 1

Heights == {Number[b] : b \in Block}

Msg(type, b, n, m) == [type |-> type, block |-> b, from |-> n, to |-> m]

\* What a feed hands to the network: a message for every other member.
Others(n, type, b) == {Msg(type, b, n, m) : m \in Member \ {n}}

\* The network without a message that was taken from it.  A member's
\* messages to itself are in its channels: they are taken once.
Rest(msg) == IF Duplicating /\ msg.from # msg.to THEN net ELSE net \ {msg}

-----------------------------------------------------------------------------
Init ==
    /\ head = [n \in Member |-> Genesis]
    /\ canonical = [n \in Member |->
                      [h \in Heights |-> IF h = 0 THEN Genesis ELSE None]]
    /\ blockHashs = [n \in Member |-> {}]
    /\ sigBlocks = [n \in Member |-> {}]
    /\ sigInfos = [n \in Member |-> [m \in Member |-> None]]
    /\ coefficientMax = [n \in Member |-> 0]
    /\ currBlock = [n \in Member |-> None]
    /\ blockIsTrue = [n \in Member |-> FALSE]
    /\ receiveBlockIsTrue = [n \in Member |-> FALSE]
    /\ halted = [n \in Member |-> FALSE]
    /\ commits = [n \in Member |-> {}]
    /\ net = {} /\ failures = 0
    /\ signed = [n \in Member |-> {}]
    /\ certified = {}

\* loop: a member of the committee, with transactions in its pool, starts to build
\* on its head.  The waits between its rounds are left out.
LoopBuilds(n, b) ==
    /\ Proposer[b] = n /\ Parent[b] = head[n]
    /\ b \notin {currBlock[m] : m \in Member} \cup UNION {signed[m] : m \in Member}

\* The end of buildBlock: the first in the ranking sends the block to the others
\* and to its own update goroutine.  (The entry it makes in sigBlocks, under the
\* hash with the signature, is never looked up.)
Offered(n, b) ==
    IF SortIndex[b] = 0 THEN Others(n, "last", b) \cup {Msg("last", b, n, n)} ELSE {}

\* buildBlock by the goroutine that loop starts.
BuildBlock(n, b) ==
    /\ LoopBuilds(n, b)
    /\ currBlock' = [currBlock EXCEPT ![n] = b]
    /\ blockIsTrue' = [blockIsTrue EXCEPT ![n] = SortIndex[b] # 0]
    /\ net' = net \cup Offered(n, b)
    /\ UNCHANGED <<chain, blockHashs, collecting, receiveBlockIsTrue, halted,
                   commits, failures, history>>

\* timeoutSubmission: a tick that finds a block built and no proposal seen.
\* It sends to the others only.
TimeoutSubmission(n) ==
    /\ blockIsTrue[n] /\ ~receiveBlockIsTrue[n]
    /\ blockIsTrue' = [blockIsTrue EXCEPT ![n] = FALSE]
    /\ net' = net \cup Others(n, "last", currBlock[n])
    /\ UNCHANGED <<chain, blockHashs, collecting, currBlock,
                   receiveBlockIsTrue, halted, commits, failures, history>>

-----------------------------------------------------------------------------
(***************************************************************************)
(* The update goroutine.                                                   *)
(***************************************************************************)

\* The next message of one of the two channels.
Takes(n, msg, type) ==
    /\ msg \in net /\ msg.to = n /\ msg.type = type
    /\ ~halted[n]

ValidateBlockSkipsOne(n, b) ==
    Parent[b] = head[n] /\ Number[b] > Number[head[n]] + 1

\* validateBlock: the proposal extends this member's head.
ValidateBlock(n, b) == Parent[b] = head[n] /\ Number[b] > Number[head[n]]

\* SetLastBlockCh lets a proposal of the network through once; the one a
\* member sends to itself does not pass there.
Seen(n, msg) == msg.from # n /\ msg.block \in blockHashs[n]

MarkSeen(n, msg) ==
    blockHashs' = [blockHashs EXCEPT
                     ![n] = IF msg.from = n THEN @ ELSE @ \cup {msg.block}]

\* The lastBlockCh case when the block is not signed: it does not validate,
\* or it ranks no higher than one that was.
IgnoreLastBlock(n, msg) ==
    /\ Takes(n, msg, "last")
    /\ net' = Rest(msg)
    /\ MarkSeen(n, msg)
    /\ LET fresh == ~Seen(n, msg) /\ ValidateBlock(n, msg.block)
       IN  /\ fresh => coefficientMax[n] >= Percent(msg.block)
           /\ receiveBlockIsTrue' = [receiveBlockIsTrue EXCEPT ![n] = @ \/ fresh]
    /\ UNCHANGED <<chain, collecting, currBlock, blockIsTrue, halted, commits,
                   failures, history>>

\* The lastBlockCh case when the proposer's signature cannot be recovered:
\* update returns, and nobody starts it again.
SignSenderFails(n, msg) ==
    /\ Takes(n, msg, "last") /\ ~Seen(n, msg)
    /\ failures < MaxFailures
    /\ failures' = failures + 1
    /\ net' = Rest(msg)
    /\ MarkSeen(n, msg)
    /\ halted' = [halted EXCEPT ![n] = TRUE]
    /\ UNCHANGED <<chain, collecting, proposing, commits, history>>

SigWaiting(n) == {msg \in net : msg.type = "sig" /\ msg.to = n}

\* The lastBlockCh case when the block is signed.  The signature goes to the
\* others and to this goroutine's own channel; if that is full, which takes
\* SigCap signatures that have arrived, update waits for itself.
SignLastBlock(n, msg) ==
    /\ Takes(n, msg, "last")
    /\ MarkSeen(n, msg)
    /\ LET b == msg.block
       IN  /\ ~Seen(n, msg) /\ ValidateBlock(n, b)
           /\ coefficientMax[n] < Percent(b)
           /\ receiveBlockIsTrue' = [receiveBlockIsTrue EXCEPT ![n] = TRUE]
           /\ coefficientMax' = [coefficientMax EXCEPT ![n] = Percent(b)]
           /\ sigBlocks' = [sigBlocks EXCEPT ![n] = @ \cup {b}]
           /\ sigInfos' = [sigInfos EXCEPT ![n][n] = b]
           /\ signed' = [signed EXCEPT ![n] = @ \cup {b}]
           /\ \/ /\ net' = Rest(msg) \cup Others(n, "sig", b)
                                \cup {Msg("sig", b, n, n)}
                 /\ UNCHANGED halted
              \/ /\ Cardinality(SigWaiting(n)) >= SigCap
                 /\ net' = Rest(msg) \cup Others(n, "sig", b)
                 /\ halted' = [halted EXCEPT ![n] = TRUE]
    /\ UNCHANGED <<chain, currBlock, blockIsTrue, commits, failures, certified>>

RecordedLatest(n, sig) == [sigInfos[n] EXCEPT ![sig.from] = sig.block]

\* sigInfos with a signature recorded, if it is the sender's first or ranks
\* above the one that is there.
Recorded(n, sig) ==
    LET old == sigInfos[n][sig.from]
    IN  IF old = None \/ Percent(old) < Percent(sig.block)
        THEN [sigInfos[n] EXCEPT ![sig.from] = sig.block]
        ELSE sigInfos[n]

CountAll(infos, b) == Cardinality({m \in Member : infos[m] # None})

\* sigmap[b]: how many senders stand for the block.
Count(infos, b) == Cardinality({m \in Member : infos[m] = b})

\* The SigInfoCh case short of a threshold; a signature of a block that is
\* not (or no longer) in sigBlocks is dropped.
CollectSig(n, sig) ==
    /\ Takes(n, sig, "sig")
    /\ net' = Rest(sig)
    /\ IF sig.block \in sigBlocks[n]
       THEN /\ \A b \in Block : Count(Recorded(n, sig), b) < Threshold
            /\ sigInfos' = [sigInfos EXCEPT ![n] = Recorded(n, sig)]
       ELSE UNCHANGED sigInfos
    /\ UNCHANGED <<chain, blockHashs, sigBlocks, coefficientMax, proposing,
                   halted, commits, failures, history>>

CoefficientMaxKept(n) == coefficientMax[n]

\* What a completed block leaves in coefficientMax.
CoefficientMaxAfter(n) == 0

\* The SigInfoCh case with a threshold for one block: the collected
\* signatures are forgotten and the group signature is completed.
CompleteBlock(n, sig) ==
    /\ Takes(n, sig, "sig")
    /\ sig.block \in sigBlocks[n]
    /\ \E b \in Block :
         /\ Count(Recorded(n, sig), b) >= Threshold
         /\ certified' = certified \cup {<<n, b>>}
         /\ net' = Rest(sig) \cup Others(n, "new", b)
         /\ commits' = [commits EXCEPT ![n] = @ \cup {b}]
    /\ sigInfos' = [sigInfos EXCEPT ![n] = [m \in Member |-> None]]
    /\ coefficientMax' = [coefficientMax EXCEPT ![n] = CoefficientMaxAfter(n)]
    /\ sigBlocks' = [sigBlocks EXCEPT ![n] = {}]
    /\ UNCHANGED <<chain, blockHashs, proposing, halted, failures, signed>>

\* The same when Verigy rejects the recovered signature (a share made with
\* another epoch's key): only the collected signatures are forgotten.
VerigyFails(n, sig) ==
    /\ failures < MaxFailures
    /\ failures' = failures + 1
    /\ Takes(n, sig, "sig")
    /\ net' = Rest(sig)
    /\ sig.block \in sigBlocks[n]
    /\ \E b \in Block : Count(Recorded(n, sig), b) >= Threshold
    /\ sigInfos' = [sigInfos EXCEPT ![n] = [m \in Member |-> None]]
    /\ UNCHANGED <<chain, blockHashs, sigBlocks, coefficientMax, proposing,
                   halted, commits, history>>

-----------------------------------------------------------------------------
(***************************************************************************)
(* Blocks reaching the chain.                                              *)
(***************************************************************************)

\* BlockChain.Insert, in one step.
Insert(n, b) ==
    IF Number[b] # Number[head[n]] /\ canonical[n][Number[b]] # b
    THEN /\ head' = [head EXCEPT ![n] = b]
         /\ canonical' = [canonical EXCEPT ![n][Number[b]] = b]
    ELSE UNCHANGED chain

\* The goroutine commitNewBlock validates again before it inserts.
CommitNewBlock(n, b) ==
    /\ b \in commits[n]
    /\ commits' = [commits EXCEPT ![n] = @ \ {b}]
    /\ IF ValidateBlock(n, b) THEN Insert(n, b) ELSE UNCHANGED chain
    /\ UNCHANGED <<blockHashs, collecting, proposing, halted, net, failures,
                   history>>

\* A completed block from the network.
ReceiveNewBlock(n, msg) ==
    /\ msg \in net /\ msg.to = n /\ msg.type = "new"
    /\ net' = Rest(msg)
    /\ Insert(n, msg.block)
    /\ UNCHANGED <<blockHashs, collecting, proposing, halted, commits,
                   failures, history>>

Receive(n, msg) ==
    \/ IgnoreLastBlock(n, msg) \/ SignSenderFails(n, msg)
    \/ SignLastBlock(n, msg)
    \/ CollectSig(n, msg) \/ CompleteBlock(n, msg) \/ VerigyFails(n, msg)
    \/ ReceiveNewBlock(n, msg)

Next ==
    \E n \in Member :
      \/ \E b \in Block : BuildBlock(n, b) \/ CommitNewBlock(n, b)
      \/ TimeoutSubmission(n)
      \/ \E msg \in net : Receive(n, msg)

Spec == Init /\ [][Next]_vars

(***************************************************************************)
(* Fairness: goroutines that can run do run, a member's loop keeps         *)
(* building, and the network delivers what is sent.  timeoutSubmission is  *)
(* not fair: its test on the number of ticks may fail for ever.            *)
(***************************************************************************)
Fairness ==
    \A n \in Member :
      /\ WF_vars(\E b \in Block : BuildBlock(n, b))
      /\ WF_vars(\E b \in Block : CommitNewBlock(n, b))
      /\ WF_vars(\E msg \in net : Receive(n, msg))

FairSpec == Spec /\ Fairness

-----------------------------------------------------------------------------
(***************************************************************************)
(* Properties.                                                             *)
(***************************************************************************)
\* A block is only completed when a threshold of members has signed that
\* very block, although sigInfos mixes signatures of several blocks, keeps
\* one per sender and outlives a failed recovery; and as the threshold is a
\* majority, two completed blocks with one parent have a member in common
\* that signed both: a fork always has a double signer.
QuorumSigned ==
    /\ \A c \in certified :
         Cardinality({m \in Member : c[2] \in signed[m]}) >= Threshold
    /\ \A c, d \in certified :
         Parent[c[2]] = Parent[d[2]]
         => \E m \in Member : {c[2], d[2]} \subseteq signed[m]

\* A member turns proposals down for their rank only while it still collects
\* signatures for a block of that rank: coefficientMax is the best percent
\* among sigBlocks, and 0 when there is none, so what it holds against new
\* proposals never outlives the block it stands for.  And its own signature
\* is never lost from its collection: while it holds signed blocks and no
\* recovery has failed, its entry in sigInfos is its latest block.
RankHeldByBlock ==
    \A n \in Member :
      /\ coefficientMax[n] # 0 =>
           \E b \in sigBlocks[n] : Percent(b) = coefficientMax[n]
      /\ \A b \in sigBlocks[n] : Percent(b) <= coefficientMax[n]
      /\ failures = 0 /\ sigBlocks[n] # {} =>
           /\ sigInfos[n][n] \in sigBlocks[n]
           /\ Percent(sigInfos[n][n]) = coefficientMax[n]

\* If the network delivers, some block is completed unless a signature fails
\* to verify: the first member to sign the best proposal has it before any
\* other member's signature of it can arrive, so it drops none of them, in
\* whatever order its two channels are served.
EventuallyCompleted == <>(certified # {} \/ failures > 0)

=============================================================================
