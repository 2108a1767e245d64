----------------------------- MODULE BlockChain -----------------------------
(***************************************************************************)
(* The space chain's block store: libraries/chain/space/blockchain.go,     *)
(* headerchain.go, database_util.go and the part of genesis.go that writes *)
(* the first block.                                                        *)
(*                                                                         *)
(* LevelDB is a set of single-key writes, none of them batched, so every   *)
(* write of BlockChain.Insert and of GetGenesisBlock is a step of its own  *)
(* and the process may stop between any two of them.  Memory (the current  *)
(* block, the current header, the running insertions) is lost then, and    *)
(* NewBlockChain rebuilds it from the keys that were written.              *)
(*                                                                         *)
(* A block enters through Insert along two paths.  A committee member      *)
(* calls commitNewBlock, which first runs validateBlock against its own    *)
(* head; everyone else is handed a block from the network and inserts it   *)
(* as it comes.  The variable networked records that the second path was   *)
(* ever taken: some properties only hold as long as it was not.            *)
(***************************************************************************)
EXTENDS Integers, Sequences, FiniteSets

CONSTANTS Block,        \* the blocks that exist, by their hashes
          Genesis,      \* the block ToBlock makes
          NoHash,       \* common.Hash{}, and nil where a block is expected
          Number,       \* [Block -> Nat], Header.Number
          Parent,       \* Header.UncleHash, the parent's hash
          Liquidating,  \* blocks that hold a liquidation transaction
          Inserter,     \* goroutines that may call Insert
          MaxCrashes    \* bound on the number of stops

ASSUME ChainAssumption ==
    /\ Genesis \in Block /\ NoHash \notin Block
    /\ Number \in [Block -> Nat]
    /\ Parent \in [Block -> Block \cup {NoHash}]
    /\ Number[Genesis] = 0 /\ Parent[Genesis] = NoHash
    /\ \A b \in Block \ {Genesis} :
          Parent[b] \in Block /\ Number[b] = Number[Parent[b]] + 1
    /\ Liquidating \subseteq Block \ {Genesis}
    /\ MaxCrashes \in Nat

VARIABLES
    canonical,      \* number -> hash keys
    headBlock,      \* headBlockKey
    headHeader,     \* headHeaderKey
    bodies,         \* blocks whose body key is written
    numbers,        \* blocks whose hash -> number key is written
    headers,        \* blocks whose header key is written
    roots,          \* state roots whose tries are in the database
    reports,        \* blocks whose liquidation report is in the database
    currentBlock,   \* BlockChain.currentBlock
    currentHeader,  \* HeaderChain.currentHeader
    boot,           \* how far NewBlockChain has come
    pc, blk, base,  \* each insertion: next step, its block, the state it
                    \* opened
    networked,      \* history: a block came straight from the network
    crashes

store == <<canonical, headBlock, headHeader, bodies, numbers, headers>>
memory == <<currentBlock, currentHeader>>
insertion == <<pc, blk, base>>
past == <<networked, crashes>>
vars == <<store, roots, reports, memory, boot, insertion, past>>

Heights == {Number[b] : b \in Block}

-----------------------------------------------------------------------------
(***************************************************************************)
(* States.  A state root stands for the blocks executed since the genesis  *)
(* state, each with whether its liquidation report was there to apply.     *)
(***************************************************************************)

\* The root a block's producer put in its header: it had every report.
Root[b \in Block] ==
    IF b = Genesis THEN <<>> ELSE Append(Root[Parent[b]], <<b, TRUE>>)

\* Process and the copy of its loop in validateBlock, run from state r.
Exec(r, b) == Append(r, <<b, b \in Liquidating => b \in reports>>)

-----------------------------------------------------------------------------
(***************************************************************************)
(* Reading the store.  A header or a body is found under its number and    *)
(* hash; a hash alone is first turned into a number.                       *)
(***************************************************************************)
GetHeader(h, n) == IF h \in headers /\ Number[h] = n THEN h ELSE NoHash

GetBody(h, n) == IF h \in bodies /\ Number[h] = n THEN h ELSE NoHash

GetBlock(h, n) ==
    IF GetHeader(h, n) = NoHash \/ GetBody(h, n) = NoHash THEN NoHash ELSE h

\* NoHash where the key of the number is not written.
GetCanonicalHash(n) == canonical[n]

GetHeadBlockHash == headBlock
GetHeadHeaderHash == headHeader

MissingNumber == -1
GetBlockNumber(h) == IF h \in numbers THEN Number[h] ELSE MissingNumber

GetHeaderByHash(h) ==
    IF GetBlockNumber(h) = MissingNumber THEN NoHash ELSE GetHeader(h, GetBlockNumber(h))

GetBlockByHash(h) ==
    IF GetBlockNumber(h) = MissingNumber THEN NoHash ELSE GetBlock(h, GetBlockNumber(h))

GetBlockByNumber(n) ==
    IF GetCanonicalHash(n) = NoHash THEN NoHash ELSE GetBlock(GetCanonicalHash(n), n)

GetHeaderByNumber(n) ==
    IF GetCanonicalHash(n) = NoHash THEN NoHash ELSE GetHeader(GetCanonicalHash(n), n)

\* The blocks from a stored hash downwards, as many as are there.
GetBlocksFromHash(hash, max) ==
    LET walk[n \in 0..max] ==  \* the hash looked at in round n
            IF n = 0 THEN hash
            ELSE IF walk[n-1] = NoHash THEN NoHash
            ELSE IF GetBlock(walk[n-1], Number[hash] - (n-1)) = NoHash
                 THEN NoHash
            ELSE Parent[walk[n-1]]
        found == {n \in 0..max-1 :
                    walk[n] # NoHash
                    /\ GetBlock(walk[n], Number[hash] - n) # NoHash}
    IN  IF GetBlockNumber(hash) = MissingNumber THEN <<>>
        ELSE [k \in 1..Cardinality(found) |-> walk[k-1]]

\* The parent's header, if the database has it.
ParentHeader(h) ==
    IF Parent[h] = NoHash THEN NoHash ELSE GetHeader(Parent[h], Number[h] - 1)

\* The hashes of the parents from a stored header downwards: the walk ends at a
\* header that is missing, and with the genesis block.
GetBlockHashesFromHash(hash, max) ==
    LET up[k \in 0..max] == IF k = 0 THEN GetHeaderByHash(hash)
                            ELSE IF up[k-1] = NoHash THEN NoHash
                            ELSE ParentHeader(up[k-1])
    IN  [k \in 1..Cardinality({j \in 1..max : up[j] # NoHash}) |-> up[k]]

\* The header d generations above h, NoHash once one is missing.
Up(h, d) ==
    LET up[k \in 0..d] == IF k = 0 THEN h
                          ELSE IF up[k-1] = NoHash THEN NoHash
                          ELSE ParentHeader(up[k-1])
    IN  up[d]

FindCommonAncestorUnlevelled(a, b) ==
    LET step[k \in 0..Number[a]] ==
            LET x == Up(a, k)
                y == Up(b, k)
            IN  IF x = NoHash \/ y = NoHash THEN NoHash
                ELSE IF x = y THEN x
                ELSE IF k = Number[a] THEN NoHash ELSE step[k+1]
    IN  step[0]

\* Bring the higher header down to the other's number, then walk both.
FindCommonAncestor(a, b) ==
    LET low == IF Number[a] < Number[b] THEN Number[a] ELSE Number[b]
        x == Up(a, Number[a] - low)
        y == Up(b, Number[b] - low)
        Missing(k) == Up(x, k) = NoHash \/ Up(y, k) = NoHash
        stops == {k \in 0..low : Missing(k) \/ Up(x, k) = Up(y, k)}
        first == CHOOSE k \in stops : \A j \in stops : k <= j
    IN  IF x = NoHash \/ y = NoHash \/ stops = {} THEN NoHash
        ELSE IF Missing(first) THEN NoHash ELSE Up(x, first)

-----------------------------------------------------------------------------
(***************************************************************************)
(* Start-up.  NewHeaderChain and loadLastState choose the current header   *)
(* and block from what the database holds; GetGenesisBlock writes the      *)
(* first block into an empty database.                                     *)
(***************************************************************************)
LoadedBlock ==
    IF GetBlockByHash(GetHeadBlockHash) = NoHash THEN Genesis ELSE GetHeadBlockHash

LoadedHeader ==
    IF LoadedBlock = Genesis /\ GetHeadBlockHash # Genesis THEN Genesis
    ELSE IF GetHeaderByHash(GetHeadHeaderHash) # NoHash THEN GetHeadHeaderHash
    ELSE GetHeadBlockHash

Init ==
    /\ canonical = [n \in Heights |-> NoHash]
    /\ headBlock = NoHash /\ headHeader = NoHash
    /\ bodies = {} /\ numbers = {} /\ headers = {}
    /\ roots = {} /\ reports = {}
    /\ currentBlock = NoHash /\ currentHeader = NoHash
    /\ boot = "start"
    /\ pc = [i \in Inserter |-> "idle"]
    /\ blk = [i \in Inserter |-> NoHash]
    /\ base = [i \in Inserter |-> <<>>]
    /\ networked = FALSE /\ crashes = 0

\* loadLastState; SetCurrentHeader writes the header it settled on back.
LoadLastState ==
    /\ currentBlock' = LoadedBlock
    /\ currentHeader' = LoadedHeader
    /\ headHeader' = IF LoadedBlock = headBlock THEN LoadedHeader
                     ELSE headHeader
    /\ boot' = "up"

NewBlockChain ==
    /\ boot = "start"
    /\ IF GetBlockByNumber(0) # NoHash THEN LoadLastState
       ELSE /\ boot' = IF headBlock = NoHash THEN "genesis_body" ELSE "failed"
            /\ UNCHANGED <<memory, headHeader>>
    /\ UNCHANGED <<canonical, headBlock, bodies, numbers, headers, roots,
                   reports, insertion, past>>

\* GetGenesisBlock: ToBlock commits the genesis state, WriteBlock the body.
GenesisBody ==
    /\ boot = "genesis_body"
    /\ roots' = roots \cup {Root[Genesis]}
    /\ bodies' = bodies \cup {Genesis}
    /\ boot' = "genesis_number"
    /\ UNCHANGED <<canonical, headBlock, headHeader, numbers, headers,
                   reports, memory, insertion, past>>

GenesisNumber ==
    /\ boot = "genesis_number"
    /\ numbers' = numbers \cup {Genesis}
    /\ boot' = "genesis_header"
    /\ UNCHANGED <<canonical, headBlock, headHeader, bodies, headers, roots,
                   reports, memory, insertion, past>>

GenesisHeader ==
    /\ boot = "genesis_header"
    /\ headers' = headers \cup {Genesis}
    /\ boot' = "genesis_canonical"
    /\ UNCHANGED <<canonical, headBlock, headHeader, bodies, numbers, roots,
                   reports, memory, insertion, past>>

GenesisHeadFirst ==
    /\ boot = "genesis_canonical"
    /\ headBlock' = Genesis
    /\ boot' = "genesis_head"
    /\ UNCHANGED <<canonical, headHeader, bodies, numbers, headers, roots,
                   reports, memory, insertion, past>>

GenesisCanonical ==
    /\ boot = "genesis_canonical"
    /\ canonical' = [canonical EXCEPT ![0] = Genesis]
    /\ boot' = "genesis_head"
    /\ UNCHANGED <<headBlock, headHeader, bodies, numbers, headers, roots,
                   reports, memory, insertion, past>>

GenesisHead ==
    /\ boot = "genesis_head"
    /\ headBlock' = Genesis
    /\ boot' = "genesis_head_header"
    /\ UNCHANGED <<canonical, headHeader, bodies, numbers, headers, roots,
                   reports, memory, insertion, past>>

\* WriteHeadHeaderHash; NewBlockChain then loads the head it has written.
GenesisHeadHeader ==
    /\ boot = "genesis_head_header"
    /\ headHeader' = Genesis
    /\ currentBlock' = Genesis /\ currentHeader' = Genesis
    /\ boot' = "up"
    /\ UNCHANGED <<canonical, headBlock, bodies, numbers, headers, roots,
                   reports, insertion, past>>

-----------------------------------------------------------------------------
(***************************************************************************)
(* Insertion.                                                              *)
(***************************************************************************)
Step(i, from, to) == /\ boot = "up"
                     /\ pc[i] = from
                     /\ pc' = [pc EXCEPT ![i] = to]

\* The transaction pool downloads a liquidation report (TxPool.downLoad).
SaveLiquidationReport(b) ==
    /\ boot = "up"
    /\ b \in Liquidating \ reports
    /\ reports' = reports \cup {b}
    /\ UNCHANGED <<store, roots, memory, boot, insertion, past>>

SameRootsUnchecked(b) == TRUE

\* validateBlock compares the roots it computed with the header's.
SameRoots(b) == Exec(Root[currentBlock], b) = Root[b]

\* commitNewBlock: validateBlock runs the block on the current state and
\* commits the tries whatever the comparison says; only then Insert.
CommitNewBlock(i, b) ==
    /\ boot = "up" /\ pc[i] = "idle"
    /\ Parent[b] = currentBlock /\ Number[b] > Number[currentBlock]
    /\ Root[currentBlock] \in roots
    /\ roots' = roots \cup {Exec(Root[currentBlock], b)}
    /\ IF SameRoots(b)
       THEN pc' = [pc EXCEPT ![i] = "insert"] /\ blk' = [blk EXCEPT ![i] = b]
       ELSE UNCHANGED <<pc, blk>>
    /\ UNCHANGED <<store, reports, memory, boot, base, past>>

\* A block handed over by the network goes to Insert as it is.  One that
\* BlockSigerVerifier rejects changes nothing: Block has the others.
ReceiveBlock(i, b) ==
    /\ Step(i, "idle", "insert")
    /\ blk' = [blk EXCEPT ![i] = b]
    /\ networked' = TRUE
    /\ UNCHANGED <<store, roots, reports, memory, boot, base, crashes>>

\* The test that decides whether a block becomes the head.
UpdateHeads(b) == GetCanonicalHash(Number[b]) # b

\* Insert's early returns: a block of the current number, one that is
\* canonical already, or a current state that cannot be opened.
InsertRefused(i) ==
    /\ Step(i, "insert", "idle")
    /\ \/ Number[blk[i]] = Number[currentBlock]
       \/ ~UpdateHeads(blk[i])
       \/ Root[currentBlock] \notin roots
    /\ blk' = [blk EXCEPT ![i] = NoHash]
    /\ UNCHANGED <<store, roots, reports, memory, boot, base, past>>

InsertStarts(i) ==
    /\ Step(i, "insert", "process")
    /\ Number[blk[i]] # Number[currentBlock]
    /\ UpdateHeads(blk[i])
    /\ Root[currentBlock] \in roots
    /\ base' = [base EXCEPT ![i] = Root[currentBlock]]
    /\ UNCHANGED <<store, roots, reports, memory, boot, blk, past>>

\* Process applies the transactions and deletes the report it used; the
\* changed tries are still in memory, held in base until CommitTo.
Process(i) ==
    /\ Step(i, "process", "commit")
    /\ base' = [base EXCEPT ![i] = Exec(base[i], blk[i])]
    /\ reports' = reports \ {blk[i]}
    /\ UNCHANGED <<store, roots, memory, boot, blk, past>>

CommitTo(i) ==
    /\ Step(i, "commit", "canonical")
    /\ roots' = roots \cup {base[i]}
    /\ UNCHANGED <<store, reports, memory, boot, blk, base, past>>

WriteCanonicalHashOfHead(i) ==
    /\ Step(i, "canonical", "head")
    /\ canonical' = [canonical EXCEPT ![Number[currentBlock]] = blk[i]]
    /\ UNCHANGED <<headBlock, headHeader, bodies, numbers, headers, roots,
                   reports, memory, boot, blk, base, past>>

WriteCanonicalHash(i) ==
    /\ Step(i, "canonical", "head")
    /\ canonical' = [canonical EXCEPT ![Number[blk[i]]] = blk[i]]
    /\ UNCHANGED <<headBlock, headHeader, bodies, numbers, headers, roots,
                   reports, memory, boot, blk, base, past>>

WriteHeadBlockHash(i) ==
    /\ Step(i, "head", "current")
    /\ headBlock' = blk[i]
    /\ UNCHANGED <<canonical, headHeader, bodies, numbers, headers, roots,
                   reports, memory, boot, blk, base, past>>

SetCurrentBlock(i) ==
    /\ Step(i, "current", "header")
    /\ currentBlock' = blk[i]
    /\ UNCHANGED <<store, roots, reports, currentHeader, boot, blk, base,
                   past>>

SetCurrentHeaderInMemory(i) ==
    /\ Step(i, "header", "write_body")
    /\ currentHeader' = blk[i]
    /\ UNCHANGED <<store, roots, reports, currentBlock, boot, blk, base,
                   past>>

SetCurrentHeader(i) ==
    /\ Step(i, "header", "write_body")
    /\ headHeader' = blk[i]
    /\ currentHeader' = blk[i]
    /\ UNCHANGED <<canonical, headBlock, bodies, numbers, headers, roots,
                   reports, currentBlock, boot, blk, base, past>>

WriteBodyHeaderFirst(i) ==
    /\ Step(i, "write_body", "write_number")
    /\ headers' = headers \cup {blk[i]}
    /\ UNCHANGED <<canonical, headBlock, headHeader, bodies, numbers, roots,
                   reports, memory, boot, blk, base, past>>

\* WriteBlock, in its three writes: body, number of the hash, header.
WriteBody(i) ==
    /\ Step(i, "write_body", "write_number")
    /\ bodies' = bodies \cup {blk[i]}
    /\ UNCHANGED <<canonical, headBlock, headHeader, numbers, headers, roots,
                   reports, memory, boot, blk, base, past>>

WriteNumber(i) ==
    /\ Step(i, "write_number", "write_header")
    /\ numbers' = numbers \cup {blk[i]}
    /\ UNCHANGED <<canonical, headBlock, headHeader, bodies, headers, roots,
                   reports, memory, boot, blk, base, past>>

WriteHeader(i) ==
    /\ Step(i, "write_header", "idle")
    /\ headers' = headers \cup {blk[i]}
    /\ blk' = [blk EXCEPT ![i] = NoHash]
    /\ UNCHANGED <<canonical, headBlock, headHeader, bodies, numbers, roots,
                   reports, memory, boot, base, past>>

Insert(i) ==
    \/ InsertRefused(i) \/ InsertStarts(i) \/ Process(i) \/ CommitTo(i)
    \/ WriteCanonicalHash(i) \/ WriteHeadBlockHash(i) \/ SetCurrentBlock(i)
    \/ SetCurrentHeader(i) \/ WriteBody(i) \/ WriteNumber(i) \/ WriteHeader(i)

\* The process stops; what was in memory is gone.
Crash ==
    /\ crashes < MaxCrashes
    /\ boot \notin {"start", "failed"}
    /\ crashes' = crashes + 1
    /\ boot' = "start"
    /\ currentBlock' = NoHash /\ currentHeader' = NoHash
    /\ pc' = [i \in Inserter |-> "idle"]
    /\ blk' = [i \in Inserter |-> NoHash]
    /\ base' = [i \in Inserter |-> <<>>]
    /\ UNCHANGED <<store, roots, reports, networked>>

Next ==
    \/ NewBlockChain \/ GenesisBody \/ GenesisNumber \/ GenesisHeader
    \/ GenesisCanonical \/ GenesisHead \/ GenesisHeadHeader
    \/ \E b \in Block \ {Genesis} : SaveLiquidationReport(b)
    \/ \E i \in Inserter, b \in Block \ {Genesis} :
          CommitNewBlock(i, b) \/ ReceiveBlock(i, b)
    \/ \E i \in Inserter : Insert(i)
    \/ Crash

Spec == Init /\ [][Next]_vars

-----------------------------------------------------------------------------
(***************************************************************************)
(* Properties.                                                             *)
(***************************************************************************)
Quiet == boot = "up" /\ \A i \in Inserter : pc[i] = "idle"

\* When no insertion is running, stopping and starting again is invisible:
\* NewBlockChain would load the very block and header that are current now.
\* And it never gives up with ErrNoGenesis, wherever GetGenesisBlock was
\* stopped: a database with a head block also has the genesis block.
RestartTransparent ==
    /\ Quiet => LoadedBlock = currentBlock /\ LoadedHeader = currentHeader
    /\ boot # "failed"

\* A header in the database means that the whole block is there: its body
\* and the number of its hash were written before it ("Store the header too,
\* signaling full block ownership", WriteBlock), by whatever sequence of
\* insertions, repetitions and stops.
HeaderOwnsBlock == headers \subseteq bodies \cap numbers

\* As long as every block was validated before Insert, the state of the
\* current block can be opened (Insert and validateBlock both start from it,
\* and Insert silently drops every block if it cannot), and the chain can be
\* served between insertions from the head down to the genesis block without
\* a gap: the walks by parent hashes (GetBlocksFromHash, and over the headers
\* GetBlockHashesFromHash) meet the same blocks as the walk by numbers
\* (GetBlockByNumber, GetHeaderByNumber), although stops leave canonical numbers
\* above the head; and every header owns its block.
ChainServable ==
    /\ HeaderOwnsBlock
    /\ boot = "up" /\ ~networked => Root[currentBlock] \in roots
    /\ Quiet /\ ~networked =>
             LET n == Number[currentBlock]
                 down == GetBlocksFromHash(currentBlock, n + 1)
             IN  /\ Len(down) = n + 1
                 /\ GetBlockHashesFromHash(currentBlock, n + 1) = Tail(down)
                 /\ \A k \in 0..n : /\ GetBlockByNumber(k) = down[n + 1 - k]
                                    /\ GetHeaderByNumber(k) = down[n + 1 - k]

Ancestors(h) ==
    {b \in Block : \E d \in 0..Number[h] : Number[b] = Number[h] - d
                                           /\ Up(h, d) = b}

\* FindCommonAncestor returns the highest block that both headers descend
\* from as far as their ancestry is stored, and nothing only if there is
\* none: for every two stored headers, in every state of the database.
AncestorCorrect ==
    \A a, b \in headers :
      LET common == Ancestors(a) \cap Ancestors(b)
          c == FindCommonAncestor(a, b)
      IN  IF common = {} THEN c = NoHash
          ELSE c \in common /\ \A d \in common : Number[d] <= Number[c]

\* "If the block is better than out head or is on a different chain, force
\* update heads" (Insert): a block higher than the head is one that Insert
\* makes the head.
BetterBlockUpdatesHeads ==
    Quiet => \A b \in Block : Number[b] > Number[currentBlock] => UpdateHeads(b)

=============================================================================
