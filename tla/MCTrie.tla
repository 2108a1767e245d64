------------------------------- MODULE MCTrie -------------------------------
(***************************************************************************)
(* The trie, the codec its nodes are stored in, and the Merkle tree of a   *)
(* list: a behaviour is one of the "trie", of a "stream" or of a "list".   *)
(*                                                                         *)
(* A key that is a prefix of another, and one apart with an equal leaf; a  *)
(* value that leaves its leaf embedded in the node above and one, which    *)
(* also names a raw entry, that does not.                                  *)
(***************************************************************************)
EXTENDS RLP, TrieSync, Merkle

VARIABLE part

MCKeys == {<<17>>, <<17, 33>>, <<33>>}
MCValues == {1, 2}
MCValueLen == [v \in MCValues |-> IF v = 1 THEN 1 ELSE 33]
MCCacheLimits == {0, 1}
MCRawValues == {2}
MCLeafHash == {<<"a">>, <<"b">>}

MCInit ==
    /\ part \in {"trie", "stream", "list"}
    /\ SyncInit /\ MerkleInit
    /\ part # "trie" => cachelimit = 0
    /\ IF part = "stream" THEN CodecInit
       ELSE input = <<>> /\ started = TRUE /\ s = NewStream(<<>>, TRUE)

MCNext ==
    \/ part = "trie" /\ SyncNext /\ UNCHANGED <<codecvars, merklevars, part>>
    \/ part = "stream" /\ CodecNext /\ UNCHANGED <<syncvars, merklevars, part>>
    \/ part = "list" /\ MerkleNext /\ UNCHANGED <<syncvars, codecvars, part>>

MCSpec == MCInit /\ [][MCNext]_<<syncvars, codecvars, merklevars, part>>
-----------------------------------------------------------------------------
(* The properties of the trie, in its behaviours. *)
OfTrie(property) == part = "trie" => property

(* Get and GetKey answer what was last written, of the trie and of every   *)
(* root committed, whatever commits failed and roots were reopened.        *)
TrieReadsExact == OfTrie(ReadsExact)

(* Hash is that of the one minimal trie of the contents, however updates,  *)
(* deletions, loads and commits led there.                                 *)
TrieRootCanonical == OfTrie(RootCanonical)

(* A cached hash is that of the node's content, and a node that is not     *)
(* dirty is stored with all below it.                                      *)
TrieCacheSound == OfTrie(CacheSound)

(* Proofs verify, and iterators yield the leaves, once and in order, of a  *)
(* trie, of a difference and of a union.                                   *)
TrieReadersExact == OfTrie(ReadersExact)

(* A store never has a node without what hangs below it, and a sync with   *)
(* nothing pending has copied the trie.                                    *)
TrieSyncedWhole == OfTrie(SyncedWhole)

(* What is encoded decodes to itself and has one encoding, by whichever    *)
(* decoder: RoundTrip and DecodersExact of RLP.                            *)
CodecExact == RoundTrip /\ DecodersExact
=============================================================================
