----------------------------- MODULE SecureTrie -----------------------------
(***************************************************************************)
(* The trie the state database uses (chain/space/trie/secure_trie.go): the *)
(* keys of the trie below are hashes, and the keys they were made from are *)
(* stored apart, first in memory and with the next commit in the store.    *)
(* Keccak has no collisions, so that a key and its hash name each other:   *)
(* the set of the hashes whose key is known stands for the table.          *)
(***************************************************************************)
EXTENDS TrieReaders

VARIABLES
    secKeyCache,   \* SecureTrie.secKeyCache: hashes of the keys since the commit
    preimages      \* hashes with a "secure-key-" entry in the store

secvars == <<secKeyCache, preimages>>

SecureInit == Init /\ secKeyCache = {} /\ preimages = {}

NewSecure(h) ==
    /\ Open(h)
    /\ secKeyCache' = {}
    /\ UNCHANGED preimages

SecureTryGet(k) == TryGet(k) /\ UNCHANGED secvars

SecureHash == Hash /\ UNCHANGED secvars

(* The key is kept after the trie has changed, ... *)
SecureTryUpdate(k, v) ==
    /\ TryUpdate(k, v)
    /\ secKeyCache' = secKeyCache \cup {k}
    /\ UNCHANGED preimages

(* ... and forgotten before, whether or not the deletion then succeeds. *)
SecureTryDelete(k) ==
    /\ TryDelete(k)
    /\ secKeyCache' = secKeyCache \ {k}
    /\ UNCHANGED preimages

GetKey(k) == k \in secKeyCache \cup preimages

(* The keys are stored and forgotten in memory before the nodes.  Mutant:  *)
(* forgotten without a put.                                                *)
NotPut(keys) == preimages
PutKeys(keys) == preimages \cup keys

SecureCommitTo ==
    /\ CommitTo
    /\ preimages' = PutKeys(secKeyCache)
    /\ secKeyCache' = {}

(* A put of a key fails, or the process stops there ... *)
PreimagesFail ==
    /\ secKeyCache # {} /\ nwrites < MaxWrites
    /\ \E S \in SUBSET secKeyCache : preimages' = PutKeys(S)
    /\ nwrites' = nwrites + 1
    /\ UNCHANGED <<root, cachegen, cachelimit, db, contents, commits, secKeyCache>>

(* ... or the commit of the nodes does. *)
SecureCommitFails ==
    /\ CommitFails
    /\ preimages' = PutKeys(secKeyCache)
    /\ secKeyCache' = {}

SecureNext ==
    \/ \E h \in DOMAIN commits : NewSecure(h)
    \/ \E k \in Keys : SecureTryGet(k) \/ SecureTryDelete(k)
    \/ \E k \in Keys, v \in Values \cup {NoValue} : SecureTryUpdate(k, v)
    \/ SecureHash
    \/ SecureCommitTo
    \/ PreimagesFail
    \/ SecureCommitFails

-----------------------------------------------------------------------------
(* "GetKey returns the sha3 preimage of a hashed key that was previously   *)
(* used to store a value": of every key the trie holds, and of every key   *)
(* of every root ever committed.                                           *)
PreimagesKept ==
    /\ \A k \in Present(contents) : GetKey(k)
    /\ \A h \in DOMAIN commits : Present(commits[h]) \subseteq preimages

(* Reads are right, of the trie and of every root committed, however       *)
(* commits failed or stopped and roots were reopened in between: a key has *)
(* the value last written, and its hash leads back to it.                  *)
ReadsExact == ValuesRead /\ PreimagesKept
=============================================================================
