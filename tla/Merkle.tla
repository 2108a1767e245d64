------------------------------- MODULE Merkle -------------------------------
(***************************************************************************)
(* The Merkle tree of a list of hashes: libraries/common/merkle.go.        *)
(*                                                                         *)
(* The hash of two hashes is the pair of them: Keccak without collisions.  *)
(* A caller grows a slice and has its root computed.  Root works in place: *)
(* it leaves the first levels it computed in the caller's slice.           *)
(***************************************************************************)
EXTENDS Integers, SequencesExt

CONSTANTS LeafHash,   \* the hashes a caller has
          MaxLeaves   \* bound

ASSUME MerkleAssumption == MaxLeaves \in Nat \ {0}

VARIABLES slice,   \* the caller's slice
          spare,   \* whether its array has room for one more
          hashed   \* whether Root was called on it

merklevars == <<slice, spare, hashed>>

Keccak256(a, b) == <<"hash", a, b>>

\* A level of the tree is made even by its last hash.
Even(tree) == IF Len(tree) % 2 = 1 THEN Append(tree, Last(tree)) ELSE tree

Level(tree) ==
    [k \in 1..(Len(tree) \div 2) |-> Keccak256(tree[2 * k - 1], tree[2 * k])]

\* CalMerkel: the root, and the hashes beside the way up from leaf id.
Sibling(tree, id) == IF id % 2 = 1 THEN tree[id] ELSE tree[id + 2]

RECURSIVE CalMerkel(_, _)
CalMerkel(tree, id) ==
    IF Len(tree) = 1 THEN [root |-> tree[1], proofs |-> <<>>]
    ELSE LET even == Even(tree)
             up == CalMerkel(Level(even), id \div 2)
         IN  [root |-> up.root, proofs |-> <<Sibling(even, id)>> \o up.proofs]

MerkekRoot(tree) == CalMerkel(tree, 0).root

\* VerigyMerkel, and a mutant that does not go up with the index.
VerigyMerkelFlat(root, proofs, hash, idx) ==
    LET join(h, p) == IF idx % 2 = 0 THEN Keccak256(h, p) ELSE Keccak256(p, h)
    IN  FoldLeft(join, hash, proofs) = root
VerigyMerkel(root, proofs, hash, idx) ==
    LET join(h, k) == IF (idx \div 2^(k - 1)) % 2 = 0
                      THEN Keccak256(h, proofs[k]) ELSE Keccak256(proofs[k], h)
    IN  FoldLeft(join, hash, [k \in DOMAIN proofs |-> k]) = root

\* Root: one array for all levels, and what it is left holding.
RECURSIVE Rounds(_, _)
Rounds(tree, array) ==
    LET result == Level(tree)
        next == Even(result)
    IN  IF Len(result) = 1 THEN [root |-> result[1], array |-> array]
        ELSE Rounds(next, [i \in DOMAIN array |-> IF i <= Len(next) THEN next[i] ELSE array[i]])

Root(tree) == IF Len(tree) = 1 THEN [root |-> tree[1], array |-> tree]
               ELSE Rounds(Even(tree), Even(tree))

MerkleInit == slice = <<>> /\ spare = FALSE /\ hashed = FALSE

Grow(h) ==
    /\ ~hashed /\ Len(slice) < MaxLeaves
    /\ slice' = Append(slice, h)
    /\ spare' \in BOOLEAN
    /\ UNCHANGED hashed

\* An odd slice without room is copied by append, and stays as it is.
CallRoot ==
    /\ slice # <<>> /\ ~hashed
    /\ slice' = IF Len(slice) % 2 = 1 /\ ~spare THEN slice
                ELSE SubSeq(Root(slice).array, 1, Len(slice))
    /\ hashed' = TRUE
    /\ UNCHANGED spare

\* The caller is done with the slice.
NewSlice ==
    /\ hashed
    /\ slice' = <<>> /\ spare' = FALSE /\ hashed' = FALSE

MerkleNext == CallRoot \/ NewSlice \/ \E h \in LeafHash : Grow(h)

\* The two ways to the root agree; the proof of a leaf verifies at its place
\* with that leaf and no other hash of the tree or its callers, VerigyMerkel
\* following the index up a tree that CalMerkel padded level by level; and
\* lists of one length that differ have different roots.  It holds of a slice
\* that Root has overwritten too, with the root of what is in it by then.
MerkleExact ==
    slice # <<>> =>
        LET root == MerkekRoot(slice)
        IN  /\ Root(slice).root = root
            /\ \A i \in DOMAIN slice :
                  \A h \in Range(slice) \cup LeafHash :
                      VerigyMerkel(root, CalMerkel(slice, i - 1).proofs, h, i - 1)
                         <=> h = slice[i]
            /\ \A t \in [1..Len(slice) -> LeafHash] : MerkekRoot(t) = root => t = slice
=============================================================================
