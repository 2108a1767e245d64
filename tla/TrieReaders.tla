----------------------------- MODULE TrieReaders -----------------------------
(***************************************************************************)
(* What reads a trie without changing it: Merkle proofs (proof.go) and the *)
(* node iterators (iterator.go), as functions of the trie's state, and the *)
(* properties of the trie, its store and its readers.                      *)
(*                                                                         *)
(* An iterator is [root, start, stack, path, err]; a stack entry holds a   *)
(* node, its hash (NoHash if it is embedded), the child to go on from and  *)
(* the length of the path above it.  The hash of the parent is left out.   *)
(***************************************************************************)
EXTENDS Trie

-----------------------------------------------------------------------------
(* Merkle proofs                                                           *)

(* The loaded nodes on the path of a key, from n down. *)
RECURSIVE PathNodes(_, _)
PathNodes(n, key) ==
    CASE key = <<>> \/ n.t \in {"nil", "missing"} -> <<>>
      [] key # <<>> /\ n.t = "short" ->
            <<n>> \o (IF IsPrefix(n.key, key)
                      THEN PathNodes(n.val, Drop(key, Len(n.key))) ELSE <<>>)
      [] key # <<>> /\ n.t = "full" -> <<n>> \o PathNodes(n.children[key[1]], Tail(key))
      [] key # <<>> /\ n.t = "hash" -> PathNodes(resolveHash(n), key)

(* Which of the encodings on the path become elements of the proof. *)
OwnLarge(enc) == {i \in DOMAIN enc : Size(enc[i]) >= 32}

ProofElements(enc) == {i \in DOMAIN enc : i = 1 \/ Size(enc[i]) >= 32}

(* The proof of a key: the encodings, by their hashes, of the root and of  *)
(* the nodes on its path that are not embedded in the one above (from      *)
(* level 0).                                                               *)
Prove(key) ==
    LET nodes == PathNodes(root, key)
        fresh(n) == [n EXCEPT !.hash = NoHash]
        enc == Tabulated([i \in DOMAIN nodes |->
                            hash(fresh(nodes[i]), FALSE, TRUE).hashed[4]])
        at(i) == IF Size(enc[i]) >= 32 /\ nodes[i].hash # NoHash
                 THEN nodes[i].hash[4] ELSE enc[i]
    IN  Stored({<<at(i), enc[i]>> : i \in ProofElements(enc)})

(* get: down to a value, to nothing or to a reference. *)
RECURSIVE get(_, _)
get(n, key) ==
    CASE n.t = "short" -> IF IsPrefix(n.key, key) THEN get(n.val, Drop(key, Len(n.key)))
                          ELSE <<Nil, key>>
      [] n.t = "full" -> get(n.children[key[1]], Tail(key))
      [] OTHER -> <<n, key>>

RECURSIVE VerifyProof(_, _, _)
VerifyProof(wantHash, key, proofDb) ==
    IF wantHash \notin DOMAIN proofDb THEN Failed
    ELSE LET r == get(decodeNode(HashRef(wantHash), proofDb[wantHash], 0), key)
         IN  CASE r[1].t = "nil" -> NoValue
               [] r[1].t = "value" -> r[1].v
               [] r[1].t = "hash" -> VerifyProof(r[1].enc, r[2], proofDb)

-----------------------------------------------------------------------------
(* The node iterator                                                       *)

NewState(n, pathlen) ==
    [node |-> resolve(n), index |-> -1, pathlen |-> pathlen,
     hash |-> CASE n.t = "hash" -> HashRef(n.enc)
                [] n.t \in {"short", "full"} -> n.hash
                [] OTHER -> NoHash]

Pop(it) ==
    [it EXCEPT !.stack = Front(it.stack),
               !.path = SubSeq(it.path, 1, Last(it.stack).pathlen)]

(* nextChild: the position of the next child of a stack entry, if any. *)
NextChildren(st) ==
    CASE st.node.t = "full" -> {i \in Slots : i > st.index /\ st.node.children[i] # Nil}
      [] st.node.t = "short" -> {0} \ {st.index}
      [] OTHER -> {}

(* peek: the iterator after moving up past what has no children left, the  *)
(* entry to push, its place in the parent and its path; "err" tells the    *)
(* end of the iteration or a missing node.                                 *)
RECURSIVE Climb(_)
Climb(it) ==
    LET top == Last(it.stack)
        i == Min(NextChildren(top))
        child == IF top.node.t = "full" THEN top.node.children[i] ELSE top.node.val
        entry(st) == [it |-> it, state |-> st, index |-> i,
                      err |-> IF st.node = Missing THEN "missing" ELSE "none",
                      path |-> it.path \o (IF top.node.t = "full" THEN <<i>> ELSE top.node.key)]
    IN  IF it.stack = <<>> THEN [it |-> it, err |-> "end"]
        ELSE IF NextChildren(top) = {} THEN Climb(Pop(it))
        ELSE entry(NewState(child, Len(it.path)))

peek(it, descend) ==
    LET rooted(st, h) == [it |-> it, index |-> -1, path |-> <<>>,
                          state |-> [st EXCEPT !.hash = h],
                          err |-> IF st.node = Missing THEN "missing" ELSE "none"]
    IN  IF it.stack # <<>> THEN Climb(IF descend THEN it ELSE Pop(it))
        ELSE rooted(NewState(it.root, 0),
                    IF it.root = Nil THEN NoHash ELSE hashRoot(it.root, FALSE).hashed)

Push(p) ==
    LET n == Len(p.it.stack)
        above == IF n = 0 THEN <<>> ELSE [p.it.stack EXCEPT ![n].index = p.index]
    IN  [p.it EXCEPT !.stack = Append(above, p.state), !.path = p.path, !.err = "none"]

LexLess(a, b) ==
    LET m == prefixLen(a, b)
    IN  m < Len(b) /\ (m < Len(a) => a[m + 1] < b[m + 1])

(* Move forward until just before the closest match to the start key. *)
RECURSIVE seek(_)
seek(it) ==
    LET key == Front(keybytesToHex(it.start))
        found(p) == CASE p.err = "end" -> [p.it EXCEPT !.err = "end"]
                      [] p.err = "missing" -> [p.it EXCEPT !.err = "seek"]
                      [] p.err = "none" -> IF LexLess(p.path, key) THEN seek(Push(p))
                                           ELSE [p.it EXCEPT !.err = "none"]
    IN  found(peek(it, IsPrefix(it.path, key)))

newNodeIterator(n, start) ==
    seek([root |-> hashRoot(n, FALSE).cached, start |-> start, stack |-> <<>>,
          path |-> <<>>, err |-> "none"])

(* Next: the iterator moved on, and whether it is at a node. *)
Moved(p) == IF p.err # "none" THEN [it |-> [p.it EXCEPT !.err = p.err], ok |-> FALSE]
            ELSE [it |-> Push(p), ok |-> TRUE]

NextOf(it, descend) == IF it.err # "none" THEN [it |-> it, ok |-> FALSE]
                       ELSE Moved(peek(it, descend))

(* A failed seek is made again, and so is a step to a missing node. *)
NextNode(it, descend) ==
    NextOf(CASE it.err = "seek" -> seek(it)
             [] it.err = "missing" -> [it EXCEPT !.err = "none"]
             [] OTHER -> it, descend)

IterHash(it) == IF it.stack = <<>> THEN NoHash ELSE Last(it.stack).hash
IsLeaf(it) == hasTerm(it.path)
LeafOf(it) == <<hexToKeybytes(it.path), Last(it.stack).node.v>>

(* Iterator.Next until it answers FALSE: the leaves in their order. *)
RECURSIVE Leaves(_)
Leaves(it) ==
    LET from(n) == IF ~n.ok THEN <<>>
                   ELSE (IF IsLeaf(n.it) THEN <<LeafOf(n.it)>> ELSE <<>>) \o Leaves(n.it)
    IN  from(NextNode(it, TRUE))

-----------------------------------------------------------------------------
(* Difference and union of iterators                                       *)

(* compareNodes: by path, then by hash (in some order of the hashes, with  *)
(* none before all), then by value.                                        *)
compareNodes(a, b) ==
    LET ha == IterHash(a)
        hb == IterHash(b)
        first == CASE ha = NoHash -> ha [] hb = NoHash -> hb
                   [] OTHER -> CHOOSE h \in {ha, hb} : TRUE
        Sign(x, y) == CASE x < y -> -1 [] x = y -> 0 [] OTHER -> 1
    IN  CASE LexLess(a.path, b.path) -> -1
          [] LexLess(b.path, a.path) -> 1
          [] OTHER -> IF ha # hb THEN IF first = ha THEN -1 ELSE 1
                      ELSE IF IsLeaf(a) THEN Sign(LeafOf(a)[2], LeafOf(b)[2])
                      ELSE 0

RECURSIVE Skip(_, _)

(* Whether to go into a node that both have: it need not be the same below *)
(* if it has no hash.                                                      *)
NeverDescend(a) == FALSE

Descend(a) == IterHash(a) = NoHash

(* The loop of differenceIterator.Next: b moves to its next node that a    *)
(* does not have; equal nodes with a hash are skipped with all below them. *)
Skip(a, b) ==
    LET At(x, y, eof, ok) == [a |-> x, b |-> y, eof |-> eof, ok |-> ok]
        c == compareNodes(a, b)
        moved(na, nb) ==
            CASE c = 1 -> At(a, b, FALSE, TRUE)
              [] c = -1 -> IF na.ok THEN Skip(na.it, b) ELSE At(na.it, b, TRUE, TRUE)
              [] c = 0 -> CASE ~nb.ok -> At(a, nb.it, FALSE, FALSE)
                            [] nb.ok /\ ~na.ok -> At(na.it, nb.it, TRUE, TRUE)
                            [] OTHER -> Skip(na.it, nb.it)
    IN  moved(NextNode(a, c # 0 \/ Descend(a)), NextNode(b, Descend(a)))

DifferenceOf(d, nb) ==
    CASE ~nb.ok -> [d EXCEPT !.b = nb.it, !.ok = FALSE]
      [] nb.ok /\ d.eof -> [d EXCEPT !.b = nb.it]
      [] OTHER -> Skip(d.a, nb.it)

DifferenceNext(d) == DifferenceOf(d, NextNode(d.b, TRUE))

RECURSIVE DifferenceLeaves(_)
DifferenceLeaves(d) ==
    LET from(n) == IF ~n.ok THEN <<>>
                   ELSE (IF IsLeaf(n.b) THEN <<LeafOf(n.b)>> ELSE <<>>) \o DifferenceLeaves(n)
    IN  from(DifferenceNext(d))

NewDifferenceIterator(a, b) ==
    [a |-> NextNode(a, TRUE).it, b |-> b, eof |-> FALSE, ok |-> TRUE]

(* unionIterator.Next: the iterators that stand at the same node as the    *)
(* least one (or below it, if that is to be skipped) move on with it.      *)
LeastOf(items) ==
    CHOOSE i \in DOMAIN items :
        \A j \in DOMAIN items : compareNodes(items[i], items[j]) <= 0

AppendNext(items, n) == IF n.ok THEN Append(items, n.it) ELSE items

RECURSIVE SkipSame(_, _, _)
SkipSame(items, least, descend) ==
    LET i == LeastOf(items)
        at == items[i]
    IN  IF items = <<>> THEN items
        ELSE IF (~descend /\ IsPrefix(least.path, at.path)) \/ compareNodes(least, at) = 0
        THEN SkipSame(AppendNext(RemoveAt(items, i), NextNode(at, Descend(at))), least, descend)
        ELSE items

UnionNext(items, descend) ==
    LET i == LeastOf(items)
    IN  AppendNext(SkipSame(RemoveAt(items, i), items[i], descend), NextNode(items[i], descend))

RECURSIVE UnionLeaves(_)
UnionLeaves(items) ==
    LET leaf(at) == IF IsLeaf(at) THEN <<LeafOf(at)>> ELSE <<>>
        from(next) == IF next = <<>> THEN <<>>
                      ELSE leaf(next[LeastOf(next)]) \o UnionLeaves(next)
    IN  from(UnionNext(items, TRUE))

-----------------------------------------------------------------------------
(* Properties                                                              *)

Present(c) == {k \in Keys : c[k] # NoValue}
Pairs(c) == {<<k, c[k]>> : k \in Present(c)}

(* The node of a committed root, loaded from the store alone. *)
Loaded(h) == IF h = Empty THEN Nil ELSE resolveHash(HashNode(h))

(* Reads are exact: TryGet answers for every key what was last put under   *)
(* it, and the same holds of every root CommitTo ever returned, read from  *)
(* the store alone, whatever commits failed or stopped half way since.     *)
ValuesRead ==
    /\ \A k \in Keys : tryGet(root, keybytesToHex(k)).value = contents[k]
    /\ \A h \in DOMAIN commits :
        /\ Loaded(h) # Missing
        /\ \A k \in Keys : tryGet(Loaded(h), keybytesToHex(k)).value = commits[h][k]

(* The trie of a mapping, defined from the mapping: one path left is a     *)
(* leaf, a common prefix is a short node, otherwise paths part by nibble.  *)
RECURSIVE Canon(_)
Canon(m) ==
    LET prefix == LongestCommonPrefix(DOMAIN m)
        n == Len(prefix)
        Under(P, k) == [q \in {Drop(p, k) : p \in P} |->
                            m[CHOOSE p \in P : Drop(p, k) = q]]
        child(i) == LET P == {p \in DOMAIN m : p[1] = i}
                    IN  IF P = {} THEN Nil ELSE Canon(Under(P, 1))
    IN  CASE DOMAIN m = {} -> Nil
          [] DOMAIN m = {<<>>} -> ValueNode(m[<<>>])
          [] Cardinality(DOMAIN m) = 1 /\ n > 0 -> NewShort(prefix, ValueNode(m[prefix]))
          [] Cardinality(DOMAIN m) > 1 /\ n > 0 -> NewShort(prefix, Canon(Under(DOMAIN m, n)))
          [] OTHER -> NewFull([i \in Slots |-> child(i)])

CanonRoot(c) ==
    hashRoot(Canon([p \in {keybytesToHex(k) : k \in Present(c)} |-> c[hexToKeybytes(p)]]),
             FALSE).hashed

(* The root hash depends on the contents alone: whatever updates,          *)
(* deletions, loads and commits led here, Hash answers the hash of the one *)
(* minimal trie of the contents ("It reduces the trie to minimal form").   *)
RootCanonical == hashRoot(root, FALSE).hashed = CanonRoot(contents)

(* The nodes in memory from n down. *)
RECURSIVE InMemory(_)
InMemory(n) ==
    CASE n.t = "short" -> {n} \cup InMemory(n.val)
      [] n.t = "full" -> {n} \cup UNION {InMemory(n.children[i]) : i \in Slots}
      [] OTHER -> {}

(* Everything an encoded node refers to is in the store. *)
RECURSIVE Durable(_)
Durable(item) ==
    CASE item[1] = "str" -> IsHashRef(item) =>
            item[4] \in DOMAIN db /\ Durable(db[item[4]])
      [] item[1] = "list" /\ item[2] = 2 -> Durable(item[3][2])
      [] OTHER -> \A i \in Slots : Durable(item[3][i])

(* The flags of a cached node are right: its hash is that of its present   *)
(* content, so that hasher.hash may use it; and a node that is not dirty   *)
(* is in the store with all that is below it, so that a commit may skip    *)
(* it or drop it from memory.                                              *)
CacheSound ==
    \A n \in InMemory(root) :
        LET enc == hash([n EXCEPT !.hash = NoHash], FALSE, TRUE).hashed
        IN  /\ n.hash # NoHash => n.hash = enc
            /\ n.hash # NoHash /\ ~n.dirty => Durable(enc)

(* Proofs are right: for every key the nodes Prove collects make           *)
(* VerifyProof, which has only them and the root hash, answer the value of *)
(* the key or that it has none.                                            *)
ProofsVerify ==
    root # Nil =>
        \A k \in Keys :
            VerifyProof(hashRoot(root, FALSE).hashed[4], keybytesToHex(k),
                        Prove(keybytesToHex(k))) = contents[k]

Hex(k) == keybytesToHex(k)
Once(seq, S) == ToSet(seq) = S /\ Len(seq) = Cardinality(S)

(* The leaves of the contents from a start key on, in the order of paths. *)
LeavesFrom(start) ==
    LET keys == SetToSortSeq({k \in Present(contents) : ~LexLess(Hex(k), Front(Hex(start)))},
                             LAMBDA x, y : LexLess(Hex(x), Hex(y)))
    IN  [i \in DOMAIN keys |-> <<keys[i], contents[keys[i]]>>]

(* The difference and the union of an iterator a over a committed root and *)
(* one of the trie.                                                        *)
TogetherExact(h, a, b) ==
    /\ Once(DifferenceLeaves(NewDifferenceIterator(a, b)), Pairs(contents) \ Pairs(commits[h]))
    /\ Once(UnionLeaves(<<a, b>>), Pairs(commits[h]) \cup Pairs(contents))

(* Iterators are exact.  From a start key an iterator yields every leaf    *)
(* whose path is not before it, once, in the order of the paths.  Against  *)
(* a committed root the difference yields exactly the leaves that root     *)
(* does not have, and the union the leaves of either, once.                *)
IteratorsExact ==
    /\ \A start \in Keys \cup {<<>>} : Leaves(newNodeIterator(root, start)) = LeavesFrom(start)
    /\ \A h \in DOMAIN commits :
          TogetherExact(h, newNodeIterator(Loaded(h), <<>>), newNodeIterator(root, <<>>))

(* What reads a trie without Get reads it right: proofs and iterators. *)
ReadersExact == ProofsVerify /\ IteratorsExact
=============================================================================
