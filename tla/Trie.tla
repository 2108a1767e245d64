-------------------------------- MODULE Trie --------------------------------
(***************************************************************************)
(* The Merkle trie under the state database (chain/space/trie): nodes      *)
(* loaded lazily from the store, cached with a generation, hashed and      *)
(* committed with the nodes below them first.                              *)
(*                                                                         *)
(* A node in memory is a record tagged nil, value, short, full or hash.    *)
(* An encoded node is an RLP item: <<"str", length, kind, data>> or        *)
(* <<"list", number of elements, elements>>.  What decoding may look at is *)
(* the first two components; "kind" only keeps unlike data apart.  The     *)
(* hash of an encoding is the encoding itself (Keccak has no collisions).  *)
(***************************************************************************)
EXTENDS Integers, FiniteSets, Sequences, SequencesExt, FiniteSetsExt, TLC

CONSTANTS
    Keys,         \* keys in use, as sequences of bytes
    Values,       \* values in use: positive naturals
    ValueLen,     \* [Values -> Nat \ {0}], the number of bytes of a value
    GenMod,       \* cache generations are counted modulo this (2^16)
    CacheLimits,  \* the cachelimit of a trie is one of these
    MaxWrites     \* bound: calls of TryUpdate, TryDelete and CommitTo

ASSUME TrieAssumption ==
    /\ Keys \subseteq Seq(0..255)
    /\ Values \subseteq Nat \ {0}
    /\ ValueLen \in [Values -> Nat \ {0}]
    /\ GenMod \in Nat \ {0}
    /\ CacheLimits \subseteq 0..(GenMod - 1)

VARIABLES
    root,         \* Trie.root
    cachegen,     \* Trie.cachegen
    cachelimit,   \* Trie.cachelimit
    db,           \* the node store: hash -> encoded node
    contents,     \* history: what the caller has put into the trie
    commits,      \* history: committed root hash -> contents then
    nwrites

vars == <<root, cachegen, cachelimit, db, contents, commits, nwrites>>

(* The function itself; TLC computes its values once. *)
Tabulated(f) == f @@ << >>

NoValue == 0
Failed == -1    \* a MissingNodeError instead of a value

-----------------------------------------------------------------------------
(* Keys: bytes, nibbles with the terminator 16, compact form (encoding.go) *)

Drop(s, n) == SubSeq(s, n + 1, Len(s))

hasTerm(s) == s # <<>> /\ Last(s) = 16

keybytesToHex(str) ==
    [i \in 1..(2 * Len(str)) |->
        IF i % 2 = 1 THEN str[(i + 1) \div 2] \div 16 ELSE str[i \div 2] % 16]
    \o <<16>>

decodeNibbles(hex) ==
    [i \in 1..(Len(hex) \div 2) |-> 16 * hex[2 * i - 1] + hex[2 * i]]

hexToKeybytes(hex) == decodeNibbles(IF hasTerm(hex) THEN Front(hex) ELSE hex)

hexToCompact(hex) ==
    LET bare == IF hasTerm(hex) THEN Front(hex) ELSE hex
        flag == IF hasTerm(hex) THEN 32 ELSE 0
    IN  IF Len(bare) % 2 = 1
        THEN <<flag + 16 + bare[1]>> \o decodeNibbles(Tail(bare))
        ELSE <<flag>> \o decodeNibbles(bare)

compactToHexEven(compact) ==
    LET base == Front(keybytesToHex(compact))
    IN  Drop(IF base[1] >= 2 THEN Append(base, 16) ELSE base, 2)

compactToHex(compact) ==
    LET base == Front(keybytesToHex(compact))
        full == IF base[1] >= 2 THEN Append(base, 16) ELSE base
    IN  Drop(full, 2 - (base[1] % 2))

prefixLen(a, b) ==
    Max({n \in 0..Min({Len(a), Len(b)}) : \A i \in 1..n : a[i] = b[i]})

Slots == UNION {ToSet(keybytesToHex(k)) : k \in Keys} \cup {16}

-----------------------------------------------------------------------------
(* Nodes in memory and their encodings (node.go)                           *)

NoHash == <<>>
Nil == [t |-> "nil"]
Missing == [t |-> "missing"]    \* in place of a node: MissingNodeError
ValueNode(v) == [t |-> "value", v |-> v]
HashNode(enc) == [t |-> "hash", enc |-> enc]

ShortNode(key, val, hash, gen, dirty) ==
    [t |-> "short", key |-> key, val |-> val,
     hash |-> hash, gen |-> gen, dirty |-> dirty]

FullNode(children, hash, gen, dirty) ==
    [t |-> "full", children |-> children,
     hash |-> hash, gen |-> gen, dirty |-> dirty]

(* A node made by an update: newFlag. *)
NewShort(key, val) == ShortNode(key, val, NoHash, cachegen, TRUE)
NewFull(children) == FullNode(children, NoHash, cachegen, TRUE)

Empty == <<"str", 0, "bytes", <<>> >>
HashRef(enc) == <<"str", 32, "hash", enc>>
EncodedKey(hex) == LET k == hexToCompact(hex) IN <<"str", Len(k), "bytes", k>>
EncodedValue(v) == <<"str", ValueLen[v], "value", v>>

IsHashRef(item) == item[1] = "str" /\ item[3] = "hash"

(* Encoded size, exact below the 56 bytes where list headers grow: only    *)
(* "less than 32" is asked.  One-byte strings encode as themselves.  The   *)
(* children no key reaches are empty strings of one byte.                  *)
RECURSIVE Size(_)
Size(item) ==
    IF item[1] = "str" THEN IF item[2] = 1 THEN 1 ELSE item[2] + 1
    ELSE 1 + (IF item[2] = 2 THEN Size(item[3][1]) + Size(item[3][2])
              ELSE MapThenSumSet(LAMBDA i : Size(item[3][i]), Slots)
                   + 17 - Cardinality(Slots))

(* decodeNode and decodeRef: a reference is a node of its own, told by its *)
(* shape: a list is an embedded node, a string is empty or 32 bytes.       *)
RECURSIVE decodeNode(_, _, _)
decodeNode(hash, item, gen) ==
    LET decodeRef(r) == IF r[1] = "list" THEN decodeNode(NoHash, r, gen)
                        ELSE IF r[2] = 0 THEN Nil ELSE HashNode(r[4])
        decodeValue(r) == IF r[2] = 0 THEN Nil ELSE ValueNode(r[4])
    IN  IF item[2] = 2
        THEN LET key == compactToHex(item[3][1][4])
                 val == item[3][2]
             IN  ShortNode(key,
                           IF hasTerm(key) THEN decodeValue(val) ELSE decodeRef(val),
                           hash, gen, FALSE)
        ELSE FullNode(Tabulated([i \in Slots |->
                            IF i = 16 THEN decodeValue(item[3][i])
                            ELSE decodeRef(item[3][i])]),
                      hash, gen, FALSE)

resolveHash(n) ==
    IF n.enc \in DOMAIN db THEN decodeNode(HashRef(n.enc), db[n.enc], cachegen)
    ELSE Missing

resolve(n) == IF n.t = "hash" THEN resolveHash(n) ELSE n

-----------------------------------------------------------------------------
(* Reading and changing a trie (trie.go)                                   *)

(* tryGet: the value, the node with what was loaded on the way, and        *)
(* whether anything was loaded.                                            *)
RECURSIVE tryGet(_, _)
tryGet(n, key) ==
    LET Found(v, m, loaded) == [value |-> v, node |-> m, didResolve |-> loaded]
        Below(child, rest, put(_)) ==
            LET r == tryGet(child, rest)
            IN  IF r.value # Failed /\ r.didResolve
                THEN Found(r.value, put(r.node), TRUE)
                ELSE Found(r.value, n, r.didResolve)
    IN  CASE n.t = "nil" -> Found(NoValue, n, FALSE)
          [] n.t = "value" -> Found(n.v, n, FALSE)
          [] n.t = "short" ->
                IF ~IsPrefix(n.key, key) THEN Found(NoValue, n, FALSE)
                ELSE Below(n.val, Drop(key, Len(n.key)),
                           LAMBDA c : [n EXCEPT !.val = c, !.gen = cachegen])
          [] n.t = "full" ->
                Below(n.children[key[1]], Tail(key),
                      LAMBDA c : [n EXCEPT !.children[key[1]] = c, !.gen = cachegen])
          [] n.t = "hash" ->
                LET child == resolveHash(n)
                IN  IF child = Missing THEN Found(Failed, n, TRUE)
                    ELSE [tryGet(child, key) EXCEPT !.didResolve = TRUE]

(* insert and delete answer whether the subtrie changed, and the subtrie.  *)
Changed(n) == [dirty |-> TRUE, node |-> n]
Unchanged(n) == [dirty |-> FALSE, node |-> n]
Kept(n, r) == Unchanged(IF r.node = Missing THEN Missing ELSE n)

RECURSIVE insert(_, _, _)
insert(n, key, value) ==
    CASE key = <<>> -> [dirty |-> n # value, node |-> value]
      [] key # <<>> /\ n.t = "nil" -> Changed(NewShort(key, value))
      [] key # <<>> /\ n.t = "short" ->
            LET m == prefixLen(key, n.key)
                r == insert(n.val, Drop(key, m), value)
                branch == NewFull([i \in Slots |->
                    CASE i = n.key[m + 1] -> insert(Nil, Drop(n.key, m + 1), n.val).node
                      [] i = key[m + 1] -> insert(Nil, Drop(key, m + 1), value).node
                      [] OTHER -> Nil])
            IN  IF m = Len(n.key)
                THEN IF r.dirty THEN Changed(NewShort(n.key, r.node)) ELSE Kept(n, r)
                ELSE Changed(IF m = 0 THEN branch
                             ELSE NewShort(SubSeq(key, 1, m), branch))
      [] key # <<>> /\ n.t = "full" ->
            LET r == insert(n.children[key[1]], Tail(key), value)
            IN  IF r.dirty THEN Changed(NewFull([n.children EXCEPT ![key[1]] = r.node]))
                ELSE Kept(n, r)
      [] key # <<>> /\ n.t = "hash" ->
            LET rn == resolveHash(n)
                r == insert(rn, key, value)
            IN  IF rn = Missing THEN Unchanged(Missing)
                ELSE IF r.dirty THEN r ELSE Kept(rn, r)

RECURSIVE delete(_, _)

(* What is left of a full node after a deletion below it: with one child   *)
(* left it becomes a short node, merged with that child if it is short.    *)
ReducedUnresolved(children) ==
    LET left == {i \in Slots : children[i] # Nil}
        pos == CHOOSE i \in left : TRUE
        cnode == children[pos]
    IN  CASE Cardinality(left) # 1 -> Changed(NewFull(children))
          [] Cardinality(left) = 1 /\ pos # 16 /\ cnode.t = "short" ->
                Changed(NewShort(<<pos>> \o cnode.key, cnode.val))
          [] OTHER -> Changed(NewShort(<<pos>>, children[pos]))

Reduced(children) ==
    LET left == {i \in Slots : children[i] # Nil}
        pos == CHOOSE i \in left : TRUE
        cnode == resolve(children[pos])
    IN  CASE Cardinality(left) # 1 -> Changed(NewFull(children))
          [] left = {16} -> Changed(NewShort(<<16>>, children[16]))
          [] OTHER ->
                CASE cnode = Missing -> Unchanged(Missing)
                  [] cnode.t = "short" ->
                        Changed(NewShort(<<pos>> \o cnode.key, cnode.val))
                  [] OTHER -> Changed(NewShort(<<pos>>, children[pos]))

delete(n, key) ==
    CASE n.t = "nil" -> Unchanged(n)
      [] n.t = "value" -> Changed(Nil)
      [] n.t = "short" ->
            LET m == prefixLen(key, n.key)
                r == delete(n.val, Drop(key, m))
            IN  CASE m < Len(n.key) -> Unchanged(n)
                  [] m = Len(n.key) /\ m = Len(key) -> Changed(Nil)
                  [] OTHER ->
                        CASE ~r.dirty -> Kept(n, r)
                          [] r.dirty /\ r.node.t = "short" ->
                                Changed(NewShort(n.key \o r.node.key, r.node.val))
                          [] OTHER -> Changed(NewShort(n.key, r.node))
      [] n.t = "full" ->
            LET r == delete(n.children[key[1]], Tail(key))
            IN  IF r.dirty THEN Reduced([n.children EXCEPT ![key[1]] = r.node])
                ELSE Kept(n, r)
      [] n.t = "hash" ->
            LET rn == resolveHash(n)
                r == delete(rn, key)
            IN  IF rn = Missing THEN Unchanged(Missing)
                ELSE IF r.dirty THEN r ELSE Kept(rn, r)

-----------------------------------------------------------------------------
(* Hashing and storing (hasher.go)                                         *)

canUnload(n) == ~n.dirty /\ (cachegen - n.gen) % GenMod >= cachelimit

RECURSIVE hash(_, _, _)

(* The dirty flag of a node whose hash was computed: down in a commit only. *)
DownWhenHashed(n, write) == FALSE

dirtyAfter(n, write) == n.dirty /\ ~write

(* With "write" the node is also put into the store, the nodes below it    *)
(* first.  Answers the reference to the node, the node to keep in memory   *)
(* and the puts in their order.                                            *)
hash(n, write, force) ==
    LET skip == n.t = "hash" \/ (n.hash # NoHash /\ (~write \/ ~n.dirty))
        subs == CASE n.t = "short" -> IF n.val.t = "value" THEN {} ELSE {0}
                  [] n.t = "full" -> {i \in Slots \ {16} : n.children[i] # Nil}
        r == Tabulated([i \in subs |->
                hash(IF n.t = "short" THEN n.val ELSE n.children[i], write, FALSE)])
        Leaf(m) == IF m = Nil THEN Empty ELSE EncodedValue(m.v)
        enc == IF n.t = "short"
               THEN <<"list", 2, <<EncodedKey(n.key),
                        IF subs = {} THEN Leaf(n.val) ELSE r[0].hashed>> >>
               ELSE <<"list", 17, Tabulated([i \in Slots |->
                        IF i \in subs THEN r[i].hashed ELSE Leaf(n.children[i])])>>
        cached == IF n.t = "short"
                  THEN IF subs = {} THEN n ELSE [n EXCEPT !.val = r[0].cached]
                  ELSE [n EXCEPT !.children = Tabulated([i \in Slots |->
                            IF i \in subs THEN r[i].cached ELSE @[i]])]
        embed == Size(enc) < 32 /\ ~force
        ref == IF n.hash # NoHash THEN n.hash ELSE HashRef(enc)
        order == SetToSortSeq(subs, <)
        below == FlattenSeq([j \in 1..Len(order) |-> r[order[j]].puts])
    IN  IF n.t = "hash" THEN [hashed |-> HashRef(n.enc), cached |-> n, puts |-> <<>>]
        ELSE IF skip
        THEN [hashed |-> n.hash, puts |-> <<>>,
              cached |-> IF write /\ canUnload(n) THEN HashNode(n.hash[4]) ELSE n]
        ELSE [hashed |-> IF embed THEN enc ELSE ref,
              puts |-> IF write /\ ~embed THEN Append(below, <<ref[4], enc>>) ELSE below,
              cached |-> [cached EXCEPT !.hash = IF embed THEN NoHash ELSE ref,
                                        !.dirty = dirtyAfter(n, write)]]

hashRoot(n, write) ==
    IF n = Nil THEN [hashed |-> HashRef(Empty), cached |-> Nil, puts |-> <<>>]
    ELSE hash(n, write, TRUE)

Stored(puts) == [h \in {p[1] : p \in puts} |-> (CHOOSE p \in puts : p[1] = h)[2]]

(* What a commit of n that is interrupted, or whose puts fail, may have    *)
(* put: the children of the first full node are stored by goroutines of    *)
(* their own, each in order; the nodes above them come when all are done.  *)
PartialPuts(n) ==
    LET puts == hashRoot(n, TRUE).puts
        top == IF n.t = "short" THEN n.val ELSE n
        kids == IF top.t = "full" THEN {i \in Slots \ {16} : top.children[i] # Nil} ELSE {}
        lane == [i \in kids |-> hash(top.children[i], TRUE, FALSE).puts]
        done == {d \in [kids -> 0..Len(puts)] : \A i \in kids : d[i] <= Len(lane[i])}
        Prefix(s, k) == ToSet(SubSeq(s, 1, k))
    IN  {Prefix(puts, k) : k \in 0..(Len(puts) - 1)} \cup
        IF puts = <<>> THEN {}
        ELSE {UNION {Prefix(lane[i], d[i]) : i \in kids} : d \in done}

-----------------------------------------------------------------------------
(* Operations                                                              *)

Init ==
    /\ root = Nil
    /\ cachegen = 0
    /\ cachelimit \in CacheLimits
    /\ db = << >>
    /\ contents = [k \in Keys |-> NoValue]
    /\ commits = [h \in {Empty} |-> contents]
    /\ nwrites = 0

(* New and NewSecure: any committed root may be opened, also after the     *)
(* process has stopped in the middle of a commit.  The zero hash opens the *)
(* empty trie as emptyRoot does.                                           *)
Open(h) ==
    LET n == IF h = Empty THEN Nil ELSE resolveHash(HashNode(h))
    IN  /\ n # Missing
        /\ root' = IF n = Nil THEN Nil ELSE decodeNode(HashRef(h), db[h], 0)
        /\ cachegen' = 0
        /\ contents' = commits[h]
        /\ UNCHANGED <<cachelimit, db, commits, nwrites>>

TryGet(k) ==
    LET r == tryGet(root, keybytesToHex(k))
    IN  /\ root' = IF r.value # Failed /\ r.didResolve THEN r.node ELSE root
        /\ UNCHANGED <<cachegen, cachelimit, db, contents, commits, nwrites>>

TryUpdate(k, v) ==
    LET key == keybytesToHex(k)
        r == IF v = NoValue THEN delete(root, key) ELSE insert(root, key, ValueNode(v))
    IN  /\ r.node # Missing /\ nwrites < MaxWrites
        /\ root' = r.node
        /\ nwrites' = nwrites + 1
        /\ contents' = [contents EXCEPT ![k] = v]
        /\ UNCHANGED <<cachegen, cachelimit, db, commits>>

TryDelete(k) ==
    LET r == delete(root, keybytesToHex(k))
    IN  /\ nwrites < MaxWrites
        /\ nwrites' = nwrites + 1
        /\ root' = IF r.node = Missing THEN root ELSE r.node
        /\ contents' = IF r.node = Missing THEN contents
                       ELSE [contents EXCEPT ![k] = NoValue]
        /\ UNCHANGED <<cachegen, cachelimit, db, commits>>

Hash ==
    /\ root' = hashRoot(root, FALSE).cached
    /\ UNCHANGED <<cachegen, cachelimit, db, contents, commits, nwrites>>

CommitTo ==
    LET r == hashRoot(root, TRUE)
    IN  /\ nwrites < MaxWrites
        /\ root' = r.cached
        /\ cachegen' = (cachegen + 1) % GenMod
        /\ db' = Stored(ToSet(r.puts)) @@ db
        /\ commits' = (r.hashed[4] :> contents) @@ commits
        /\ nwrites' = nwrites + 1
        /\ UNCHANGED <<cachelimit, contents>>

(* CommitTo fails or the process stops in it: some of the nodes are in the *)
(* store, the trie in memory is as it was.                                 *)
CommitFails ==
    /\ nwrites < MaxWrites
    /\ \E S \in PartialPuts(root) : db' = Stored(S) @@ db
    /\ nwrites' = nwrites + 1
    /\ UNCHANGED <<root, cachegen, cachelimit, contents, commits>>
=============================================================================
