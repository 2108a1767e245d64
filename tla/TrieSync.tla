------------------------------ MODULE TrieSync ------------------------------
(***************************************************************************)
(* The scheduler that copies a committed trie from other nodes into the    *)
(* local store (sync.go), composed with the trie whose commits fill the    *)
(* remote store.  A request is named by its hash; its data, once there, is *)
(* what the remote store has under that hash, and the completed requests   *)
(* wait in membatch, in the order of completion, until they are written.   *)
(***************************************************************************)
EXTENDS SecureTrie

CONSTANT RawValues    \* values whose leaf names a raw entry (such as code)

ASSUME RawAssumption == RawValues \subseteq Values

VARIABLES
    remote,     \* the node store that is copied from; << >> before the sync
    target,     \* root hash that is copied
    wanted,     \* history: the contents of that trie
    requests,   \* TrieSync.requests: hash -> request
    queue,      \* TrieSync.queue: hashes not handed out yet
    asked,      \* hashes handed out by Missing
    membatch    \* TrieSync.membatch.order

svars == <<remote, target, wanted, requests, queue, asked, membatch>>
trievars == <<root, cachegen, cachelimit, contents, commits, nwrites, secvars>>

RawEntry(v) == <<"str", 64, "raw", v>>

Syncing == target # Empty

(* A request for h on behalf of the request "parent" (none: the root). *)
Request(h, raw, depth, parents) ==
    [hash |-> h, raw |-> raw, depth |-> depth, parents |-> parents,
     deps |-> 0, data |-> FALSE]

(* The scheduler's state as one record, threaded through its methods. *)
Sched == [requests |-> requests, queue |-> queue, membatch |-> membatch,
          database |-> DOMAIN db]

Fresh(store) == [requests |-> << >>, queue |-> {}, membatch |-> <<>>, database |-> store]

Known(s, h) == h \in ToSet(s.membatch) \cup s.database

(* A request already there only gets the new parents. *)
scheduleOnce(s, req) ==
    IF req.hash \in DOMAIN s.requests THEN s
    ELSE [s EXCEPT !.requests = (req.hash :> req) @@ @,
                   !.queue = @ \cup {req.hash}]

schedule(s, req) ==
    IF req.hash \in DOMAIN s.requests
    THEN [s EXCEPT !.requests[req.hash].parents = @ \o req.parents]
    ELSE [s EXCEPT !.requests = (req.hash :> req) @@ @,
                   !.queue = @ \cup {req.hash}]

AddRawEntry(s, h, depth, parent) ==
    IF Known(s, h) THEN s
    ELSE schedule([s EXCEPT !.requests[parent].deps = @ + 1],
                  Request(h, TRUE, depth, <<parent>>))

AddSubTrie(s, h) ==
    IF h = Empty \/ Known(s, h) THEN s ELSE schedule(s, Request(h, FALSE, 0, <<>>))

(* The leaf callback of the caller: a leaf may name a raw entry. *)
callback(s, v, parent) ==
    IF v \in RawValues THEN AddRawEntry(s, RawEntry(v), 64, parent) ELSE s

(* The children of a node that stand in it as values or as references, in  *)
(* their order; nodes embedded in it are not looked into.                  *)
ChildNodes(n) ==
    IF n.t = "short" THEN <<n.val>>
    ELSE LET order == SetToSortSeq({i \in Slots : n.children[i] # Nil}, <)
         IN  [j \in 1..Len(order) |-> n.children[order[j]]]

(* children: the callback for every value, and the requests for the        *)
(* references that are not known locally.                                  *)
children(s, req, n) ==
    LET kids == ChildNodes(n)
        depth == req.depth + (IF n.t = "short" THEN Len(n.key) ELSE 1)
        called == FoldLeft(LAMBDA a, c : IF c.t = "value" THEN callback(a, c.v, req.hash)
                                         ELSE a, s, kids)
        unknown == SelectSeq(kids, LAMBDA c : c.t = "hash" /\ ~Known(s, c.enc))
    IN  [s |-> called,
         new |-> [j \in 1..Len(unknown) |->
                    Request(unknown[j].enc, FALSE, depth, <<req.hash>>)]]

RECURSIVE commit(_, _)

(* A completed item joins the batch behind those it was waiting for. *)
Prepended(order, h) == <<h>> \o order

Ordered(order, h) == Append(order, h)

(* commit: the request is complete, and so may be the ones waiting for it. *)
commit(s, h) ==
    LET Notify(a, p) ==
            LET b == [a EXCEPT !.requests[p].deps = @ - 1]
            IN  IF b.requests[p].deps = 0 THEN commit(b, p) ELSE b
        done == [s EXCEPT !.membatch = Ordered(@, h),
                          !.requests = [g \in DOMAIN @ \ {h} |-> @[g]]]
        RECURSIVE All(_, _)
        All(a, ps) == IF ps = <<>> THEN a ELSE All(Notify(a, Head(ps)), Tail(ps))
    IN  All(done, s.requests[h].parents)

Becomes(s) ==
    /\ requests' = s.requests
    /\ queue' = s.queue
    /\ membatch' = s.membatch

-----------------------------------------------------------------------------
(* All that hangs below an encoded node, itself included if stored. *)
RECURSIVE Reachable(_)
Reachable(item) ==
    CASE item[1] = "str" ->
            CASE item[3] = "hash" -> {item[4]} \cup Reachable(db[item[4]])
              [] item[3] = "value" /\ item[4] \in RawValues -> {RawEntry(item[4])}
              [] OTHER -> {}
      [] item[1] = "list" /\ item[2] = 2 -> Reachable(item[3][2])
      [] OTHER -> UNION {Reachable(item[3][i]) : i \in Slots}

StoreOf(h) == IF h = Empty THEN << >> ELSE [g \in Reachable(HashRef(h)) |-> g]

SyncInit ==
    /\ SecureInit
    /\ remote = << >> /\ target = Empty /\ wanted = contents
    /\ requests = << >> /\ queue = {} /\ asked = {} /\ membatch = <<>>

(* Another node, which has nothing but the trie of root g, is to get h. *)
StartSync(h, g) ==
    /\ ~Syncing /\ h # Empty
    /\ target' = h
    /\ remote' = StoreOf(h)
    /\ db' = StoreOf(g)
    /\ wanted' = commits[h]
    /\ contents' = commits[Empty]
    /\ root' = Nil /\ cachegen' = 0 /\ cachelimit' = 0 /\ nwrites' = 0
    /\ secKeyCache' = {} /\ preimages' = {}
    /\ commits' = [x \in {Empty} |-> commits[Empty]]
    /\ asked' = {}
    /\ Becomes(AddSubTrie(Fresh(DOMAIN StoreOf(g)), h))

(* A sync is started again, with what is in the store by then. *)
NewTrieSync ==
    /\ Syncing
    /\ asked' = {}
    /\ Becomes(AddSubTrie(Fresh(DOMAIN db), target))
    /\ UNCHANGED <<remote, target, wanted, db, trievars>>

(* The deepest of the queued requests go out, at most max of them if max   *)
(* is not zero.                                                            *)
MissingNodes(max) ==
    /\ queue # {}
    /\ \E S \in SUBSET queue :
        /\ Cardinality(S) = IF max = 0 THEN Cardinality(queue)
                            ELSE Min({max, Cardinality(queue)})
        /\ \A x \in S, y \in queue \ S : requests[x].depth >= requests[y].depth
        /\ queue' = queue \ S
        /\ asked' = asked \cup S
    /\ UNCHANGED <<remote, target, wanted, requests, membatch, db, trievars>>

(* Process, for one result: an answer to what was asked, in any order; one *)
(* that is not pending any more or was processed already is refused.       *)
Process(h) ==
    /\ h \in DOMAIN requests /\ ~requests[h].data
    /\ LET s == [Sched EXCEPT !.requests[h].data = TRUE]
           req == requests[h]
           c == children(s, req, decodeNode(HashRef(h), remote[h], 0))
           waiting == [c.s EXCEPT !.requests[h].deps = @ + Len(c.new)]
       IN  Becomes(IF req.raw \/ (c.new = <<>> /\ c.s.requests[h].deps = 0)
                   THEN commit(IF req.raw THEN s ELSE c.s, h)
                   ELSE FoldLeft(schedule, waiting, c.new))
    /\ UNCHANGED <<remote, target, wanted, asked, db, trievars>>

(* Commit writes the batch in order and forgets it, unless a write fails.  *)
SyncCommit ==
    /\ membatch # <<>>
    /\ db' = [h \in ToSet(membatch) |-> remote[h]] @@ db
    /\ membatch' = <<>>
    /\ UNCHANGED <<remote, target, wanted, requests, queue, asked, trievars>>

SyncCommitFails ==
    /\ \E i \in 1..(Len(membatch) - 1) :
        db' = [h \in ToSet(SubSeq(membatch, 1, i)) |-> remote[h]] @@ db
    /\ UNCHANGED <<remote, target, wanted, requests, queue, asked, membatch, trievars>>

SyncNext ==
    \/ ~Syncing /\ SecureNext /\ UNCHANGED svars
    \/ \E h, g \in DOMAIN commits : StartSync(h, g)
    \/ NewTrieSync
    \/ \E max \in {0, 1} : MissingNodes(max)
    \/ \E h \in asked : Process(h)
    \/ SyncCommit
    \/ SyncCommitFails

syncvars == <<vars, secvars, svars>>

-----------------------------------------------------------------------------
(* Nothing is waited for in vain: a request counts in deps exactly the     *)
(* pending requests that will notify it, and one that waits for none is    *)
(* queued or handed out.                                                   *)
DepsExact ==
    \A h \in DOMAIN requests :
        LET Notifies(g) == Len(SelectSeq(requests[g].parents, LAMBDA p : p = h))
        IN  /\ requests[h].deps = MapThenSumSet(Notifies, DOMAIN requests)
            /\ requests[h].deps = 0 => ~requests[h].data /\ h \in queue \cup asked

(* A store is never left with a node and without what hangs below it: not  *)
(* by commits or syncs that stop half way, so that "has the node" may mean *)
(* "has the subtrie"; no request waits in vain, and a sync with nothing    *)
(* pending has copied the trie.                                            *)
SyncedWhole ==
    /\ \A h \in DOMAIN db : Durable(HashRef(h))
    /\ DepsExact
    /\ Syncing /\ requests = << >> /\ membatch = <<>> =>
        /\ \A k \in Keys : tryGet(Loaded(target), keybytesToHex(k)).value = wanted[k]
        /\ \A v \in RawValues \cap {wanted[k] : k \in Keys} : RawEntry(v) \in DOMAIN db
=============================================================================
