------------------------------ MODULE BlsGroup ------------------------------
(***************************************************************************)
(* How the members of a validator group make their threshold key:          *)
(* libraries/chain/blsgroup/blsgroup.go, one BlsGroup per node.            *)
(*                                                                         *)
(* The curve's group is the field of P elements written additively, and a  *)
(* public key is known by its logarithm, so that recovery is Lagrange's    *)
(* interpolation at 0.  A member's identifier, and the secret it starts    *)
(* from, is its address.  Messages are lost, delayed, repeated (they are   *)
(* sent again every ten seconds for ever) and reordered: a node receives   *)
(* any message ever sent, or never does.  The hash of a list of members is *)
(* the list.                                                               *)
(***************************************************************************)
EXTENDS Integers, Sequences, FiniteSets, Functions

CONSTANTS P,           \* a prime
          Node,        \* the addresses of the nodes that run
          Coef,        \* the random coefficients of the runs
          Event,       \* the CreatethresholdEvents of the chain, in order
          MaxCrashes   \* bound

ASSUME BlsAssumption ==
    /\ P \in Nat /\ Node \subseteq 1..(P - 1) /\ Coef \subseteq 0..(P - 1)
    /\ Event \in Seq([gid : Nat, addrs : Seq(1..(P - 1))])
    /\ MaxCrashes \in Nat

VARIABLES next,      \* by node: the event CreatCH delivers next
          mem, disk, \* by node: its memory and database
          network,   \* the messages sent
          crashes,
          disturbed  \* history: nodes that crashed, or were sent another group,
                     \* while they made a key

blsvars == <<next, mem, disk, network, crashes, disturbed>>

-----------------------------------------------------------------------------
(* The arithmetic of package bls.                                          *)

Inverse1(a) == CHOOSE b \in 1..(P - 1) : (a * b) % P = 1

\* The coefficient of id in the interpolation at 0 over ids.
Lagrange(id, ids) ==
    MapThenFoldSet(LAMBDA a, b : (a * b) % P, 1,
                   LAMBDA j : (j * Inverse1((j - id) % P)) % P,
                   LAMBDA s : CHOOSE x \in s : TRUE, ids \ {id})

\* Recover: of a function on identifiers.
RecoverValue(f) ==
    MapThenFoldSet(LAMBDA a, b : (a + b) % P, 0,
                   LAMBDA id : (Lagrange(id, DOMAIN f) * f[id]) % P,
                   LAMBDA s : CHOOSE x \in s : TRUE, DOMAIN f)

\* Set: the polynomial msk at id.
Evaluate(msk, id) ==
    MapThenFoldSet(LAMBDA a, b : (a + b) % P, 0,
                   LAMBDA d : (msk[d] * id^(d - 1)) % P,
                   LAMBDA s : CHOOSE x \in s : TRUE, DOMAIN msk)

-----------------------------------------------------------------------------
\* NewBlsgroup, and Set of the console: the group 0, without members.
Fresh == [members |-> <<>>, n |-> 0, k |-> 0, gid |-> 0, hash |-> <<>>,
          groups |-> {0}, hashes |-> {}, starting |-> 0, running |-> {},
          psec |-> << >>, ready |-> 0, created |-> FALSE, sec |-> 0, pub |-> 0,
          saving |-> "no"]

BlsInit ==
    /\ next = [i \in Node |-> 1]
    /\ mem = [i \in Node |-> Fresh]
    /\ disk = [i \in Node |-> [info |-> << >>, ids |-> << >>]]
    /\ network = {} /\ crashes = 0 /\ disturbed = {}

Put(f, key, value) == [x \in DOMAIN f \cup {key} |-> IF x = key THEN value ELSE f[x]]

\* The node has its key, and has saved it.
Saved(i) == mem[i].created /\ mem[i].saving = "no"

MakingKey(i) == mem[i].n # 0 /\ ~Saved(i)

\* The threshold of n members.
QuorumOf(n) == n \div 2 + 1

\* One turn of Worker.
Worker(i) ==
    /\ next[i] <= Len(Event)
    /\ next' = [next EXCEPT ![i] = @ + 1]
    /\ LET ev == Event[next[i]]
           g == mem[i]
           joined == [g EXCEPT !.members = @ \o ev.addrs]
           known == ev.addrs \in g.hashes
           member == i \in Range(ev.addrs)
       IN  /\ mem' = [mem EXCEPT ![i] =
                IF g.created THEN g
                ELSE IF ~member THEN [g EXCEPT !.members = <<>>]
                ELSE IF known THEN [joined EXCEPT !.groups = @ \cup {ev.gid}]
                ELSE [joined EXCEPT !.gid = ev.gid, !.hash = ev.addrs,
                        !.n = Len(joined.members), !.k = QuorumOf(Len(joined.members)),
                        !.hashes = @ \cup {ev.addrs}, !.starting = @ + 1]]
           /\ disk' = IF ~g.created /\ member /\ known
                      THEN [disk EXCEPT ![i].ids = Put(@, ev.gid, ev.addrs)] ELSE disk
    /\ disturbed' = IF MakingKey(i) THEN disturbed \cup {i} ELSE disturbed
    /\ UNCHANGED <<network, crashes>>

\* CreateBlsGroup: a random polynomial whose value at 0 is the node's secret;
\* every other member is sent its value there.
CreateBlsGroup(i) ==
    /\ mem[i].starting > 0
    /\ \E c \in [2..mem[i].k -> Coef] :
         LET msk == [d \in 1..mem[i].k |-> IF d = 1 THEN i ELSE c[d]]
             share(v) == IF v = i THEN 0 ELSE Evaluate(msk, v)
         IN  /\ mem' = [mem EXCEPT ![i].starting = @ - 1,
                                   ![i].running = @ \cup {Evaluate(msk, i)}]
             /\ network' = network \cup
                  {[gid |-> mem[i].gid, from |-> i, pub |-> i,
                    shares |-> [v \in Range(mem[i].members) |-> share(v)]]}
    /\ UNCHANGED <<next, disk, crashes, disturbed>>

\* AddMsg: the first message of a peer counts; with the last one the goroutine
\* of CreateBlsGroup is told.
IsLastOfQuorum(g, psec) == Cardinality(DOMAIN psec) = g.k - 1
IsLastOfAll(g, psec) == Cardinality(DOMAIN psec) = g.n
IsLast(g, psec) == Cardinality(DOMAIN psec) = g.n - 1

AddMsg(i, msg) ==
    LET g == mem[i]
        psec == IF i \in DOMAIN msg.shares
                THEN Put(g.psec, msg.from, [pub |-> msg.pub, sec |-> msg.shares[i]])
                ELSE g.psec
    IN  /\ msg.from # i /\ msg.gid \in g.groups
        /\ g.n # 0 /\ msg.from \notin DOMAIN g.psec
        /\ mem' = [mem EXCEPT ![i].psec = psec,
                              ![i].ready = IF IsLast(g, psec) THEN @ + 1 ELSE @]
        /\ UNCHANGED <<next, disk, network, crashes, disturbed>>

\* The goroutine recovers the node's share of the group's secret, and the
\* group's public key.
Made(g, sec, pub) ==
    [g EXCEPT !.ready = @ - 1, !.sec = sec, !.pub = pub, !.saving = "info",
              !.created = TRUE]

Recover(i) ==
    /\ mem[i].ready > 0 /\ mem[i].saving = "no"
    /\ \E own \in mem[i].running :
         LET psec == mem[i].psec
             ids == DOMAIN psec \cup {i}
             secVec == [j \in ids |-> IF j = i THEN own ELSE psec[j].sec]
             pubVec == [j \in ids |-> IF j = i THEN i ELSE psec[j].pub]
         IN  mem' = [mem EXCEPT ![i] = Made(mem[i], RecoverValue(secVec), RecoverValue(pubVec))]
    /\ UNCHANGED <<next, disk, network, crashes, disturbed>>

\* saveBlsInfo, its two writes, and the group is entered under its number.
SaveInfo(i) ==
    /\ mem[i].saving = "info"
    /\ disk' = [disk EXCEPT ![i].info = Put(@, mem[i].hash,
                  [gid |-> mem[i].gid, sec |-> mem[i].sec, pub |-> mem[i].pub,
                   n |-> mem[i].n, k |-> mem[i].k])]
    /\ mem' = [mem EXCEPT ![i].saving = "id"]
    /\ UNCHANGED <<next, network, crashes, disturbed>>

SaveId(i) ==
    /\ mem[i].saving = "id"
    /\ disk' = [disk EXCEPT ![i].ids = Put(@, mem[i].gid, mem[i].hash)]
    /\ mem' = [mem EXCEPT ![i].saving = "no", ![i].groups = @ \cup {mem[i].gid}]
    /\ UNCHANGED <<next, network, crashes, disturbed>>

\* LoadBlsInfo: the group under the greatest number is loaded; its members are
\* not, as copy fills a slice of length 0.
LoadedUnmarked(g, info) ==
    [g EXCEPT !.gid = info.gid, !.n = info.n, !.k = info.k, !.sec = info.sec,
              !.pub = info.pub, !.groups = @ \cup {info.gid}]
Loaded(g, info) ==
    [g EXCEPT !.gid = info.gid, !.n = info.n, !.k = info.k, !.sec = info.sec,
              !.pub = info.pub, !.groups = @ \cup {info.gid}, !.created = TRUE]

LoadBlsInfo(i) ==
    LET ids == disk[i].ids
        known == [Fresh EXCEPT !.groups = @ \cup DOMAIN ids,
                               !.hashes = {ids[v] : v \in DOMAIN ids}]
        hash == ids[CHOOSE v \in DOMAIN ids : \A w \in DOMAIN ids : w <= v]
    IN  IF DOMAIN ids = {} THEN Fresh
        ELSE IF hash \notin DOMAIN disk[i].info THEN known
        ELSE Loaded(known, disk[i].info[hash])

Crash(i) ==
    /\ crashes < MaxCrashes
    /\ crashes' = crashes + 1
    /\ mem' = [mem EXCEPT ![i] = LoadBlsInfo(i)]
    /\ disturbed' = IF MakingKey(i) THEN disturbed \cup {i} ELSE disturbed
    /\ UNCHANGED <<next, disk, network>>

\* Signing, of a message that hashes to the point msg.
Sign(i, msg) == (mem[i].sec * msg) % P

VerigyGsign(i, sig, msg) == sig = (mem[i].pub * msg) % P

\* The group's signature, recovered from the members', and whether it verifies.
Verigy(i, sign, msg) ==
    LET sig == RecoverValue(sign)
    IN  [ok |-> VerigyGsign(i, sig, msg), sig |-> sig]

Exchange(i) == \/ CreateBlsGroup(i) \/ Recover(i) \/ SaveInfo(i) \/ SaveId(i)

BlsNext == \E i \in Node :
          \/ Worker(i) \/ Exchange(i) \/ Crash(i)
          \/ \E msg \in network : AddMsg(i, msg)

BlsSpec == BlsInit /\ [][BlsNext]_blsvars

\* Goroutines run, and a message that is sent again and again arrives.  When
\* groups are announced is up to the chain.
BlsFairSpec == /\ BlsSpec
               /\ \A i \in Node : /\ WF_blsvars(Exchange(i))
                                  /\ WF_blsvars(\E msg \in network : AddMsg(i, msg))

-----------------------------------------------------------------------------
(***************************************************************************)
(* Properties.                                                             *)
(***************************************************************************)

\* The members of a node's group that have a key.
KeyHolders(hash) == {i \in Range(hash) : mem[i].created /\ hash \in mem[i].hashes}

\* Any k members that have a key make a signature of any message that each
\* member finds to verify: their shares lie on one polynomial of degree
\* k - 1 whose value at 0 the public key is of, however the messages came.
\* Not so when a member crashed before it had saved its key: it draws another
\* polynomial, and its peers keep the first one's values.  Nor when the chain
\* announces another group meanwhile, whose messages count for this one.
QuorumSigns ==
    \A i \in Node : \A hash \in mem[i].hashes :
      (mem[i].created /\ Range(hash) \cap disturbed = {})
        => \A Q \in SUBSET KeyHolders(hash) :
             Cardinality(Q) >= mem[i].k
               => \A msg \in 1..(P - 1) :
                    LET v == Verigy(i, [j \in Q |-> Sign(j, msg)], msg)
                    IN  v.ok /\ \A j \in KeyHolders(hash) : VerigyGsign(j, v.sig, msg)

\* A node that has made its key in peace and saved it never works with another
\* one, or none, again: a restart loads it, and later events and messages leave
\* it alone.  This is for groups that have the same members or none in common:
\* otherwise a message of another group may tell the goroutine a second time
\* that all have come (AddMsg), and it recovers with a share too many.
KeyKept ==
    [][\A i \in Node \ disturbed :
         Saved(i) => /\ mem'[i].created
                     /\ mem'[i].sec = mem[i].sec
                     /\ mem'[i].pub = mem[i].pub
                     /\ mem'[i].k = mem[i].k]_blsvars

\* Once its group is announced to all members, and if nobody crashes and no
\* second announcement meets a running exchange, all of them get their keys.
AllCreated ==
    (\A i \in Node : mem[i].hashes # {})
      ~> (crashes > 0 \/ disturbed # {} \/ \A i \in Node : Saved(i))

=============================================================================
