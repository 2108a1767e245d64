---------------------------- MODULE TxPoolProofs ----------------------------
(***************************************************************************)
(* The pool never offers a liquidation report that is not in the database, *)
(* the complaint epoch never has two loops, the Start of the node is all   *)
(* or nothing and the servers of messages keep the order of each client,   *)
(* for any number of callers, downloads, controllers, services, servers    *)
(* and messages.                                                           *)
(***************************************************************************)
EXTENDS MCTxPool, TLAPS

\* Leaves about lengths and numbers cite SMT; Zenon is faster on the rest.
USE ZenonT(40)

Place == {"unused", "fetching", "failed", "locked", "saved", "done"}

(* What the steps of a download rest on: one that has saved its report and *)
(* not yet pooled it still finds it stored, or a block has applied it.     *)
DownloadsTyped == dl \in [Download -> [tx : Tx \cup {<<>>}, at : Place]]

SavedFirst == \A d \in Download : dl[d].at = "saved" => dl[d].tx \in saved \cup applied

PoolInv == DownloadsTyped /\ SavedFirst /\ ReportStored

(* Who is stopping the epoch holds mu, and the epoch still works: the loop *)
(* that receives from stop is the only one.                                *)
StopperHoldsMu == \A k \in Controller : ctl[k] = "stopping" => mu = {k} /\ atWork

EpochInv ==
    /\ ctl \in [Controller -> {"idle", "stopping"}]
    /\ atWork \in BOOLEAN
    /\ StopperHoldsMu
    /\ OneLoop

-----------------------------------------------------------------------------
(* Downloads and the pool.                                                 *)

(* An empty pool has nothing to store.                                     *)
LEMMA PoolInvInit == Init => PoolInv
BY SMTT(30) DEF Init, PoolInv, DownloadsTyped, SavedFirst, ReportStored, Place

(* Steps that touch neither the pool's map, nor the downloads, nor what is *)
(* stored or taken.                                                        *)
LEMMA PoolInvKept ==
    ASSUME PoolInv, UNCHANGED <<all, dl, saved, taken, applied>>
    PROVE  PoolInv'
BY DEF PoolInv, DownloadsTyped, SavedFirst, ReportStored

(* enqueueTx pools what is no report, and starts a download of one.        *)
LEMMA PoolInvEnqueueTx ==
    ASSUME PoolInv, NEW c \in Caller, EnqueueTx(c)
    PROVE  PoolInv'
<1>1. CASE Head(todo[c]) \in Report
  <2>1. PICK d \in Download :
            dl' = [dl EXCEPT ![d] = [tx |-> Head(todo[c]), at |-> "fetching"]]
        BY <1>1 DEF EnqueueTx
  <2>2. UNCHANGED <<all, saved, taken, applied>>
        BY <1>1 DEF EnqueueTx
  <2>3. Head(todo[c]) \in Tx
        BY <1>1, PoolAssumption
  <2>4. DownloadsTyped'
        BY <2>1, <2>3 DEF PoolInv, DownloadsTyped, Place
  <2>5. SavedFirst'
        BY <2>1, <2>2 DEF PoolInv, DownloadsTyped, SavedFirst
  <2>6. ReportStored'
        BY <2>2 DEF PoolInv, ReportStored
  <2>7. QED BY <2>4, <2>5, <2>6 DEF PoolInv
<1>2. CASE Head(todo[c]) \notin Report
  <2>1. all' = all \cup {Head(todo[c])} /\ UNCHANGED <<dl, saved, taken, applied>>
        BY <1>2 DEF EnqueueTx
  <2>2. QED BY <1>2, <2>1 DEF PoolInv, DownloadsTyped, SavedFirst, ReportStored
<1>3. QED BY <1>1, <1>2

(* downLoad: the report is stored before it is pooled, and when it is      *)
(* pooled it is still stored or has been applied.                          *)
LEMMA PoolInvDownload ==
    ASSUME PoolInv, NEW d \in Download, DownloadStep(d) \/ DownloadFails(d)
    PROVE  PoolInv'
<1> USE DEF PoolInv
<1>1. CASE DownloadFails(d)
  <2>1. dl' = [dl EXCEPT ![d].at = "failed"] /\ UNCHANGED <<all, saved, taken, applied>>
        BY <1>1 DEF DownloadFails, Move, pool
  <2>2. QED BY <2>1 DEF DownloadsTyped, SavedFirst, ReportStored, Place
<1>2. CASE LockDownload(d)
  <2>1. dl' = [dl EXCEPT ![d].at = "locked"] /\ UNCHANGED <<all, saved, taken, applied>>
        BY <1>2 DEF LockDownload, Move, pool
  <2>2. QED BY <2>1 DEF DownloadsTyped, SavedFirst, ReportStored, Place
<1>3. CASE SaveReport(d)
  <2>1. /\ dl' = [dl EXCEPT ![d].at = "saved"] /\ saved' = saved \cup {dl[d].tx}
        /\ UNCHANGED <<all, taken, applied>>
        BY <1>3 DEF SaveReport, Move, pool
  <2>2. QED BY <2>1 DEF DownloadsTyped, SavedFirst, ReportStored, Place
<1>4. CASE PoolReport(d)
  <2>1. /\ dl[d].at = "saved" /\ all' = all \cup {dl[d].tx}
        /\ dl' = [dl EXCEPT ![d].at = "done"] /\ UNCHANGED <<saved, taken, applied>>
        BY <1>4 DEF PoolReport, Move
  <2>2. QED BY <2>1 DEF DownloadsTyped, SavedFirst, ReportStored, Place
<1>5. QED BY <1>1, <1>2, <1>3, <1>4 DEF DownloadStep

(* Every step of the pool, of a download, of a block and of the epoch.     *)
LEMMA PoolInvNext == PoolInv /\ [Next]_vars => PoolInv'
<1> SUFFICES ASSUME PoolInv, [Next]_vars PROVE PoolInv'
    OBVIOUS
<1>1. ASSUME NEW c \in Caller, EnqueueTx(c) PROVE PoolInv'
      BY <1>1, PoolInvEnqueueTx
<1>2. ASSUME NEW c \in Caller, GetAllTx(c) PROVE PoolInv'
      BY <1>2 DEF GetAllTx, PoolInv, DownloadsTyped, SavedFirst, ReportStored
<1>3. ASSUME NEW c \in Caller, RemoveTx(c) PROVE PoolInv'
      BY <1>3 DEF RemoveTx, PoolInv, DownloadsTyped, SavedFirst, ReportStored
<1>4. ASSUME NEW c \in Caller,
             \/ Refuse(c) \/ Accept(c) \/ AddComplaint(c) \/ Announce(c) \/ Added(c)
             \/ RLock(c) \/ \E txs \in Batch : AddTxs(c, txs)
      PROVE  PoolInv'
  <2>1. UNCHANGED <<all, dl, saved, taken, applied>>
        BY <1>4 DEF Refuse, Accept, AddComplaint, Announce, Added, RLock, AddTxs
  <2>2. QED BY <2>1, PoolInvKept
<1>5. ASSUME NEW d \in Download, DownloadStep(d) \/ DownloadFails(d) PROVE PoolInv'
      BY <1>5, PoolInvDownload
<1>6. ASSUME NEW t \in Report, ApplyReport(t) PROVE PoolInv'
      BY <1>6 DEF ApplyReport, pool, PoolInv, DownloadsTyped, SavedFirst, ReportStored
<1>7. ASSUME \/ \E k \in Controller : Start(k) \/ Stop(k) \/ Stopped(k)
             \/ PublishWorker \/ VerificationEpochTx \/ ConcurrentMapAccess
             \/ UNCHANGED vars
      PROVE  PoolInv'
  <2>1. UNCHANGED <<all, dl, saved, taken, applied>>
        BY <1>7 DEF Start, Stop, Stopped, PublishWorker, VerificationEpochTx,
                    ConcurrentMapAccess, pool, vars
  <2>2. QED BY <2>1, PoolInvKept
<1>8. QED BY <1>1, <1>2, <1>3, <1>4, <1>5, <1>6, <1>7 DEF Next, CallStep

(* Whatever reads the pool finds the reports it takes in the database, or  *)
(* they were applied already (downLoad saves before it pools).             *)
THEOREM ReportsStored == Spec => []ReportStored
<1>1. PoolInv => ReportStored
      BY DEF PoolInv
<1>2. QED BY PoolInvInit, PoolInvNext, <1>1, PTL DEF Spec

-----------------------------------------------------------------------------
(* The epoch.                                                              *)

(* No loop runs, and nobody stops one.                                     *)
LEMMA EpochInvInit == Init => EpochInv
BY DEF Init, EpochInv, StopperHoldsMu, OneLoop

(* Start, when nobody holds mu: a loop is started if none works.           *)
LEMMA EpochInvStart ==
    ASSUME EpochInv, NEW k \in Controller, Start(k)
    PROVE  EpochInv'
<1>1. /\ mu = {} /\ mu' = mu /\ atWork' = TRUE
      /\ loops' = IF atWork THEN loops ELSE loops + 1
      /\ ctl' = [ctl EXCEPT ![k] = "idle"]
      BY DEF Start, Switch
<1>2. \A j \in Controller : ctl[j] # "stopping"
      BY <1>1 DEF EpochInv, StopperHoldsMu
<1>3. \A j \in Controller : ctl'[j] # "stopping"
      BY <1>1, <1>2 DEF EpochInv
<1>4. OneLoop'
      BY <1>1, SMTT(30) DEF EpochInv, OneLoop
<1>5. QED BY <1>1, <1>3, <1>4 DEF EpochInv, StopperHoldsMu

(* Stop takes mu and waits for the loop, or finds that none works.         *)
LEMMA EpochInvStop ==
    ASSUME EpochInv, NEW k \in Controller, Stop(k)
    PROVE  EpochInv'
<1>1. mu = {} /\ UNCHANGED <<atWork, loops>>
      BY DEF Stop
<1>2. \A j \in Controller : ctl[j] # "stopping"
      BY <1>1 DEF EpochInv, StopperHoldsMu
<1>3. CASE atWork
  <2>1. mu' = {k} /\ ctl' = [ctl EXCEPT ![k] = "stopping"]
        BY <1>3 DEF Stop, Switch
  <2>2. QED BY <1>1, <1>2, <1>3, <2>1 DEF EpochInv, StopperHoldsMu, OneLoop
<1>4. CASE ~atWork
  <2>1. mu' = mu /\ ctl' = [ctl EXCEPT ![k] = "idle"]
        BY <1>4 DEF Stop, Switch
  <2>2. QED BY <1>1, <1>2, <2>1 DEF EpochInv, StopperHoldsMu, OneLoop
<1>5. QED BY <1>3, <1>4

(* The loop returns to the one controller that waits for it.               *)
LEMMA EpochInvStopped ==
    ASSUME EpochInv, NEW k \in Controller, Stopped(k)
    PROVE  EpochInv'
<1>1. /\ ctl[k] = "stopping" /\ loops' = loops - 1 /\ atWork' = FALSE /\ mu' = {}
      /\ ctl' = [ctl EXCEPT ![k] = "idle"]
      BY DEF Stopped, Switch
<1>2. mu = {k} /\ atWork
      BY <1>1 DEF EpochInv, StopperHoldsMu
<1>3. \A j \in Controller : ctl'[j] # "stopping"
      BY <1>1, <1>2 DEF EpochInv, StopperHoldsMu
<1>4. OneLoop'
      BY <1>1, <1>2, SMTT(30) DEF EpochInv, OneLoop
<1>5. QED BY <1>1, <1>3, <1>4 DEF EpochInv, StopperHoldsMu

(* Only Start, Stop and the loop's answer to it change the epoch.          *)
LEMMA EpochInvNext == EpochInv /\ [Next]_vars => EpochInv'
<1> SUFFICES ASSUME EpochInv, [Next]_vars PROVE EpochInv'
    OBVIOUS
<1>1. ASSUME NEW k \in Controller, Start(k) \/ Stop(k) \/ Stopped(k) PROVE EpochInv'
      BY <1>1, EpochInvStart, EpochInvStop, EpochInvStopped
<1>2. ASSUME \/ \E c \in Caller :
                  CallStep(c) \/ RLock(c) \/ \E txs \in Batch : AddTxs(c, txs)
             \/ \E d \in Download : DownloadStep(d) \/ DownloadFails(d)
             \/ \E t \in Report : ApplyReport(t)
             \/ PublishWorker \/ VerificationEpochTx \/ ConcurrentMapAccess
             \/ UNCHANGED vars
      PROVE  EpochInv'
  <2>1. UNCHANGED <<ctl, mu, atWork, loops>>
        BY <1>2 DEF CallStep, Refuse, Accept, AddComplaint, EnqueueTx, Announce, Added,
                    GetAllTx, RemoveTx, RLock, AddTxs, DownloadStep, LockDownload,
                    SaveReport, PoolReport, DownloadFails, ApplyReport, PublishWorker,
                    VerificationEpochTx, ConcurrentMapAccess, epoch, vars
  <2>2. QED BY <2>1 DEF EpochInv, StopperHoldsMu, OneLoop
<1>3. QED BY <1>1, <1>2 DEF Next

(* However often and from however many goroutines the epoch is started and *)
(* stopped, it has one loop while it works and none otherwise.             *)
THEOREM EpochHasOneLoop == Spec => []OneLoop
<1>1. EpochInv => OneLoop
      BY DEF EpochInv
<1>2. QED BY EpochInvInit, EpochInvNext, <1>1, PTL DEF Spec
-----------------------------------------------------------------------------
(* The node.                                                               *)

SomeService == [type : Type, n : Nat, func : Nat]

StartPlace == {"none", "construct", "start", "done", "failed"}

NodeTypes ==
    /\ serviceFuncs \in Seq(Type) /\ services \in Seq(SomeService)
    /\ server \in Nat /\ start \in [n : Nat, at : StartPlace]
    /\ started \subseteq SomeService /\ running \subseteq SomeService
    /\ p2p \subseteq Nat

(* What the last Start has constructed, of the first constructors, and one *)
(* service of a type.                                                      *)
MadeInOrder ==
    /\ \A i \in 1..Len(services) : i \in 1..Len(serviceFuncs) /\ services[i] = Service(i)
    /\ \A i, j \in 1..Len(services) : services[i].type = services[j].type => i = j

(* Nothing runs that is of a later Start, and of the last one what it has  *)
(* started, unless it failed.                                              *)
RunsStarted ==
    /\ started \subseteq Constructed
    /\ \A s \in running : s.n <= start.n
    /\ \A s \in running : s.n = start.n => s \in started
    /\ start.at \in {"start", "done"} => started \subseteq running
    /\ start.at \in {"construct", "failed"} => \A s \in running : s.n # start.n
    /\ start.at = "construct" => started = {}

ServersRun ==
    /\ \A n \in p2p : n <= start.n
    /\ start.at \in {"construct", "failed"} => start.n \notin p2p
    /\ start.at = "start" => start.n \in p2p

WholeNode ==
    /\ start.at = "start" => Len(services) = Len(serviceFuncs)
    /\ server # 0 => /\ start.at = "done" /\ server = start.n /\ server \in p2p
                     /\ Len(services) = Len(serviceFuncs) /\ started = Constructed

OneOfAType == \A s, r \in running : (s.n = r.n /\ s.type = r.type) => s = r

NodeInv ==
    NodeTypes /\ MadeInOrder /\ RunsStarted /\ ServersRun /\ WholeNode /\ OneOfAType
(* A node that was never started.                                          *)
LEMMA NodeInvInit == NodeInit => NodeInv
BY SMTT(30) DEF NodeInit, NodeInv, NodeTypes, MadeInOrder, RunsStarted, ServersRun, WholeNode,
       OneOfAType, StartPlace, Constructed

(* Constructed has the services of the sequence, and their places and      *)
(* types come from the constructors.                                       *)
LEMMA ConstructedServices ==
    ASSUME NodeTypes
    PROVE  /\ Len(services) \in Nat /\ Len(serviceFuncs) \in Nat
           /\ Constructed = {services[i] : i \in 1..Len(services)}
           /\ Constructed \subseteq SomeService
           /\ start.n \in Nat /\ start.at \in StartPlace
BY SMTT(30) DEF NodeTypes, Constructed

(* Register, between a Stop and the next Start: the constructors that made *)
(* the services keep their places.                                         *)
LEMMA NodeInvRegister ==
    ASSUME NodeInv, NEW t \in Type, Register(t) PROVE NodeInv'
<1> USE DEF NodeInv
<1>1. /\ Idle /\ server = 0 /\ serviceFuncs' = Append(serviceFuncs, t)
      /\ UNCHANGED <<server, start, services, started, running, p2p>>
  BY DEF Register
<1>2. /\ Len(serviceFuncs) \in Nat /\ Len(serviceFuncs') = Len(serviceFuncs) + 1
      /\ serviceFuncs' \in Seq(Type)
      /\ \A i \in 1..Len(serviceFuncs) :
            i \in 1..Len(serviceFuncs') /\ serviceFuncs'[i] = serviceFuncs[i]
  BY <1>1, SMTT(30) DEF NodeTypes
<1>3. NodeTypes'
  BY <1>1, <1>2 DEF NodeTypes
<1>4. MadeInOrder'
  BY <1>1, <1>2 DEF MadeInOrder, Service
<1>5. RunsStarted' /\ ServersRun' /\ OneOfAType'
  BY <1>1 DEF RunsStarted, ServersRun, OneOfAType, Constructed
<1>6. WholeNode'
  BY <1>1 DEF WholeNode, Idle
<1> QED BY <1>3, <1>4, <1>5, <1>6

(* Start begins: nothing of it runs yet, as no Start had its number.       *)
LEMMA NodeInvStart ==
    ASSUME NodeInv, StartNode PROVE NodeInv'
<1> USE DEF NodeInv
<1>1. /\ server = 0 /\ start' = [n |-> start.n + 1, at |-> "construct"]
      /\ services' = <<>> /\ started' = {}
      /\ UNCHANGED <<serviceFuncs, server, running, p2p>>
  BY DEF StartNode
<1>2. start.n \in Nat /\ start'.n = start.n + 1 /\ start'.at = "construct"
  BY <1>1 DEF NodeTypes
<1>3. NodeTypes'
  BY <1>1, <1>2, SMTT(30) DEF NodeTypes, StartPlace
<1>4. MadeInOrder'
  BY <1>1, SMTT(30) DEF MadeInOrder
<1>5. RunsStarted'
  <2>1. \A s \in running : s.n \in Nat /\ s.n <= start.n
    BY DEF NodeTypes, SomeService, RunsStarted
  <2>2. \A s \in running : s.n <= start'.n /\ s.n # start'.n
    BY <1>2, <2>1, SMTT(30)
  <2> QED BY <1>1, <1>2, <2>2 DEF RunsStarted
<1>6. ServersRun'
  <2>1. \A n \in p2p : n \in Nat /\ n <= start.n
    BY DEF NodeTypes, ServersRun
  <2>2. (\A n \in p2p : n <= start'.n) /\ start'.n \notin p2p
    BY <1>2, <2>1, SMTT(30)
  <2> QED BY <1>1, <1>2, <2>2 DEF ServersRun
<1>7. WholeNode' /\ OneOfAType'
  BY <1>1, <1>2 DEF WholeNode, OneOfAType
<1> QED BY <1>3, <1>4, <1>5, <1>6, <1>7

(* A constructor is called and its service's type is new.                  *)
LEMMA NodeInvConstruct ==
    ASSUME NodeInv, Construct PROVE NodeInv'
<1> USE DEF NodeInv
<1> DEFINE k == Len(services) + 1
           s == Service(k)
<1>1. /\ start.at = "construct" /\ Len(services) < Len(serviceFuncs)
      /\ \A i \in 1..Len(services) : services[i].type # s.type
      /\ services' = Append(services, s)
      /\ UNCHANGED <<serviceFuncs, server, start, started, running, p2p>>
  BY SMTT(30) DEF Construct, NodeTypes
<1>2. /\ k \in 1..Len(serviceFuncs) /\ serviceFuncs[k] \in Type /\ start.n \in Nat
      /\ Len(services) \in Nat
  BY <1>1, SMTT(30) DEF NodeTypes
<1>3. s \in SomeService
  BY <1>2, SMTT(30) DEF Service, SomeService
<1>4. /\ services' \in Seq(SomeService) /\ Len(services') = k /\ services'[k] = s
      /\ \A i \in 1..Len(services) : services'[i] = services[i]
      /\ \A i \in 1..k : i \in 1..Len(services) \/ i = k
  BY <1>1, <1>2, <1>3, SMTT(30) DEF NodeTypes
<1>5. NodeTypes'
  BY <1>1, <1>4 DEF NodeTypes
<1>6. \A i : Service(i)' = Service(i)
  BY <1>1 DEF Service
<1> HIDE DEF s
<1>7. MadeInOrder'
  <2>1. \A i \in 1..k : i \in 1..Len(serviceFuncs) /\ services'[i] = Service(i)
    BY <1>2, <1>4 DEF MadeInOrder, s
  <2>2. ASSUME NEW i \in 1..k, NEW j \in 1..k, services'[i].type = services'[j].type
        PROVE  i = j
    <3>1. CASE i = k /\ j = k
      BY <3>1
    <3>2. CASE i = k /\ j \in 1..Len(services)
      BY <1>1, <1>4, <2>2, <3>2
    <3>3. CASE j = k /\ i \in 1..Len(services)
      BY <1>1, <1>4, <2>2, <3>3
    <3>4. CASE i \in 1..Len(services) /\ j \in 1..Len(services)
      BY <1>4, <2>2, <3>4 DEF MadeInOrder
    <3> QED BY <1>4, <3>1, <3>2, <3>3, <3>4
  <2> QED BY <1>1, <1>4, <1>6, <2>1, <2>2 DEF MadeInOrder
<1>8. RunsStarted'
  BY <1>1 DEF RunsStarted
<1>9. ServersRun' /\ WholeNode' /\ OneOfAType'
  BY <1>1 DEF ServersRun, WholeNode, OneOfAType
<1> QED BY <1>5, <1>7, <1>8, <1>9

(* A Start that fails before its services run leaves nothing to undo.      *)
LEMMA NodeInvFails ==
    ASSUME NodeInv, ConstructFails \/ StartServerFails PROVE NodeInv'
<1> USE DEF NodeInv
<1>1. /\ start.at = "construct" /\ start' = [start EXCEPT !.at = "failed"]
      /\ UNCHANGED <<serviceFuncs, server, services, started, running, p2p>>
  BY DEF ConstructFails, StartServerFails, GotoPlace
<1>2. start'.at = "failed" /\ start'.n = start.n /\ start.n \in Nat
      /\ start' \in [n : Nat, at : StartPlace]
  BY <1>1 DEF NodeTypes, StartPlace
<1>3. NodeTypes' /\ MadeInOrder'
  BY <1>1, <1>2 DEF NodeTypes, MadeInOrder, Service
<1>4. RunsStarted' /\ ServersRun' /\ WholeNode' /\ OneOfAType'
  BY <1>1, <1>2 DEF RunsStarted, ServersRun, WholeNode, OneOfAType, Constructed
<1> QED BY <1>3, <1>4

(* The p2p server runs when all constructors were called.                  *)
LEMMA NodeInvServer ==
    ASSUME NodeInv, StartServer PROVE NodeInv'
<1> USE DEF NodeInv
<1>1. /\ start.at = "construct" /\ start' = [start EXCEPT !.at = "start"]
      /\ Len(services) = Len(serviceFuncs) /\ p2p' = p2p \cup {start.n}
      /\ UNCHANGED <<serviceFuncs, server, services, started, running>>
  BY DEF StartServer, GotoPlace
<1>2. start'.at = "start" /\ start'.n = start.n /\ start.n \in Nat /\ start.n <= start.n
      /\ start' \in [n : Nat, at : StartPlace]
  BY <1>1, SMTT(30) DEF NodeTypes, StartPlace
<1>3. NodeTypes' /\ MadeInOrder'
  BY <1>1, <1>2 DEF NodeTypes, MadeInOrder, Service
<1>4. RunsStarted' /\ WholeNode' /\ OneOfAType'
  BY <1>1, <1>2 DEF RunsStarted, WholeNode, OneOfAType, Constructed
<1>5. ServersRun'
  BY <1>1, <1>2 DEF ServersRun
<1> QED BY <1>3, <1>4, <1>5

(* A service is started: it is the only one of its type.                   *)
LEMMA NodeInvService ==
    ASSUME NodeInv, NEW s, StartService(s) PROVE NodeInv'
<1> USE DEF NodeInv
<1>1. /\ start.at = "start" /\ s \in Constructed
      /\ started' = started \cup {s} /\ running' = running \cup {s}
      /\ UNCHANGED <<serviceFuncs, server, start, services, p2p>>
  BY DEF StartService
<1>2. /\ start.n \in Nat /\ start.n <= start.n /\ s \in SomeService
      /\ Constructed' = Constructed /\ server = 0
  BY <1>1, ConstructedServices, SMTT(30) DEF Constructed, WholeNode
<1>3. \A r \in Constructed : r.n = start.n
                             /\ \A q \in Constructed : r.type = q.type => r = q
  <2> SUFFICES ASSUME NEW i \in 1..Len(services), NEW j \in 1..Len(services)
               PROVE  /\ services[i].n = start.n
                      /\ services[i].type = services[j].type => services[i] = services[j]
    BY ConstructedServices, SMTT(30)
  <2>1. services[i].type = services[j].type => i = j
    BY DEF MadeInOrder
  <2>2. services[i] = Service(i)
    BY DEF MadeInOrder
  <2>3. services[i].n = start.n
    BY <2>2, SMTT(30) DEF Service
  <2> QED BY <2>1, <2>3
<1>4. NodeTypes' /\ MadeInOrder'
  BY <1>1, <1>2 DEF NodeTypes, MadeInOrder, Service
<1>5. RunsStarted'
  BY <1>1, <1>2, <1>3 DEF RunsStarted
<1>6. ServersRun' /\ WholeNode'
  BY <1>1, <1>2 DEF ServersRun, WholeNode
<1>7. OneOfAType'
  <2> SUFFICES ASSUME NEW r \in running, r.n = s.n, r.type = s.type PROVE r = s
    BY <1>1 DEF OneOfAType
  <2>1. r \in Constructed
    BY <1>1, <1>3 DEF RunsStarted
  <2> QED BY <1>1, <1>3, <2>1
<1> QED BY <1>4, <1>5, <1>6, <1>7

(* A service that does not start takes those before it down.               *)
LEMMA NodeInvServiceFails ==
    ASSUME NodeInv, NEW s, StartServiceFails(s) PROVE NodeInv'
<1> USE DEF NodeInv
<1>1. /\ start.at = "start" /\ start' = [start EXCEPT !.at = "failed"]
      /\ running' = running \ started /\ p2p' = p2p \ {start.n}
      /\ UNCHANGED <<serviceFuncs, server, services, started>>
  BY DEF StartServiceFails, StopStarted, GotoPlace
<1>2. start'.at = "failed" /\ start'.n = start.n /\ start.n \in Nat
      /\ start' \in [n : Nat, at : StartPlace]
  BY <1>1 DEF NodeTypes, StartPlace
<1>3. NodeTypes' /\ MadeInOrder'
  BY <1>1, <1>2 DEF NodeTypes, MadeInOrder, Service
<1>4. RunsStarted' /\ OneOfAType'
  BY <1>1, <1>2 DEF RunsStarted, OneOfAType, Constructed
<1>5. ServersRun' /\ WholeNode'
  BY <1>1, <1>2 DEF ServersRun, WholeNode
<1> QED BY <1>3, <1>4, <1>5

(* Start returns, and Stop takes the p2p server away.                      *)
LEMMA NodeInvDone ==
    ASSUME NodeInv, StartDone \/ StopNode PROVE NodeInv'
<1> USE DEF NodeInv
<1>1. CASE StartDone
  <2>1. /\ start.at = "start" /\ start' = [start EXCEPT !.at = "done"]
        /\ started = Constructed /\ server' = start.n
        /\ UNCHANGED <<serviceFuncs, services, started, running, p2p>>
    BY <1>1 DEF StartDone, GotoPlace
  <2>2. start'.at = "done" /\ start'.n = start.n /\ start.n \in Nat
        /\ start' \in [n : Nat, at : StartPlace]
    BY <2>1 DEF NodeTypes, StartPlace
  <2>3. NodeTypes' /\ MadeInOrder'
    BY <2>1, <2>2 DEF NodeTypes, MadeInOrder, Service
  <2>4. RunsStarted' /\ OneOfAType'
    BY <2>1, <2>2 DEF RunsStarted, OneOfAType, Constructed
  <2>5. ServersRun' /\ WholeNode'
    BY <2>1, <2>2 DEF ServersRun, WholeNode, Constructed
  <2> QED BY <2>3, <2>4, <2>5
<1>2. CASE StopNode
  <2>1. /\ server # 0 /\ server' = 0 /\ p2p' = p2p \ {server}
        /\ UNCHANGED <<serviceFuncs, start, services, started, running>>
    BY <1>2 DEF StopNode
  <2>2. start.at = "done"
    BY <2>1 DEF WholeNode
  <2>3. NodeTypes' /\ MadeInOrder'
    BY <2>1 DEF NodeTypes, MadeInOrder, Service
  <2>4. RunsStarted' /\ OneOfAType'
    BY <2>1 DEF RunsStarted, OneOfAType, Constructed
  <2>5. ServersRun' /\ WholeNode'
    BY <2>1, <2>2 DEF ServersRun, WholeNode
  <2> QED BY <2>3, <2>4, <2>5
<1> QED BY <1>1, <1>2

(* Every step of the node; Wait and the steps of others change nothing of  *)
(* it.                                                                     *)
LEMMA NodeInvNext == NodeInv /\ [NodeNext]_nodevars => NodeInv'
<1> SUFFICES ASSUME NodeInv, [NodeNext]_nodevars PROVE NodeInv'
  OBVIOUS
<1>1. ASSUME (\E w \in Waiter : Wait(w)) \/ UNCHANGED nodevars PROVE NodeInv'
  <2>1. UNCHANGED <<serviceFuncs, server, start, services, started, running, p2p>>
    BY <1>1 DEF Wait, nodevars
  <2>2. NodeTypes' /\ MadeInOrder'
    BY <2>1 DEF NodeInv, NodeTypes, MadeInOrder, Service
  <2>3. RunsStarted' /\ ServersRun' /\ WholeNode' /\ OneOfAType'
    BY <2>1 DEF NodeInv, RunsStarted, ServersRun, WholeNode, OneOfAType, Constructed
  <2> QED BY <2>2, <2>3 DEF NodeInv
<1> QED BY <1>1, NodeInvRegister, NodeInvStart, NodeInvConstruct, NodeInvFails, NodeInvServer,
           NodeInvService, NodeInvServiceFails, NodeInvDone DEF NodeNext, StartStep

(* What the invariant says of a node that runs or failed to start.         *)
LEMMA NodeInvStartsWhole == NodeInv => StartsWhole
<1> SUFFICES ASSUME NodeInv PROVE StartsWhole
  OBVIOUS
<1> USE DEF NodeInv
<1>1. ASSUME server # 0, NEW i \in DOMAIN serviceFuncs
      PROVE  \E s \in running : s.n = server /\ s.func = i
  <2>1. i \in 1..Len(services)
    BY <1>1, SMTT(30) DEF NodeTypes, WholeNode
  <2>2. services[i] \in running
    BY <1>1, <2>1, ConstructedServices DEF WholeNode, RunsStarted
  <2>3. services[i] = Service(i) /\ server = start.n
    BY <1>1, <2>1 DEF MadeInOrder, WholeNode
  <2>4. services[i].n = server /\ services[i].func = i
    BY <2>3, SMTT(30) DEF Service
  <2> QED BY <2>2, <2>4
<1>2. server # 0 => server \in p2p
  BY DEF WholeNode
<1>3. start.at = "failed" => start.n \notin p2p /\ \A s \in running : s.n # start.n
  BY DEF RunsStarted, ServersRun
<1> QED BY <1>1, <1>2, <1>3 DEF StartsWhole, OneOfAType

(* Starting and stopping is exact, however many services and controllers   *)
(* there are: Start of the node is all or nothing, at whichever service it *)
(* fails, and the epoch has one loop while it is at work.                  *)
THEOREM StartAndStopExact == MCSpec => []StartStopExact
<1>1. MCInit => EpochInv /\ NodeInv
  BY EpochInvInit, NodeInvInit DEF MCInit
<1>2. [MCNext]_<<vars, nodevars, msgvars, part>> => [Next]_vars /\ [NodeNext]_nodevars
  BY DEF MCNext
<1>3. EpochInv /\ NodeInv => StartStopExact
  BY NodeInvStartsWhole DEF EpochInv, StartStopExact
<1> QED BY <1>1, <1>2, <1>3, EpochInvNext, NodeInvNext, PTL DEF MCSpec

-----------------------------------------------------------------------------
(* Queues: sequences with elements in S.                                   *)

LEMMA EmptyQueue ==
    ASSUME NEW S
    PROVE  /\ <<>> \in Seq(S) /\ Len(<<>>) = 0 /\ Len(<<>>) <= 1
           /\ \A q \in Seq(S) : <<>> \o q = q /\ (q # <<>> => Len(q) \in Nat \ {0})
BY SMTT(30)

LEMMA OneInQueue ==
    ASSUME NEW S, NEW e \in S
    PROVE  <<e>> \in Seq(S) /\ Len(<<e>>) = 1 /\ Len(<<e>>) <= 1 /\ Tail(<<e>>) = <<>>
BY SMTT(30)

LEMMA Joined ==
    ASSUME NEW S, NEW p \in Seq(S), NEW q \in Seq(S)
    PROVE  /\ p \o q \in Seq(S) /\ Len(p \o q) = Len(p) + Len(q)
           /\ \A i \in 1..Len(p) + Len(q) :
                (p \o q)[i] = IF i <= Len(p) THEN p[i] ELSE q[i - Len(p)]
BY SMTT(30)

LEMMA EqualQueues ==
    ASSUME NEW S, NEW p \in Seq(S), NEW q \in Seq(S),
           Len(p) = Len(q), \A i \in 1..Len(p) : p[i] = q[i]
    PROVE  p = q
BY SMTT(30)

LEMMA Appended ==
    ASSUME NEW S, NEW q \in Seq(S), NEW e \in S
    PROVE  Append(q, e) \in Seq(S) /\ Append(q, e) = q \o <<e>>
<1>1. Append(q, e) \in Seq(S) /\ q \o <<e>> \in Seq(S)
  BY SMTT(30)
<1>2. Len(Append(q, e)) = Len(q \o <<e>>)
  BY SMTT(30)
<1>3. \A i \in 1..Len(Append(q, e)) : Append(q, e)[i] = (q \o <<e>>)[i]
  BY SMTT(30)
<1> QED BY <1>1, <1>2, <1>3, EqualQueues

LEMMA JoinedTwice ==
    ASSUME NEW S, NEW p \in Seq(S), NEW q \in Seq(S), NEW r \in Seq(S)
    PROVE  (p \o q) \o r = p \o (q \o r)
<1> DEFINE x == (p \o q) \o r
           y == p \o (q \o r)
<1>1. x \in Seq(S) /\ y \in Seq(S)
  BY SMTT(30)
<1>2. Len(x) = Len(y)
  BY SMTT(30)
<1>3. ASSUME NEW i \in 1..Len(x) PROVE x[i] = y[i]
  BY SMTT(30)
<1> HIDE DEF x, y
<1>4. x = y
  BY <1>1, <1>2, <1>3, EqualQueues
<1> QED BY <1>4 DEF x, y

-----------------------------------------------------------------------------
(* The servers of messages.                                                *)

Msg == Server \X Nat

Link == {"none", "marked", "set", "greeted"}

TcpServer ==
    [atWork : BOOLEAN, subs : Nat, starting : BOOLEAN, listens : BOOLEAN,
     link : Link, closed : BOOLEAN, senders : Int, sendMsgCh : Int,
     stream : Seq(Msg), wrote : Nat, held : Seq(Msg), pending : Seq(Msg),
     got : Seq(Msg)]

TcpServerManage ==
    [atWork : BOOLEAN, stopping : BOOLEAN, starts : Nat, stopped : BOOLEAN,
     reveivechan : Seq(Msg), loops : Seq(Seq(Msg))]

ServersTyped == tcp \in [Server -> TcpServer] /\ tsm \in TcpServerManage

(* A manager that was never stopped was started once or not at all: it has *)
(* one receiveloop and one subscription to every server, or nothing has    *)
(* happened yet.                                                           *)
OneReceiver ==
    /\ ~tsm.stopping
    /\ Len(tsm.loops) = IF tsm.atWork THEN 1 ELSE 0
    /\ \A s \in Server : tcp[s].subs = Len(tsm.loops)
    /\ ~tsm.atWork => /\ tsm.reveivechan = <<>>
                      /\ \A s \in Server : /\ ~tcp[s].starting /\ ~tcp[s].listens
                                           /\ tcp[s].link = "none"

(* clientHandle has one message in hand, which it is about to send or is   *)
(* sending; so has the receiveloop.                                        *)
OneInHand ==
    /\ \A i \in DOMAIN tsm.loops : Len(tsm.loops[i]) <= 1
    /\ \A s \in Server : /\ Len(tcp[s].held) <= 1
                         /\ Len(tcp[s].pending) <= 1
                         /\ tcp[s].held # <<>> => tcp[s].pending = <<>>
                         /\ tcp[s].link = "none" =>
                              tcp[s].held = <<>> /\ tcp[s].pending = <<>>

(* What a server has was written by its own client.                        *)
OwnMessages ==
    \A s \in Server : /\ tcp[s].stream \in Seq({s} \X Nat)
                      /\ tcp[s].held \in Seq({s} \X Nat)
                      /\ tcp[s].pending \in Seq({s} \X Nat)

ServersInv ==
    /\ ServersTyped
    /\ ~tsm.stopped => OneReceiver /\ OneInHand /\ OwnMessages /\ MessagesForwarded

(* Messages of others do not matter, wherever they are.                    *)
LEMMA OthersPass ==
    ASSUME NEW x \in Seq(Msg), NEW y \in Seq(Msg), NEW m \in Msg,
           NEW s \in Server, NEW n \in Nat, m[1] # s
    PROVE  InOrder(x \o y, s, n) <=> InOrder(x \o (<<m>> \o y), s, n)
<1> DEFINE a == x \o y
           b == x \o (<<m>> \o y)
           k == Len(x)
           Mine(z) == {p \in DOMAIN z : z[p][1] = s}
<1>1. /\ k \in Nat /\ Len(y) \in Nat
      /\ DOMAIN a = 1..k + Len(y) /\ DOMAIN b = 1..k + 1 + Len(y)
      /\ \A p \in 1..k : a[p] = x[p] /\ b[p] = x[p]
      /\ b[k + 1] = m
      /\ \A p \in 1..Len(y) : a[k + p] = y[p] /\ b[k + 1 + p] = y[p]
  BY SMTT(30)
<1>2. \A p \in DOMAIN a : a[p][2] \in Nat
  <2>1. a \in Seq(Msg)
    BY SMTT(30)
  <2>2. \A p \in DOMAIN a : a[p] \in Msg
    BY <2>1, SMTT(30)
  <2> QED BY <2>2, SMTT(30) DEF Msg
<1> HIDE DEF a, b, k
<1> DEFINE Up(p) == IF p <= k THEN p ELSE p + 1
             Down(p) == IF p <= k THEN p ELSE p - 1
<1>3. \A p \in Mine(a) : Up(p) \in Mine(b) /\ b[Up(p)] = a[p]
  <2> SUFFICES ASSUME NEW p \in Mine(a)
               PROVE  Up(p) \in DOMAIN b /\ b[Up(p)] = a[p]
    BY Zenon
  <2>1. CASE p <= k
    BY <1>1, <2>1, SMTT(30)
  <2>2. CASE ~(p <= k)
    <3>1. p \in Int /\ p - k \in 1..Len(y) /\ k + (p - k) = p
          /\ k + 1 + (p - k) = p + 1
      BY <1>1, <2>2, SMTT(30)
    <3>2. a[p] = y[p - k] /\ b[p + 1] = y[p - k]
      BY <1>1, <3>1
    <3> QED BY <1>1, <2>2, <3>1, <3>2, SMTT(30)
  <2> QED BY <2>1, <2>2
<1>4. \A p \in Mine(b) : Down(p) \in Mine(a) /\ a[Down(p)] = b[p] /\ p # k + 1
  <2> SUFFICES ASSUME NEW p \in Mine(b)
               PROVE  Down(p) \in DOMAIN a /\ a[Down(p)] = b[p] /\ p # k + 1
    BY Zenon
  <2>0. p # k + 1
    BY <1>1
  <2>1. CASE p <= k
    BY <1>1, <2>0, <2>1, SMTT(30)
  <2>2. CASE ~(p <= k)
    <3>0. k \in Nat /\ Len(y) \in Nat /\ p \in 1..k + 1 + Len(y)
      BY <1>1
    <3>1. p \in Int /\ p - 1 - k \in 1..Len(y) /\ k + (p - 1 - k) = p - 1
          /\ k + 1 + (p - 1 - k) = p
      BY <2>0, <2>2, <3>0, SMTT(30)
    <3>2. b[p] = y[p - 1 - k] /\ a[p - 1] = y[p - 1 - k]
      BY <1>1, <3>1
    <3>3. Down(p) = p - 1 /\ p - 1 \in DOMAIN a
      BY <1>1, <2>2, <3>1, SMTT(30)
    <3> QED BY <2>0, <3>2, <3>3
  <2> QED BY <2>1, <2>2
<1>5. \A p, q \in Mine(a) : p < q <=> Up(p) < Up(q)
  BY <1>1, SMTT(30)
<1>6. \A p, q \in Mine(b) : p < q => Down(p) < Down(q)
  <2> SUFFICES ASSUME NEW p \in Mine(b), NEW q \in Mine(b), p < q
               PROVE  Down(p) < Down(q)
    BY Zenon
  <2>1. p # k + 1 /\ q # k + 1 /\ p \in Int /\ q \in Int
    BY <1>1, <1>4, SMTT(30)
  <2> QED BY <1>1, <2>1, SMTT(30)
<1> HIDE DEF Up, Down
<1>7. {a[p][2] : p \in Mine(a)} = {b[p][2] : p \in Mine(b)}
  <2>1. \A p \in Mine(a) : \E q \in Mine(b) : b[q][2] = a[p][2]
    BY <1>3
  <2>2. \A p \in Mine(b) : \E q \in Mine(a) : a[q][2] = b[p][2]
    BY <1>4
  <2> HIDE DEF Mine
  <2> QED BY <2>1, <2>2, SMTT(30)
<1>8. (\A p, q \in Mine(a) : p < q => a[p][2] < a[q][2])
        <=> (\A p, q \in Mine(b) : p < q => b[p][2] < b[q][2])
  <2>1. ASSUME \A p, q \in Mine(a) : p < q => a[p][2] < a[q][2],
               NEW p \in Mine(b), NEW q \in Mine(b), p < q
        PROVE  b[p][2] < b[q][2]
    <3>1. Down(p) \in Mine(a) /\ Down(q) \in Mine(a) /\ Down(p) < Down(q)
      BY <1>4, <1>6, <2>1
    <3> QED BY <1>4, <2>1, <3>1
  <2>2. ASSUME \A p, q \in Mine(b) : p < q => b[p][2] < b[q][2],
               NEW p \in Mine(a), NEW q \in Mine(a), p < q
        PROVE  a[p][2] < a[q][2]
    <3>1. Up(p) \in Mine(b) /\ Up(q) \in Mine(b) /\ Up(p) < Up(q)
      BY <1>3, <1>5, <2>2
    <3> QED BY <1>3, <2>2, <3>1
  <2> QED BY <2>1, <2>2, Zenon
<1>9. \A z : InOrder(z, s, n) <=> /\ {z[p][2] : p \in Mine(z)} = 1..n
                                  /\ \A p, q \in Mine(z) : p < q => z[p][2] < z[q][2]
  BY DEF InOrder
<1> HIDE DEF Mine
<1>10. InOrder(a, s, n) <=> InOrder(b, s, n)
  BY <1>7, <1>8, <1>9
<1> QED BY <1>10 DEF a, b

(* The next message of the client is behind the others.                    *)
LEMMA NextWritten ==
    ASSUME NEW x \in Seq(Msg), NEW s \in Server, NEW n \in Nat, InOrder(x, s, n)
    PROVE  InOrder(x \o <<<<s, n + 1>>>>, s, n + 1)
<1> DEFINE m == <<s, n + 1>>
           b == x \o <<m>>
           k == Len(x)
           Mine(z) == {p \in DOMAIN z : z[p][1] = s}
<1>1. /\ k \in Nat /\ DOMAIN x = 1..k /\ DOMAIN b = 1..k + 1
      /\ b[k + 1] = m /\ \A p \in 1..k : b[p] = x[p]
  BY SMTT(30)
<1>2. m[1] = s /\ m[2] = n + 1
  BY SMTT(30)
<1>3. /\ {x[p][2] : p \in Mine(x)} = 1..n
      /\ \A p, q \in Mine(x) : p < q => x[p][2] < x[q][2]
  BY DEF InOrder
<1> HIDE DEF b, k, m
<1>4. /\ \A p \in Mine(x) : p \in Mine(b) /\ b[p] = x[p] /\ p < k + 1
      /\ \A p \in Mine(b) : p = k + 1 \/ (p \in Mine(x) /\ p < k + 1)
      /\ k + 1 \in Mine(b)
  BY <1>1, <1>2, SMTT(30)
<1>5. \A p \in Mine(x) : x[p][2] \in 1..n
  BY <1>3, Zenon
<1>6. {b[p][2] : p \in Mine(b)} = 1..n + 1
  <2>1. ASSUME NEW p \in Mine(b) PROVE b[p][2] \in 1..n + 1
    <3>1. CASE p = k + 1
      BY <1>1, <1>2, <3>1, SMTT(30)
    <3>2. CASE p \in Mine(x)
      <4>1. b[p][2] = x[p][2] /\ x[p][2] \in 1..n
        BY <1>4, <1>5, <3>2
      <4> QED BY <4>1, SMTT(30)
    <3> QED BY <1>4, <3>1, <3>2
  <2>2. ASSUME NEW i \in 1..n + 1 PROVE \E p \in Mine(b) : b[p][2] = i
    <3>1. CASE i = n + 1
      BY <1>1, <1>2, <1>4, <3>1
    <3>2. CASE i # n + 1
      <4>1. i \in 1..n
        BY <3>2, SMTT(30)
      <4>2. PICK p \in Mine(x) : x[p][2] = i
        BY <1>3, <4>1, Zenon
      <4> QED BY <1>4, <4>2
    <3> QED BY <3>1, <3>2
  <2> QED BY <2>1, <2>2, Zenon
<1>7. ASSUME NEW p \in Mine(b), NEW q \in Mine(b), p < q
      PROVE  b[p][2] < b[q][2]
  <2>1. p \in Int /\ q \in Int /\ p <= k + 1 /\ q <= k + 1
    BY <1>1, SMTT(30)
  <2>2. p # k + 1
    BY <1>1, <1>7, <2>1, SMTT(30)
  <2>3. p \in Mine(x)
    BY <1>4, <2>2
  <2>4. CASE q = k + 1
    <3>1. b[q][2] = n + 1 /\ b[p][2] \in 1..n
      BY <1>1, <1>2, <1>4, <1>5, <2>3, <2>4
    <3> QED BY <3>1, SMTT(30)
  <2>5. CASE q \in Mine(x)
    BY <1>3, <1>4, <1>7, <2>3, <2>5
  <2> QED BY <1>4, <2>4, <2>5
<1>8. InOrder(b, s, n + 1)
  BY <1>6, <1>7 DEF InOrder
<1> QED BY <1>8 DEF b, m

(* What no receiveloop, and one receiveloop, has in hand.                  *)
LEMMA InHandOfOne ==
    ASSUME NEW z \in Seq(Seq(Msg))
    PROVE  /\ Len(z) = 0 => InHand(z) = <<>>
           /\ Len(z) = 1 => InHand(z) = z[1]
<1> DEFINE Is(h) == h = [n \in 0..Len(z) |-> IF n = 0 THEN <<>> ELSE h[n - 1] \o z[n]]
           h == CHOOSE h : Is(h)
           w == [n \in 0..Len(z) |-> IF n = 0 THEN <<>> ELSE z[1]]
<1>1. ASSUME Len(z) \in {0, 1} PROVE Is(h)
  <2>1. /\ 0 \in 0..Len(z) /\ \A n \in 0..Len(z) : n # 0 => n = 1 /\ n - 1 = 0
        /\ \A n \in 0..Len(z) : n # 0 => <<>> \o z[1] = z[1]
    BY <1>1, SMTT(30)
  <2>2. w[0] = <<>>
    BY <2>1
  <2>3. \A n \in 0..Len(z) : w[n] = IF n = 0 THEN <<>> ELSE w[n - 1] \o z[n]
    BY <2>1, <2>2
  <2>4. Is(w)
    BY <2>3
  <2> QED BY <2>4
<1>2. InHand(z) = h[Len(z)]
  BY DEF InHand
<1> HIDE DEF h
<1>3. ASSUME Len(z) = 0 PROVE InHand(z) = <<>>
  BY <1>1, <1>2, <1>3, SMTT(30)
<1>4. ASSUME Len(z) = 1 PROVE InHand(z) = z[1]
  <2>1. 0 \in 0..Len(z) /\ 1 \in 0..Len(z) /\ 1 - 1 = 0 /\ 1 # 0
        /\ <<>> \o z[1] = z[1]
    BY <1>4, SMTT(30)
  <2>2. h[0] = <<>> /\ h[1] = h[1 - 1] \o z[1]
    BY <1>1, <1>4, <2>1
  <2> QED BY <1>2, <1>4, <2>1, <2>2
<1> QED BY <1>3, <1>4

(* The first message of a queue and the others.                            *)
LEMMA HeadThenTail ==
    ASSUME NEW x \in Seq(Msg), x # <<>>
    PROVE  Head(x) \in Msg /\ Tail(x) \in Seq(Msg) /\ <<Head(x)>> \o Tail(x) = x
<1>1. /\ Head(x) \in Msg /\ Tail(x) \in Seq(Msg) /\ Len(Tail(x)) = Len(x) - 1
      /\ \A i \in 1..Len(Tail(x)) : Tail(x)[i] = x[i + 1]
      /\ Head(x) = x[1] /\ Len(x) \in Nat
  BY SMTT(30)
<1> DEFINE t == Tail(x)
           h == <<x[1]>>
           z == h \o t
<1>2. h \in Seq(Msg) /\ Len(h) = 1 /\ h[1] = x[1]
  BY <1>1, SMTT(30)
<1> HIDE DEF t, h
<1>3. /\ z \in Seq(Msg) /\ Len(z) = Len(h) + Len(t)
      /\ \A i \in 1..Len(h) + Len(t) :
           z[i] = IF i <= Len(h) THEN h[i] ELSE t[i - Len(h)]
  <2>1. t \in Seq(Msg)
    BY <1>1 DEF t
  <2> QED BY <1>2, <2>1, Joined
<1>4. Len(z) = Len(x)
  BY <1>1, <1>2, <1>3, SMTT(30) DEF t
<1>5. ASSUME NEW i \in 1..Len(x) PROVE z[i] = x[i]
  <2>1. CASE i = 1
    BY <1>1, <1>2, <1>3, <1>4, <2>1, SMTT(30)
  <2>2. CASE i # 1
    <3>1. i - 1 \in 1..Len(t) /\ (i - 1) + 1 = i /\ ~(i <= 1)
      BY <1>1, <2>2, SMTT(30) DEF t
    <3>2. z[i] = t[i - 1]
      BY <1>2, <1>3, <1>4, <3>1
    <3>3. t[i - 1] = x[(i - 1) + 1]
      BY <1>1, <3>1 DEF t
    <3> QED BY <3>1, <3>2, <3>3
  <2> QED BY <2>1, <2>2
<1> HIDE DEF z
<1>6. z = x
  BY <1>3, <1>4, <1>5, EqualQueues
<1> QED BY <1>1, <1>6 DEF z, h, t

(* A queue of one message.                                                 *)
LEMMA OneMessage ==
    ASSUME NEW x \in Seq(Msg), Len(x) <= 1, x # <<>>
    PROVE  x[1] \in Msg /\ x = <<x[1]>> /\ Tail(x) = <<>>
<1>0. Len(x) \in Nat \ {0}
  BY EmptyQueue
<1>1. Len(x) = 1
  BY <1>0, SMTT(30)
<1>2. x[1] \in Msg /\ x = <<x[1]>>
  BY <1>1, SMTT(30)
<1>3. \A m \in Msg : Tail(<<m>>) = <<>>
  BY SMTT(30)
<1> QED BY <1>2, <1>3

(* Where a message goes from one queue to the next.                        *)
LEMMA AppendInside ==
    ASSUME NEW x \in Seq(Msg), NEW y \in Seq(Msg), NEW m \in Msg
    PROVE  x \o Append(y, m) = Append(x \o y, m)
<1>1. Append(y, m) = y \o <<m>> /\ <<m>> \in Seq(Msg) /\ x \o y \in Seq(Msg)
  BY Appended, Joined, SMTT(30)
<1>2. Append(x \o y, m) = (x \o y) \o <<m>>
  BY <1>1, Appended
<1>3. (x \o y) \o <<m>> = x \o (y \o <<m>>)
  BY <1>1, JoinedTwice, SMTT(30)
<1> QED BY <1>1, <1>2, <1>3

(* The same, for the queue before.                                         *)
LEMMA AppendThen ==
    ASSUME NEW x \in Seq(Msg), NEW y \in Seq(Msg), NEW m \in Msg
    PROVE  Append(x, m) \o y = x \o (<<m>> \o y)
<1>1. Append(x, m) = x \o <<m>> /\ <<m>> \in Seq(Msg)
  BY Appended, SMTT(30)
<1>2. (x \o <<m>>) \o y = x \o (<<m>> \o y)
  BY <1>1, JoinedTwice, SMTT(30)
<1> QED BY <1>1, <1>2

(* The queues of messages, one after the other.                            *)
LEMMA Associative ==
    ASSUME NEW x \in Seq(Msg), NEW y \in Seq(Msg), NEW z \in Seq(Msg)
    PROVE  (x \o y) \o z = x \o (y \o z)
BY JoinedTwice, SMTT(30)

(* OthersPass for a message at either end of the middle stretch y.         *)
LEMMA OthersPassOver ==
    ASSUME NEW x \in Seq(Msg), NEW y \in Seq(Msg), NEW z \in Seq(Msg),
           NEW m \in Msg, NEW s \in Server, NEW n \in Nat, m[1] # s
    PROVE  /\ InOrder(x \o (y \o z), s, n) <=> InOrder(x \o (Append(y, m) \o z), s, n)
           /\ InOrder(x \o (y \o z), s, n) <=> InOrder(x \o ((<<m>> \o y) \o z), s, n)
<1>a. \A c \in Seq(Msg) : (x \o y) \o c = x \o (y \o c)
  <2> TAKE c \in Seq(Msg)
  <2> QED BY Associative
<1>0. <<m>> \in Seq(Msg)
  BY SMTT(30)
<1>1. PICK u \in Seq(Msg) : u = x \o y
  BY Joined
<1>2. PICK v \in Seq(Msg) : v = <<m>> \o z
  BY <1>0, Joined
<1>3. PICK w \in Seq(Msg) : w = y \o z
  BY Joined
<1>4. u \o z = x \o w /\ u \o v = x \o (y \o v)
  <2>1. (x \o y) \o z = x \o (y \o z)
    BY <1>a
  <2>2. (x \o y) \o v = x \o (y \o v)
    BY <1>a
  <2> QED BY <1>1, <1>3, <2>1, <2>2
<1>5. Append(y, m) \o z = y \o v
  <2>1. Append(y, m) \o z = y \o (<<m>> \o z)
    BY AppendThen
  <2> QED BY <1>2, <2>1
<1>6. InOrder(u \o z, s, n) <=> InOrder(u \o (<<m>> \o z), s, n)
  BY OthersPass
<1>7. InOrder(x \o w, s, n) <=> InOrder(x \o (<<m>> \o w), s, n)
  BY OthersPass
<1>8. (<<m>> \o y) \o z = <<m>> \o (y \o z)
  BY <1>0, Associative
<1> QED BY <1>2, <1>3, <1>4, <1>5, <1>6, <1>7, <1>8

(* All stretches of the way are queues of messages.                        *)
LEMMA WayTypes ==
    ASSUME ServersTyped, OneReceiver, NEW s \in Server
    PROVE  /\ InHand(tsm.loops) \in Seq(Msg) /\ tsm.reveivechan \in Seq(Msg)
           /\ tcp[s].got \in Seq(Msg) /\ tcp[s].pending \in Seq(Msg)
           /\ tcp[s].held \in Seq(Msg) /\ tcp[s].stream \in Seq(Msg)
           /\ tcp[s].wrote \in Nat
<1>1. tsm.loops \in Seq(Seq(Msg)) /\ tsm.reveivechan \in Seq(Msg)
  BY SMTT(30) DEF ServersTyped, TcpServerManage
<1>2. tcp[s] \in TcpServer
  BY DEF ServersTyped
<1>3. Len(tsm.loops) = 0 \/ Len(tsm.loops) = 1
  BY DEF OneReceiver
<1>4. InHand(tsm.loops) \in Seq(Msg)
  <2>1. CASE Len(tsm.loops) = 0
    BY <1>1, <2>1, InHandOfOne, EmptyQueue
  <2>2. CASE Len(tsm.loops) = 1
    <3>1. tsm.loops[1] \in Seq(Msg)
      BY <1>1, <2>2, SMTT(30)
    <3> QED BY <1>1, <2>2, <3>1, InHandOfOne
  <2> QED BY <1>3, <2>1, <2>2
<1>5. /\ tcp[s].got \in Seq(Msg) /\ tcp[s].pending \in Seq(Msg)
      /\ tcp[s].held \in Seq(Msg) /\ tcp[s].stream \in Seq(Msg)
      /\ tcp[s].wrote \in Nat
  BY <1>2, SMTT(30) DEF TcpServer
<1> QED BY <1>1, <1>4, <1>5


(* Before Start nothing has been written.                                  *)
LEMMA NewServersInv ==
    ASSUME tcp = [s \in Server |-> NewTcpServer], tsm = NewTcpServerManage
    PROVE  ServersInv
<1>1. NewTcpServer \in TcpServer
  BY SMTT(30) DEF NewTcpServer, TcpServer, Link
<1>2. tsm \in TcpServerManage
  BY SMTT(30) DEF NewTcpServerManage, TcpServerManage
<1>3. ServersTyped
  BY <1>1, <1>2 DEF ServersTyped
<1>4. /\ ~tsm.stopping /\ ~tsm.atWork /\ tsm.loops = <<>> /\ tsm.reveivechan = <<>>
  BY SMTT(30) DEF NewTcpServerManage
<1>5. \A s \in Server :
        /\ tcp[s].subs = 0 /\ ~tcp[s].starting /\ ~tcp[s].listens
        /\ tcp[s].link = "none" /\ tcp[s].held = <<>> /\ tcp[s].pending = <<>>
        /\ tcp[s].stream = <<>> /\ tcp[s].got = <<>> /\ tcp[s].wrote = 0
  BY SMTT(30) DEF NewTcpServer
<1>6. Len(<<>>) = 0 /\ DOMAIN <<>> = {} /\ <<>> \o <<>> = <<>> /\ 1..0 = {}
  BY SMTT(30)
<1>7. OneReceiver
  <2>1. Len(tsm.loops) = IF tsm.atWork THEN 1 ELSE 0
    BY <1>4, <1>6, SMTT(30)
  <2>2. \A s \in Server : tcp[s].subs = Len(tsm.loops)
    BY <1>4, <1>5, <1>6
  <2> QED BY <1>4, <1>5, <2>1, <2>2 DEF OneReceiver
<1>8. OneInHand
  <2>1. Len(<<>>) <= 1
    BY <1>6, SMTT(30)
  <2> QED BY <1>4, <1>5, <1>6, <2>1 DEF OneInHand
<1>9. InHand(tsm.loops) = <<>>
  <2>1. tsm.loops \in Seq(Seq(Msg))
    BY <1>2, SMTT(30) DEF TcpServerManage
  <2> QED BY <1>4, <1>6, <2>1, InHandOfOne
<1>10. \A s \in Server : Line(s) = <<>>
  BY <1>4, <1>5, <1>6, <1>9 DEF Line, Shared, Own
<1>11. \A s \in Server : InOrder(<<>>, s, 0)
  BY <1>6 DEF InOrder
<1>12. MessagesForwarded
  BY <1>5, <1>10, <1>11 DEF MessagesForwarded
<1>13. OwnMessages
  <2>1. \A s \in Server : <<>> \in Seq({s} \X Nat)
    BY EmptyQueue
  <2> QED BY <1>5, <2>1 DEF OwnMessages
<1> QED BY <1>3, <1>7, <1>8, <1>12, <1>13 DEF ServersInv

(* A process that ended has no messages.                                   *)
LEMMA EndInv ==
    ASSUME End
    PROVE  ServersInv'
<1>1. (tcp = [s \in Server |-> NewTcpServer] /\ tsm = NewTcpServerManage)'
        => ServersInv'
  BY NewServersInv, PTL
<1> QED BY <1>1 DEF End, NewTcpServer, NewTcpServerManage

(* An update of one server or of the manager keeps the types.              *)
LEMMA TypedServer ==
    ASSUME ServersTyped, NEW s \in Server, NEW r \in TcpServer,
           tcp' = [tcp EXCEPT ![s] = r], tsm' \in TcpServerManage
    PROVE  /\ ServersTyped' /\ tcp'[s] = r
           /\ \A b \in Server \ {s} : tcp'[b] = tcp[b]
BY DEF ServersTyped

(* A step that moves no message, and neither connects nor starts anything  *)
(* of a manager that is not at work.                                       *)
LEMMA WayKept ==
    ASSUME ServersInv, ServersTyped', tsm' = tsm,
           \A s \in Server :
             /\ tcp'[s].got = tcp[s].got /\ tcp'[s].pending = tcp[s].pending
             /\ tcp'[s].held = tcp[s].held /\ tcp'[s].stream = tcp[s].stream
             /\ tcp'[s].wrote = tcp[s].wrote /\ tcp'[s].subs = tcp[s].subs
             /\ tcp'[s].link = "none" => tcp[s].link = "none",
           \A s \in Server : ~tcp[s].starting /\ ~tcp[s].listens /\ tcp[s].link = "none" =>
             ~tcp'[s].starting /\ ~tcp'[s].listens /\ tcp'[s].link = "none"
    PROVE  ServersInv'
<1> SUFFICES ASSUME ~tsm.stopped
             PROVE  OneReceiver' /\ OneInHand' /\ OwnMessages' /\ MessagesForwarded'
  BY DEF ServersInv
<1>1. OneReceiver /\ OneInHand /\ OwnMessages /\ MessagesForwarded
  BY DEF ServersInv
<1>2. OneReceiver'
  BY <1>1 DEF OneReceiver
<1>3. OneInHand'
  BY <1>1 DEF OneInHand
<1>4. OwnMessages'
  BY <1>1 DEF OwnMessages
<1>5. \A s \in Server : Line(s)' = Line(s)
  BY DEF Line, Shared, Own
<1>6. MessagesForwarded'
  BY <1>1, <1>5 DEF MessagesForwarded
<1> QED BY <1>2, <1>3, <1>4, <1>6

(* listenLoop opens its port.                                              *)
LEMMA ListenInv ==
    ASSUME ServersInv, NEW s \in Server, Listen(s)
    PROVE  ServersInv'
<1>1. PICK r \in TcpServer : r = tcp[s]
  BY DEF ServersInv, ServersTyped
<1>2. PICK q : q = [r EXCEPT !.starting = FALSE, !.listens = TRUE]
  OBVIOUS
<1>3. /\ q \in TcpServer /\ q.got = r.got /\ q.pending = r.pending /\ q.held = r.held
      /\ q.stream = r.stream /\ q.wrote = r.wrote /\ q.subs = r.subs /\ q.link = r.link
  BY <1>1, <1>2 DEF TcpServer
<1>4. tcp' = [tcp EXCEPT ![s] = q] /\ tsm' = tsm /\ tcp[s].starting
  BY <1>1, <1>2 DEF Listen
<1>5. /\ ServersTyped' /\ tcp'[s] = q /\ \A b \in Server \ {s} : tcp'[b] = tcp[b]
  BY <1>3, <1>4, TypedServer DEF ServersInv, ServersTyped
<1> QED BY <1>1, <1>3, <1>4, <1>5, WayKept

(* listenLoop accepts a client: connected, conn and the id it writes.      *)
LEMMA AcceptClientInv ==
    ASSUME ServersInv, NEW s \in Server, AcceptClient(s)
    PROVE  ServersInv'
<1>1. PICK r \in TcpServer : r = tcp[s]
  BY DEF ServersInv, ServersTyped
<1>2. PICK q : q = [r EXCEPT !.link = NextLink[r.link]]
  OBVIOUS
<1>3. r.link \in {"none", "marked", "set"} /\ r.listens
  BY <1>1, SMTT(30) DEF AcceptClient, NextLink
<1>4. NextLink[r.link] \in {"marked", "set", "greeted"}
  BY <1>3, SMTT(30) DEF NextLink
<1>5. /\ q \in TcpServer /\ q.got = r.got /\ q.pending = r.pending /\ q.held = r.held
      /\ q.stream = r.stream /\ q.wrote = r.wrote /\ q.subs = r.subs /\ q.link # "none"
  BY <1>1, <1>2, <1>4 DEF TcpServer, Link
<1>6. tcp' = [tcp EXCEPT ![s] = q] /\ tsm' = tsm
  BY <1>1, <1>2 DEF AcceptClient
<1>7. /\ ServersTyped' /\ tcp'[s] = q /\ \A b \in Server \ {s} : tcp'[b] = tcp[b]
  BY <1>5, <1>6, TypedServer DEF ServersInv, ServersTyped
<1> QED BY <1>1, <1>3, <1>5, <1>6, <1>7, WayKept

(* SendMsg and sendMsgServer, which work in the other direction.           *)
LEMMA SendInv ==
    ASSUME ServersInv, NEW s \in Server, SendMsg(s) \/ SendMsgServer(s)
    PROVE  ServersInv'
<1>1. PICK r \in TcpServer : r = tcp[s]
  BY DEF ServersInv, ServersTyped
<1>2. /\ \E n \in {r.sendMsgCh + 1, r.sendMsgCh - 1} :
           tcp' = [tcp EXCEPT ![s] = [r EXCEPT !.sendMsgCh = n]]
      /\ tsm' = tsm
  BY <1>1 DEF SendMsg, SendMsgServer
<1>3. PICK n \in {r.sendMsgCh + 1, r.sendMsgCh - 1} :
           tcp' = [tcp EXCEPT ![s] = [r EXCEPT !.sendMsgCh = n]]
  BY <1>2
<1>4. PICK q : q = [r EXCEPT !.sendMsgCh = n]
  OBVIOUS
<1>5. n \in Int
  BY <1>1, SMTT(30) DEF TcpServer
<1>6. /\ q \in TcpServer /\ q.got = r.got /\ q.pending = r.pending /\ q.held = r.held
      /\ q.stream = r.stream /\ q.wrote = r.wrote /\ q.subs = r.subs /\ q.link = r.link
      /\ q.starting = r.starting /\ q.listens = r.listens
  BY <1>1, <1>4, <1>5 DEF TcpServer
<1>7. tcp' = [tcp EXCEPT ![s] = q]
  BY <1>3, <1>4
<1>8. /\ ServersTyped' /\ tcp'[s] = q /\ \A b \in Server \ {s} : tcp'[b] = tcp[b]
  BY <1>2, <1>6, <1>7, TypedServer DEF ServersInv, ServersTyped
<1> QED BY <1>1, <1>2, <1>6, <1>8, WayKept

(* Stop: from here on only the types are kept.                             *)
LEMMA StopInv ==
    ASSUME ServersInv,
           StopManager \/ StoppedManager \/ \E s \in Server : StopServer(s)
    PROVE  ServersInv'
<1>1. CASE StopManager
  <2>1. tsm' \in TcpServerManage /\ tsm'.stopped /\ tcp' = tcp
    BY <1>1 DEF StopManager, ServersInv, ServersTyped, TcpServerManage
  <2> QED BY <2>1 DEF ServersInv, ServersTyped
<1>2. ASSUME tsm.stopping PROVE tsm.stopped
  BY <1>2 DEF ServersInv, OneReceiver
<1>3. CASE StoppedManager
  <2>1. tsm' \in TcpServerManage /\ tsm'.stopped = tsm.stopped /\ tcp' = tcp /\ tsm.stopping
    BY <1>3 DEF StoppedManager, ServersInv, ServersTyped, TcpServerManage
  <2> QED BY <1>2, <2>1 DEF ServersInv, ServersTyped
<1>4. ASSUME NEW s \in Server, StopServer(s) PROVE ServersInv'
  <2>1. CASE End
    BY <2>1, EndInv
  <2>2. CASE ~End
    <3>1. PICK q : q = [tcp[s] EXCEPT !.atWork = FALSE, !.senders = tcp[s].senders - 1,
                                      !.closed = tcp[s].link # "marked"]
      OBVIOUS
    <3>2. tcp[s] \in TcpServer /\ tcp[s].senders - 1 \in Int
      <4>1. tcp[s] \in TcpServer
        BY DEF ServersInv, ServersTyped
      <4>2. tcp[s].senders \in Int
        BY <4>1 DEF TcpServer
      <4> QED BY <4>1, <4>2, SMTT(30)
    <3>3. q \in TcpServer
      <4>1. (tcp[s].link # "marked") \in BOOLEAN
        OBVIOUS
      <4> QED BY <3>1, <3>2, <4>1 DEF TcpServer
    <3>4. tcp' = [tcp EXCEPT ![s] = q] /\ tsm' = tsm /\ tsm.stopping
      BY <1>4, <2>2, <3>1 DEF StopServer
    <3>5. ServersTyped'
      BY <3>3, <3>4, TypedServer DEF ServersInv, ServersTyped
    <3> QED BY <1>2, <3>4, <3>5 DEF ServersInv
  <2> QED BY <2>1, <2>2
<1> QED BY <1>1, <1>3, <1>4

(* The sequences of a server, and their concatenation.                     *)
LEMMA OwnTypes ==
    ASSUME ServersTyped, OneReceiver, NEW s \in Server
    PROVE  /\ Shared \in Seq(Msg) /\ Own(s) \in Seq(Msg) /\ Line(s) \in Seq(Msg)
           /\ Shared \o Own(s) \in Seq(Msg) /\ tcp[s].held \o tcp[s].stream \in Seq(Msg)
BY WayTypes, Joined DEF Shared, Own, Line

(* A client writes its next message at the end of its way.                 *)
LEMMA ClientWritesInv ==
    ASSUME ServersInv, NEW s \in Server, ClientWrites(s)
    PROVE  ServersInv'
<1>1. PICK r \in TcpServer : r = tcp[s]
  BY DEF ServersInv, ServersTyped
<1>2. PICK m : m = <<s, r.wrote + 1>>
  OBVIOUS
<1>3. r.wrote \in Nat /\ r.wrote + 1 \in Nat /\ r.stream \in Seq(Msg)
  <2>1. r.wrote \in Nat /\ r.stream \in Seq(Msg)
    BY <1>1 DEF TcpServer
  <2> QED BY <2>1, SMTT(30)
<1>4. m \in Msg /\ m \in {s} \X Nat
  BY <1>2, <1>3, SMTT(30) DEF Msg
<1>5. Append(r.stream, m) \in Seq(Msg)
  BY <1>3, <1>4, Appended
<1>6. PICK q : q = [r EXCEPT !.wrote = r.wrote + 1, !.stream = Append(r.stream, m)]
  OBVIOUS
<1>7. /\ q \in TcpServer /\ q.got = r.got /\ q.pending = r.pending /\ q.held = r.held
      /\ q.stream = Append(r.stream, m) /\ q.wrote = r.wrote + 1 /\ q.subs = r.subs
      /\ q.link = r.link
  BY <1>1, <1>3, <1>5, <1>6 DEF TcpServer
<1>8. tcp' = [tcp EXCEPT ![s] = q] /\ tsm' = tsm /\ tcp[s].link # "none"
  BY <1>1, <1>2, <1>6 DEF ClientWrites
<1>9. /\ ServersTyped' /\ tcp'[s] = q /\ \A b \in Server \ {s} : tcp'[b] = tcp[b]
  BY <1>7, <1>8, TypedServer DEF ServersInv, ServersTyped
<1> SUFFICES ASSUME ~tsm.stopped
             PROVE  OneReceiver' /\ OneInHand' /\ OwnMessages' /\ MessagesForwarded'
  BY <1>8, <1>9 DEF ServersInv
<1>10. ServersTyped /\ OneReceiver /\ OneInHand /\ OwnMessages /\ MessagesForwarded
  BY DEF ServersInv
<1>11. OneReceiver'
  <2>1. tsm.atWork
    BY <1>8, <1>10 DEF OneReceiver
  <2> QED
    <3>1. \A b \in Server : tcp'[b].subs = tcp[b].subs
      BY <1>1, <1>7, <1>9
    <3> QED BY <1>8, <1>10, <2>1, <3>1 DEF OneReceiver
<1>12. OneInHand'
  BY <1>1, <1>7, <1>8, <1>9, <1>10 DEF OneInHand
<1>13. OwnMessages'
  <2>1. Append(r.stream, m) \in Seq({s} \X Nat)
    BY <1>1, <1>4, <1>10, Appended DEF OwnMessages
  <2> QED BY <1>1, <1>7, <1>9, <1>10, <2>1 DEF OwnMessages
<1>14. Shared' = Shared
  BY <1>8 DEF Shared
<1>15. Line(s)' = Append(Line(s), m)
  <2>1. Own(s)' = Append(Own(s), m)
    <3>1. Own(s)' = r.pending \o (r.held \o Append(r.stream, m))
      BY <1>7, <1>9 DEF Own
    <3>2. /\ r.held \o Append(r.stream, m) = Append(r.held \o r.stream, m)
      BY <1>1, <1>4, <1>10, WayTypes, AppendInside
    <3>3. r.pending \o Append(r.held \o r.stream, m)
             = Append(r.pending \o (r.held \o r.stream), m)
      BY <1>1, <1>4, <1>10, WayTypes, OwnTypes, AppendInside
    <3> QED BY <1>1, <3>1, <3>2, <3>3 DEF Own
  <2>2. Shared \o Append(Own(s), m) = Append(Shared \o Own(s), m)
    BY <1>4, <1>10, OwnTypes, AppendInside
  <2>3. r.got \o Append(Shared \o Own(s), m) = Append(r.got \o (Shared \o Own(s)), m)
    BY <1>1, <1>4, <1>10, WayTypes, OwnTypes, AppendInside
  <2> QED BY <1>1, <1>7, <1>9, <1>14, <2>1, <2>2, <2>3 DEF Line
<1>16. InOrder(Line(s)', s, r.wrote + 1)
  <2>1. InOrder(Line(s), s, r.wrote)
    BY <1>1, <1>10 DEF MessagesForwarded
  <2>2. InOrder(Line(s) \o <<m>>, s, r.wrote + 1)
    BY <1>2, <1>3, <1>10, <2>1, OwnTypes, NextWritten
  <2>3. Append(Line(s), m) = Line(s) \o <<m>>
    BY <1>4, <1>10, OwnTypes, Appended
  <2> QED BY <1>15, <2>2, <2>3
<1>17. \A b \in Server \ {s} : Line(b)' = Line(b) /\ tcp'[b].wrote = tcp[b].wrote
  BY <1>9, <1>14 DEF Line, Own
<1>18. MessagesForwarded'
  BY <1>7, <1>9, <1>10, <1>16, <1>17 DEF MessagesForwarded
<1> QED BY <1>11, <1>12, <1>13, <1>18

(* clientHandle reads: a message moves inside Own.                         *)
LEMMA ReadMsgInv ==
    ASSUME ServersInv, NEW s \in Server, ReadMsg(s)
    PROVE  ServersInv'
<1>1. PICK r \in TcpServer : r = tcp[s]
  BY DEF ServersInv, ServersTyped
<1>2. PICK x \in Seq(Msg) : x = r.stream
  BY <1>1 DEF TcpServer
<1>3. x # <<>> /\ r.held = <<>> /\ r.pending = <<>> /\ r.link # "none"
  <2>1. r.link = "greeted" => r.link # "none"
    OBVIOUS
  <2> QED BY <1>1, <1>2, <2>1 DEF ReadMsg, Reading
<1>4. Head(x) \in Msg /\ Tail(x) \in Seq(Msg) /\ <<Head(x)>> \o Tail(x) = x
  BY <1>3, HeadThenTail
<1>5. <<Head(x)>> \in Seq(Msg) /\ Len(<<Head(x)>>) = 1 /\ 1 <= 1
  BY <1>4, SMTT(30)
<1>6. PICK q : q = [r EXCEPT !.held = <<Head(x)>>, !.stream = Tail(x)]
  OBVIOUS
<1>7. /\ q \in TcpServer /\ q.got = r.got /\ q.pending = r.pending /\ q.held = <<Head(x)>>
      /\ q.stream = Tail(x) /\ q.wrote = r.wrote /\ q.subs = r.subs /\ q.link = r.link
  BY <1>4, <1>5, <1>6 DEF TcpServer
<1>8. tcp' = [tcp EXCEPT ![s] = q] /\ tsm' = tsm
  BY <1>1, <1>2, <1>6 DEF ReadMsg
<1>9. /\ ServersTyped' /\ tcp'[s] = q /\ \A b \in Server \ {s} : tcp'[b] = tcp[b]
  BY <1>7, <1>8, TypedServer DEF ServersInv, ServersTyped
<1> SUFFICES ASSUME ~tsm.stopped
             PROVE  OneReceiver' /\ OneInHand' /\ OwnMessages' /\ MessagesForwarded'
  BY <1>8, <1>9 DEF ServersInv
<1>10. ServersTyped /\ OneReceiver /\ OneInHand /\ OwnMessages /\ MessagesForwarded
  BY DEF ServersInv
<1>11. OneReceiver'
  <2>1. tsm.atWork
    BY <1>1, <1>3, <1>10 DEF OneReceiver
  <2>2. \A b \in Server : tcp'[b].subs = tcp[b].subs
    BY <1>1, <1>7, <1>9
  <2> QED BY <1>8, <1>10, <2>1, <2>2 DEF OneReceiver
<1>12. OneInHand'
  <2>1. Len(<<>>) <= 1 /\ Len(<<Head(x)>>) <= 1
    BY <1>5, SMTT(30)
  <2>2. /\ Len(q.held) <= 1 /\ Len(q.pending) <= 1 /\ q.pending = <<>> /\ q.link # "none"
    BY <1>3, <1>7, <2>1
  <2> QED BY <1>8, <1>9, <1>10, <2>2 DEF OneInHand
<1>13. OwnMessages'
  <2>1. x \in Seq({s} \X Nat)
    BY <1>1, <1>2, <1>10 DEF OwnMessages
  <2>2. <<Head(x)>> \in Seq({s} \X Nat) /\ Tail(x) \in Seq({s} \X Nat)
    BY <1>3, <2>1, SMTT(30)
  <2> QED BY <1>1, <1>7, <1>9, <1>10, <2>2 DEF OwnMessages
<1>14. Shared' = Shared
  BY <1>8 DEF Shared
<1>15. Own(s)' = Own(s)
  <2>1. <<>> \o x = x
    BY SMTT(30)
  <2> QED BY <1>1, <1>2, <1>3, <1>4, <1>7, <1>9, <2>1 DEF Own
<1>16. \A b \in Server : Line(b)' = Line(b) /\ tcp'[b].wrote = tcp[b].wrote
  BY <1>1, <1>7, <1>9, <1>14, <1>15 DEF Line, Own
<1>17. MessagesForwarded'
  BY <1>8, <1>10, <1>16 DEF MessagesForwarded
<1> QED BY <1>11, <1>12, <1>13, <1>17

(* newMsgFeed.Send: the manager that works has subscribed once.            *)
LEMMA SendToFeedInv ==
    ASSUME ServersInv, NEW s \in Server, SendToFeed(s)
    PROVE  ServersInv'
<1>1. PICK r \in TcpServer : r = tcp[s]
  BY DEF ServersInv, ServersTyped
<1>2. PICK x \in Seq(Msg) : x = r.held
  BY <1>1 DEF TcpServer
<1>3. x # <<>>
  BY <1>1, <1>2 DEF SendToFeed
<1>4. x[1] \in Msg /\ r.subs \in Nat
  <2>1. Head(x) \in Msg /\ Head(x) = x[1]
    BY <1>3, HeadThenTail, SMTT(30)
  <2> QED BY <1>1, <2>1 DEF TcpServer
<1>5. PICK y : y = [k \in 1..r.subs |-> x[1]]
  OBVIOUS
<1>6. y \in Seq(Msg) /\ <<>> \in Seq(Msg)
  BY <1>4, <1>5, SMTT(30)
<1>7. PICK q : q = [r EXCEPT !.pending = y, !.held = <<>>]
  OBVIOUS
<1>8. /\ q \in TcpServer /\ q.got = r.got /\ q.pending = y /\ q.held = <<>>
      /\ q.stream = r.stream /\ q.wrote = r.wrote /\ q.subs = r.subs /\ q.link = r.link
  BY <1>6, <1>7 DEF TcpServer
<1>9. tcp' = [tcp EXCEPT ![s] = q] /\ tsm' = tsm
  BY <1>1, <1>2, <1>5, <1>7 DEF SendToFeed
<1>10. /\ ServersTyped' /\ tcp'[s] = q /\ \A b \in Server \ {s} : tcp'[b] = tcp[b]
  BY <1>8, <1>9, TypedServer DEF ServersInv, ServersTyped
<1> SUFFICES ASSUME ~tsm.stopped
             PROVE  OneReceiver' /\ OneInHand' /\ OwnMessages' /\ MessagesForwarded'
  BY <1>9, <1>10 DEF ServersInv
<1>11. ServersTyped /\ OneReceiver /\ OneInHand /\ OwnMessages /\ MessagesForwarded
  BY DEF ServersInv
<1>12. r.link # "none" /\ r.pending = <<>> /\ Len(x) <= 1
  BY <1>1, <1>2, <1>3, <1>11 DEF OneInHand
<1>13. tsm.atWork
  BY <1>1, <1>11, <1>12 DEF OneReceiver
<1>14. y = x
  <2>1. Len(tsm.loops) = 1
    BY <1>11, <1>13 DEF OneReceiver
  <2>2. r.subs = 1
    BY <1>1, <1>11, <2>1 DEF OneReceiver
  <2>3. x = <<x[1]>>
    BY <1>3, <1>12, OneMessage
  <2>4. [k \in 1..1 |-> x[1]] = <<x[1]>>
    BY SMTT(30)
  <2> QED BY <1>5, <2>2, <2>3, <2>4
<1>15. OneReceiver'
  <2>1. \A b \in Server : tcp'[b].subs = tcp[b].subs
    BY <1>1, <1>8, <1>10
  <2> QED BY <1>9, <1>11, <1>13, <2>1 DEF OneReceiver
<1>16. OneInHand'
  <2>1. Len(<<>>) <= 1
    BY SMTT(30)
  <2> QED BY <1>8, <1>9, <1>10, <1>11, <1>12, <1>14, <2>1 DEF OneInHand
<1>17. OwnMessages'
  <2>1. <<>> \in Seq({s} \X Nat) /\ x \in Seq({s} \X Nat)
    BY <1>1, <1>2, <1>11, <1>12 DEF OwnMessages
  <2> QED BY <1>1, <1>8, <1>10, <1>11, <1>14, <2>1 DEF OwnMessages
<1>18. Shared' = Shared
  BY <1>9 DEF Shared
<1>19. Own(s)' = Own(s)
  <2>1. PICK z \in Seq(Msg) : z = r.stream
    BY <1>1 DEF TcpServer
  <2>2. <<>> \o z = z /\ <<>> \o (x \o z) = x \o z
    BY SMTT(30)
  <2> QED BY <1>1, <1>2, <1>8, <1>10, <1>12, <1>14, <2>1, <2>2 DEF Own
<1>20. \A b \in Server : Line(b)' = Line(b) /\ tcp'[b].wrote = tcp[b].wrote
  BY <1>1, <1>8, <1>10, <1>18, <1>19 DEF Line, Own
<1>21. MessagesForwarded'
  BY <1>9, <1>11, <1>20 DEF MessagesForwarded
<1> QED BY <1>15, <1>16, <1>17, <1>21

(* The receiveloop of a manager that is at work, and what it has in hand.  *)
LEMMA TheLoop ==
    ASSUME ServersTyped, OneReceiver, OneInHand, tsm.atWork
    PROVE  /\ DOMAIN tsm.loops = {1} /\ tsm.loops \in Seq(Seq(Msg)) /\ Len(tsm.loops) = 1
           /\ tsm.loops[1] \in Seq(Msg) /\ Len(tsm.loops[1]) <= 1
           /\ InHand(tsm.loops) = tsm.loops[1]
<1>1. tsm.loops \in Seq(Seq(Msg)) /\ Len(tsm.loops) = 1
  <2>1. tsm.loops \in Seq(Seq(Msg))
    BY DEF ServersTyped, TcpServerManage
  <2> QED BY <2>1 DEF OneReceiver
<1>2. DOMAIN tsm.loops = {1} /\ tsm.loops[1] \in Seq(Msg)
  BY <1>1, SMTT(30)
<1> QED BY <1>1, <1>2, InHandOfOne DEF OneInHand

(* The clients of other servers do not notice the message m that comes     *)
(* into the shared stretch, or leaves it.                                  *)
LEMMA DeliverInv ==
    ASSUME ServersInv, NEW s \in Server, Deliver(s)
    PROVE  ServersInv'
<1>1. PICK r \in TcpServer : r = tcp[s]
  BY DEF ServersInv, ServersTyped
<1>2. PICK x \in Seq(Msg) : x = r.pending
  BY <1>1 DEF TcpServer
<1>3. PICK c \in Seq(Msg) : c = tsm.reveivechan
  BY DEF ServersInv, ServersTyped, TcpServerManage
<1>4. x # <<>>
  BY <1>1, <1>2 DEF Deliver
<1>5. PICK m \in Msg : m = Head(x)
  BY <1>4, HeadThenTail
<1>6. Tail(x) \in Seq(Msg) /\ Append(c, m) \in Seq(Msg)
  BY <1>4, <1>5, HeadThenTail, Appended
<1>7. PICK q : q = [r EXCEPT !.pending = Tail(x)]
  OBVIOUS
<1>8. /\ q \in TcpServer /\ q.got = r.got /\ q.pending = Tail(x) /\ q.held = r.held
      /\ q.stream = r.stream /\ q.wrote = r.wrote /\ q.subs = r.subs /\ q.link = r.link
  BY <1>6, <1>7 DEF TcpServer
<1>9. /\ tcp' = [tcp EXCEPT ![s] = q]
      /\ tsm' = [tsm EXCEPT !.reveivechan = Append(c, m)]
  BY <1>1, <1>2, <1>3, <1>5, <1>7 DEF Deliver
<1>10. /\ tsm' \in TcpServerManage /\ tsm'.loops = tsm.loops /\ tsm'.atWork = tsm.atWork
       /\ tsm'.stopping = tsm.stopping /\ tsm'.stopped = tsm.stopped
       /\ tsm'.reveivechan = Append(c, m)
  BY <1>6, <1>9 DEF ServersInv, ServersTyped, TcpServerManage
<1>11. /\ ServersTyped' /\ tcp'[s] = q /\ \A b \in Server \ {s} : tcp'[b] = tcp[b]
  BY <1>8, <1>9, <1>10, TypedServer DEF ServersInv
<1> SUFFICES ASSUME ~tsm.stopped
             PROVE  OneReceiver' /\ OneInHand' /\ OwnMessages' /\ MessagesForwarded'
  BY <1>10, <1>11 DEF ServersInv
<1>12. ServersTyped /\ OneReceiver /\ OneInHand /\ OwnMessages /\ MessagesForwarded
  BY DEF ServersInv
<1>13. r.link # "none" /\ r.held = <<>> /\ Len(x) <= 1
  BY <1>1, <1>2, <1>4, <1>12 DEF OneInHand
<1>14. tsm.atWork
  BY <1>1, <1>12, <1>13 DEF OneReceiver
<1>15. x = <<m>> /\ Tail(x) = <<>>
  <2>1. Head(x) = x[1]
    BY <1>4, SMTT(30)
  <2> QED BY <1>4, <1>5, <1>13, <2>1, OneMessage
<1>16. OneReceiver'
  <2>1. \A b \in Server : tcp'[b].subs = tcp[b].subs
    BY <1>1, <1>8, <1>11
  <2> QED BY <1>10, <1>12, <1>14, <2>1 DEF OneReceiver
<1>17. OneInHand'
  <2>1. Len(<<>>) <= 1
    BY SMTT(30)
  <2>2. q.held = <<>> /\ q.pending = <<>>
    BY <1>8, <1>13, <1>15
  <2> QED BY <1>10, <1>11, <1>12, <2>1, <2>2 DEF OneInHand
<1>18. OwnMessages' /\ m[1] = s
  <2>1. <<>> \in Seq({s} \X Nat) /\ x \in Seq({s} \X Nat)
    BY <1>1, <1>2, <1>12, <1>13 DEF OwnMessages
  <2>2. Head(x) \in {s} \X Nat
    BY <1>4, <2>1, SMTT(30)
  <2> QED BY <1>1, <1>5, <1>8, <1>11, <1>12, <1>15, <2>1, <2>2 DEF OwnMessages
<1>19. Shared' = Append(Shared, m) /\ Shared \in Seq(Msg)
  <2>1. InHand(tsm.loops) \o Append(c, m) = Append(InHand(tsm.loops) \o c, m)
    BY <1>12, WayTypes, AppendInside
  <2> QED BY <1>3, <1>10, <1>12, <2>1, OwnTypes DEF Shared
<1>20. Line(s)' = Line(s)
  <2>1. PICK z \in Seq(Msg) : z = r.stream
    BY <1>1 DEF TcpServer
  <2>2. <<>> \o z = z
    BY SMTT(30)
  <2>3. Own(s) = <<m>> \o z /\ Own(s)' = z
    BY <1>1, <1>2, <1>8, <1>11, <1>13, <1>15, <2>1, <2>2 DEF Own
  <2>4. Append(Shared, m) \o z = Shared \o (<<m>> \o z)
    BY <1>19, AppendThen
  <2> QED BY <1>1, <1>8, <1>11, <1>19, <2>3, <2>4 DEF Line
<1>21. ASSUME NEW b \in Server \ {s}
       PROVE  InOrder(Line(b)', b, tcp'[b].wrote)
  <2>1. Own(b)' = Own(b) /\ tcp'[b].got = tcp[b].got /\ tcp'[b].wrote = tcp[b].wrote
    BY <1>11 DEF Own
  <2>2. Line(b)' = tcp[b].got \o (Append(Shared, m) \o Own(b))
    BY <1>19, <2>1 DEF Line
  <2>3. InOrder(tcp[b].got \o (Shared \o Own(b)), b, tcp[b].wrote)
    BY <1>12 DEF MessagesForwarded, Line
  <2>4. InOrder(tcp[b].got \o (Append(Shared, m) \o Own(b)), b, tcp[b].wrote)
    BY <1>12, <1>18, <1>19, <2>3, WayTypes, OwnTypes, OthersPassOver
  <2> QED BY <2>1, <2>2, <2>4
<1>22. InOrder(Line(s)', s, tcp'[s].wrote)
  BY <1>1, <1>8, <1>11, <1>12, <1>20 DEF MessagesForwarded
<1>23. MessagesForwarded'
  BY <1>21, <1>22 DEF MessagesForwarded
<1> QED BY <1>16, <1>17, <1>18, <1>23

(* The receiveloop takes a message of the channel.                         *)
LEMMA ReceiveMsgInv ==
    ASSUME ServersInv, NEW n \in DOMAIN tsm.loops, ReceiveMsg(n)
    PROVE  ServersInv'
<1>1. PICK c \in Seq(Msg) : c = tsm.reveivechan
  BY DEF ServersInv, ServersTyped, TcpServerManage
<1>2. PICK l \in Seq(Seq(Msg)) : l = tsm.loops
  BY DEF ServersInv, ServersTyped, TcpServerManage
<1>3. c # <<>> /\ l[n] = <<>>
  BY <1>1, <1>2 DEF ReceiveMsg
<1>4. Head(c) \in Msg /\ Tail(c) \in Seq(Msg) /\ <<Head(c)>> \o Tail(c) = c
  BY <1>3, HeadThenTail
<1>5. PICK w : w = [l EXCEPT ![n] = <<Head(c)>>]
  OBVIOUS
<1>6. w \in Seq(Seq(Msg)) /\ Len(w) = Len(l) /\ DOMAIN w = DOMAIN l
  <2>1. <<Head(c)>> \in Seq(Msg)
    BY <1>4, SMTT(30)
  <2>2. n \in DOMAIN l
    BY <1>2
  <2> QED BY <1>5, <2>1, <2>2, SMTT(30)
<1>7. tcp' = tcp /\ tsm' = [tsm EXCEPT !.loops = w, !.reveivechan = Tail(c)]
  BY <1>1, <1>2, <1>5 DEF ReceiveMsg
<1>8. /\ tsm' \in TcpServerManage /\ tsm'.loops = w /\ tsm'.atWork = tsm.atWork
      /\ tsm'.stopping = tsm.stopping /\ tsm'.stopped = tsm.stopped
      /\ tsm'.reveivechan = Tail(c)
  BY <1>4, <1>6, <1>7 DEF ServersInv, ServersTyped, TcpServerManage
<1>9. ServersTyped'
  BY <1>7, <1>8 DEF ServersInv, ServersTyped
<1> SUFFICES ASSUME ~tsm.stopped
             PROVE  OneReceiver' /\ OneInHand' /\ OwnMessages' /\ MessagesForwarded'
  BY <1>8, <1>9 DEF ServersInv
<1>10. ServersTyped /\ OneReceiver /\ OneInHand /\ OwnMessages /\ MessagesForwarded
  BY DEF ServersInv
<1>11. tsm.atWork
  BY <1>1, <1>3, <1>10 DEF OneReceiver
<1>12. OneReceiver'
  BY <1>2, <1>6, <1>7, <1>8, <1>10, <1>11 DEF OneReceiver
<1>13. n = 1 /\ DOMAIN w = {1} /\ Len(w) = 1 /\ w[1] = <<Head(c)>>
  BY <1>2, <1>5, <1>6, <1>10, <1>11, TheLoop
<1>14. OneInHand'
  <2>1. Len(<<Head(c)>>) <= 1
    BY SMTT(30)
  <2> QED BY <1>7, <1>8, <1>10, <1>13, <2>1 DEF OneInHand
<1>15. OwnMessages'
  BY <1>7, <1>10 DEF OwnMessages
<1>16. Shared = c
  <2>1. InHand(tsm.loops) = <<>>
    BY <1>2, <1>3, <1>10, <1>11, <1>13, TheLoop
  <2>2. <<>> \o c = c
    BY SMTT(30)
  <2> QED BY <1>1, <2>1, <2>2 DEF Shared
<1>17. Shared' = c
  <2>1. InHand(w) = w[1]
    BY <1>6, <1>13, InHandOfOne
  <2> QED BY <1>4, <1>8, <1>13, <2>1 DEF Shared
<1>18. \A b \in Server : Line(b)' = Line(b)
  BY <1>7, <1>16, <1>17 DEF Line, Own
<1>19. MessagesForwarded'
  BY <1>7, <1>10, <1>18 DEF MessagesForwarded
<1> QED BY <1>12, <1>14, <1>15, <1>19

(* It passes the message on to the subscribers.                            *)
LEMMA ForwardMsgInv ==
    ASSUME ServersInv, NEW n \in DOMAIN tsm.loops, ForwardMsg(n)
    PROVE  ServersInv'
<1>1. PICK l \in Seq(Seq(Msg)) : l = tsm.loops
  BY DEF ServersInv, ServersTyped, TcpServerManage
<1>2. PICK x \in Seq(Msg) : x = l[n]
  BY <1>1, SMTT(30)
<1>3. x # <<>>
  BY <1>1, <1>2 DEF ForwardMsg
<1>4. PICK m \in Msg : m = x[1]
  <2>1. Head(x) \in Msg /\ Head(x) = x[1]
    BY <1>3, HeadThenTail, SMTT(30)
  <2> QED BY <2>1
<1>5. PICK s \in Server : s = m[1]
  BY DEF Msg
<1>6. PICK r \in TcpServer : r = tcp[s]
  BY DEF ServersInv, ServersTyped
<1>7. PICK g \in Seq(Msg) : g = r.got
  BY DEF TcpServer
<1>8. Append(g, m) \in Seq(Msg)
  BY Appended
<1>9. PICK q : q = [r EXCEPT !.got = Append(g, m)]
  OBVIOUS
<1>10. /\ q \in TcpServer /\ q.got = Append(g, m) /\ q.pending = r.pending /\ q.held = r.held
       /\ q.stream = r.stream /\ q.wrote = r.wrote /\ q.subs = r.subs /\ q.link = r.link
  BY <1>8, <1>9 DEF TcpServer
<1>11. PICK w : w = [l EXCEPT ![n] = <<>>]
  OBVIOUS
<1>12. w \in Seq(Seq(Msg)) /\ Len(w) = Len(l) /\ DOMAIN w = DOMAIN l
  <2>1. <<>> \in Seq(Msg) /\ n \in DOMAIN l
    BY <1>1, EmptyQueue
  <2> QED BY <1>11, <2>1, SMTT(30)
<1>13. tcp' = [tcp EXCEPT ![s] = q] /\ tsm' = [tsm EXCEPT !.loops = w]
  BY <1>1, <1>2, <1>4, <1>5, <1>6, <1>7, <1>9, <1>11 DEF ForwardMsg
<1>14. /\ tsm' \in TcpServerManage /\ tsm'.loops = w /\ tsm'.atWork = tsm.atWork
       /\ tsm'.stopping = tsm.stopping /\ tsm'.stopped = tsm.stopped
       /\ tsm'.reveivechan = tsm.reveivechan
  BY <1>12, <1>13 DEF ServersInv, ServersTyped, TcpServerManage
<1>15. /\ ServersTyped' /\ tcp'[s] = q /\ \A b \in Server \ {s} : tcp'[b] = tcp[b]
  BY <1>10, <1>13, <1>14, TypedServer DEF ServersInv
<1> SUFFICES ASSUME ~tsm.stopped
             PROVE  OneReceiver' /\ OneInHand' /\ OwnMessages' /\ MessagesForwarded'
  BY <1>14, <1>15 DEF ServersInv
<1>16. ServersTyped /\ OneReceiver /\ OneInHand /\ OwnMessages /\ MessagesForwarded
  BY DEF ServersInv
<1>17. tsm.atWork
  <2>1. Len(l) # 0
    BY <1>1, SMTT(30)
  <2> QED BY <1>1, <1>16, <2>1 DEF OneReceiver
<1>18. OneReceiver'
  <2>1. \A b \in Server : tcp'[b].subs = tcp[b].subs
    BY <1>6, <1>10, <1>15
  <2> QED BY <1>1, <1>12, <1>14, <1>16, <1>17, <2>1 DEF OneReceiver
<1>19. n = 1 /\ DOMAIN w = {1} /\ Len(w) = 1 /\ w[1] = <<>> /\ x = <<m>>
  <2>1. n = 1 /\ DOMAIN l = {1} /\ Len(l) = 1 /\ Len(l[1]) <= 1
    BY <1>1, <1>16, <1>17, TheLoop
  <2>2. x = <<m>>
    BY <1>2, <1>3, <1>4, <2>1, OneMessage
  <2> QED BY <1>11, <1>12, <2>1, <2>2
<1>20. OneInHand'
  <2>1. Len(<<>>) <= 1
    BY SMTT(30)
  <2>2. \A b \in Server : /\ tcp'[b].held = tcp[b].held /\ tcp'[b].link = tcp[b].link
                          /\ tcp'[b].pending = tcp[b].pending
    BY <1>6, <1>10, <1>15
  <2>3. \A i \in DOMAIN tsm'.loops : Len(tsm'.loops[i]) <= 1
    BY <1>14, <1>19, <2>1
  <2> QED BY <1>16, <2>2, <2>3 DEF OneInHand
<1>21. OwnMessages'
  BY <1>6, <1>10, <1>15, <1>16 DEF OwnMessages
<1>22. PICK c \in Seq(Msg) : c = tsm.reveivechan
  BY DEF ServersInv, ServersTyped, TcpServerManage
<1>23. Shared = <<m>> \o c
  BY <1>1, <1>2, <1>16, <1>17, <1>19, <1>22, TheLoop DEF Shared
<1>24. Shared' = c
  <2>1. InHand(w) = <<>>
    BY <1>12, <1>19, InHandOfOne
  <2>2. <<>> \o c = c
    BY SMTT(30)
  <2> QED BY <1>14, <1>22, <2>1, <2>2 DEF Shared
<1>25. \A b \in Server : Own(b)' = Own(b) /\ tcp'[b].wrote = tcp[b].wrote
  BY <1>6, <1>10, <1>15 DEF Own
<1>26. Line(s)' = Line(s)
  <2>1. PICK z \in Seq(Msg) : z = Own(s)
    BY <1>16, OwnTypes
  <2>2. c \o z \in Seq(Msg) /\ <<m>> \in Seq(Msg)
    BY Joined, SMTT(30)
  <2>3. Append(g, m) \o (c \o z) = g \o (<<m>> \o (c \o z))
    BY <2>2, AppendThen
  <2>4. (<<m>> \o c) \o z = <<m>> \o (c \o z)
    BY <2>2, Associative, SMTT(30)
  <2> QED BY <1>6, <1>7, <1>10, <1>15, <1>23, <1>24, <1>25, <2>1, <2>3, <2>4 DEF Line
<1>27. ASSUME NEW b \in Server \ {s}
       PROVE  InOrder(Line(b)', b, tcp'[b].wrote)
  <2>1. Line(b)' = tcp[b].got \o (c \o Own(b))
    BY <1>15, <1>24, <1>25 DEF Line
  <2>2. InOrder(tcp[b].got \o ((<<m>> \o c) \o Own(b)), b, tcp[b].wrote)
    BY <1>16, <1>23 DEF MessagesForwarded, Line
  <2>3. InOrder(tcp[b].got \o (c \o Own(b)), b, tcp[b].wrote)
    BY <1>5, <1>16, <2>2, WayTypes, OwnTypes, OthersPassOver
  <2> QED BY <1>25, <2>1, <2>3
<1>28. InOrder(Line(s)', s, tcp'[s].wrote)
  BY <1>16, <1>25, <1>26 DEF MessagesForwarded
<1>29. MessagesForwarded'
  BY <1>27, <1>28 DEF MessagesForwarded
<1> QED BY <1>18, <1>20, <1>21, <1>29

(* Start: the first receiveloop, and the first subscription to each server. *)
LEMMA StartManagerInv ==
    ASSUME ServersInv, StartManager
    PROVE  ServersInv'
<1> DEFINE R(s) == StartedServer([tcp[s] EXCEPT !.subs = tcp[s].subs + 1])
<1>1. PICK l \in Seq(Seq(Msg)) : l = tsm.loops
  BY DEF ServersInv, ServersTyped, TcpServerManage
<1>2. PICK w : w = Append(l, <<>>)
  OBVIOUS
<1>3. w \in Seq(Seq(Msg)) /\ Len(w) = Len(l) + 1 /\ w[Len(l) + 1] = <<>>
  <2>1. <<>> \in Seq(Msg)
    BY EmptyQueue
  <2> QED BY <1>2, <2>1, SMTT(30)
<1>4. PICK k \in Nat : k = tsm.starts + 1
  <2>1. tsm.starts \in Nat
    BY DEF ServersInv, ServersTyped, TcpServerManage
  <2> QED BY <2>1, SMTT(30)
<1>5. /\ tsm' = [tsm EXCEPT !.atWork = TRUE, !.starts = k, !.loops = w]
      /\ tcp' = [s \in Server |-> R(s)] /\ ~tsm.atWork
  BY <1>1, <1>2, <1>4 DEF StartManager
<1>6. /\ tsm' \in TcpServerManage /\ tsm'.loops = w /\ tsm'.atWork
      /\ tsm'.stopping = tsm.stopping /\ tsm'.stopped = tsm.stopped
      /\ tsm'.reveivechan = tsm.reveivechan
  BY <1>3, <1>5 DEF ServersInv, ServersTyped, TcpServerManage
<1>7. ASSUME NEW s \in Server
      PROVE  LET r == tcp[s]
                 q == R(s)
             IN  /\ q \in TcpServer /\ q.got = r.got /\ q.pending = r.pending
                 /\ q.held = r.held /\ q.stream = r.stream /\ q.wrote = r.wrote
                 /\ q.subs = r.subs + 1 /\ q.link = r.link
  <2>1. PICK r \in TcpServer : r = tcp[s]
    BY DEF ServersInv, ServersTyped
  <2>2. PICK j \in Nat : j = r.subs + 1
    <3>1. r.subs \in Nat
      BY DEF TcpServer
    <3> QED BY <3>1, SMTT(30)
  <2>3. PICK u : u = [r EXCEPT !.subs = j]
    OBVIOUS
  <2>4. /\ u \in TcpServer /\ u.got = r.got /\ u.pending = r.pending
        /\ u.held = r.held /\ u.stream = r.stream /\ u.wrote = r.wrote
        /\ u.subs = j /\ u.link = r.link
    BY <2>3 DEF TcpServer
  <2>5. PICK e \in Int : e = u.senders + 1
    <3>1. u.senders \in Int
      BY <2>4 DEF TcpServer
    <3> QED BY <3>1, SMTT(30)
  <2>6. PICK v : v = [u EXCEPT !.atWork = TRUE, !.starting = TRUE, !.senders = e]
    OBVIOUS
  <2>7. /\ v \in TcpServer /\ v.got = u.got /\ v.pending = u.pending
        /\ v.held = u.held /\ v.stream = u.stream /\ v.wrote = u.wrote
        /\ v.subs = u.subs /\ v.link = u.link
    BY <2>4, <2>6 DEF TcpServer
  <2>8. R(s) = IF u.atWork THEN u ELSE v
    BY <2>1, <2>2, <2>3, <2>5, <2>6 DEF StartedServer
  <2> HIDE DEF R
  <2>9. R(s) = u \/ R(s) = v
    BY <2>8
  <2> QED BY <2>1, <2>2, <2>4, <2>7, <2>9
<1> HIDE DEF R
<1>8. \A s \in Server : tcp'[s] = R(s)
  BY <1>5
<1>9. ServersTyped'
  BY <1>5, <1>6, <1>7 DEF ServersTyped
<1> SUFFICES ASSUME ~tsm.stopped
             PROVE  OneReceiver' /\ OneInHand' /\ OwnMessages' /\ MessagesForwarded'
  BY <1>6, <1>9 DEF ServersInv
<1>10. ServersTyped /\ OneReceiver /\ OneInHand /\ OwnMessages /\ MessagesForwarded
  BY DEF ServersInv
<1>11. Len(l) = 0 /\ \A s \in Server : tcp[s].subs = 0
  BY <1>1, <1>5, <1>10 DEF OneReceiver
<1>12. Len(w) = 1 /\ DOMAIN w = {1} /\ w[1] = <<>> /\ 0 + 1 = 1
  BY <1>3, <1>11, SMTT(30)
<1>13. OneReceiver'
  <2>1. \A s \in Server : tcp'[s].subs = 1
    BY <1>7, <1>8, <1>11, <1>12
  <2> QED BY <1>6, <1>10, <1>12, <2>1 DEF OneReceiver
<1>14. OneInHand'
  <2>1. \A i \in DOMAIN w : Len(w[i]) <= 1
    BY <1>12, SMTT(30)
  <2>2. \A s \in Server : /\ tcp'[s].held = tcp[s].held /\ tcp'[s].pending = tcp[s].pending
                           /\ tcp'[s].link = tcp[s].link
    BY <1>7, <1>8
  <2> QED BY <1>6, <1>10, <2>1, <2>2 DEF OneInHand
<1>15. OwnMessages'
  BY <1>7, <1>8, <1>10 DEF OwnMessages
<1>16. Shared' = Shared
  <2>1. InHand(l) = <<>> /\ InHand(w) = <<>>
    BY <1>3, <1>11, <1>12, InHandOfOne
  <2> QED BY <1>1, <1>6, <2>1 DEF Shared
<1>17. \A s \in Server : Line(s)' = Line(s) /\ tcp'[s].wrote = tcp[s].wrote
  BY <1>7, <1>8, <1>16 DEF Line, Own
<1>18. MessagesForwarded'
  BY <1>6, <1>10, <1>17 DEF MessagesForwarded
<1> QED BY <1>13, <1>14, <1>15, <1>18

(* Every step of the servers; those of the others change nothing of them.  *)
LEMMA ServersInvNext == ServersInv /\ [ServersNext \/ NetNext]_msgvars => ServersInv'
<1> SUFFICES ASSUME ServersInv, [ServersNext \/ NetNext]_msgvars PROVE ServersInv'
  OBVIOUS
<1>1. CASE ServersNext
  <2>1. CASE StartManager
    BY <2>1, StartManagerInv
  <2>2. CASE LoopStep
    BY <2>2, ReceiveMsgInv, ForwardMsgInv DEF LoopStep
  <2>3. ASSUME NEW s \in Server, ServerStep(s) PROVE ServersInv'
    BY <2>3, StopInv, ListenInv, AcceptClientInv, ReadMsgInv, SendToFeedInv, DeliverInv,
       SendInv DEF ServerStep
  <2>4. ASSUME NEW s \in Server, ClientWrites(s) \/ SendMsg(s) \/ ChkError(s)
        PROVE  ServersInv'
    <3>1. ASSUME ChkError(s) PROVE End
      BY <3>1 DEF ChkError
    <3> QED BY <2>4, <3>1, ClientWritesInv, SendInv, EndInv
  <2> QED BY <1>1, <2>1, <2>2, <2>3, <2>4, StopInv DEF ServersNext
<1>2. CASE NetNext \/ UNCHANGED msgvars
  <2>1. tcp' = tcp /\ tsm' = tsm
    BY <1>2 DEF NetNext, NetStart, NetStop, NetStopped, HandlerMsgchan, HandlerMsgLoop,
                msgvars
  <2>2. ServersTyped'
    BY <2>1 DEF ServersInv, ServersTyped
  <2> QED BY <2>1, <2>2, WayKept
<1> QED BY <1>1, <1>2

(* Until the manager is stopped, none of a client's messages is lost,      *)
(* repeated or overtaken on its way through clientHandle, the feed and the *)
(* receiveloop, for any number of servers, messages and channel places:    *)
(* what other servers put into the shared channel moves none of them.      *)
THEOREM ClientsInOrder == MCSpec => []MessagesForwarded
<1>1. MCInit => ServersInv
  BY NewServersInv DEF MCInit, MsgInit
<1>2. [MCNext]_<<vars, nodevars, msgvars, part>> => [ServersNext \/ NetNext]_msgvars
  BY DEF MCNext
<1>3. ServersInv => MessagesForwarded
  BY DEF ServersInv, MessagesForwarded
<1> QED BY <1>1, <1>2, <1>3, ServersInvNext, PTL DEF MCSpec
=============================================================================
