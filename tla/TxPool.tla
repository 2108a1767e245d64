------------------------------- MODULE TxPool -------------------------------
(***************************************************************************)
(* The transaction pool and the complaint epoch: libraries/chain/space/    *)
(* tx_pool.go and epoch/epoch.go, with the reader of the pool's feed,      *)
(* Publish.Worker of libraries/chain/publish/publish.go.                   *)
(*                                                                         *)
(* A transaction is plain, a complaint (type 6), which goes to the epoch's *)
(* channel and not to the pool, or a liquidation report (type 9), which    *)
(* enters the pool when a goroutine has downloaded it.  Additions hold the *)
(* pool's lock for writing; everything else, the write to the map at the   *)
(* end of a download and the deletions of RemoveTx included, holds it for  *)
(* reading.  Go stops the program when it notices that a map is written    *)
(* while it is used: dead.  The lists txpending and txqueue stay empty, as *)
(* enqueueTx never fills them.                                             *)
(***************************************************************************)
EXTENDS Integers, FiniteSets, Sequences

CONSTANTS Caller,      \* goroutines that add, read or remove transactions
          Tx, Complaint, Report,
          Batch,       \* what AddLocals and AddRemotes are called with
          MaxCalls,    \* bound: the calls of a goroutine
          Download,    \* bound: the downloads
          Controller,  \* goroutines that start and stop the epoch
          MaxSwitches, \* bound: the calls of a controller
          EpochCap     \* the capacity of txchan, 32 in the code

ASSUME PoolAssumption ==
    /\ Complaint \subseteq Tx /\ Report \subseteq Tx \ Complaint
    /\ Batch \subseteq Seq(Tx)
    /\ MaxCalls \in Nat /\ MaxSwitches \in Nat /\ EpochCap \in Nat \ {0}

VARIABLES
  writer,        \* the callers that hold rwLock for writing: none or one
  pc, todo, calls,   \* a caller: its place, what it has still to add
  all,           \* the pool
  dl,            \* the downloads: the transaction and the place
  saved,         \* the reports in the database
  publisher,     \* Publish.Worker: "ready" to receive, or "busy"
  hasEpoch, txchan, atWork, mu, ctl, switches, loops,   \* the epoch
  dead,          \* the program was stopped
  taken, applied \* history: what blocks took, and the reports they applied

pool == <<writer, pc, todo, calls, all, publisher>>
epoch == <<hasEpoch, txchan, atWork, mu, ctl, switches, loops>>
vars == <<pool, dl, saved, epoch, dead, taken, applied>>

Init ==
    /\ writer = {} /\ all = {} /\ saved = {}
    /\ pc = [c \in Caller |-> "idle"] /\ todo = [c \in Caller |-> <<>>]
    /\ calls = [c \in Caller |-> 0]
    /\ dl = [d \in Download |-> [tx |-> <<>>, at |-> "unused"]]
    /\ publisher = "ready"
    /\ hasEpoch \in BOOLEAN /\ txchan = <<>> /\ atWork = FALSE /\ mu = {}
    /\ ctl = [k \in Controller |-> "idle"] /\ loops = 0
    /\ switches = [k \in Controller |-> 0]
    /\ dead = FALSE
    /\ taken = {} /\ applied = {}

Readers == {c \in Caller : pc[c] \in {"reading", "removing"}}
             \cup {d \in Download : dl[d].at \in {"locked", "saved"}}

Goto(c, place) == pc' = [pc EXCEPT ![c] = place]
Move(d, place) == dl' = [dl EXCEPT ![d].at = place]

-----------------------------------------------------------------------------
(* Additions.                                                              *)

IsReport(t) == t \in Report

\* addTx, with a batch of one, and addTxs.  There are downloads left for it.
AddTxs(c, txs) ==
    /\ pc[c] = "idle" /\ calls[c] < MaxCalls
    /\ writer = {} /\ Readers = {}
    /\ Len(SelectSeq(txs, IsReport)) <= Cardinality({d \in Download : dl[d].at = "unused"})
    /\ writer' = {c}
    /\ todo' = [todo EXCEPT ![c] = txs]
    /\ calls' = [calls EXCEPT ![c] = @ + 1]
    /\ Goto(c, "add")
    /\ UNCHANGED <<all, publisher, dl, saved, epoch, dead, taken, applied>>

\* add: the transaction is known, or validateTx refuses it ...
Refuse(c) ==
    /\ pc[c] = "add" /\ todo[c] # <<>>
    /\ todo' = [todo EXCEPT ![c] = Tail(@)]
    /\ UNCHANGED <<writer, pc, calls, all, publisher, dl, saved, epoch, dead, taken,
                   applied>>

\* ... or it is new and valid.
Accept(c) ==
    /\ pc[c] = "add" /\ todo[c] # <<>> /\ Head(todo[c]) \notin all
    /\ Goto(c, IF Head(todo[c]) \in Complaint THEN "complain" ELSE "enqueue")
    /\ UNCHANGED <<writer, todo, calls, all, publisher, dl, saved, epoch, dead, taken,
                   applied>>

\* A complaint goes to the epoch, and waits if txchan is full.
AddComplaint(c) ==
    /\ pc[c] = "complain"
    /\ hasEpoch => Len(txchan) < EpochCap
    /\ txchan' = IF hasEpoch THEN Append(txchan, Head(todo[c])) ELSE txchan
    /\ todo' = [todo EXCEPT ![c] = Tail(@)]
    /\ Goto(c, "add")
    /\ UNCHANGED <<writer, calls, all, publisher, dl, saved, hasEpoch, atWork, mu,
                   ctl, switches, loops, dead, taken, applied>>

EnqueueAtOnce(c) ==
    /\ pc[c] = "enqueue"
    /\ all' = all \cup {Head(todo[c])}
    /\ Goto(c, "announce")
    /\ UNCHANGED <<writer, todo, calls, publisher, dl, saved, epoch, dead, taken,
                   applied>>

\* enqueueTx: a report is downloaded first.
EnqueueTx(c) ==
    /\ pc[c] = "enqueue"
    /\ IF Head(todo[c]) \in Report
       THEN \E d \in Download :
              /\ dl[d].at = "unused"
              /\ dl' = [dl EXCEPT ![d] = [tx |-> Head(todo[c]), at |-> "fetching"]]
              /\ UNCHANGED all
       ELSE all' = all \cup {Head(todo[c])} /\ UNCHANGED dl
    /\ Goto(c, "announce")
    /\ UNCHANGED <<writer, todo, calls, publisher, saved, epoch, dead, taken,
                   applied>>

\* txFeed.Send: Publish.Worker takes the event; its channel has no buffer.
Announce(c) ==
    /\ pc[c] = "announce" /\ publisher = "ready"
    /\ publisher' = "busy"
    /\ todo' = [todo EXCEPT ![c] = Tail(@)]
    /\ Goto(c, "add")
    /\ UNCHANGED <<writer, calls, all, dl, saved, epoch, dead, taken, applied>>

PublishWorker ==
    /\ publisher = "busy"
    /\ publisher' = "ready"
    /\ UNCHANGED <<writer, pc, todo, calls, all, dl, saved, epoch, dead, taken,
                   applied>>

AddedLocked(c) ==
    /\ pc[c] = "add" /\ todo[c] = <<>>
    /\ Goto(c, "idle")
    /\ UNCHANGED <<writer, todo, calls, all, publisher, dl, saved, epoch, dead, taken,
                   applied>>

Added(c) ==
    /\ pc[c] = "add" /\ todo[c] = <<>>
    /\ writer' = {}
    /\ Goto(c, "idle")
    /\ UNCHANGED <<todo, calls, all, publisher, dl, saved, epoch, dead, taken,
                   applied>>

-----------------------------------------------------------------------------
(* downLoad.                                                               *)

\* A download or a check fails.
DownloadFails(d) ==
    /\ dl[d].at = "fetching"
    /\ Move(d, "failed")
    /\ UNCHANGED <<pool, saved, epoch, dead, taken, applied>>

LockDownload(d) ==
    /\ dl[d].at = "fetching" /\ writer = {}
    /\ Move(d, "locked")
    /\ UNCHANGED <<pool, saved, epoch, dead, taken, applied>>

SaveReport(d) ==
    /\ dl[d].at = "locked"
    /\ saved' = saved \cup {dl[d].tx}
    /\ Move(d, "saved")
    /\ UNCHANGED <<pool, epoch, dead, taken, applied>>

PoolReport(d) ==
    /\ dl[d].at = "saved"
    /\ all' = all \cup {dl[d].tx}
    /\ Move(d, "done")
    /\ UNCHANGED <<writer, pc, todo, calls, publisher, saved, epoch, dead, taken,
                   applied>>

-----------------------------------------------------------------------------
(* Readers.                                                                *)

RLock(c) ==
    /\ pc[c] = "idle" /\ calls[c] < MaxCalls /\ writer = {}
    /\ calls' = [calls EXCEPT ![c] = @ + 1]
    /\ \E place \in {"reading", "removing"} : Goto(c, place)
    /\ UNCHANGED <<writer, todo, all, publisher, dl, saved, epoch, dead, taken,
                   applied>>

\* GetAllTx: a block takes the transactions of the pool.
GetAllTx(c) ==
    /\ pc[c] = "reading"
    /\ taken' = taken \cup all
    /\ Goto(c, "idle")
    /\ UNCHANGED <<writer, todo, calls, all, publisher, dl, saved, epoch, dead,
                   applied>>

\* RemoveTx: of transactions a block has taken.
RemoveTx(c) ==
    /\ pc[c] = "removing"
    /\ \E hashes \in SUBSET (all \cap taken) : all' = all \ hashes
    /\ Goto(c, "idle")
    /\ UNCHANGED <<writer, todo, calls, publisher, dl, saved, epoch, dead, taken,
                   applied>>

\* Two goroutines with the lock for reading, and one of them writes the map.
ConcurrentMapAccess ==
    /\ Cardinality(Readers) > 1
    /\ \/ \E c \in Caller : pc[c] = "removing"
       \/ \E d \in Download : dl[d].at = "saved"
    /\ dead' = TRUE
    /\ UNCHANGED <<pool, dl, saved, epoch, taken, applied>>

\* A block with the report is applied: the report is used, and deleted.
ApplyReport(t) ==
    /\ t \in taken \cap Report \cap saved
    /\ saved' = saved \ {t} /\ applied' = applied \cup {t}
    /\ UNCHANGED <<pool, dl, epoch, dead, taken>>

-----------------------------------------------------------------------------
(* The epoch.                                                              *)

Switch(k, place, n) == /\ ctl' = [ctl EXCEPT ![k] = place]
                       /\ switches' = [switches EXCEPT ![k] = @ + n]

Start(k) ==
    /\ ctl[k] = "idle" /\ switches[k] < MaxSwitches /\ mu = {}
    /\ atWork' = TRUE
    /\ loops' = IF atWork THEN loops ELSE loops + 1
    /\ Switch(k, "idle", 1)
    /\ UNCHANGED <<pool, hasEpoch, txchan, mu, dl, saved, dead, taken, applied>>

StopAtOnce(k) ==
    /\ ctl[k] = "idle" /\ switches[k] < MaxSwitches /\ mu = {}
    /\ atWork' = FALSE
    /\ Switch(k, IF atWork THEN "stopping" ELSE "idle", 1)
    /\ UNCHANGED <<pool, hasEpoch, txchan, mu, loops, dl, saved, dead, taken,
                   applied>>

Stop(k) ==
    /\ ctl[k] = "idle" /\ switches[k] < MaxSwitches /\ mu = {}
    /\ IF atWork THEN mu' = {k} /\ Switch(k, "stopping", 1)
                 ELSE UNCHANGED mu /\ Switch(k, "idle", 1)
    /\ UNCHANGED <<pool, hasEpoch, txchan, atWork, loops, dl, saved, dead, taken,
                   applied>>

\* The loop receives from stop and returns.
Stopped(k) ==
    /\ ctl[k] = "stopping" /\ loops > 0
    /\ loops' = loops - 1
    /\ atWork' = FALSE /\ mu' = {}
    /\ Switch(k, "idle", 0)
    /\ UNCHANGED <<pool, hasEpoch, txchan, dl, saved, dead, taken, applied>>

\* VerificationEpochTx: the transaction is signed and sent to the feed, whose
\* subscribers read; if it cannot be signed, it is dropped.
VerifyAndReturn ==
    /\ loops > 0 /\ txchan # <<>>
    /\ txchan' = Tail(txchan)
    /\ loops' = loops - 1
    /\ UNCHANGED <<pool, hasEpoch, atWork, mu, ctl, switches, dl, saved, dead, taken,
                   applied>>

VerificationEpochTx ==
    /\ loops > 0 /\ txchan # <<>>
    /\ txchan' = Tail(txchan)
    /\ UNCHANGED <<pool, hasEpoch, atWork, mu, ctl, switches, loops, dl, saved, dead,
                   taken, applied>>

-----------------------------------------------------------------------------
CallStep(c) == \/ Refuse(c) \/ Accept(c) \/ AddComplaint(c) \/ EnqueueTx(c) \/ Announce(c)
               \/ Added(c) \/ GetAllTx(c) \/ RemoveTx(c)

DownloadStep(d) == LockDownload(d) \/ SaveReport(d) \/ PoolReport(d)

Next ==
    /\ ~dead
    /\ \/ \E c \in Caller : CallStep(c) \/ RLock(c) \/ \E txs \in Batch : AddTxs(c, txs)
       \/ \E d \in Download : DownloadStep(d) \/ DownloadFails(d)
       \/ \E k \in Controller : Start(k) \/ Stop(k) \/ Stopped(k)
       \/ \E t \in Report : ApplyReport(t)
       \/ PublishWorker \/ VerificationEpochTx \/ ConcurrentMapAccess

Spec == Init /\ [][Next]_vars

\* Goroutines run.  Whether a transaction is added, a report can be had and the
\* epoch is switched is up to others.
Fair ==
    /\ \A c \in Caller : WF_vars(~dead /\ CallStep(c))
    /\ \A d \in Download : WF_vars(~dead /\ DownloadStep(d))
    /\ \A k \in Controller : WF_vars(~dead /\ Stopped(k))
    /\ WF_vars(~dead /\ PublishWorker) /\ WF_vars(~dead /\ VerificationEpochTx)

-----------------------------------------------------------------------------
(***************************************************************************)
(* Properties.                                                             *)
(***************************************************************************)

\* A block that takes a liquidation report from the pool finds it in the
\* database, unless an earlier block has applied it: downLoad saves the report
\* before it pools the transaction, as readers may look in between.
ReportStored == \A t \in (all \cup taken) \cap Report : t \in saved \cup applied

\* Starting and stopping the epoch never leaves two loops, nor a loop that
\* nobody can stop.
OneLoop == loops = IF atWork THEN 1 ELSE 0

\* If there is no epoch or it keeps running, whoever adds transactions is not
\* blocked for ever with the pool's lock, though the feed and txchan make it wait.
AddsReturn == (~hasEpoch \/ []<>(loops > 0)) => []<>(dead \/ writer = {})

EpochRests == dead \/ \A k \in Controller : ctl[k] = "idle"
=============================================================================
