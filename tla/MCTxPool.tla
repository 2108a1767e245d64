------------------------------ MODULE MCTxPool ------------------------------
(***************************************************************************)
(* The pool, the node whose services it belongs to, and the servers of     *)
(* messages; a behaviour is one of the "pool", of the "node", of the       *)
(* "servers" or of the "net" handler.                                      *)
(***************************************************************************)
EXTENDS TxPool, Node, MsgServers, TLC

CONSTANTS plain, complaint, report, s1, s2

MCBatch == {<<plain>>, <<report>>, <<complaint, complaint>>}

MCMaxMsgs == s1 :> 2 @@ s2 :> 1

VARIABLE part

MCInit ==
    /\ part \in {"pool", "node", "servers", "net"}
    /\ Init /\ NodeInit /\ MsgInit
    /\ hasEpoch => part = "pool"

MCNext ==
    \/ part = "pool" /\ Next /\ UNCHANGED <<nodevars, msgvars, part>>
    \/ part = "node" /\ NodeNext /\ UNCHANGED <<vars, msgvars, part>>
    \/ part = "servers" /\ ServersNext /\ UNCHANGED <<vars, nodevars, part>>
    \/ part = "net" /\ NetNext /\ UNCHANGED <<vars, nodevars, part>>

MCSpec == MCInit /\ [][MCNext]_<<vars, nodevars, msgvars, part>> /\ Fair /\ MsgFair

-----------------------------------------------------------------------------
\* Starting and stopping is exact: the node's Start is all or nothing, and the
\* epoch has one loop while it works and none that nobody can stop.
StartStopExact == StartsWhole /\ OneLoop

\* Nobody is blocked for ever: additions return the pool's lock if the epoch runs,
\* what was read from a client is forwarded, and the Stop of the epoch, of the
\* servers and of the NetmsgHandler returns although each waits, with its lock
\* held, for a loop that may be waiting itself.
PoolCallsReturn == AddsReturn /\ []<>(EpochRests /\ ServersRest)
=============================================================================
