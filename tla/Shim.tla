-------------------------------- MODULE Shim --------------------------------
(***************************************************************************)
(* The chaincode's end of a stream (chaincodecore/chaincode/shim): the     *)
(* loop of chatWithPeer, its state machine, the goroutine of every         *)
(* transaction and the calls the chaincode makes in it, composed with the  *)
(* peer's end.  When the loop ends the process does.                       *)
(*                                                                         *)
(* GetState, PutState, DelState and InvokeChaincode each make a response   *)
(* channel, send a message, wait and drop the channel.                     *)
(***************************************************************************)
EXTENDS ChaincodeSupport

CONSTANTS CallsOf,    \* types of the calls the chaincode makes in a transaction
          MaxCalls,   \* bound: calls in one transaction
          MaxBreaks   \* bound: connections that are lost

ASSUME CallsAssumption == CallsOf \in [Tx -> SUBSET CallTypes]
                          /\ MaxCalls \in Nat /\ MaxBreaks \in Nat

VARIABLES
    sstate,            \* Handler.FSM.Current()
    sloop,             \* chatWithPeer: "off", "run" or "over"
    giving,            \* what sendChannel is sending on a response channel,
                       \* with the handler locked, or None
    responseChannel,   \* Handler.responseChannel: the keys
    ssending,          \* messages in a serialSendAsync
    gor,               \* the goroutine of a transaction: "none", "running",
                       \* "waiting", "leaving", "finishing", "done"
    reply,             \* what its last call came back with
    ncalls

shim == <<sstate, sloop, giving, responseChannel, ssending, gor, reply, ncalls>>
cvars == <<streams, peer, shim>>

CInit ==
    /\ PInit
    /\ sstate = [s \in Stream |-> "created"]
    /\ sloop = [s \in Stream |-> "off"]
    /\ giving = [s \in Stream |-> None]
    /\ responseChannel = [s \in Stream |-> {}]
    /\ ssending = [s \in Stream |-> {}]
    /\ gor = [t \in Tx |-> "none"]
    /\ reply = [t \in Tx |-> "none"]
    /\ ncalls = [t \in Tx |-> 0]

Alive(s) == sloop[s] = "run"
(* The loop is in its select; elsewhere it is inside sendChannel. *)
Selecting(s) == Alive(s) /\ giving[s] = None
ShimOver(s) == sloop[s] = "over"

(* The stream ends for the shim: the process is gone, with its goroutines. *)
Over(s) ==
    /\ sloop' = [sloop EXCEPT ![s] = "over"]
    /\ ssending' = [ssending EXCEPT ![s] = {}]
    /\ gor' = [t \in Tx |-> IF ctx[t] = s /\ gor[t] # "none" THEN "done" ELSE gor[t]]
    /\ responseChannel' = [responseChannel EXCEPT ![s] = {}]

(* chatWithPeer: the chaincode registers by its name, and the loop runs. *)
chatWithPeer(s) ==
    /\ up' = [up EXCEPT ![s] = <<<<"REGISTER", None>>>>]
    /\ sloop' = [sloop EXCEPT ![s] = "run"]

(* Start: the process connects. *)
Start(s) ==
    /\ sloop[s] = "off"
    /\ HandleChaincodeStream(s)
    /\ chatWithPeer(s)
    /\ UNCHANGED <<down, broken, state, registered, chaincodeMap, sending, errc, ctx,
                   notified, asked, work,
                   sstate, giving, responseChannel, ssending, gor, reply, ncalls>>

STransition ==
    {<<"REGISTERED", "created", "established">>, <<"READY", "established", "ready">>} \cup
    {<<e, "ready", "ready">> : e \in {"INIT", "TRANSACTION", "RESPONSE", "ERROR", "COMPLETED"}}

SCannot(s, type) == ~\E d \in {"established", "ready"} : <<type, sstate[s], d>> \in STransition

(* sendChannel: the loop stays with the lock until the message is taken. *)
sendChannel(s, m) ==
    /\ giving' = IF m[2] \in responseChannel[s] THEN [giving EXCEPT ![s] = m] ELSE giving
    /\ UNCHANGED <<sstate, sloop, responseChannel, ssending, gor, up>>

(* A message from the peer; one the state machine has no place for is      *)
(* answered by an ERROR and ends the stream.                               *)
ShimRecv(s) ==
    /\ Selecting(s) /\ down[s] # <<>>
    /\ down' = [down EXCEPT ![s] = Tail(@)]
    /\ LET m == Head(down[s])
       IN  \/ /\ m[1] = "KEEPALIVE"
              /\ ssending' = [ssending EXCEPT ![s] = @ \cup {m}]
              /\ UNCHANGED <<sstate, sloop, giving, responseChannel, gor, up>>
           \/ /\ m[1] # "KEEPALIVE" /\ SCannot(s, m[1])
              /\ up' = IF broken[s] THEN up ELSE [up EXCEPT ![s] = Append(@, <<"ERROR", m[2]>>)]
              /\ Over(s)
              /\ UNCHANGED <<sstate, giving>>
           \/ /\ m[1] \in {"REGISTERED", "READY"} /\ ~SCannot(s, m[1])
              /\ sstate' = [sstate EXCEPT ![s] =
                                IF m[1] = "READY" THEN "ready" ELSE "established"]
              /\ UNCHANGED <<sloop, giving, responseChannel, ssending, gor, up>>
           \/ /\ m[1] \in {"INIT", "TRANSACTION"} /\ ~SCannot(s, m[1])
              /\ gor' = [gor EXCEPT ![m[2]] = "running"]
              /\ UNCHANGED <<sstate, sloop, giving, responseChannel, ssending, up>>
           \/ /\ m[1] \in {"RESPONSE", "ERROR"} /\ ~SCannot(s, m[1])
              /\ sendChannel(s, m)
    /\ UNCHANGED <<broken, peer, reply, ncalls>>

(* The end of the stream or its failure. *)
ShimRecvEnds(s) ==
    /\ Selecting(s)
    /\ down[s] = <<>> /\ (loop[s] = "over" \/ broken[s])
    /\ Over(s)
    /\ UNCHANGED <<streams, peer, sstate, giving, reply, ncalls>>

(* sendReceive, when its message has been sent: it goes on waiting. *)
LeavesOnSent(t) == "leaving"

AfterSent(t) == gor[t]

(* The other end of the rendezvous: the goroutine in sendReceive. *)
Delivered(s) ==
    /\ Alive(s) /\ giving[s] # None
    /\ LET t == giving[s][2]
       IN  /\ gor[t] = "waiting"
           /\ gor' = [gor EXCEPT ![t] = "leaving"]
           /\ reply' = [reply EXCEPT ![t] = giving[s][1]]
    /\ giving' = [giving EXCEPT ![s] = None]
    /\ UNCHANGED <<streams, peer, sstate, sloop, responseChannel, ssending, ncalls>>

(* The loop takes a transaction's last message from nextState and sends    *)
(* it.  (afterError finds no channel of a transaction that has ended.)     *)
ShimNextState(t, type) ==
    LET s == ctx[t]
    IN  /\ gor[t] = "finishing" /\ Selecting(s)
        /\ ~SCannot(s, type)
        /\ gor' = [gor EXCEPT ![t] = "done"]
        /\ ssending' = [ssending EXCEPT ![s] = @ \cup {<<type, t>>}]
        /\ UNCHANGED <<streams, peer, sstate, sloop, giving, responseChannel, reply, ncalls>>

(* serialSendAsync.  A failed send ends a call that waits for it; that of  *)
(* a last message ends the loop, which dereferences its nil message; that  *)
(* of a keepalive is not looked at.                                        *)
ShimSend(s, m) ==
    /\ m \in ssending[s]
    /\ IF ~broken[s] /\ loop[s] # "over"
       THEN /\ up' = [up EXCEPT ![s] = Append(@, m)]
            /\ ssending' = [ssending EXCEPT ![s] = @ \ {m}]
            /\ gor' = IF m[1] \in CallTypes THEN [gor EXCEPT ![m[2]] = AfterSent(m[2])]
                      ELSE gor
            /\ UNCHANGED <<sloop, responseChannel, reply>>
       ELSE /\ UNCHANGED up
            /\ CASE m[1] \in CallTypes ->
                    /\ gor' = [gor EXCEPT ![m[2]] = "leaving"]
                    /\ reply' = [reply EXCEPT ![m[2]] = "failed"]
                    /\ ssending' = [ssending EXCEPT ![s] = @ \ {m}]
                    /\ UNCHANGED <<sloop, responseChannel>>
                 [] m[1] = "KEEPALIVE" ->
                    /\ ssending' = [ssending EXCEPT ![s] = @ \ {m}]
                    /\ UNCHANGED <<sloop, responseChannel, gor, reply>>
                 [] OTHER -> Selecting(s) /\ Over(s) /\ UNCHANGED reply
    /\ UNCHANGED <<down, broken, peer, sstate, giving, ncalls>>

-----------------------------------------------------------------------------
(* The goroutine of a transaction                                          *)

(* sendChannel has the handler's lock while it waits for its receiver. *)
Unlocked(t) == Selecting(ctx[t])

(* A call up to its wait: createChannel, then the send in a goroutine. *)
Call(t, type) ==
    /\ gor[t] = "running" /\ ncalls[t] < MaxCalls /\ type \in CallsOf[t] /\ Unlocked(t)
    /\ ncalls' = [ncalls EXCEPT ![t] = @ + 1]
    /\ responseChannel' = [responseChannel EXCEPT ![ctx[t]] = @ \cup {t}]
    /\ ssending' = [ssending EXCEPT ![ctx[t]] = @ \cup {<<type, t>>}]
    /\ gor' = [gor EXCEPT ![t] = "waiting"]
    /\ reply' = [reply EXCEPT ![t] = "none"]
    /\ UNCHANGED <<streams, peer, sstate, sloop, giving>>

handleGetState(t) == Call(t, "GET_STATE")
handlePutState(t) == Call(t, "PUT_STATE")
handleDelState(t) == Call(t, "DEL_STATE")
handleInvokeChaincode(t) == Call(t, "INVOKE_CHAINCODE")

(* The deferred deleteChannel: the call returns. *)
CallReturns(t) ==
    /\ gor[t] = "leaving" /\ Unlocked(t)
    /\ responseChannel' = [responseChannel EXCEPT ![ctx[t]] = @ \ {t}]
    /\ gor' = [gor EXCEPT ![t] = "running"]
    /\ UNCHANGED <<streams, peer, sstate, sloop, giving, ssending, reply, ncalls>>

(* Init or Invoke has returned: triggerNextState waits for the loop. *)
RunEnds(t, kind) ==
    /\ gor[t] = "running" /\ KindOf[t] = kind
    /\ gor' = [gor EXCEPT ![t] = "finishing"]
    /\ UNCHANGED <<streams, peer, sstate, sloop, giving, responseChannel, ssending, reply,
                   ncalls>>

handleInit(t) == RunEnds(t, "INIT")
handleTransaction(t) == RunEnds(t, "TRANSACTION")

(* The connection is lost, with what is on its way to the shim; what is on *)
(* its way to the peer is lost or has just arrived.                        *)
Break(s) ==
    /\ ~broken[s] /\ Alive(s) /\ Cardinality({r \in Stream : broken[r]}) < MaxBreaks
    /\ broken' = [broken EXCEPT ![s] = TRUE]
    /\ up' \in {up, [up EXCEPT ![s] = <<>>]} /\ down' = [down EXCEPT ![s] = <<>>]
    /\ UNCHANGED <<peer, shim>>

-----------------------------------------------------------------------------
PeerLoop(s) ==
    /\ PeerRecv(s) \/ PeerRecvEnds(s, ShimOver(s)) \/ Deregister(s)
       \/ \E m \in sending[s] : PeerSend(s, m)
    /\ UNCHANGED shim

Launcher(s) ==
    /\ NextReady(s) \/ Keepalive(s) \/ \E t \in Tx : Execute(s, t)
    /\ UNCHANGED shim

Ledger == (\E t \in Tx : Answer(t)) /\ UNCHANGED shim

ShimLoop(s) ==
    \/ ShimRecv(s) \/ ShimRecvEnds(s) \/ Delivered(s)
    \/ \E m \in ssending[s] : ShimSend(s, m)

Goroutine(t) ==
    \/ CallReturns(t)
    \/ \E type \in {"COMPLETED", "ERROR"} : ShimNextState(t, type)

Chaincode(t) ==
    \/ handleInit(t) \/ handleTransaction(t)
    \/ handleGetState(t) \/ handlePutState(t) \/ handleDelState(t)
    \/ handleInvokeChaincode(t)

CNext ==
    \/ \E s \in Stream : Start(s) \/ PeerLoop(s) \/ Launcher(s) \/ ShimLoop(s) \/ Break(s)
    \/ \E t \in Tx : Goroutine(t) \/ Chaincode(t)
    \/ Ledger

(***************************************************************************)
(* Fairness: loops and goroutines run, and the chaincode's Invoke returns. *)
(* None for the launcher, the ledger or the connection.                    *)
(***************************************************************************)
CSpec ==
    /\ CInit /\ [][CNext]_cvars
    /\ \A s \in Stream : WF_cvars(PeerLoop(s)) /\ WF_cvars(ShimLoop(s))
    /\ \A t \in Tx : WF_cvars(Goroutine(t) \/ Chaincode(t))

-----------------------------------------------------------------------------
(* The table is exact: a name's entry is the one handler that registered   *)
(* it and has not deregistered, although deregistering goes by name and a  *)
(* restarted chaincode may register before its old stream's end is seen.   *)
RegistryExact ==
    \A s \in Stream :
        chaincodeMap[NameOf[s]] = s <=> registered[s] /\ loop[s] # "over"

(* The shim's loop, which sends on a response channel with the handler's   *)
(* lock held, always has a receiver there; and a call that has returned    *)
(* has an answer, or its message was not sent.                             *)
LoopServes ==
    /\ \A s \in Stream : giving[s] # None => gor[giving[s][2]] = "waiting"
    /\ \A t \in Tx : gor[t] = "leaving" => reply[t] # "none"

Pending(t) == ctx[t] # None /\ notified[t] = <<>> /\ loop[ctx[t]] # "over"

(* Every transaction that was sent to a chaincode comes back to its        *)
(* context, or the stream is over, unless a call in it is never answered;  *)
(* and a chaincode whose process has ended, or whose connection is lost,   *)
(* does not keep its name: it can be started and registered again.         *)
TransactionsEnd ==
    /\ \A t \in Tx : []<>~Pending(t) \/ <>[](t \in asked)
    /\ \A s \in Stream : ShimOver(s) \/ broken[s] ~> chaincodeMap[NameOf[s]] # s
=============================================================================
