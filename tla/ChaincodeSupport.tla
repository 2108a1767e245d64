-------------------------- MODULE ChaincodeSupport --------------------------
(***************************************************************************)
(* The peer's end of the chaincode streams: ChaincodeSupport's table of    *)
(* running chaincodes and one Handler for every stream                     *)
(* (chaincodecore/chaincode/chaincode_support.go and handler.go).  A       *)
(* Handler is a loop that takes one message at a time, from the stream or  *)
(* from its channel nextState, through a small state machine.              *)
(*                                                                         *)
(* A message is <<type, txid>>.  A stream keeps the order of what one end  *)
(* sends; sends in goroutines of their own (serialSendAsync) wait in a set *)
(* until they have the serial lock.                                        *)
(*                                                                         *)
(* External: the launcher, which feeds nextState and has the transaction   *)
(* contexts, and the ledger queries behind the handlers of GET_STATE and   *)
(* its like.  Both are missing from the repository (the second is          *)
(* commented out) and may or may not happen here.                          *)
(***************************************************************************)
EXTENDS Integers, FiniteSets, Sequences

CONSTANTS Stream,          \* streams, each of one process of a chaincode,
                           \* numbered as they begin
          NameOf,          \* the name the process of a stream registers
          Tx,              \* transaction ids
          KindOf,          \* "INIT" or "TRANSACTION", for each of them
          None,
          MaxWork          \* bound: transactions and keepalive messages sent

ASSUME StreamAssumption == Stream \subseteq Nat /\ None \notin Stream \cup Tx /\ MaxWork \in Nat
                           /\ KindOf \in [Tx -> {"INIT", "TRANSACTION"}]

VARIABLES
    up, down,        \* what is on its way to the peer, to the shim
    broken,          \* whether the connection is lost
    state,           \* Handler.FSM.Current()
    registered,      \* Handler.registered
    loop,            \* processStream: "none", "run", "return" or "over"
    chaincodeMap,    \* runningChaincodes.chaincodeMap, by its handler's stream
    sending,         \* messages in a serialSendAsync of the handler
    errc,            \* whether a failed send is in the loop's errc
    ctx,             \* external: txCtxs, the stream a transaction was sent on
    notified,        \* what came on the transaction's responseNotifier
    asked,           \* external: transactions with a call to be answered
    work             \* transactions and keepalive messages so far

streams == <<up, down, broken>>
peer == <<state, registered, loop, chaincodeMap, sending, errc, ctx, notified,
          asked, work>>

CallTypes == {"GET_STATE", "PUT_STATE", "DEL_STATE", "INVOKE_CHAINCODE"}

PInit ==
    /\ up = [s \in Stream |-> <<>>] /\ down = [s \in Stream |-> <<>>]
    /\ broken = [s \in Stream |-> FALSE]
    /\ state = [s \in Stream |-> "created"]
    /\ registered = [s \in Stream |-> FALSE]
    /\ loop = [s \in Stream |-> "none"]
    /\ chaincodeMap = [n \in {NameOf[s] : s \in Stream} |-> None]
    /\ sending = [s \in Stream |-> {}]
    /\ errc = [s \in Stream |-> FALSE]
    /\ ctx = [t \in Tx |-> None]
    /\ notified = [t \in Tx |-> <<>>]
    /\ asked = {}
    /\ work = 0

(* The handler's state machine: the state an event leads to, if it can. *)
Transition ==
    LET ready == CallTypes \cup {"COMPLETED", "ERROR", "RESPONSE", "INIT", "TRANSACTION"}
    IN  {<<"REGISTER", "created", "established">>, <<"READY", "established", "ready">>}
        \cup {<<e, "ready", "ready">> : e \in ready}

Cannot(s, type) == ~\E d \in {"established", "ready"} : <<type, state[s], d>> \in Transition

Return(s) == loop' = [loop EXCEPT ![s] = "return"]

(* notify: the context of the transaction, if it is there, gets the        *)
(* message (its channel has room for one).                                 *)
NotifiesCompleted(m) ==
    notified' = IF m[1] = "COMPLETED" THEN [notified EXCEPT ![m[2]] = Append(@, m[1])]
                ELSE notified

notify(m) ==
    notified' = IF m[2] \in Tx /\ ctx[m[2]] # None
                THEN [notified EXCEPT ![m[2]] = Append(@, m[1])] ELSE notified

(* registerHandler: the name is taken while a registered handler has it. *)
TakenNever(s) == FALSE

Taken(s) == LET h == chaincodeMap[NameOf[s]] IN h # None /\ registered[h]

registerHandler(s) ==
    /\ ~Taken(s)
    /\ chaincodeMap' = [chaincodeMap EXCEPT ![NameOf[s]] = s]
    /\ registered' = [registered EXCEPT ![s] = TRUE]

(* beforeRegisterEvent: register, then send REGISTERED. *)
Register(s) ==
    /\ registerHandler(s)
    /\ IF broken[s] THEN Return(s) /\ UNCHANGED <<state, down>>
       ELSE /\ down' = [down EXCEPT ![s] = Append(@, <<"REGISTERED", None>>)]
            /\ state' = [state EXCEPT ![s] = "established"]
            /\ UNCHANGED loop
    /\ UNCHANGED <<notified, asked>>

(* HandleMessage, for a message that is not refused (READY: see below). *)
Handle(s, m) ==
    \/ /\ m[1] \in {"COMPLETED", "ERROR"} /\ state[s] = "ready"
       /\ notify(m)
       /\ UNCHANGED <<state, registered, loop, chaincodeMap, down, asked>>
    \/ /\ m[1] = "REGISTER" /\ ~Cannot(s, m[1])
       /\ Register(s)
    \/ /\ m[1] \in CallTypes \cup {"TRANSACTION", "INIT"} /\ ~Cannot(s, m[1])
       /\ asked' = IF m[1] \in CallTypes THEN asked \cup {m[2]} ELSE asked
       /\ UNCHANGED <<state, registered, loop, chaincodeMap, down, notified>>

(* The errors of HandleMessage: no transition, or a duplicate register. *)
Refused(s, m) ==
    /\ ~(m[1] \in {"COMPLETED", "ERROR"} /\ state[s] = "ready")
    /\ Cannot(s, m[1]) \/ (m[1] = "REGISTER" /\ Taken(s))

Refuse(s) ==
    /\ Return(s)
    /\ UNCHANGED <<state, registered, chaincodeMap, down, notified, asked>>

-----------------------------------------------------------------------------
(* processStream                                                           *)

(* A stream begins: a new handler, and a first Recv under way. *)
HandleChaincodeStream(s) ==
    /\ \A r \in Stream : loop[r] = "none" <=> r >= s
    /\ loop' = [loop EXCEPT ![s] = "run"]

(* A message from the stream; keepalives end here. *)
PeerRecv(s) ==
    /\ loop[s] = "run" /\ up[s] # <<>>
    /\ up' = [up EXCEPT ![s] = Tail(@)]
    /\ LET m == Head(up[s])
       IN  IF m[1] = "KEEPALIVE"
           THEN UNCHANGED <<state, registered, loop, chaincodeMap, down, notified, asked>>
           ELSE Handle(s, m) \/ (Refused(s, m) /\ Refuse(s))
    /\ UNCHANGED <<broken, sending, errc, ctx, work>>

(* The end of the stream, or its failure, or that of an earlier send. *)
PeerRecvEnds(s, shimOver) ==
    /\ loop[s] = "run"
    /\ (up[s] = <<>> /\ (shimOver \/ broken[s])) \/ errc[s]
    /\ Return(s)
    /\ UNCHANGED <<streams, state, registered, chaincodeMap, sending, errc, ctx,
                   notified, asked, work>>

(* A message from nextState, on its way to the shim: READY is sent before  *)
(* the next message is looked at, others in a goroutine.  An error of      *)
(* HandleMessage is lost if the Recv that is under way returns just then:  *)
(* both write the loop's err.                                              *)
NextState(s, m) ==
    /\ loop[s] = "run"
    /\ \/ /\ Handle(s, m)
          /\ sending' = [sending EXCEPT ![s] = @ \cup {m}]
       \/ /\ Refused(s, m)
          /\ \/ Refuse(s) /\ UNCHANGED sending
             \/ /\ up[s] # <<>>
                /\ sending' = [sending EXCEPT ![s] = @ \cup {m}]
                /\ UNCHANGED <<state, registered, loop, chaincodeMap, down,
                               notified, asked>>
    /\ UNCHANGED <<up, broken, errc>>

NextReady(s) ==
    /\ loop[s] = "run" /\ ~Cannot(s, "READY")
    /\ state' = [state EXCEPT ![s] = "ready"]
    /\ IF broken[s] THEN Return(s) /\ UNCHANGED down
       ELSE down' = [down EXCEPT ![s] = Append(@, <<"READY", None>>)] /\ UNCHANGED loop
    /\ UNCHANGED <<up, broken, registered, chaincodeMap, sending, errc, ctx,
                   notified, asked, work>>

Keepalive(s) ==
    /\ loop[s] = "run" /\ work < MaxWork
    /\ work' = work + 1
    /\ sending' = [sending EXCEPT ![s] = @ \cup {<<"KEEPALIVE", None>>}]
    /\ UNCHANGED <<streams, state, registered, loop, chaincodeMap, errc, ctx,
                   notified, asked>>

(* serialSendAsync: one of the goroutines has the serial lock.  The result *)
(* of a keepalive or of an answer is not looked at.                        *)
PeerSend(s, m) ==
    /\ m \in sending[s]
    /\ sending' = [sending EXCEPT ![s] = @ \ {m}]
    /\ IF broken[s] \/ loop[s] = "over"
       THEN /\ errc' = [errc EXCEPT ![s] = @ \/ m[1] \notin {"KEEPALIVE", "RESPONSE", "ERROR"}]
            /\ UNCHANGED down
       ELSE down' = [down EXCEPT ![s] = Append(@, m)] /\ UNCHANGED errc
    /\ UNCHANGED <<up, broken, state, registered, loop, chaincodeMap, ctx, notified,
                   asked, work>>

(* The deferred deregister: by name, if the handler ever registered. *)
NotDeregistered(s) ==
    IF registered[s] /\ ~errc[s] /\ ~broken[s]
    THEN [chaincodeMap EXCEPT ![NameOf[s]] = None] ELSE chaincodeMap

deregisterHandler(s) ==
    IF registered[s] THEN [chaincodeMap EXCEPT ![NameOf[s]] = None] ELSE chaincodeMap

Deregister(s) ==
    /\ loop[s] = "return"
    /\ loop' = [loop EXCEPT ![s] = "over"]
    /\ chaincodeMap' = deregisterHandler(s)
    /\ UNCHANGED <<streams, state, registered, sending, errc, ctx, notified, asked,
                   work>>

-----------------------------------------------------------------------------
(* External *)

(* The launcher gives a registered chaincode a transaction. *)
Execute(s, t) ==
    /\ ctx[t] = None /\ registered[s] /\ work < MaxWork
    /\ work' = work + 1
    /\ ctx' = [ctx EXCEPT ![t] = s]
    /\ NextState(s, <<KindOf[t], t>>)

(* The ledger has answered a call: what handleGetState would send. *)
Answer(t) ==
    /\ t \in asked /\ ctx[t] # None
    /\ asked' = asked \ {t}
    /\ \E type \in {"RESPONSE", "ERROR"} :
        sending' = [sending EXCEPT ![ctx[t]] = @ \cup {<<type, t>>}]
    /\ UNCHANGED <<streams, state, registered, loop, chaincodeMap, errc, ctx,
                   notified, work>>
=============================================================================
