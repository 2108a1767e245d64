----------------------------- MODULE ShimProofs -----------------------------
(***************************************************************************)
(* Proofs about the two ends of the chaincode streams, for every number of *)
(* streams, names and transactions and whatever calls the chaincode makes: *)
(* the table of running chaincodes is exact, and the shim's loop always    *)
(* has a receiver for what it sends on a response channel.                 *)
(*                                                                         *)
(* The second rests on there being one message at most, in any of the      *)
(* places between the two ends, that belongs to a transaction's call.      *)
(***************************************************************************)
EXTENDS Shim, TLAPS

\* Few leaves do arithmetic, and those cite SMT; Zenon is faster on the rest.
USE ZenonT(40)

-----------------------------------------------------------------------------
(***************************************************************************)
(* Queues: whether a message of P is in one, and that there is just one.   *)
(***************************************************************************)
HasOne(q, P) == \E i \in 1..Len(q) : q[i] \in P

Once(q, P) == \A i, j \in 1..Len(q) : q[i] \in P /\ q[j] \in P => i = j

AtMostOne(S) == \A x, y \in S : x = y

LEMMA TailOnce ==
    ASSUME NEW M, NEW q \in Seq(M), q # <<>>, NEW P, Once(q, P)
    PROVE  /\ Tail(q) \in Seq(M) /\ Once(Tail(q), P)
           /\ HasOne(Tail(q), P) => HasOne(q, P)
           /\ Head(q) \in P => HasOne(q, P) /\ ~HasOne(Tail(q), P)
<1>1. /\ Len(q) \in Nat /\ Len(q) # 0 /\ Head(q) = q[1]
      /\ Tail(q) \in Seq(M) /\ Len(Tail(q)) = Len(q) - 1
      /\ \A i \in 1..Len(Tail(q)) : Tail(q)[i] = q[i+1]
  BY SMTT(30)
<1> DEFINE n == Len(q)
           r == Tail(q)
<1>2. \A i \in 1..n-1 : i \in 1..n /\ i + 1 \in 1..n /\ i + 1 # 1
  BY <1>1, SMTT(30)
<1>3. Len(r) = n - 1 /\ \A i \in 1..n-1 : r[i] = q[i+1]
  BY <1>1
<1>4. Once(r, P)
  <2> SUFFICES ASSUME NEW i \in 1..n-1, NEW j \in 1..n-1, r[i] \in P, r[j] \in P
               PROVE  i = j
    BY <1>3 DEF Once
  <2>1. i + 1 = j + 1
    BY <1>2, <1>3 DEF Once
  <2> QED BY <1>1, <2>1, SMTT(30)
<1>5. HasOne(r, P) => HasOne(q, P)
  BY <1>2, <1>3 DEF HasOne
<1>6. ASSUME Head(q) \in P PROVE HasOne(q, P) /\ ~HasOne(r, P)
  <2>1. 1 \in 1..n /\ q[1] \in P
    BY <1>1, <1>6, SMTT(30)
  <2>2. ASSUME NEW i \in 1..n-1, r[i] \in P PROVE FALSE
    <3>1. i + 1 = 1
      BY <1>2, <1>3, <2>1, <2>2 DEF Once
    <3> QED BY <1>1, <3>1, SMTT(30)
  <2> QED BY <1>3, <2>1, <2>2 DEF HasOne
<1> QED BY <1>1, <1>4, <1>5, <1>6

LEMMA AppendOnce ==
    ASSUME NEW M, NEW q \in Seq(M), NEW m \in M, NEW P, Once(q, P),
           m \in P => ~HasOne(q, P)
    PROVE  /\ Append(q, m) \in Seq(M) /\ Once(Append(q, m), P)
           /\ HasOne(Append(q, m), P) <=> HasOne(q, P) \/ m \in P
<1> DEFINE n == Len(q)
           r == Append(q, m)
<1>1. /\ n \in Nat /\ r \in Seq(M) /\ Len(r) = n + 1
      /\ \A i \in 1..n : r[i] = q[i]
      /\ r[n+1] = m
  BY SMTT(30)
<1>2. \A i \in 1..n+1 : i \in 1..n \/ i = n + 1
  BY <1>1, SMTT(30)
<1>3. \A i \in 1..n : i \in 1..n+1
  BY <1>1, SMTT(30)
<1>4. n + 1 \in 1..n+1
  BY <1>1, SMTT(30)
<1> HIDE DEF n, r
<1>5. Once(r, P)
  <2> SUFFICES ASSUME NEW i \in 1..n+1, NEW j \in 1..n+1, r[i] \in P, r[j] \in P
               PROVE  i = j
    BY <1>1 DEF Once
  <2>1. CASE m \in P
    BY <1>1, <1>2, <2>1 DEF HasOne, n
  <2>2. CASE m \notin P
    BY <1>1, <1>2, <2>2 DEF Once, n
  <2> QED BY <2>1, <2>2
<1>6. HasOne(r, P) <=> HasOne(q, P) \/ m \in P
  BY <1>1, <1>2, <1>3, <1>4 DEF HasOne, n
<1> QED BY <1>1, <1>5, <1>6 DEF r

LEMMA EmptyOnce ==
    ASSUME NEW P
    PROVE  Once(<<>>, P) /\ ~HasOne(<<>>, P)
<1>1. \A i \in 1..Len(<<>>) : FALSE
  BY SMTT(30)
<1> QED BY <1>1 DEF Once, HasOne

-----------------------------------------------------------------------------
(***************************************************************************)
(* The message of a call.  It is in the shim's goroutine that sends it     *)
(* (ss), on the stream to the peer (u), with the ledger (a), in the peer's *)
(* goroutine that sends the answer (sd), on the stream to the shim (dn),   *)
(* or being sent on the response channel (g): in one place at most, and    *)
(* there once.                                                             *)
(***************************************************************************)
CallsFor(t) == CallTypes \X {t}
AnswersFor(t) == {"RESPONSE", "ERROR"} \X {t}

Under(t, ss, u, a, sd, dn, g) ==
    \/ ss \cap CallsFor(t) # {} \/ HasOne(u, CallsFor(t)) \/ a
    \/ sd \cap AnswersFor(t) # {} \/ HasOne(dn, AnswersFor(t)) \/ g

Single(t, ss, u, a, sd, dn, g) ==
    LET Sent == ss \cap CallsFor(t) # {}
        Up == HasOne(u, CallsFor(t))
        Answer_ == sd \cap AnswersFor(t) # {}
        Down == HasOne(dn, AnswersFor(t))
    IN  /\ AtMostOne(ss \cap CallsFor(t)) /\ Once(u, CallsFor(t))
        /\ AtMostOne(sd \cap AnswersFor(t)) /\ Once(dn, AnswersFor(t))
        /\ Sent => ~(Up \/ a \/ Answer_ \/ Down \/ g)
        /\ Up => ~(a \/ Answer_ \/ Down \/ g)
        /\ a => ~(Answer_ \/ Down \/ g)
        /\ Answer_ => ~(Down \/ g)
        /\ Down => ~g

\* Messages may be lost on their way ...
LEMMA SingleLoses ==
    ASSUME NEW t, NEW ss, NEW u, NEW a \in BOOLEAN, NEW sd, NEW dn, NEW g \in BOOLEAN,
           Single(t, ss, u, a, sd, dn, g),
           NEW ss2, NEW u2, NEW a2 \in BOOLEAN, NEW sd2, NEW dn2, NEW g2 \in BOOLEAN,
           ss2 \cap CallsFor(t) \subseteq ss,
           HasOne(u2, CallsFor(t)) => HasOne(u, CallsFor(t)), Once(u2, CallsFor(t)),
           a2 => a,
           sd2 \cap AnswersFor(t) \subseteq sd,
           HasOne(dn2, AnswersFor(t)) => HasOne(dn, AnswersFor(t)), Once(dn2, AnswersFor(t)),
           g2 => g
    PROVE  /\ Single(t, ss2, u2, a2, sd2, dn2, g2)
           /\ Under(t, ss2, u2, a2, sd2, dn2, g2) => Under(t, ss, u, a, sd, dn, g)
<1>1. ss2 \cap CallsFor(t) # {} => ss \cap CallsFor(t) # {}
  OBVIOUS
<1>2. sd2 \cap AnswersFor(t) # {} => sd \cap AnswersFor(t) # {}
  OBVIOUS
<1>3. AtMostOne(ss2 \cap CallsFor(t)) /\ AtMostOne(sd2 \cap AnswersFor(t))
  BY DEF Single, AtMostOne
<1> QED BY <1>1, <1>2, <1>3 DEF Single, Under

\* ... and each step of a call takes its message one place further.
LEMMA SingleSent ==
    ASSUME NEW M, NEW t, NEW ss \in SUBSET M, NEW u \in Seq(M), NEW a \in BOOLEAN,
           NEW sd, NEW dn, NEW g \in BOOLEAN,
           Single(t, ss, u, a, sd, dn, g), NEW m \in ss, m \in CallsFor(t)
    PROVE  Single(t, ss \ {m}, Append(u, m), a, sd, dn, g)
<1>1. ss \cap CallsFor(t) # {} /\ (ss \ {m}) \cap CallsFor(t) = {}
  BY SMTT(30) DEF Single, AtMostOne
<1>2. Once(Append(u, m), CallsFor(t))
  BY <1>1, AppendOnce DEF Single
<1>3. AtMostOne((ss \ {m}) \cap CallsFor(t))
  BY <1>1 DEF AtMostOne
<1> QED BY <1>1, <1>2, <1>3 DEF Single

LEMMA SingleAsked ==
    ASSUME NEW M, NEW t, NEW ss, NEW u \in Seq(M), u # <<>>, NEW a \in BOOLEAN,
           NEW sd, NEW dn, NEW g \in BOOLEAN,
           Single(t, ss, u, a, sd, dn, g), Head(u) \in CallsFor(t)
    PROVE  Single(t, ss, Tail(u), TRUE, sd, dn, g)
<1>1. /\ Once(Tail(u), CallsFor(t)) /\ HasOne(u, CallsFor(t))
      /\ ~HasOne(Tail(u), CallsFor(t))
  BY TailOnce DEF Single
<1> QED BY <1>1 DEF Single

LEMMA SingleReturned ==
    ASSUME NEW M, NEW t, NEW ss, NEW u, NEW a \in BOOLEAN,
           NEW sd \in SUBSET M, NEW dn \in Seq(M), NEW g \in BOOLEAN,
           Single(t, ss, u, a, sd, dn, g), NEW m \in sd, m \in AnswersFor(t)
    PROVE  Single(t, ss, u, a, sd \ {m}, Append(dn, m), g)
<1>1. sd \cap AnswersFor(t) # {} /\ (sd \ {m}) \cap AnswersFor(t) = {}
  BY SMTT(30) DEF Single, AtMostOne
<1>2. Once(Append(dn, m), AnswersFor(t))
  BY <1>1, AppendOnce DEF Single
<1>3. AtMostOne((sd \ {m}) \cap AnswersFor(t))
  BY <1>1 DEF AtMostOne
<1> QED BY <1>1, <1>2, <1>3 DEF Single

-----------------------------------------------------------------------------
(***************************************************************************)
(* The invariant.                                                          *)
(***************************************************************************)
UpTypes == CallTypes \cup {"REGISTER", "KEEPALIVE", "COMPLETED", "ERROR"}
DownTypes == {"REGISTERED", "READY", "KEEPALIVE", "INIT", "TRANSACTION", "RESPONSE", "ERROR"}

UpMsg == {m \in UpTypes \X (Tx \cup {None}) : m[1] \in CallTypes => m[2] \in Tx}

DownMsg ==
    {m \in DownTypes \X (Tx \cup {None}) :
        /\ m[1] \in {"INIT", "TRANSACTION"} => m[2] \in Tx /\ m[1] = KindOf[m[2]]
        /\ m[1] \in {"RESPONSE", "ERROR"} => m[2] \in Tx}

Name == {NameOf[s] : s \in Stream}

CTypes ==
    /\ up \in [Stream -> Seq(UpMsg)] /\ ssending \in [Stream -> SUBSET UpMsg]
    /\ down \in [Stream -> Seq(DownMsg)] /\ sending \in [Stream -> SUBSET DownMsg]
    /\ chaincodeMap \in [Name -> Stream \cup {None}]
    /\ registered \in [Stream -> BOOLEAN]
    /\ loop \in [Stream -> {"none", "run", "return", "over"}]
    /\ sloop \in [Stream -> {"off", "run", "over"}]
    /\ ctx \in [Tx -> Stream \cup {None}] /\ asked \in SUBSET Tx
    /\ giving \in [Stream -> ({"RESPONSE", "ERROR"} \X Tx) \cup {None}]
    /\ responseChannel \in [Stream -> SUBSET Tx]
    /\ gor \in [Tx -> {"none", "running", "waiting", "leaving", "finishing", "done"}]
    /\ reply \in [Tx -> {"none", "RESPONSE", "ERROR", "failed"}]

Given(s, t) == giving[s] # None /\ giving[s][2] = t

(* The message that starts a transaction, of which there is one at most. *)
Launch(t) == {<<KindOf[t], t>>}

Launched(t, sd, dn) == <<KindOf[t], t>> \in sd \/ HasOne(dn, Launch(t))

OneLaunch(t, sd, dn) ==
    Once(dn, Launch(t)) /\ (<<KindOf[t], t>> \in sd => ~HasOne(dn, Launch(t)))

(* A transaction's messages are on its own stream only ... *)
Elsewhere(s, t) ==
    ctx[t] # s => /\ ~Under(t, ssending[s], up[s], FALSE, sending[s], down[s], Given(s, t))
                  /\ ~Launched(t, sending[s], down[s])
                  /\ t \notin responseChannel[s]

(* ... and there, while the process lives, they agree with where its       *)
(* goroutine is: not begun, waiting for the one message of its call, or    *)
(* with no message under way.                                              *)
Served(s, t) ==
    ctx[t] = s /\ Alive(s) =>
        /\ Single(t, ssending[s], up[s], t \in asked, sending[s], down[s], Given(s, t))
        /\ Under(t, ssending[s], up[s], t \in asked, sending[s], down[s], Given(s, t))
              => gor[t] = "waiting"
        /\ OneLaunch(t, sending[s], down[s])
        /\ Launched(t, sending[s], down[s]) => gor[t] = "none"
        /\ t \in responseChannel[s] => gor[t] \in {"waiting", "leaving"}

NotBegun(t) == ctx[t] = None => t \notin asked /\ gor[t] = "none"

Process(s) ==
    /\ sloop[s] = "off" => loop[s] = "none" /\ \A t \in Tx : ctx[t] # s
    /\ giving[s] # None \/ ssending[s] # {} => Alive(s)

CInv ==
    /\ CTypes
    /\ \A s \in Stream : Process(s)
    /\ \A t \in Tx : NotBegun(t) /\ (gor[t] = "leaving" => reply[t] # "none")
    /\ \A s \in Stream, t \in Tx : Elsewhere(s, t) /\ Served(s, t)

-----------------------------------------------------------------------------
(* The steps of the two ends, one by one. *)
Step ==
    \/ UNCHANGED cvars
    \/ \E s \in Stream :
         \/ Start(s) \/ ShimRecv(s) \/ ShimRecvEnds(s) \/ Delivered(s) \/ Break(s)
         \/ \E m \in ssending[s] : ShimSend(s, m)
         \/ /\ UNCHANGED shim
            /\ \/ PeerRecv(s) \/ PeerRecvEnds(s, ShimOver(s)) \/ Deregister(s)
               \/ NextReady(s) \/ Keepalive(s)
               \/ \E m \in sending[s] : PeerSend(s, m)
               \/ \E t \in Tx : Execute(s, t)
    \/ \E t \in Tx :
         \/ CallReturns(t) \/ (Answer(t) /\ UNCHANGED shim)
         \/ \E type \in {"COMPLETED", "ERROR"} : ShimNextState(t, type)
         \/ \E kind \in {"INIT", "TRANSACTION"} : RunEnds(t, kind)
         \/ \E type \in CallTypes : Call(t, type)

LEMMA Flat == [CNext]_cvars => Step
  BY DEF CNext, Step, PeerLoop, Launcher, Ledger, ShimLoop, Goroutine, Chaincode, handleInit,
     handleTransaction, handleGetState, handlePutState, handleDelState, handleInvokeChaincode,
     CallTypes

LEMMA PlainMessages ==
    /\ <<"REGISTER", None>> \in UpMsg /\ <<"KEEPALIVE", None>> \in UpMsg
    /\ <<"REGISTERED", None>> \in DownMsg /\ <<"READY", None>> \in DownMsg
    /\ <<"KEEPALIVE", None>> \in DownMsg
    /\ \A x \in Tx \cup {None} : <<"ERROR", x>> \in UpMsg /\ <<"COMPLETED", x>> \in UpMsg
    /\ \A t \in Tx : /\ <<KindOf[t], t>> \in DownMsg
                     /\ \A type \in CallTypes : <<type, t>> \in UpMsg
                     /\ <<"RESPONSE", t>> \in DownMsg /\ <<"ERROR", t>> \in DownMsg
  BY StreamAssumption DEF UpMsg, DownMsg, UpTypes, DownTypes, CallTypes

LEMMA HeadTailIn ==
    ASSUME NEW M, NEW q \in Seq(M), q # <<>>
    PROVE  Head(q) \in M /\ Tail(q) \in Seq(M)
  BY SMTT(30)

LEMMA AppendIn ==
    ASSUME NEW M, NEW q \in Seq(M), NEW m \in M
    PROVE  Append(q, m) \in Seq(M)
  BY SMTT(30)

(* What a send of the shim comes to. *)
LEMMA SendCases ==
    ASSUME NEW s, NEW m, ShimSend(s, m)
    PROVE  \/ /\ up' = [up EXCEPT ![s] = Append(@, m)]
              /\ ssending' = [ssending EXCEPT ![s] = @ \ {m}]
              /\ gor' = IF m[1] \in CallTypes THEN [gor EXCEPT ![m[2]] = gor[m[2]]] ELSE gor
              /\ UNCHANGED <<sloop, responseChannel, reply>>
           \/ /\ m[1] \in CallTypes
              /\ gor' = [gor EXCEPT ![m[2]] = "leaving"]
              /\ reply' = [reply EXCEPT ![m[2]] = "failed"]
              /\ ssending' = [ssending EXCEPT ![s] = @ \ {m}]
              /\ UNCHANGED <<up, sloop, responseChannel>>
           \/ /\ m[1] = "KEEPALIVE"
              /\ ssending' = [ssending EXCEPT ![s] = @ \ {m}]
              /\ UNCHANGED <<up, sloop, responseChannel, gor, reply>>
           \/ /\ Selecting(s) /\ Over(s)
              /\ UNCHANGED <<up, reply>>
<1>1. CASE ~broken[s] /\ loop[s] # "over"
  BY <1>1 DEF ShimSend, AfterSent
<1>2. CASE ~(~broken[s] /\ loop[s] # "over")
  <2> DEFINE failed == /\ gor' = [gor EXCEPT ![m[2]] = "leaving"]
                       /\ reply' = [reply EXCEPT ![m[2]] = "failed"]
                       /\ ssending' = [ssending EXCEPT ![s] = @ \ {m}]
                       /\ UNCHANGED <<sloop, responseChannel>>
             lost == /\ ssending' = [ssending EXCEPT ![s] = @ \ {m}]
                     /\ UNCHANGED <<sloop, responseChannel, gor, reply>>
             ends == Selecting(s) /\ Over(s) /\ UNCHANGED reply
  <2>1. UNCHANGED up /\ CASE m[1] \in CallTypes -> failed
                           [] m[1] = "KEEPALIVE" -> lost
                           [] OTHER -> ends
    BY <1>2 DEF ShimSend
  <2> HIDE DEF failed, lost, ends
  <2>2. "KEEPALIVE" \notin CallTypes
    BY DEF CallTypes
  <2>3. CASE m[1] \in CallTypes
    BY <2>1, <2>2, <2>3 DEF failed
  <2>4. CASE m[1] = "KEEPALIVE"
    BY <2>1, <2>2, <2>4 DEF lost
  <2>5. CASE m[1] \notin CallTypes /\ m[1] # "KEEPALIVE"
    BY <2>1, <2>5 DEF ends
  <2> QED BY <2>3, <2>4, <2>5
<1> QED BY <1>1, <1>2

LEMMA InitTypes == CInit => CTypes
  BY StreamAssumption, SMTT(30) DEF CInit, PInit, CTypes, Name

LEMMA TypesKept == CTypes /\ [CNext]_cvars => CTypes'
<1> SUFFICES ASSUME CTypes, Step PROVE CTypes'
  BY Flat
<1> USE DEF CTypes
<1>1. CASE UNCHANGED cvars
  BY <1>1 DEF cvars, streams, peer, shim
<1>2. ASSUME NEW s \in Stream, Start(s) PROVE CTypes'
  <2>1. <<<<"REGISTER", None>>>> \in Seq(UpMsg)
    BY PlainMessages, SMTT(30)
  <2> QED BY <1>2, <2>1 DEF Start, HandleChaincodeStream, chatWithPeer
<1>3. ASSUME NEW s \in Stream, ShimRecv(s) PROVE CTypes'
  <2> DEFINE m == Head(down[s])
  <2>1. m \in DownMsg /\ Tail(down[s]) \in Seq(DownMsg)
    BY <1>3, HeadTailIn DEF ShimRecv
  <2>2. /\ m = <<m[1], m[2]>> /\ m[1] \in DownTypes /\ m[2] \in Tx \cup {None}
        /\ m[1] \in {"INIT", "TRANSACTION", "RESPONSE", "ERROR"} => m[2] \in Tx
    BY <2>1, SMTT(30) DEF DownMsg
  <2>3. m[1] = "KEEPALIVE" => m \in UpMsg
    BY <2>2 DEF UpMsg, UpTypes, CallTypes
  <2>4. <<"ERROR", m[2]>> \in UpMsg
    BY <2>2, PlainMessages
  <2>5. m[1] \in {"RESPONSE", "ERROR"} => m \in {"RESPONSE", "ERROR"} \X Tx
    BY <2>2
  <2>6. /\ down' \in [Stream -> Seq(DownMsg)]
        /\ UNCHANGED <<sending, chaincodeMap, registered, loop, ctx, asked, reply>>
    BY <1>3, <2>1 DEF ShimRecv, peer
  <2>7. /\ up' \in [Stream -> Seq(UpMsg)] /\ ssending' \in [Stream -> SUBSET UpMsg]
        /\ sloop' \in [Stream -> {"off", "run", "over"}]
        /\ giving' \in [Stream -> ({"RESPONSE", "ERROR"} \X Tx) \cup {None}]
        /\ responseChannel' \in [Stream -> SUBSET Tx]
        /\ gor' \in [Tx -> {"none", "running", "waiting", "leaving", "finishing", "done"}]
    <3> HIDE DEF m
    <3>1. CASE m[1] = "KEEPALIVE" /\ ssending' = [ssending EXCEPT ![s] = @ \cup {m}]
               /\ UNCHANGED <<sstate, sloop, giving, responseChannel, gor, up>>
      BY <3>1, <2>3
    <3>2. CASE /\ up' = IF broken[s] THEN up
                        ELSE [up EXCEPT ![s] = Append(@, <<"ERROR", m[2]>>)]
               /\ Over(s) /\ UNCHANGED <<sstate, giving>>
      BY <3>2, <2>4, SMTT(30) DEF Over
    <3>3. CASE UNCHANGED <<sloop, giving, responseChannel, ssending, gor, up>>
      BY <3>3
    <3>4. CASE /\ m[1] \in {"INIT", "TRANSACTION"} /\ gor' = [gor EXCEPT ![m[2]] = "running"]
               /\ UNCHANGED <<sstate, sloop, giving, responseChannel, ssending, up>>
      BY <3>4
    <3>5. CASE m[1] \in {"RESPONSE", "ERROR"} /\ sendChannel(s, m)
      BY <3>5, <2>5 DEF sendChannel
    <3> QED BY <1>3, <3>1, <3>2, <3>3, <3>4, <3>5 DEF ShimRecv, m
  <2> QED BY <2>6, <2>7
<1>4. ASSUME NEW s \in Stream, ShimRecvEnds(s) PROVE CTypes'
  BY <1>4 DEF ShimRecvEnds, Over, streams, peer
<1>5. ASSUME NEW s \in Stream, Delivered(s) PROVE CTypes'
  <2>1. giving[s] \in {"RESPONSE", "ERROR"} \X Tx
    BY <1>5 DEF Delivered
  <2>2. giving[s][1] \in {"RESPONSE", "ERROR"} /\ giving[s][2] \in Tx
    BY <2>1
  <2> QED BY <1>5, <2>2 DEF Delivered, streams, peer
<1>6. ASSUME NEW s \in Stream, Break(s) PROVE CTypes'
  <2>1. up' = up \/ up' = [up EXCEPT ![s] = <<>>]
    BY <1>6 DEF Break
  <2>2. <<>> \in Seq(UpMsg) /\ <<>> \in Seq(DownMsg)
    BY SMTT(30)
  <2>3. up' \in [Stream -> Seq(UpMsg)]
    BY <2>1, <2>2
  <2> QED BY <1>6, <2>2, <2>3 DEF Break, peer, shim
<1>7. ASSUME NEW s \in Stream, NEW m \in ssending[s], ShimSend(s, m) PROVE CTypes'
  <2>1. m \in UpMsg /\ (m[1] \in CallTypes => m[2] \in Tx)
    BY DEF UpMsg
  <2>2. Append(up[s], m) \in Seq(UpMsg)
    BY <2>1, AppendIn
  <2>3. /\ up' \in [Stream -> Seq(UpMsg)] /\ ssending' \in [Stream -> SUBSET UpMsg]
        /\ sloop' \in [Stream -> {"off", "run", "over"}]
        /\ responseChannel' \in [Stream -> SUBSET Tx]
        /\ gor' \in [Tx -> {"none", "running", "waiting", "leaving", "finishing", "done"}]
        /\ reply' \in [Tx -> {"none", "RESPONSE", "ERROR", "failed"}]
    <3>1. CASE /\ up' = [up EXCEPT ![s] = Append(@, m)]
               /\ ssending' = [ssending EXCEPT ![s] = @ \ {m}]
               /\ gor' = IF m[1] \in CallTypes THEN [gor EXCEPT ![m[2]] = gor[m[2]]] ELSE gor
               /\ UNCHANGED <<sloop, responseChannel, reply>>
      BY <3>1, <2>1, <2>2
    <3>2. CASE /\ m[1] \in CallTypes
               /\ gor' = [gor EXCEPT ![m[2]] = "leaving"]
               /\ reply' = [reply EXCEPT ![m[2]] = "failed"]
               /\ ssending' = [ssending EXCEPT ![s] = @ \ {m}]
               /\ UNCHANGED <<up, sloop, responseChannel>>
      BY <3>2, <2>1
    <3>3. CASE /\ m[1] = "KEEPALIVE"
               /\ ssending' = [ssending EXCEPT ![s] = @ \ {m}]
               /\ UNCHANGED <<up, sloop, responseChannel, gor, reply>>
      BY <3>3
    <3>4. CASE Selecting(s) /\ Over(s) /\ UNCHANGED <<up, reply>>
      BY <3>4 DEF Over
    <3> QED BY <1>7, <3>1, <3>2, <3>3, <3>4, SendCases
  <2> QED BY <1>7, <2>3 DEF ShimSend, peer
<1>8. ASSUME NEW s \in Stream, PeerRecv(s), UNCHANGED shim PROVE CTypes'
  <2> DEFINE m == Head(up[s])
  <2>1. m \in UpMsg /\ Tail(up[s]) \in Seq(UpMsg)
    BY <1>8, HeadTailIn DEF PeerRecv
  <2>2. m[1] \in CallTypes => m[2] \in Tx
    BY <2>1 DEF UpMsg
  <2>3. /\ down' \in [Stream -> Seq(DownMsg)] /\ asked' \in SUBSET Tx
        /\ registered' \in [Stream -> BOOLEAN]
        /\ loop' \in [Stream -> {"none", "run", "return", "over"}]
        /\ chaincodeMap' \in [Name -> Stream \cup {None}]
    <3> HIDE DEF m
    <3>1. CASE UNCHANGED <<state, registered, loop, chaincodeMap, down, notified, asked>>
      BY <3>1
    <3>2. CASE Handle(s, m)
      <4>1. Append(down[s], <<"REGISTERED", None>>) \in Seq(DownMsg)
        BY PlainMessages, AppendIn
      <4>2. CASE Register(s)
        BY <4>1, <4>2 DEF Register, registerHandler, Return, Name
      <4>3. CASE /\ asked' = IF m[1] \in CallTypes THEN asked \cup {m[2]} ELSE asked
                 /\ UNCHANGED <<state, registered, loop, chaincodeMap, down, notified>>
        BY <4>3, <2>2
      <4>4. CASE UNCHANGED <<state, registered, loop, chaincodeMap, down, asked>>
        BY <4>4
      <4> QED BY <3>2, <4>2, <4>3, <4>4 DEF Handle
    <3>3. CASE Refuse(s)
      BY <3>3 DEF Refuse, Return
    <3> QED BY <1>8, <3>1, <3>2, <3>3 DEF PeerRecv, m
  <2>4. up' \in [Stream -> Seq(UpMsg)] /\ UNCHANGED <<sending, ctx>>
    BY <1>8, <2>1 DEF PeerRecv
  <2> QED BY <1>8, <2>3, <2>4 DEF shim
<1>9. ASSUME NEW s \in Stream, PeerRecvEnds(s, ShimOver(s)), UNCHANGED shim PROVE CTypes'
  BY <1>9 DEF PeerRecvEnds, Return, streams, shim
<1>10. ASSUME NEW s \in Stream, Deregister(s), UNCHANGED shim PROVE CTypes'
  BY <1>10 DEF Deregister, deregisterHandler, streams, shim, Name
<1>11. ASSUME NEW s \in Stream, NextReady(s), UNCHANGED shim PROVE CTypes'
  <2>1. Append(down[s], <<"READY", None>>) \in Seq(DownMsg)
    BY PlainMessages, AppendIn
  <2> QED BY <1>11, <2>1 DEF NextReady, Return, shim
<1>12. ASSUME NEW s \in Stream, Keepalive(s), UNCHANGED shim PROVE CTypes'
  BY <1>12, PlainMessages DEF Keepalive, streams, shim
<1>13. ASSUME NEW s \in Stream, NEW m \in sending[s], PeerSend(s, m), UNCHANGED shim
       PROVE  CTypes'
  <2>1. Append(down[s], m) \in Seq(DownMsg)
    BY AppendIn
  <2> QED BY <1>13, <2>1 DEF PeerSend, shim
<1>14. ASSUME NEW s \in Stream, NEW t \in Tx, Execute(s, t), UNCHANGED shim PROVE CTypes'
  <2> DEFINE m == <<KindOf[t], t>>
  <2>1. m \in DownMsg /\ m[1] \in {"INIT", "TRANSACTION"}
    BY PlainMessages, StreamAssumption
  <2> HIDE DEF m
  <2>2. UNCHANGED <<registered, chaincodeMap, down, asked>>
        /\ loop' \in [Stream -> {"none", "run", "return", "over"}]
        /\ sending' \in [Stream -> SUBSET DownMsg]
    <3>1. /\ Handle(s, m) \/ Refuse(s)
             \/ UNCHANGED <<state, registered, loop, chaincodeMap, down, notified, asked>>
          /\ sending' = [sending EXCEPT ![s] = @ \cup {m}] \/ UNCHANGED sending
      BY <1>14 DEF Execute, NextState, m
    <3>2. Handle(s, m) => UNCHANGED <<registered, loop, chaincodeMap, down, asked>>
      BY <2>1 DEF Handle, CallTypes
    <3>3. Refuse(s) => /\ loop' \in [Stream -> {"none", "run", "return", "over"}]
                       /\ UNCHANGED <<registered, chaincodeMap, down, asked>>
      BY DEF Refuse, Return
    <3>4. sending' \in [Stream -> SUBSET DownMsg]
      <4>1. sending' = [sending EXCEPT ![s] = @ \cup {m}] \/ sending' = sending
        BY <3>1
      <4>2. CASE sending' = [sending EXCEPT ![s] = @ \cup {m}]
        BY <2>1, <4>2
      <4>3. CASE sending' = sending
        BY <4>3
      <4> QED BY <4>1, <4>2, <4>3
    <3>5. /\ UNCHANGED <<registered, chaincodeMap, down, asked>>
          /\ UNCHANGED loop \/ loop' \in [Stream -> {"none", "run", "return", "over"}]
      BY <3>1, <3>2, <3>3
    <3> QED BY <3>4, <3>5
  <2> QED BY <1>14, <2>2 DEF Execute, NextState, shim
<1>15. ASSUME NEW t \in Tx, CallReturns(t) PROVE CTypes'
  BY <1>15 DEF CallReturns, streams, peer
<1>16. ASSUME NEW t \in Tx, Answer(t), UNCHANGED shim PROVE CTypes'
  <2>1. ctx[t] \in Stream
    BY <1>16 DEF Answer
  <2>2. PICK type \in {"RESPONSE", "ERROR"} :
            sending' = [sending EXCEPT ![ctx[t]] = @ \cup {<<type, t>>}]
    BY <1>16 DEF Answer
  <2>3. <<type, t>> \in DownMsg
    BY PlainMessages
  <2>4. sending' \in [Stream -> SUBSET DownMsg]
    BY <2>1, <2>2, <2>3
  <2> QED BY <1>16, <2>4 DEF Answer, streams, shim
<1>17. ASSUME NEW t \in Tx, NEW type \in {"COMPLETED", "ERROR"}, ShimNextState(t, type)
       PROVE  CTypes'
  <2>1. <<type, t>> \in UpMsg
    BY PlainMessages
  <2> QED BY <1>17, <2>1 DEF ShimNextState, streams, peer
<1>18. ASSUME NEW t \in Tx, NEW kind, RunEnds(t, kind) PROVE CTypes'
  BY <1>18 DEF RunEnds, streams, peer
<1>19. ASSUME NEW t \in Tx, NEW type \in CallTypes, Call(t, type) PROVE CTypes'
  <2>1. <<type, t>> \in UpMsg
    BY PlainMessages
  <2> QED BY <1>19, <2>1 DEF Call, streams, peer
<1> HIDE DEF CTypes
<1> QED BY <1>1, <1>2, <1>3, <1>4, <1>5, <1>6, <1>7, <1>8, <1>9, <1>10, <1>11, <1>12, <1>13,
           <1>14, <1>15, <1>16, <1>17, <1>18, <1>19 DEF Step

-----------------------------------------------------------------------------
(***************************************************************************)
(* The table of running chaincodes.                                        *)
(***************************************************************************)
LEMMA RegistryKept == CTypes /\ RegistryExact /\ [CNext]_cvars => RegistryExact'
<1> SUFFICES ASSUME CTypes, RegistryExact, Step PROVE RegistryExact'
  BY Flat
<1> DEFINE Still == UNCHANGED <<chaincodeMap, registered, loop>>
<1>1. Still => RegistryExact'
  BY DEF RegistryExact
<1>2. ASSUME NEW s \in Stream, loop[s] # "over", UNCHANGED <<chaincodeMap, registered>>,
             \/ loop' = [loop EXCEPT ![s] = "run"] \/ loop' = [loop EXCEPT ![s] = "return"]
             \/ UNCHANGED loop
      PROVE  RegistryExact'
  BY <1>2, SMTT(30) DEF RegistryExact, CTypes
<1>3. UNCHANGED cvars => Still
  BY DEF cvars, peer
<1>4. ASSUME NEW s \in Stream, Start(s) PROVE RegistryExact'
  <2>1. loop[s] = "none"
    BY <1>4, StreamAssumption, SMTT(30) DEF Start, HandleChaincodeStream
  <2> QED BY <1>2, <1>4, <2>1 DEF Start, HandleChaincodeStream
<1>5. ASSUME NEW s \in Stream,
             \/ ShimRecv(s) \/ ShimRecvEnds(s) \/ Delivered(s) \/ Break(s)
             \/ \E m \in ssending[s] : ShimSend(s, m)
      PROVE  Still
  BY <1>5 DEF ShimRecv, ShimRecvEnds, Delivered, Break, ShimSend, peer
<1>6. ASSUME NEW s \in Stream, registerHandler(s), loop[s] = "run",
             UNCHANGED loop \/ Return(s)
      PROVE  RegistryExact'
  <2> SUFFICES ASSUME NEW r \in Stream
               PROVE  chaincodeMap'[NameOf[r]] = r <=> registered'[r] /\ loop'[r] # "over"
    BY DEF RegistryExact
  <2>1. NameOf[s] \in Name /\ NameOf[r] \in Name
    BY DEF Name
  <2>2. loop'[r] # "over" <=> loop[r] # "over"
    BY <1>6 DEF Return, CTypes
  <2>3. CASE r = s
    BY <1>6, <2>1, <2>2, <2>3 DEF registerHandler, CTypes
  <2>4. CASE r # s /\ NameOf[r] = NameOf[s]
    <3>1. ~(registered[r] /\ loop[r] # "over")
      BY <1>6, <2>4, StreamAssumption DEF registerHandler, Taken, RegistryExact
    <3> QED BY <1>6, <2>1, <2>2, <2>4, <3>1 DEF registerHandler, CTypes
  <2>5. CASE NameOf[r] # NameOf[s]
    BY <1>6, <2>1, <2>2, <2>5 DEF registerHandler, CTypes, RegistryExact
  <2> QED BY <2>3, <2>4, <2>5
<1>7. ASSUME NEW s \in Stream, PeerRecv(s) PROVE RegistryExact'
  <2>1. \/ Still \/ Register(s) \/ Refuse(s)
    BY <1>7 DEF PeerRecv, Handle
  <2>2. Register(s) => RegistryExact'
    BY <1>6, <1>7 DEF PeerRecv, Register
  <2>3. Refuse(s) => RegistryExact'
    BY <1>2, <1>7 DEF PeerRecv, Refuse, Return
  <2> QED BY <1>1, <2>1, <2>2, <2>3
<1>8. ASSUME NEW s \in Stream, PeerRecvEnds(s, ShimOver(s)) \/ NextReady(s) PROVE RegistryExact'
  BY <1>2, <1>8 DEF PeerRecvEnds, NextReady, Return
<1>9. ASSUME NEW s \in Stream, Deregister(s) PROVE RegistryExact'
  <2> SUFFICES ASSUME NEW r \in Stream
               PROVE  chaincodeMap'[NameOf[r]] = r <=> registered'[r] /\ loop'[r] # "over"
    BY DEF RegistryExact
  <2>1. NameOf[s] \in Name /\ NameOf[r] \in Name
    BY DEF Name
  <2>2. /\ registered' = registered /\ loop' = [loop EXCEPT ![s] = "over"]
        /\ loop[s] = "return" /\ chaincodeMap' = deregisterHandler(s)
    BY <1>9 DEF Deregister
  <2>3. CASE r = s
    BY <2>1, <2>2, <2>3, StreamAssumption, SMTT(30) DEF deregisterHandler, CTypes, RegistryExact
  <2>4. CASE r # s /\ NameOf[r] = NameOf[s]
    <3>1. loop'[r] = loop[r]
      BY <2>2, <2>4 DEF CTypes
    <3>2. CASE registered[s]
      <4>1. chaincodeMap[NameOf[s]] = s
        BY <2>2, <3>2 DEF RegistryExact
      <4>2. chaincodeMap'[NameOf[s]] = None
        BY <2>1, <2>2, <3>2 DEF deregisterHandler, CTypes
      <4> QED BY <2>2, <2>4, <3>1, <4>1, <4>2, StreamAssumption, SMTT(30) DEF RegistryExact
    <3>3. CASE ~registered[s]
      BY <2>2, <3>1, <3>3 DEF deregisterHandler, RegistryExact
    <3> QED BY <3>2, <3>3
  <2>5. CASE NameOf[r] # NameOf[s]
    BY <2>1, <2>2, <2>5 DEF deregisterHandler, CTypes, RegistryExact
  <2> QED BY <2>3, <2>4, <2>5
<1>10. ASSUME NEW s \in Stream, Keepalive(s) \/ \E m \in sending[s] : PeerSend(s, m)
       PROVE  Still
  BY <1>10 DEF Keepalive, PeerSend
<1>11. ASSUME NEW s \in Stream, NEW t \in Tx, Execute(s, t) PROVE RegistryExact'
  <2> DEFINE m == <<KindOf[t], t>>
  <2>1. m[1] \in {"INIT", "TRANSACTION"}
    BY StreamAssumption
  <2> HIDE DEF m
  <2>2. loop[s] = "run" /\ (Handle(s, m) \/ Refuse(s) \/ Still)
    BY <1>11 DEF Execute, NextState, m
  <2>3. Handle(s, m) => Still
    BY <2>1 DEF Handle
  <2>4. Refuse(s) => RegistryExact'
    BY <1>2, <2>2 DEF Refuse, Return
  <2> QED BY <1>1, <2>2, <2>3, <2>4
<1>12. ASSUME NEW t \in Tx,
              \/ CallReturns(t) \/ Answer(t)
              \/ \E type \in {"COMPLETED", "ERROR"} : ShimNextState(t, type)
              \/ \E kind \in {"INIT", "TRANSACTION"} : RunEnds(t, kind)
              \/ \E type \in CallTypes : Call(t, type)
       PROVE  Still
  BY <1>12 DEF CallReturns, Answer, ShimNextState, RunEnds, Call, peer
<1> HIDE DEF Still
<1> QED BY <1>1, <1>3, <1>4, <1>5, <1>7, <1>8, <1>9, <1>10, <1>11, <1>12 DEF Step

(* The table of running chaincodes has, under a name, the one handler that *)
(* has registered it and not yet deregistered: whatever streams of the     *)
(* same name begin while an older one ends.                                *)
THEOREM RegistryAlwaysExact == CSpec => []RegistryExact
<1>1. CInit => CTypes /\ RegistryExact
  <2>1. CInit => RegistryExact
    <3> SUFFICES ASSUME CInit, NEW s \in Stream
                 PROVE  chaincodeMap[NameOf[s]] # s /\ ~registered[s]
      BY DEF RegistryExact
    <3>1. NameOf[s] \in Name /\ chaincodeMap = [n \in Name |-> None]
      BY DEF CInit, PInit, Name
    <3>2. chaincodeMap[NameOf[s]] = None
      BY <3>1
    <3> QED BY <3>2, StreamAssumption DEF CInit, PInit
  <2> QED BY <2>1, InitTypes
<1>2. CTypes /\ RegistryExact /\ [CNext]_cvars => (CTypes /\ RegistryExact)'
  BY TypesKept, RegistryKept
<1> QED BY <1>1, <1>2, PTL DEF CSpec

-----------------------------------------------------------------------------
(***************************************************************************)
(* The calls.  Most steps leave a transaction's messages alone or lose     *)
(* some of them.                                                           *)
(***************************************************************************)
QueueFades(q, q2, P) ==
    (HasOne(q2, P) => HasOne(q, P)) /\ (Once(q, P) => Once(q2, P))

LEMMA TailFades ==
    ASSUME NEW M, NEW q \in Seq(M), q # <<>>, NEW P
    PROVE  QueueFades(q, Tail(q), P)
<1>1. /\ Len(q) \in Nat /\ Len(q) # 0 /\ Len(Tail(q)) = Len(q) - 1
      /\ \A i \in 1..Len(Tail(q)) : Tail(q)[i] = q[i+1]
  BY SMTT(30)
<1>2. \A i \in 1..Len(q)-1 : i + 1 \in 1..Len(q)
  BY <1>1, SMTT(30)
<1>3. HasOne(Tail(q), P) => HasOne(q, P)
  BY <1>1, <1>2 DEF HasOne
<1> QED BY <1>3, TailOnce DEF QueueFades

LEMMA AppendFades ==
    ASSUME NEW M, NEW q \in Seq(M), NEW m \in M, NEW P, m \notin P
    PROVE  QueueFades(q, Append(q, m), P)
<1> DEFINE n == Len(q)
           r == Append(q, m)
<1>1. /\ n \in Nat /\ Len(r) = n + 1
      /\ \A i \in 1..n : r[i] = q[i]
      /\ r[n+1] = m
  BY SMTT(30)
<1>2. \A i \in 1..n+1 : i \in 1..n \/ i = n + 1
  BY <1>1, SMTT(30)
<1> HIDE DEF n, r
<1>3. HasOne(r, P) => HasOne(q, P)
  BY <1>1, <1>2 DEF HasOne, n
<1>4. Once(q, P) => Once(r, P)
  BY <1>1, <1>2 DEF Once, n
<1> QED BY <1>3, <1>4 DEF QueueFades, r

LEMMA SameFades == \A q, P : QueueFades(q, q, P) /\ QueueFades(q, <<>>, P)
  BY EmptyOnce DEF QueueFades

Fades(s, t) ==
    /\ ssending'[s] \cap CallsFor(t) \subseteq ssending[s]
    /\ QueueFades(up[s], up'[s], CallsFor(t))
    /\ sending'[s] \cap AnswersFor(t) \subseteq sending[s]
    /\ sending'[s] \cap Launch(t) \subseteq sending[s]
    /\ QueueFades(down[s], down'[s], AnswersFor(t))
    /\ QueueFades(down[s], down'[s], Launch(t))
    /\ Given(s, t)' => Given(s, t)
    /\ t \in responseChannel'[s] => t \in responseChannel[s]

LEMMA NoneFades ==
    ASSUME NEW ss, NEW u, NEW sd, NEW dn, NEW g \in BOOLEAN, NEW t,
           ~Under(t, ss, u, FALSE, sd, dn, g)
    PROVE  Once(u, CallsFor(t)) /\ Once(dn, AnswersFor(t))
  BY DEF Under, HasOne, Once

LEMMA FadesServes ==
    ASSUME NEW s \in Stream, NEW t \in Tx, Elsewhere(s, t), Served(s, t), Fades(s, t),
           ctx'[t] = ctx[t],
           ctx[t] = s /\ t \in asked' => t \in asked,
           ctx[t] = s /\ Alive(s)' =>
               /\ Alive(s)
               /\ \/ gor'[t] = gor[t]
                  \/ gor[t] \notin {"none", "waiting"} /\ t \notin responseChannel'[s]
    PROVE  Elsewhere(s, t)' /\ Served(s, t)'
<1> DEFINE ss == ssending[s]
           u == up[s]
           sd == sending[s]
           dn == down[s]
           g == Given(s, t)
           ss2 == ssending'[s]
           u2 == up'[s]
           sd2 == sending'[s]
           dn2 == down'[s]
           g2 == Given(s, t)'
<1>1. /\ g \in BOOLEAN /\ g2 \in BOOLEAN /\ (g2 => g)
      /\ ss2 \cap CallsFor(t) \subseteq ss
      /\ HasOne(u2, CallsFor(t)) => HasOne(u, CallsFor(t))
      /\ Once(u, CallsFor(t)) => Once(u2, CallsFor(t))
      /\ sd2 \cap AnswersFor(t) \subseteq sd
      /\ HasOne(dn2, AnswersFor(t)) => HasOne(dn, AnswersFor(t))
      /\ Once(dn, AnswersFor(t)) => Once(dn2, AnswersFor(t))
      /\ Launched(t, sd2, dn2) => Launched(t, sd, dn)
      /\ OneLaunch(t, sd, dn) => OneLaunch(t, sd2, dn2)
  BY DEF Fades, QueueFades, Given, Launch, Launched, OneLaunch
<1>2. Elsewhere(s, t)'
  <2> SUFFICES ASSUME ctx[t] # s
               PROVE  /\ ~Under(t, ss2, u2, FALSE, sd2, dn2, g2)
                      /\ ~Launched(t, sd2, dn2) /\ t \notin responseChannel'[s]
    BY DEF Elsewhere
  <2>1. ~Under(t, ss, u, FALSE, sd, dn, g) /\ ~Launched(t, sd, dn)
        /\ t \notin responseChannel[s]
    BY DEF Elsewhere
  <2> HIDE DEF ss, u, sd, dn, g, ss2, u2, sd2, dn2, g2
  <2>2. ~Under(t, ss2, u2, FALSE, sd2, dn2, g2)
    BY <1>1, <2>1 DEF Under
  <2> QED BY <1>1, <2>1, <2>2 DEF Fades
<1>3. Served(s, t)'
  <2> SUFFICES ASSUME ctx[t] = s, Alive(s)'
               PROVE  /\ Single(t, ss2, u2, t \in asked', sd2, dn2, g2)
                      /\ Under(t, ss2, u2, t \in asked', sd2, dn2, g2) => gor'[t] = "waiting"
                      /\ OneLaunch(t, sd2, dn2)
                      /\ Launched(t, sd2, dn2) => gor'[t] = "none"
                      /\ t \in responseChannel'[s] => gor'[t] \in {"waiting", "leaving"}
    BY DEF Served
  <2>1. /\ Single(t, ss, u, t \in asked, sd, dn, g)
        /\ Under(t, ss, u, t \in asked, sd, dn, g) => gor[t] = "waiting"
        /\ OneLaunch(t, sd, dn)
        /\ Launched(t, sd, dn) => gor[t] = "none"
        /\ t \in responseChannel[s] => gor[t] \in {"waiting", "leaving"}
        /\ t \in responseChannel'[s] => t \in responseChannel[s]
        /\ t \in asked' => t \in asked
        /\ \/ gor'[t] = gor[t]
           \/ gor[t] \notin {"none", "waiting"} /\ t \notin responseChannel'[s]
    BY DEF Served, Fades
  <2> HIDE DEF ss, u, sd, dn, g, ss2, u2, sd2, dn2, g2
  <2>2. Once(u, CallsFor(t)) /\ Once(dn, AnswersFor(t))
    BY <2>1 DEF Single
  <2> DEFINE a == t \in asked
             a2 == t \in asked'
  <2>3. a \in BOOLEAN /\ a2 \in BOOLEAN /\ (a2 => a)
    BY <2>1, SMTT(30)
  <2> HIDE DEF a, a2
  <2>4. Single(t, ss, u, a, sd, dn, g)
    BY <2>1 DEF a
  <2>5. /\ Single(t, ss2, u2, a2, sd2, dn2, g2)
        /\ Under(t, ss2, u2, a2, sd2, dn2, g2) => Under(t, ss, u, a, sd, dn, g)
    BY <1>1, <2>2, <2>3, <2>4, SingleLoses, SMTT(30)
  <2>6. /\ Single(t, ss2, u2, t \in asked', sd2, dn2, g2)
        /\ Under(t, ss2, u2, t \in asked', sd2, dn2, g2)
              => Under(t, ss, u, t \in asked, sd, dn, g)
    BY <2>5 DEF a, a2
  <2> QED BY <1>1, <2>1, <2>6
<1> QED BY <1>2, <1>3

LEMMA HeadHas ==
    ASSUME NEW M, NEW q \in Seq(M), q # <<>>, NEW P, Head(q) \in P
    PROVE  HasOne(q, P)
<1>1. Head(q) = q[1] /\ 1 \in 1..Len(q)
  BY SMTT(30)
<1> QED BY <1>1 DEF HasOne

(* A message at the head of a queue belongs to the stream's transaction. *)
LEMMA HeadsOwned ==
    ASSUME CInv, NEW s \in Stream, NEW t \in Tx
    PROVE  /\ up[s] # <<>> /\ Head(up[s]) \in CallsFor(t) => ctx[t] = s
           /\ down[s] # <<>> /\ Head(down[s]) \in AnswersFor(t) \cup Launch(t) => ctx[t] = s
<1>1. up[s] \in Seq(UpMsg) /\ down[s] \in Seq(DownMsg) /\ Elsewhere(s, t)
  BY DEF CInv, CTypes
<1>2. ASSUME up[s] # <<>>, Head(up[s]) \in CallsFor(t) PROVE ctx[t] = s
  <2>1. HasOne(up[s], CallsFor(t))
    BY <1>1, <1>2, HeadHas
  <2> QED BY <1>1, <2>1 DEF Elsewhere, Under
<1>3. ASSUME down[s] # <<>>, Head(down[s]) \in AnswersFor(t) PROVE ctx[t] = s
  <2>1. HasOne(down[s], AnswersFor(t))
    BY <1>1, <1>3, HeadHas
  <2> QED BY <1>1, <2>1 DEF Elsewhere, Under
<1>4. ASSUME down[s] # <<>>, Head(down[s]) \in Launch(t) PROVE ctx[t] = s
  <2>1. HasOne(down[s], Launch(t))
    BY <1>1, <1>4, HeadHas
  <2> QED BY <1>1, <2>1 DEF Elsewhere, Launched
<1> QED BY <1>2, <1>3, <1>4

(* The members of the sets of messages. *)
LEMMA UpHead ==
    ASSUME CTypes, NEW s \in Stream, up[s] # <<>>, NEW m, m = Head(up[s])
    PROVE  /\ m \in UpMsg /\ Tail(up[s]) \in Seq(UpMsg) /\ up[s] \in Seq(UpMsg)
           /\ m[1] \in CallTypes => m[2] \in Tx /\ m \in CallsFor(m[2])
           /\ \A t : m \in CallsFor(t) => m[1] \in CallTypes /\ m[2] = t
<1>1. m \in UpMsg /\ Tail(up[s]) \in Seq(UpMsg) /\ up[s] \in Seq(UpMsg)
  BY HeadTailIn DEF CTypes
<1> QED BY <1>1 DEF UpMsg, CallsFor

LEMMA DownHead ==
    ASSUME CTypes, NEW s \in Stream, down[s] # <<>>, NEW m, m = Head(down[s])
    PROVE  /\ m \in DownMsg /\ Tail(down[s]) \in Seq(DownMsg) /\ down[s] \in Seq(DownMsg)
           /\ m[1] \in {"INIT", "TRANSACTION"} => m[2] \in Tx /\ m \in Launch(m[2])
           /\ m[1] \in {"RESPONSE", "ERROR"} => m[2] \in Tx /\ m \in AnswersFor(m[2])
           /\ \A t : m \in AnswersFor(t) => m[1] \in {"RESPONSE", "ERROR"} /\ m[2] = t
           /\ \A t \in Tx : m \in Launch(t) => m[1] \in {"INIT", "TRANSACTION"} /\ m[2] = t
<1>1. m \in DownMsg /\ Tail(down[s]) \in Seq(DownMsg) /\ down[s] \in Seq(DownMsg)
  BY HeadTailIn DEF CTypes
<1>2. m = <<m[1], m[2]>>
  BY <1>1, SMTT(30) DEF DownMsg
<1> QED BY <1>1, <1>2, StreamAssumption, SMTT(30) DEF DownMsg, AnswersFor, Launch

LEMMA ProcessKept ==
    ASSUME CInv, Step
    PROVE  (\A s \in Stream : Process(s))'
<1> SUFFICES ASSUME NEW r \in Stream PROVE Process(r)'
  OBVIOUS
<1> USE DEF Process, Alive
<1>0. CTypes /\ Process(r)
  BY DEF CInv
<1>1. CASE UNCHANGED cvars
  BY <1>0, <1>1 DEF cvars, peer, shim
<1>2. ASSUME NEW s \in Stream, Start(s) PROVE Process(r)'
  BY <1>0, <1>2 DEF Start, HandleChaincodeStream, chatWithPeer, CTypes
<1>3. ASSUME NEW s \in Stream, ShimRecv(s) PROVE Process(r)'
  <2>1. UNCHANGED <<loop, ctx>> /\ sloop[s] = "run" /\ giving[s] = None
    BY <1>3 DEF ShimRecv, peer, Selecting
  <2>2. \/ /\ sloop' = sloop
           /\ \A x \in Stream \ {s} : giving'[x] = giving[x] /\ ssending'[x] = ssending[x]
        \/ Over(s) /\ UNCHANGED giving
    <3> DEFINE m == Head(down[s])
    <3>1. CASE ssending' = [ssending EXCEPT ![s] = @ \cup {m}]
               /\ UNCHANGED <<sstate, sloop, giving, responseChannel, gor, up>>
      BY <1>0, <3>1 DEF CTypes
    <3>2. CASE sendChannel(s, m)
      BY <1>0, <3>2 DEF sendChannel, CTypes
    <3>3. CASE UNCHANGED <<sloop, giving, ssending>>
      BY <3>3
    <3> QED BY <1>3, <3>1, <3>2, <3>3 DEF ShimRecv
  <2> QED BY <1>0, <2>1, <2>2 DEF Over, CTypes
<1>4. ASSUME NEW s \in Stream, ShimRecvEnds(s) PROVE Process(r)'
  BY <1>0, <1>4 DEF ShimRecvEnds, Over, Selecting, streams, peer, CTypes
<1>5. ASSUME NEW s \in Stream, Delivered(s) PROVE Process(r)'
  BY <1>0, <1>5 DEF Delivered, streams, peer, CTypes
<1>6. ASSUME NEW s \in Stream, Break(s) PROVE Process(r)'
  BY <1>0, <1>6 DEF Break, peer, shim
<1>7. ASSUME NEW s \in Stream, NEW m \in ssending[s], ShimSend(s, m) PROVE Process(r)'
  <2>1. UNCHANGED <<loop, ctx, giving>>
    BY <1>7 DEF ShimSend, peer
  <2>2. CASE UNCHANGED sloop /\ ssending' = [ssending EXCEPT ![s] = @ \ {m}]
    BY <1>0, <2>1, <2>2 DEF CTypes
  <2>3. CASE Selecting(s) /\ Over(s)
    BY <1>0, <2>1, <2>3 DEF Over, Selecting, CTypes
  <2> QED BY <1>7, <2>2, <2>3, SendCases
<1>8. ASSUME NEW s \in Stream, PeerRecv(s), UNCHANGED shim PROVE Process(r)'
  <2>1. \A x \in Stream : loop[x] = "none" => loop'[x] = "none"
    BY <1>0, <1>8 DEF PeerRecv, Handle, Register, Refuse, Return, CTypes
  <2> QED BY <1>0, <1>8, <2>1 DEF PeerRecv, shim
<1>9. ASSUME NEW s \in Stream, UNCHANGED shim,
             PeerRecvEnds(s, ShimOver(s)) \/ Deregister(s) \/ NextReady(s) \/ Keepalive(s)
      PROVE  Process(r)'
  <2>1. \A x \in Stream : loop[x] = "none" => loop'[x] = "none"
    BY <1>0, <1>9 DEF PeerRecvEnds, Deregister, NextReady, Keepalive, Return, CTypes
  <2>2. UNCHANGED ctx
    BY <1>9 DEF PeerRecvEnds, Deregister, NextReady, Keepalive
  <2> QED BY <1>0, <1>9, <2>1, <2>2 DEF shim
<1>10. ASSUME NEW s \in Stream, NEW m \in sending[s], PeerSend(s, m), UNCHANGED shim
       PROVE  Process(r)'
  BY <1>0, <1>10 DEF PeerSend, shim
<1>11. ASSUME NEW s \in Stream, NEW t \in Tx, Execute(s, t), UNCHANGED shim PROVE Process(r)'
  <2>1. loop[s] = "run" /\ ctx' = [ctx EXCEPT ![t] = s]
    BY <1>11 DEF Execute, NextState
  <2>2. \A x \in Stream : loop[x] = "none" => loop'[x] = "none"
    BY <1>0, <1>11, <2>1 DEF Execute, NextState, Handle, Register, Refuse, Return, CTypes
  <2>3. sloop[s] # "off"
    BY <2>1 DEF CInv
  <2> QED BY <1>0, <1>11, <2>1, <2>2, <2>3 DEF shim, CTypes
<1>12. ASSUME NEW t \in Tx,
              \/ CallReturns(t) \/ (Answer(t) /\ UNCHANGED shim)
              \/ \E kind \in {"INIT", "TRANSACTION"} : RunEnds(t, kind)
       PROVE  Process(r)'
  BY <1>0, <1>12 DEF CallReturns, Answer, RunEnds, peer, shim
<1>13. ASSUME NEW t \in Tx,
              \/ \E type \in {"COMPLETED", "ERROR"} : ShimNextState(t, type)
              \/ \E type \in CallTypes : Call(t, type)
       PROVE  Process(r)'
  <2>1. /\ UNCHANGED <<loop, ctx, sloop, giving>> /\ sloop[ctx[t]] = "run"
        /\ \A x \in Stream : x # ctx[t] => ssending'[x] = ssending[x]
    BY <1>0, <1>13 DEF ShimNextState, Call, Unlocked, Selecting, peer, CTypes
  <2> QED BY <1>0, <2>1
<1> QED BY <1>1, <1>2, <1>3, <1>4, <1>5, <1>6, <1>7, <1>8, <1>9, <1>10, <1>11, <1>12, <1>13
        DEF Step

LEMMA BegunKept ==
    ASSUME CInv, Step
    PROVE  (\A t \in Tx : NotBegun(t) /\ (gor[t] = "leaving" => reply[t] # "none"))'
<1> SUFFICES ASSUME NEW x \in Tx
             PROVE  NotBegun(x)' /\ (gor'[x] = "leaving" => reply'[x] # "none")
  OBVIOUS
<1> USE DEF NotBegun
<1>0. CTypes /\ NotBegun(x) /\ (gor[x] = "leaving" => reply[x] # "none")
  BY DEF CInv
<1> DEFINE Goal == NotBegun(x)' /\ (gor'[x] = "leaving" => reply'[x] # "none")
<1>1. ASSUME UNCHANGED <<gor, reply, ctx, asked>> PROVE Goal
  BY <1>0, <1>1
<1>2. ASSUME NEW s \in Stream, Over(s), UNCHANGED <<reply, ctx, asked>> PROVE Goal
  BY <1>0, <1>2 DEF Over
<1>3. ASSUME NEW s \in Stream,
             \/ Start(s) \/ Break(s)
             \/ UNCHANGED shim /\ (\/ PeerRecvEnds(s, ShimOver(s)) \/ Deregister(s)
                                   \/ NextReady(s) \/ Keepalive(s)
                                   \/ \E m \in sending[s] : PeerSend(s, m))
      PROVE  Goal
  <2>1. UNCHANGED <<gor, reply, ctx, asked>>
    BY <1>3 DEF Start, Break, PeerRecvEnds, Deregister, NextReady, Keepalive, PeerSend, shim,
       peer
  <2> QED BY <1>1, <2>1
<1>4. ASSUME NEW s \in Stream, ShimRecv(s) PROVE Goal
  <2> DEFINE m == Head(down[s])
  <2>1. UNCHANGED <<reply, ctx, asked>> /\ down[s] # <<>>
    BY <1>4 DEF ShimRecv, peer
  <2>2. UNCHANGED gor \/ Over(s)
        \/ (m[1] \in {"INIT", "TRANSACTION"} /\ gor' = [gor EXCEPT ![m[2]] = "running"])
    BY <1>4 DEF ShimRecv, sendChannel
  <2>3. CASE m[1] \in {"INIT", "TRANSACTION"} /\ gor' = [gor EXCEPT ![m[2]] = "running"]
    <3>1. m[2] \in Tx /\ m \in Launch(m[2])
      BY <1>0, <2>1, <2>3, DownHead
    <3>2. ctx[m[2]] = s
      BY <2>1, <3>1, HeadsOwned
    <3>3. ctx[m[2]] # None
      BY <3>2, StreamAssumption
    <3> HIDE DEF m
    <3> QED BY <1>0, <2>1, <2>3, <3>1, <3>3 DEF CTypes
  <2> QED BY <1>1, <1>2, <2>1, <2>2, <2>3
<1>5. ASSUME NEW s \in Stream, ShimRecvEnds(s) PROVE Goal
  BY <1>2, <1>5 DEF ShimRecvEnds, peer
<1>6. ASSUME NEW s \in Stream, Delivered(s) PROVE Goal
  <2> DEFINE t == giving[s][2]
  <2>1. giving[s] \in {"RESPONSE", "ERROR"} \X Tx
    BY <1>0, <1>6 DEF Delivered, CTypes
  <2>2. t \in Tx /\ giving[s][1] \in {"RESPONSE", "ERROR"}
    BY <2>1
  <2>3. /\ gor[t] = "waiting" /\ gor' = [gor EXCEPT ![t] = "leaving"]
        /\ reply' = [reply EXCEPT ![t] = giving[s][1]] /\ UNCHANGED <<ctx, asked>>
    BY <1>6 DEF Delivered, peer
  <2>4. ctx[t] # None
    BY <2>2, <2>3 DEF CInv
  <2> HIDE DEF t
  <2> QED BY <1>0, <2>2, <2>3, <2>4 DEF CTypes
<1>7. ASSUME NEW s \in Stream, NEW m \in ssending[s], ShimSend(s, m) PROVE Goal
  <2>0. UNCHANGED <<ctx, asked>>
    BY <1>7 DEF ShimSend, peer
  <2>1. m \in UpMsg
    BY <1>0 DEF CTypes
  <2>2. m[1] \in CallTypes => m[2] \in Tx /\ m \in CallsFor(m[2])
    BY <2>1 DEF UpMsg, CallsFor
  <2>3. m[1] \in CallTypes => ctx[m[2]] = s
    <3> SUFFICES ASSUME m[1] \in CallTypes PROVE ctx[m[2]] = s
      OBVIOUS
    <3>1. ssending[s] \cap CallsFor(m[2]) # {}
      BY <2>2
    <3> QED BY <2>2, <3>1 DEF CInv, Elsewhere, Under
  <2>4. CASE UNCHANGED reply /\ gor' = gor
    BY <1>1, <2>0, <2>4
  <2>5. CASE /\ UNCHANGED reply /\ m[1] \in CallTypes
             /\ gor' = [gor EXCEPT ![m[2]] = gor[m[2]]]
    BY <1>0, <2>0, <2>5 DEF CTypes
  <2>6. CASE /\ m[1] \in CallTypes /\ gor' = [gor EXCEPT ![m[2]] = "leaving"]
             /\ reply' = [reply EXCEPT ![m[2]] = "failed"]
    BY <1>0, <2>0, <2>2, <2>3, <2>6, StreamAssumption DEF CTypes
  <2>7. CASE Over(s) /\ UNCHANGED reply
    BY <1>2, <2>0, <2>7
  <2> QED BY <1>7, <2>4, <2>5, <2>6, <2>7, SendCases
<1>8. ASSUME NEW s \in Stream, PeerRecv(s), UNCHANGED shim PROVE Goal
  <2> DEFINE m == Head(up[s])
  <2>1. UNCHANGED <<gor, reply, ctx>> /\ up[s] # <<>>
    BY <1>8 DEF PeerRecv, shim
  <2>2. UNCHANGED asked \/ (m[1] \in CallTypes /\ asked' = asked \cup {m[2]})
    BY <1>8 DEF PeerRecv, Handle, Register, Refuse
  <2>3. CASE m[1] \in CallTypes /\ asked' = asked \cup {m[2]}
    <3>1. m[2] \in Tx /\ m \in CallsFor(m[2])
      BY <1>0, <2>1, <2>3, UpHead
    <3>2. ctx[m[2]] = s
      BY <2>1, <3>1, HeadsOwned
    <3> HIDE DEF m
    <3> QED BY <1>0, <2>1, <2>3, <3>1, <3>2, StreamAssumption
  <2> QED BY <1>1, <2>1, <2>2, <2>3
<1>9. ASSUME NEW s \in Stream, NEW t \in Tx, Execute(s, t), UNCHANGED shim PROVE Goal
  <2>1. UNCHANGED <<gor, reply>> /\ ctx' = [ctx EXCEPT ![t] = s]
    BY <1>9 DEF Execute, shim
  <2>2. UNCHANGED asked
    <3> DEFINE m == <<KindOf[t], t>>
    <3>1. m[1] \in {"INIT", "TRANSACTION"}
      BY StreamAssumption
    <3> HIDE DEF m
    <3>2. Handle(s, m) \/ Refuse(s) \/ UNCHANGED asked
      BY <1>9 DEF Execute, NextState, m
    <3> QED BY <3>1, <3>2 DEF Handle, Refuse, CallTypes
  <2> QED BY <1>0, <2>1, <2>2, StreamAssumption DEF CTypes
<1>10. ASSUME NEW t \in Tx, Answer(t), UNCHANGED shim PROVE Goal
  BY <1>0, <1>10 DEF Answer, shim
<1>11. ASSUME NEW t \in Tx,
              \/ CallReturns(t)
              \/ \E type \in {"COMPLETED", "ERROR"} : ShimNextState(t, type)
              \/ \E kind \in {"INIT", "TRANSACTION"} : RunEnds(t, kind)
              \/ \E type \in CallTypes : Call(t, type)
       PROVE  Goal
  <2>1. /\ gor[t] # "none" /\ UNCHANGED <<ctx, asked>>
        /\ \E v \in {"running", "waiting", "finishing", "done"} : gor' = [gor EXCEPT ![t] = v]
    BY <1>11 DEF CallReturns, ShimNextState, RunEnds, Call, peer
  <2>2. UNCHANGED reply \/ reply' = [reply EXCEPT ![t] = "none"]
    BY <1>11 DEF CallReturns, ShimNextState, RunEnds, Call, peer
  <2> QED BY <1>0, <2>1, <2>2 DEF CTypes
<1>12. CASE UNCHANGED cvars
  BY <1>1, <1>12 DEF cvars, peer, shim
<1> HIDE DEF Goal
<1> QED BY <1>3, <1>4, <1>5, <1>6, <1>7, <1>8, <1>9, <1>10, <1>11, <1>12 DEF Step, Goal

LEMMA StillFades ==
    ASSUME NEW r \in Stream, NEW x \in Tx,
           up'[r] = up[r], down'[r] = down[r], sending'[r] = sending[r],
           ssending'[r] = ssending[r], giving'[r] = giving[r],
           responseChannel'[r] \subseteq responseChannel[r]
    PROVE  Fades(r, x)
  BY SameFades DEF Fades, Given

(* Messages that are of no call and no launch. *)
LEMMA Unrelated ==
    ASSUME NEW x \in Tx
    PROVE  /\ \A y : /\ <<"REGISTERED", y>> \notin AnswersFor(x) \cup Launch(x)
                     /\ <<"READY", y>> \notin AnswersFor(x) \cup Launch(x)
                     /\ <<"KEEPALIVE", y>> \notin AnswersFor(x) \cup Launch(x) \cup CallsFor(x)
                     /\ <<"REGISTER", y>> \notin CallsFor(x)
                     /\ <<"COMPLETED", y>> \notin CallsFor(x)
                     /\ <<"ERROR", y>> \notin CallsFor(x)
           /\ \A type, y : y # x => <<type, y>> \notin AnswersFor(x) \cup CallsFor(x)
           /\ \A y \in Tx : /\ <<KindOf[y], y>> \notin AnswersFor(x)
                            /\ y # x => <<KindOf[y], y>> \notin Launch(x)
           /\ \A type \in {"RESPONSE", "ERROR"} : \A y : <<type, y>> \notin Launch(x)
  BY StreamAssumption DEF AnswersFor, Launch, CallsFor, CallTypes

LEMMA PeerRecvServes ==
    ASSUME CInv, NEW s \in Stream, PeerRecv(s), UNCHANGED shim, NEW r \in Stream, NEW x \in Tx
    PROVE  Elsewhere(r, x)' /\ Served(r, x)'
<1> DEFINE m == Head(up[s])
<1>0. CTypes /\ Elsewhere(r, x) /\ Served(r, x)
  BY DEF CInv
<1>1. /\ up[s] # <<>> /\ up' = [up EXCEPT ![s] = Tail(@)]
      /\ UNCHANGED <<sending, ctx, ssending, giving, responseChannel, gor, sloop>>
  BY DEF PeerRecv, shim
<1>2. UNCHANGED asked \/ (m[1] \in CallTypes /\ asked' = asked \cup {m[2]} /\ UNCHANGED down)
  BY DEF PeerRecv, Handle, Register, Refuse
<1>3. UNCHANGED down \/ down' = [down EXCEPT ![s] = Append(@, <<"REGISTERED", None>>)]
  BY DEF PeerRecv, Handle, Register, Refuse
<1>4. /\ m[1] \in CallTypes => m[2] \in Tx /\ m \in CallsFor(m[2]) /\ ctx[m[2]] = s
      /\ up[s] \in Seq(UpMsg) /\ m \in UpMsg
  BY <1>0, <1>1, UpHead, HeadsOwned
<1>5. Alive(r)' = Alive(r)
  BY <1>1 DEF Alive
<1>6. up \in [Stream -> Seq(UpMsg)] /\ down \in [Stream -> Seq(DownMsg)]
  BY <1>0 DEF CTypes
<1>7. /\ QueueFades(down[s], down'[s], AnswersFor(x))
       /\ QueueFades(down[s], down'[s], Launch(x))
  <2>1. CASE UNCHANGED down
    BY <2>1, SameFades
  <2>2. CASE down' = [down EXCEPT ![s] = Append(@, <<"REGISTERED", None>>)]
    <3>1. /\ down'[s] = Append(down[s], <<"REGISTERED", None>>) /\ down[s] \in Seq(DownMsg)
          /\ <<"REGISTERED", None>> \in DownMsg
      BY <1>6, <2>2, PlainMessages
    <3>2. <<"REGISTERED", None>> \notin AnswersFor(x) /\ <<"REGISTERED", None>> \notin Launch(x)
      BY Unrelated
    <3> QED BY <3>1, <3>2, AppendFades
  <2> QED BY <1>3, <2>1, <2>2
<1>8. CASE r # s
  <2>1. up'[r] = up[r] /\ down'[r] = down[r]
    BY <1>1, <1>3, <1>6, <1>8
  <2>2. Fades(r, x)
    BY <1>1, <2>1, StillFades
  <2>3. ctx[x] = r /\ x \in asked' => x \in asked
    BY <1>2, <1>4, <1>8
  <2> QED BY <1>0, <1>1, <1>5, <2>2, <2>3, FadesServes
<1>9. CASE r = s /\ ~(m[1] \in CallTypes /\ m[2] = x)
  <2>1. QueueFades(up[s], up'[s], CallsFor(x))
    BY <1>1, <1>4, <1>6, TailFades
  <2>3. Fades(r, x)
    BY <1>1, <1>9, <1>7, <2>1 DEF Fades, Given
  <2>4. x \in asked' => x \in asked
    BY <1>2, <1>9
  <2> QED BY <1>0, <1>1, <1>5, <2>3, <2>4, FadesServes
<1>10. CASE r = s /\ m[1] \in CallTypes /\ m[2] = x
  <2>1. ctx[x] = s /\ m \in CallsFor(x) /\ HasOne(up[s], CallsFor(x))
    BY <1>1, <1>4, <1>10, HeadHas
  <2>2. CASE UNCHANGED asked
    <3>1. QueueFades(up[s], up'[s], CallsFor(x))
      BY <1>1, <1>4, <1>6, TailFades
    <3>3. Fades(r, x)
      BY <1>1, <1>10, <1>7, <3>1 DEF Fades, Given
    <3> QED BY <1>0, <1>1, <1>5, <2>2, <3>3, FadesServes
  <2>3. CASE asked' = asked \cup {m[2]} /\ UNCHANGED down
    <3>1. Elsewhere(r, x)'
      BY <1>1, <1>10, <2>1 DEF Elsewhere
    <3> SUFFICES ASSUME Alive(s) PROVE Served(s, x)'
      BY <1>5, <1>10, <3>1 DEF Served
    <3> DEFINE ss == ssending[s]
               u == up[s]
               sd == sending[s]
               dn == down[s]
               g == Given(s, x)
    <3>2. /\ Single(x, ss, u, x \in asked, sd, dn, g)
          /\ Under(x, ss, u, x \in asked, sd, dn, g) => gor[x] = "waiting"
          /\ OneLaunch(x, sd, dn) /\ (Launched(x, sd, dn) => gor[x] = "none")
          /\ x \in responseChannel[s] => gor[x] \in {"waiting", "leaving"}
      BY <1>0, <1>10, <2>1 DEF Served
    <3>3. gor[x] = "waiting"
      BY <2>1, <3>2 DEF Under
    <3>4. u \in Seq(UpMsg) /\ u # <<>> /\ Head(u) \in CallsFor(x) /\ g \in BOOLEAN
      BY <1>1, <1>6, <2>1 DEF Given
    <3> DEFINE a == x \in asked
    <3> HIDE DEF a, ss, u, sd, dn, g
    <3>5. Single(x, ss, u, a, sd, dn, g) /\ a \in BOOLEAN
      BY <3>2, SMTT(30) DEF a
    <3>6. Single(x, ss, Tail(u), TRUE, sd, dn, g)
      BY <3>4, <3>5, SingleAsked
    <3>7. /\ up'[s] = Tail(u) /\ (x \in asked') = TRUE /\ Given(s, x)' = g
          /\ ssending'[s] = ss /\ sending'[s] = sd /\ down'[s] = dn
      BY <1>1, <1>6, <1>10, <2>3 DEF u, ss, sd, dn, g, Given
    <3> QED BY <1>1, <3>2, <3>3, <3>6, <3>7 DEF Served
  <2> QED BY <1>2, <2>2, <2>3
<1> QED BY <1>8, <1>9, <1>10

LEMMA PeerPlainServes ==
    ASSUME CInv, NEW s \in Stream, UNCHANGED shim, NEW r \in Stream, NEW x \in Tx,
           PeerRecvEnds(s, ShimOver(s)) \/ Deregister(s) \/ NextReady(s) \/ Keepalive(s)
    PROVE  Elsewhere(r, x)' /\ Served(r, x)'
<1>0. CTypes /\ Elsewhere(r, x) /\ Served(r, x)
  BY DEF CInv
<1>1. UNCHANGED <<up, asked, ctx, ssending, giving, responseChannel, gor, sloop>>
  BY DEF PeerRecvEnds, Deregister, NextReady, Keepalive, streams, shim
<1>2. \/ UNCHANGED <<down, sending>>
      \/ /\ UNCHANGED sending
         /\ down' = [down EXCEPT ![s] = Append(@, <<"READY", None>>)]
      \/ /\ UNCHANGED down
         /\ sending' = [sending EXCEPT ![s] = @ \cup {<<"KEEPALIVE", None>>}]
  BY DEF PeerRecvEnds, Deregister, NextReady, Keepalive, streams
<1>3. /\ down \in [Stream -> Seq(DownMsg)] /\ sending \in [Stream -> SUBSET DownMsg]
      /\ <<"READY", None>> \in DownMsg
      /\ <<"READY", None>> \notin AnswersFor(x) /\ <<"READY", None>> \notin Launch(x)
      /\ <<"KEEPALIVE", None>> \notin AnswersFor(x) /\ <<"KEEPALIVE", None>> \notin Launch(x)
  BY <1>0, PlainMessages, Unrelated DEF CTypes
<1>4. /\ QueueFades(down[r], down'[r], AnswersFor(x))
      /\ QueueFades(down[r], down'[r], Launch(x))
  <2>1. CASE down'[r] = down[r]
    BY <2>1, SameFades
  <2>2. CASE down'[r] = Append(down[r], <<"READY", None>>)
    <3>1. down[r] \in Seq(DownMsg)
      BY <1>3
    <3> QED BY <1>3, <2>2, <3>1, AppendFades, SMTT(30)
  <2> QED BY <1>2, <1>3, <2>1, <2>2
<1>5. /\ sending'[r] \cap AnswersFor(x) \subseteq sending[r]
      /\ sending'[r] \cap Launch(x) \subseteq sending[r]
  BY <1>2, <1>3
<1>6. Fades(r, x)
  BY <1>1, <1>4, <1>5, SameFades DEF Fades, Given
<1> QED BY <1>0, <1>1, <1>6, FadesServes DEF Alive

LEMMA PeerSendServes ==
    ASSUME CInv, NEW s \in Stream, NEW m \in sending[s], PeerSend(s, m), UNCHANGED shim,
           NEW r \in Stream, NEW x \in Tx
    PROVE  Elsewhere(r, x)' /\ Served(r, x)'
<1>0. CTypes /\ Elsewhere(r, x) /\ Served(r, x)
  BY DEF CInv
<1>1. /\ UNCHANGED <<up, asked, ctx, ssending, giving, responseChannel, gor, sloop>>
      /\ sending' = [sending EXCEPT ![s] = @ \ {m}]
      /\ UNCHANGED down \/ down' = [down EXCEPT ![s] = Append(@, m)]
  BY DEF PeerSend, shim
<1>2. /\ down \in [Stream -> Seq(DownMsg)] /\ sending \in [Stream -> SUBSET DownMsg]
      /\ m \in DownMsg
  BY <1>0 DEF CTypes
<1>3. sending'[r] \subseteq sending[r] /\ sending'[s] = sending[s] \ {m}
  BY <1>1, <1>2
<1>4. CASE \/ r # s \/ UNCHANGED down
           \/ m \notin AnswersFor(x) /\ m \notin Launch(x)
  <2>1. /\ QueueFades(down[r], down'[r], AnswersFor(x))
        /\ QueueFades(down[r], down'[r], Launch(x))
    <3>1. CASE down'[r] = down[r]
      BY <3>1, SameFades
    <3>2. CASE /\ down'[r] = Append(down[r], m)
               /\ m \notin AnswersFor(x) /\ m \notin Launch(x)
      <4>1. down[r] \in Seq(DownMsg)
        BY <1>2
      <4> QED BY <1>2, <3>2, <4>1, AppendFades, SMTT(30)
    <3> QED BY <1>1, <1>2, <1>4, <3>1, <3>2
  <2>2. Fades(r, x)
    BY <1>1, <1>3, <2>1, SameFades DEF Fades, Given
  <2> QED BY <1>0, <1>1, <2>2, FadesServes DEF Alive
<1>5. ASSUME r = s, down' = [down EXCEPT ![s] = Append(@, m)],
             m \in AnswersFor(x) \/ m \in Launch(x)
      PROVE  Elsewhere(s, x)' /\ Served(s, x)'
  <2> DEFINE ss == ssending[s]
             u == up[s]
             sd == sending[s]
             dn == down[s]
             g == Given(s, x)
             a == x \in asked
  <2>1. ctx[x] = s
    BY <1>0, <1>5 DEF Elsewhere, Under, Launched, Launch
  <2>2. Elsewhere(s, x)'
    BY <1>1, <2>1 DEF Elsewhere
  <2> SUFFICES ASSUME Alive(s) PROVE Served(s, x)'
    BY <1>1, <2>2 DEF Served, Alive
  <2>3. /\ Single(x, ss, u, a, sd, dn, g)
        /\ Under(x, ss, u, a, sd, dn, g) => gor[x] = "waiting"
        /\ OneLaunch(x, sd, dn) /\ (Launched(x, sd, dn) => gor[x] = "none")
        /\ x \in responseChannel[s] => gor[x] \in {"waiting", "leaving"}
    BY <1>0, <1>5, <2>1 DEF Served
  <2>4. /\ dn \in Seq(DownMsg) /\ sd \in SUBSET DownMsg /\ m \in sd
        /\ g \in BOOLEAN /\ a \in BOOLEAN
    BY <1>2, SMTT(30) DEF Given
  <2>5. /\ up'[s] = u /\ (x \in asked') = a /\ Given(s, x)' = g
        /\ ssending'[s] = ss /\ sending'[s] = sd \ {m} /\ down'[s] = Append(dn, m)
    BY <1>1, <1>2, <1>3, <1>5 DEF Given
  <2> HIDE DEF a, ss, u, sd, dn, g
  <2>6. CASE m \in AnswersFor(x)
    <3>1. m \notin Launch(x)
      BY <2>6, StreamAssumption, SMTT(30) DEF AnswersFor, Launch
    <3>2. Single(x, ss, u, a, sd \ {m}, Append(dn, m), g)
      BY <2>3, <2>4, <2>6, SingleReturned, SMTT(30)
    <3>3. gor[x] = "waiting"
      BY <2>3, <2>4, <2>6 DEF Under
    <3>4. QueueFades(dn, Append(dn, m), Launch(x)) /\ m \in DownMsg
      BY <1>2, <2>4, <3>1, AppendFades
    <3>5. OneLaunch(x, sd \ {m}, Append(dn, m)) /\ ~Launched(x, sd \ {m}, Append(dn, m))
      BY <2>3, <3>3, <3>4 DEF OneLaunch, Launched, QueueFades
    <3> QED BY <1>1, <2>3, <2>5, <3>2, <3>3, <3>5 DEF Served
  <2>7. CASE m \in Launch(x)
    <3>1. m = <<KindOf[x], x>> /\ m \notin AnswersFor(x)
      BY <2>7, Unrelated DEF Launch
    <3>2. gor[x] = "none" /\ ~HasOne(dn, Launch(x)) /\ Once(dn, Launch(x))
      BY <2>3, <2>4, <3>1 DEF Launched, OneLaunch
    <3>3. Once(Append(dn, m), Launch(x)) /\ QueueFades(dn, Append(dn, m), AnswersFor(x))
      BY <2>4, <3>1, <3>2, AppendOnce, AppendFades, SMTT(30)
    <3>4. /\ Single(x, ss, u, a, sd \ {m}, Append(dn, m), g)
          /\ Under(x, ss, u, a, sd \ {m}, Append(dn, m), g) => Under(x, ss, u, a, sd, dn, g)
      <4>1. Once(u, CallsFor(x)) /\ Once(dn, AnswersFor(x))
        BY <2>3 DEF Single
      <4> DEFINE sd2 == sd \ {m}
                 dn2 == Append(dn, m)
      <4>2. /\ ss \cap CallsFor(x) \subseteq ss /\ sd2 \cap AnswersFor(x) \subseteq sd
            /\ HasOne(dn2, AnswersFor(x)) => HasOne(dn, AnswersFor(x))
            /\ Once(dn2, AnswersFor(x))
        BY <3>3, <4>1 DEF QueueFades
      <4> HIDE DEF sd2, dn2
      <4>3. /\ Single(x, ss, u, a, sd2, dn2, g)
            /\ Under(x, ss, u, a, sd2, dn2, g) => Under(x, ss, u, a, sd, dn, g)
        BY <2>3, <2>4, <4>1, <4>2, SingleLoses, SMTT(30)
      <4> QED BY <4>3 DEF sd2, dn2
    <3>5. OneLaunch(x, sd \ {m}, Append(dn, m))
      BY <3>1, <3>3 DEF OneLaunch
    <3> QED BY <1>1, <2>3, <2>5, <3>2, <3>4, <3>5 DEF Served
  <2> QED BY <1>5, <2>6, <2>7
<1> QED BY <1>1, <1>4, <1>5

LEMMA ExecuteServes ==
    ASSUME CInv, NEW s \in Stream, NEW t \in Tx, Execute(s, t), UNCHANGED shim,
           NEW r \in Stream, NEW x \in Tx
    PROVE  Elsewhere(r, x)' /\ Served(r, x)'
<1> DEFINE m == <<KindOf[t], t>>
<1>0. CTypes /\ Elsewhere(r, x) /\ Served(r, x) /\ NotBegun(x)
  BY DEF CInv
<1>1. /\ ctx[t] = None /\ ctx' = [ctx EXCEPT ![t] = s]
      /\ UNCHANGED <<up, ssending, giving, responseChannel, gor, sloop>>
  BY DEF Execute, NextState, shim
<1>2. UNCHANGED <<down, asked>>
      /\ (UNCHANGED sending \/ sending' = [sending EXCEPT ![s] = @ \cup {m}])
  <2>1. m[1] \in {"INIT", "TRANSACTION"}
    BY StreamAssumption
  <2> HIDE DEF m
  <2>2. /\ Handle(s, m) \/ Refuse(s) \/ UNCHANGED <<down, asked>>
        /\ UNCHANGED sending \/ sending' = [sending EXCEPT ![s] = @ \cup {m}]
    BY DEF Execute, NextState, m
  <2>3. Handle(s, m) => UNCHANGED <<down, asked>>
    BY <2>1 DEF Handle, CallTypes
  <2> QED BY <2>2, <2>3 DEF Refuse
<1>3. sending'[r] \subseteq sending[r] \cup {m} /\ (r # s => sending'[r] = sending[r])
  BY <1>0, <1>2 DEF CTypes
<1>4. CASE x # t \/ r # s
  <2>1. x # t => m \notin Launch(x)
    BY Unrelated
  <2>2. m \notin AnswersFor(x)
    BY Unrelated
  <2>3. /\ sending'[r] \cap AnswersFor(x) \subseteq sending[r]
        /\ sending'[r] \cap Launch(x) \subseteq sending[r]
    BY <1>3, <1>4, <2>1, <2>2
  <2>4. Fades(r, x)
    BY <1>1, <1>2, <2>3, SameFades DEF Fades, Given
  <2>5. CASE x # t
    <3>1. ctx'[x] = ctx[x]
      BY <1>0, <1>1, <2>5 DEF CTypes
    <3> QED BY <1>0, <1>1, <1>2, <2>4, <3>1, FadesServes DEF Alive
  <2>6. CASE x = t /\ r # s
    <3>1. ctx[x] # r /\ ctx'[x] # r
      BY <1>0, <1>1, <2>6, StreamAssumption DEF CTypes
    <3>2. sending'[r] = sending[r]
      BY <1>3, <2>6
    <3> QED BY <1>0, <1>1, <1>2, <3>1, <3>2 DEF Elsewhere, Served, Given
  <2> QED BY <1>4, <2>5, <2>6
<1>5. ASSUME x = t, r = s PROVE Elsewhere(s, t)' /\ Served(s, t)'
  <2>1. ctx'[t] = s /\ ctx[t] # s
    BY <1>0, <1>1, StreamAssumption DEF CTypes
  <2>2. /\ ~Under(t, ssending[s], up[s], FALSE, sending[s], down[s], Given(s, t))
        /\ ~Launched(t, sending[s], down[s]) /\ t \notin responseChannel[s]
        /\ t \notin asked /\ gor[t] = "none"
    BY <1>0, <1>1, <1>5, <2>1 DEF Elsewhere, NotBegun
  <2> DEFINE ss == ssending[s]
             u == up[s]
             sd == sending[s]
             sd2 == sending'[s]
             dn == down[s]
             g == Given(s, t)
  <2>3. /\ ~Under(t, ss, u, FALSE, sd, dn, g) /\ ~Launched(t, sd, dn)
        /\ sd2 \subseteq sd \cup {m} /\ m \notin AnswersFor(t) /\ g \in BOOLEAN
    BY <1>3, <1>5, <2>2, Unrelated DEF Given
  <2>4. /\ up'[s] = u /\ (t \in asked') = FALSE /\ Given(s, t)' = g
        /\ ssending'[s] = ss /\ sending'[s] = sd2 /\ down'[s] = dn
    BY <1>1, <1>2, <2>2, SMTT(30) DEF Given
  <2> HIDE DEF ss, u, sd, sd2, dn, g, m
  <2>5. ~Under(t, ss, u, FALSE, sd2, dn, g)
    BY <2>3 DEF Under
  <2>6. Single(t, ss, u, FALSE, sd2, dn, g)
    BY <2>5, NoneFades, <2>3 DEF Single, Under, AtMostOne
  <2>7. OneLaunch(t, sd2, dn)
    BY <2>3 DEF OneLaunch, Launched, Once, HasOne
  <2>8. gor'[t] = "none" /\ t \notin responseChannel'[s]
    BY <1>1, <2>2
  <2>9. Elsewhere(s, t)'
    BY <2>1 DEF Elsewhere
  <2> QED BY <2>4, <2>5, <2>6, <2>7, <2>8, <2>9 DEF Served
<1> QED BY <1>4, <1>5

LEMMA AnswerServes ==
    ASSUME CInv, NEW t \in Tx, Answer(t), UNCHANGED shim, NEW r \in Stream, NEW x \in Tx
    PROVE  Elsewhere(r, x)' /\ Served(r, x)'
<1>0. CTypes /\ Elsewhere(r, x) /\ Served(r, x)
  BY DEF CInv
<1>1. PICK type \in {"RESPONSE", "ERROR"} :
          sending' = [sending EXCEPT ![ctx[t]] = @ \cup {<<type, t>>}]
  BY DEF Answer
<1> DEFINE s == ctx[t]
           m == <<type, t>>
<1>2. /\ s \in Stream /\ t \in asked /\ asked' = asked \ {t}
      /\ UNCHANGED <<up, down, ctx, ssending, giving, responseChannel, gor, sloop>>
  BY <1>0 DEF Answer, streams, shim, CTypes
<1>3. /\ m \notin Launch(x) /\ (x # t => m \notin AnswersFor(x))
      /\ m \in AnswersFor(t)
  BY Unrelated DEF AnswersFor
<1>4. sending'[r] \subseteq sending[r] \cup {m} /\ (r # s => sending'[r] = sending[r])
      /\ sending'[s] = sending[s] \cup {m}
  BY <1>0, <1>1, <1>2 DEF CTypes
<1>5. CASE x # t \/ r # s
  <2>1. /\ sending'[r] \cap AnswersFor(x) \subseteq sending[r]
        /\ sending'[r] \cap Launch(x) \subseteq sending[r]
    BY <1>3, <1>4, <1>5
  <2>2. Fades(r, x)
    BY <1>2, <2>1, SameFades DEF Fades, Given
  <2> QED BY <1>0, <1>2, <2>2, FadesServes DEF Alive
<1>6. ASSUME x = t, r = s PROVE Elsewhere(r, t)' /\ Served(r, t)'
  <2>1. Elsewhere(r, t)'
    BY <1>2, <1>6 DEF Elsewhere
  <2> SUFFICES ASSUME Alive(r) PROVE Served(r, t)'
    BY <1>2, <2>1 DEF Served, Alive
  <2> DEFINE ss == ssending[r]
             u == up[r]
             sd == sending[r]
             dn == down[r]
             g == Given(r, t)
             a == t \in asked
             a2 == t \in asked'
             sd2 == sending'[r]
  <2>2. /\ a = TRUE /\ a2 = FALSE /\ a \in BOOLEAN /\ a2 \in BOOLEAN
        /\ sd2 = sd \cup {m}
    BY <1>2, <1>4, <1>6, SMTT(30)
  <2>3. /\ Single(t, ss, u, a, sd, dn, g)
        /\ Under(t, ss, u, a, sd, dn, g) => gor[t] = "waiting"
        /\ OneLaunch(t, sd, dn) /\ (Launched(t, sd, dn) => gor[t] = "none")
        /\ t \in responseChannel[r] => gor[t] \in {"waiting", "leaving"}
    BY <1>0, <1>6 DEF Served
  <2>4. gor[t] = "waiting" /\ g \in BOOLEAN
    BY <2>2, <2>3 DEF Under, Given
  <2>5. /\ up'[r] = u /\ (t \in asked') = a2 /\ Given(r, t)' = g
        /\ ssending'[r] = ss /\ sending'[r] = sd2 /\ down'[r] = dn
    BY <1>2, <1>4, <1>6 DEF Given
  <2> HIDE DEF ss, u, sd, sd2, dn, g, m, a, a2
  <2>6. Single(t, ss, u, a2, sd2, dn, g)
    <3>1. AtMostOne(sd2 \cap AnswersFor(t))
      BY <2>2, <2>3 DEF Single, AtMostOne
    <3> QED BY <2>2, <2>3, <3>1 DEF Single
  <2>7. OneLaunch(t, sd2, dn) /\ ~Launched(t, sd2, dn)
    <3>1. <<KindOf[t], t>> # m
      BY <1>3, <1>6 DEF Launch
    <3>2. <<KindOf[t], t>> \in sd2 => <<KindOf[t], t>> \in sd
      BY <2>2, <3>1
    <3> QED BY <2>3, <2>4, <3>2 DEF OneLaunch, Launched
  <2> QED BY <1>2, <2>3, <2>4, <2>5, <2>6, <2>7 DEF Served
<1> QED BY <1>5, <1>6

LEMMA OverServes ==
    ASSUME CInv, NEW s \in Stream, Over(s), UNCHANGED <<ctx, asked, sending, giving>>,
           NEW r \in Stream, NEW x \in Tx,
           QueueFades(up[r], up'[r], CallsFor(x)),
           QueueFades(down[r], down'[r], AnswersFor(x)),
           QueueFades(down[r], down'[r], Launch(x))
    PROVE  Elsewhere(r, x)' /\ Served(r, x)'
<1>0. CTypes /\ Elsewhere(r, x) /\ Served(r, x)
  BY DEF CInv
<1>1. /\ ssending'[r] \subseteq ssending[r] /\ responseChannel'[r] \subseteq responseChannel[r]
      /\ sloop'[r] = IF r = s THEN "over" ELSE sloop[r]
  BY <1>0 DEF Over, CTypes
<1>2. Fades(r, x)
  BY <1>1 DEF Fades, Given
<1>3. ctx[x] = r /\ Alive(r)' => Alive(r) /\ gor'[x] = gor[x]
  BY <1>1, SMTT(30) DEF Alive, Over
<1> QED BY <1>0, <1>2, <1>3, FadesServes

LEMMA StartServes ==
    ASSUME CInv, NEW s \in Stream, Start(s), NEW r \in Stream, NEW x \in Tx
    PROVE  Elsewhere(r, x)' /\ Served(r, x)'
<1>0. CTypes /\ Elsewhere(r, x) /\ Served(r, x) /\ Process(s)
  BY DEF CInv
<1>1. /\ up' = [up EXCEPT ![s] = <<<<"REGISTER", None>>>>]
      /\ sloop[s] = "off" /\ sloop' = [sloop EXCEPT ![s] = "run"]
      /\ UNCHANGED <<down, sending, ctx, asked, giving, responseChannel, ssending, gor>>
  BY DEF Start, chatWithPeer
<1>2. CASE r # s
  <2>1. up'[r] = up[r] /\ Alive(r)' = Alive(r)
    BY <1>0, <1>1, <1>2 DEF CTypes, Alive
  <2>2. Fades(r, x)
    BY <1>1, <2>1, StillFades
  <2> QED BY <1>0, <1>1, <2>1, <2>2, FadesServes
<1>3. CASE r = s
  <2>1. ctx[x] # s
    BY <1>0, <1>1 DEF Process
  <2>2. up'[s] = <<<<"REGISTER", None>>>>
    BY <1>0, <1>1 DEF CTypes
  <2>3. <<"REGISTER", None>> \notin CallsFor(x)
    BY Unrelated
  <2>4. ~HasOne(up'[s], CallsFor(x))
    BY <2>2, <2>3, SMTT(30) DEF HasOne
  <2> QED BY <1>0, <1>1, <1>3, <2>1, <2>4 DEF Elsewhere, Served, Under, Given
<1> QED BY <1>2, <1>3

LEMMA BreakServes ==
    ASSUME CInv, NEW s \in Stream, Break(s), NEW r \in Stream, NEW x \in Tx
    PROVE  Elsewhere(r, x)' /\ Served(r, x)'
<1>0. CTypes /\ Elsewhere(r, x) /\ Served(r, x)
  BY DEF CInv
<1>1. /\ up' = up \/ up' = [up EXCEPT ![s] = <<>>]
      /\ down' = [down EXCEPT ![s] = <<>>]
      /\ UNCHANGED <<sending, ctx, asked, giving, responseChannel, ssending, gor, sloop>>
  BY DEF Break, peer, shim
<1>2. (up'[r] = up[r] \/ up'[r] = <<>>) /\ (down'[r] = down[r] \/ down'[r] = <<>>)
  BY <1>0, <1>1 DEF CTypes
<1>3. Fades(r, x)
  BY <1>1, <1>2, SameFades DEF Fades, Given
<1> QED BY <1>0, <1>1, <1>3, FadesServes DEF Alive

(* A goroutine that does not wait: it returns from a call, and it ends. *)
LEMMA GoroutineServes ==
    ASSUME CInv, NEW t \in Tx, NEW r \in Stream, NEW x \in Tx,
           \/ CallReturns(t)
           \/ \E type \in {"COMPLETED", "ERROR"} : ShimNextState(t, type)
           \/ \E kind \in {"INIT", "TRANSACTION"} : RunEnds(t, kind)
    PROVE  Elsewhere(r, x)' /\ Served(r, x)'
<1>0. CTypes /\ Elsewhere(r, x) /\ Served(r, x)
  BY DEF CInv
<1>1. /\ UNCHANGED <<up, down, sending, ctx, asked, giving, sloop>>
      /\ gor[t] \in {"leaving", "finishing", "running"}
  BY DEF CallReturns, ShimNextState, RunEnds, streams, peer
<1>2. x # t => gor'[x] = gor[x]
  BY <1>0 DEF CallReturns, ShimNextState, RunEnds, CTypes
<1>3. ssending'[r] \cap CallsFor(x) \subseteq ssending[r]
  <2>1. CASE UNCHANGED ssending
    BY <2>1
  <2>2. CASE \E type \in {"COMPLETED", "ERROR"} :
                ssending' = [ssending EXCEPT ![ctx[t]] = @ \cup {<<type, t>>}]
    <3>1. PICK type \in {"COMPLETED", "ERROR"} :
                ssending' = [ssending EXCEPT ![ctx[t]] = @ \cup {<<type, t>>}]
      BY <2>2
    <3>2. <<type, t>> \notin CallsFor(x)
      BY Unrelated
    <3>3. ssending'[r] \subseteq ssending[r] \cup {<<type, t>>}
      BY <1>0, <3>1 DEF CTypes
    <3> QED BY <3>2, <3>3
  <2> QED BY <2>1, <2>2 DEF CallReturns, ShimNextState, RunEnds
<1>4. responseChannel'[r] \subseteq responseChannel[r]
  <2>1. UNCHANGED responseChannel
        \/ responseChannel' = [responseChannel EXCEPT ![ctx[t]] = @ \ {t}]
    BY DEF CallReturns, ShimNextState, RunEnds
  <2> QED BY <1>0, <2>1 DEF CTypes
<1>5. Fades(r, x)
  BY <1>1, <1>3, <1>4, SameFades DEF Fades, Given
<1>6. ASSUME x = t, ctx[t] = r, Alive(r) PROVE t \notin responseChannel'[r]
  <2>1. CASE CallReturns(t)
    BY <1>0, <1>6, <2>1 DEF CallReturns, CTypes
  <2>2. CASE ~CallReturns(t)
    <3>1. gor[t] \notin {"waiting", "leaving"}
      BY <2>2 DEF ShimNextState, RunEnds
    <3> QED BY <1>0, <1>4, <1>6, <3>1 DEF Served
  <2> QED BY <2>1, <2>2
<1>7. Alive(r)' = Alive(r)
  BY <1>1 DEF Alive
<1> QED BY <1>0, <1>1, <1>2, <1>5, <1>6, <1>7, FadesServes

LEMMA CallServes ==
    ASSUME CInv, NEW t \in Tx, NEW type \in CallTypes, Call(t, type),
           NEW r \in Stream, NEW x \in Tx
    PROVE  Elsewhere(r, x)' /\ Served(r, x)'
<1> DEFINE m == <<type, t>>
           s == ctx[t]
<1>0. CTypes /\ Elsewhere(r, x) /\ Served(r, x)
  BY DEF CInv
<1>1. /\ UNCHANGED <<up, down, sending, ctx, asked, giving, sloop>>
      /\ gor[t] = "running" /\ gor' = [gor EXCEPT ![t] = "waiting"]
      /\ responseChannel' = [responseChannel EXCEPT ![s] = @ \cup {t}]
      /\ ssending' = [ssending EXCEPT ![s] = @ \cup {m}]
      /\ Alive(s)
  BY DEF Call, Unlocked, Selecting, streams, peer
<1>2. (x # t => m \notin CallsFor(x)) /\ Alive(r)' = Alive(r)
  BY <1>1, Unrelated DEF Alive
<1>3. /\ ssending'[r] \subseteq ssending[r] \cup {m}
      /\ responseChannel'[r] \subseteq responseChannel[r] \cup {t}
      /\ r # s => ssending'[r] = ssending[r] /\ responseChannel'[r] = responseChannel[r]
      /\ r = s => ssending'[r] = ssending[r] \cup {m}
  BY <1>0, <1>1 DEF CTypes
<1>4. CASE x # t \/ r # s
  <2>1. /\ ssending'[r] \cap CallsFor(x) \subseteq ssending[r]
        /\ x \in responseChannel'[r] => x \in responseChannel[r]
    BY <1>2, <1>3, <1>4
  <2>2. Fades(r, x)
    BY <1>1, <2>1, SameFades DEF Fades, Given
  <2>3. ctx[x] = r => gor'[x] = gor[x]
    BY <1>0, <1>1, <1>4 DEF CTypes
  <2> QED BY <1>0, <1>1, <1>2, <2>2, <2>3, FadesServes
<1>5. ASSUME x = t, r = s PROVE Elsewhere(r, t)' /\ Served(r, t)'
  <2>1. Elsewhere(r, t)'
    BY <1>1, <1>5 DEF Elsewhere
  <2> DEFINE ss == ssending[r]
             ss2 == ssending'[r]
             u == up[r]
             sd == sending[r]
             dn == down[r]
             g == Given(r, t)
             a == t \in asked
  <2>2. /\ Single(t, ss, u, a, sd, dn, g)
        /\ Under(t, ss, u, a, sd, dn, g) => gor[t] = "waiting"
        /\ OneLaunch(t, sd, dn) /\ (Launched(t, sd, dn) => gor[t] = "none")
    BY <1>0, <1>1, <1>5 DEF Served
  <2>3. /\ up'[r] = u /\ (t \in asked') = a /\ Given(r, t)' = g
        /\ sending'[r] = sd /\ down'[r] = dn /\ ss2 = ss \cup {m}
        /\ g \in BOOLEAN /\ a \in BOOLEAN /\ gor'[t] = "waiting"
    BY <1>0, <1>1, <1>3, <1>5, SMTT(30) DEF Given, CTypes
  <2>4. ~Under(t, ss, u, a, sd, dn, g) /\ ~Launched(t, sd, dn)
    BY <1>1, <2>2
  <2>5. ss2 = ssending'[r]
    OBVIOUS
  <2> HIDE DEF ss, ss2, u, sd, dn, g, a, m
  <2>6. Single(t, ss2, u, a, sd, dn, g)
    BY <2>2, <2>3, <2>4 DEF Single, Under, AtMostOne
  <2> QED BY <2>1, <2>2, <2>3, <2>4, <2>5, <2>6 DEF Served
<1> QED BY <1>4, <1>5

LEMMA ShimRecvServes ==
    ASSUME CInv, NEW s \in Stream, ShimRecv(s), NEW r \in Stream, NEW x \in Tx
    PROVE  Elsewhere(r, x)' /\ Served(r, x)'
<1> DEFINE m == Head(down[s])
<1>0. CTypes /\ Elsewhere(r, x) /\ Served(r, x)
  BY DEF CInv
<1>1. /\ down[s] # <<>> /\ down' = [down EXCEPT ![s] = Tail(@)]
      /\ Alive(s) /\ giving[s] = None /\ UNCHANGED <<sending, ctx, asked>>
  BY DEF ShimRecv, Selecting, peer
<1>2. /\ m \in DownMsg /\ down[s] \in Seq(DownMsg)
      /\ m[1] \in {"INIT", "TRANSACTION"} => m[2] \in Tx /\ m \in Launch(m[2])
      /\ m[1] \in {"RESPONSE", "ERROR"} => m[2] \in Tx /\ m \in AnswersFor(m[2])
      /\ m = <<m[1], m[2]>> /\ m[2] \in Tx \cup {None}
  <2>1. m \in DownMsg
    BY <1>0, <1>1, DownHead
  <2>2. m = <<m[1], m[2]>> /\ m[2] \in Tx \cup {None}
    BY <2>1, SMTT(30) DEF DownMsg
  <2>3. /\ down[s] \in Seq(DownMsg)
        /\ m[1] \in {"INIT", "TRANSACTION"} => m[2] \in Tx /\ m \in Launch(m[2])
        /\ m[1] \in {"RESPONSE", "ERROR"} => m[2] \in Tx /\ m \in AnswersFor(m[2])
    BY <1>0, <1>1, DownHead
  <2> QED BY <2>1, <2>2, <2>3
<1>3. /\ QueueFades(down[r], down'[r], AnswersFor(x))
      /\ QueueFades(down[r], down'[r], Launch(x))
  <2>1. CASE r = s
    <3>1. down'[s] = Tail(down[s])
      BY <1>0, <1>1 DEF CTypes
    <3> QED BY <1>1, <1>2, <2>1, <3>1, TailFades
  <2>2. CASE r # s
    <3>1. down'[r] = down[r]
      BY <1>0, <1>1, <2>2 DEF CTypes
    <3> QED BY <3>1, SameFades
  <2> QED BY <2>1, <2>2
<1>4. ASSUME UNCHANGED <<sloop, giving, responseChannel, gor, up>>,
             ssending'[r] \cap CallsFor(x) \subseteq ssending[r]
      PROVE  Elsewhere(r, x)' /\ Served(r, x)'
  <2>1. Fades(r, x)
    BY <1>1, <1>3, <1>4, SameFades DEF Fades, Given
  <2> QED BY <1>0, <1>1, <1>4, <2>1, FadesServes DEF Alive
<1>5. CASE /\ m[1] = "KEEPALIVE" /\ ssending' = [ssending EXCEPT ![s] = @ \cup {m}]
           /\ UNCHANGED <<sstate, sloop, giving, responseChannel, gor, up>>
  <2>1. m \notin CallsFor(x)
    BY <1>2, <1>5, Unrelated
  <2>2. ssending'[r] \subseteq ssending[r] \cup {m}
    BY <1>0, <1>5 DEF CTypes
  <2> HIDE DEF m
  <2>3. ssending'[r] \cap CallsFor(x) \subseteq ssending[r]
    BY <2>1, <2>2
  <2> QED BY <1>4, <1>5, <2>3
<1>6. CASE /\ up' = IF broken[s] THEN up ELSE [up EXCEPT ![s] = Append(@, <<"ERROR", m[2]>>)]
           /\ Over(s) /\ UNCHANGED <<sstate, giving>>
  <2>1. up'[r] = up[r] \/ up'[r] = Append(up[r], <<"ERROR", m[2]>>)
    BY <1>0, <1>6 DEF CTypes
  <2>2. <<"ERROR", m[2]>> \notin CallsFor(x) /\ <<"ERROR", m[2]>> \in UpMsg
        /\ up[r] \in Seq(UpMsg)
    BY <1>0, <1>2, Unrelated, PlainMessages DEF CTypes
  <2>3. QueueFades(up[r], up'[r], CallsFor(x))
    BY <2>1, <2>2, AppendFades, SameFades
  <2> QED BY <1>1, <1>3, <1>6, <2>3, OverServes
<1>7. CASE UNCHANGED <<sloop, giving, responseChannel, ssending, gor, up>>
  BY <1>4, <1>7
<1>8. CASE /\ m[1] \in {"INIT", "TRANSACTION"} /\ gor' = [gor EXCEPT ![m[2]] = "running"]
           /\ UNCHANGED <<sstate, sloop, giving, responseChannel, ssending, up>>
  <2>1. m[2] \in Tx /\ ctx[m[2]] = s /\ m \in Launch(m[2])
    BY <1>1, <1>2, <1>8, HeadsOwned
  <2>2. Fades(r, x)
    BY <1>1, <1>3, <1>8, SameFades DEF Fades, Given
  <2>3. CASE x # m[2] \/ r # s
    <3>1. ctx[x] = r => gor'[x] = gor[x]
      BY <1>0, <1>8, <2>1, <2>3 DEF CTypes
    <3> QED BY <1>0, <1>1, <1>8, <2>2, <3>1, FadesServes DEF Alive
  <2>4. CASE x = m[2] /\ r = s
    <3>1. /\ Single(x, ssending[s], up[s], x \in asked, sending[s], down[s], Given(s, x))
          /\ Under(x, ssending[s], up[s], x \in asked, sending[s], down[s], Given(s, x))
                => gor[x] = "waiting"
          /\ OneLaunch(x, sending[s], down[s])
          /\ Launched(x, sending[s], down[s]) => gor[x] = "none"
          /\ x \in responseChannel[s] => gor[x] \in {"waiting", "leaving"}
      BY <1>0, <1>1, <2>1, <2>4 DEF Served
    <3>2. m \in Launch(x)
      BY <2>1, <2>4
    <3>3. HasOne(down[s], Launch(x)) /\ Once(down[s], Launch(x))
      BY <1>1, <1>2, <3>1, <3>2, HeadHas DEF OneLaunch
    <3>4. gor[x] = "none" /\ <<KindOf[x], x>> \notin sending[s]
      BY <3>1, <3>3 DEF Launched, OneLaunch
    <3>5. down'[s] = Tail(down[s])
      BY <1>0, <1>1 DEF CTypes
    <3>6. ~HasOne(down'[s], Launch(x)) /\ Once(down'[s], Launch(x))
      BY <1>1, <1>2, <3>2, <3>3, <3>5, TailOnce, SMTT(30)
    <3> DEFINE ss == ssending[s]
               u == up[s]
               a == x \in asked
               sd == sending[s]
               dn == down[s]
               dn2 == down'[s]
               g == Given(s, x)
    <3>7. /\ up'[s] = u /\ (x \in asked') = a /\ Given(s, x)' = g /\ ssending'[s] = ss
          /\ sending'[s] = sd /\ down'[s] = dn2 /\ g \in BOOLEAN /\ a \in BOOLEAN
      BY <1>1, <1>8, SMTT(30) DEF Given
    <3>8. /\ HasOne(dn2, AnswersFor(x)) => HasOne(dn, AnswersFor(x))
          /\ Once(dn, AnswersFor(x)) => Once(dn2, AnswersFor(x))
      BY <1>3, <2>4 DEF QueueFades
    <3>9. /\ Single(x, ss, u, a, sd, dn, g) /\ ~Under(x, ss, u, a, sd, dn, g)
          /\ x \notin responseChannel[s]
      BY <3>1, <3>4
    <3> HIDE DEF m
    <3>10. x \notin responseChannel'[s] /\ ctx'[x] = s /\ gor'[x] = "running"
      BY <1>0, <1>1, <1>8, <2>1, <2>4, <3>9 DEF CTypes
    <3> HIDE DEF ss, u, a, sd, dn, dn2, g
    <3>11. Single(x, ss, u, a, sd, dn2, g) /\ ~Under(x, ss, u, a, sd, dn2, g)
      BY <3>8, <3>9 DEF Single, Under
    <3>12. OneLaunch(x, sd, dn2) /\ ~Launched(x, sd, dn2)
      BY <3>4, <3>6 DEF OneLaunch, Launched, sd, dn2
    <3>13. Elsewhere(s, x)'
      BY <3>10 DEF Elsewhere
    <3> QED BY <2>4, <3>7, <3>10, <3>11, <3>12, <3>13 DEF Served
  <2> QED BY <2>3, <2>4
<1>9. CASE m[1] \in {"RESPONSE", "ERROR"} /\ sendChannel(s, m)
  <2>1. /\ m[2] \in Tx /\ ctx[m[2]] = s /\ m \in AnswersFor(m[2])
        /\ UNCHANGED <<sloop, responseChannel, ssending, gor, up>>
    BY <1>1, <1>2, <1>9, HeadsOwned DEF sendChannel
  <2>2. giving' = giving \/ (giving' = [giving EXCEPT ![s] = m] /\ m[2] \in responseChannel[s])
    BY <1>9 DEF sendChannel
  <2>3. CASE \/ giving' = giving \/ x # m[2] \/ r # s
    <3>1. Given(r, x)' => Given(r, x)
      <4>1. CASE giving'[r] = giving[r]
        BY <4>1 DEF Given
      <4>2. CASE giving'[r] = m /\ x # m[2]
        BY <4>2 DEF Given
      <4> QED BY <1>0, <2>2, <2>3, <4>1, <4>2 DEF CTypes
    <3>2. Fades(r, x)
      BY <1>1, <1>3, <2>1, <3>1, SameFades DEF Fades
    <3> QED BY <1>0, <1>1, <2>1, <3>2, FadesServes DEF Alive
  <2>4. ASSUME giving' = [giving EXCEPT ![s] = m], x = m[2], r = s
        PROVE  Elsewhere(s, x)' /\ Served(s, x)'
    <3> DEFINE ss == ssending[s]
               u == up[s]
               a == x \in asked
               sd == sending[s]
               dn == down[s]
               g == Given(s, x)
               g2 == Given(s, x)'
    <3>1. /\ Single(x, ss, u, a, sd, dn, g)
          /\ Under(x, ss, u, a, sd, dn, g) => gor[x] = "waiting"
          /\ OneLaunch(x, sd, dn) /\ (Launched(x, sd, dn) => gor[x] = "none")
      BY <1>0, <1>1, <2>1, <2>4 DEF Served
    <3>2. /\ dn \in Seq(DownMsg) /\ dn # <<>> /\ Head(dn) \in AnswersFor(x)
          /\ HasOne(dn, AnswersFor(x)) /\ g \in BOOLEAN /\ a \in BOOLEAN
      BY <1>1, <1>2, <2>1, <2>4, HeadHas, SMTT(30) DEF Given
    <3>3. /\ up'[s] = u /\ (x \in asked') = a /\ ssending'[s] = ss
          /\ sending'[s] = sd /\ down'[s] = Tail(dn)
      BY <1>0, <1>1, <2>1 DEF CTypes
    <3>4. g2 \in BOOLEAN /\ QueueFades(dn, Tail(dn), Launch(x)) /\ ctx'[x] = s
      BY <1>1, <2>1, <2>4, <3>2, TailFades DEF Given
    <3>5. g2 = Given(s, x)'
      OBVIOUS
    <3> HIDE DEF m, ss, u, a, sd, dn, g, g2
    <3>6. gor[x] = "waiting" /\ gor'[x] = "waiting"
      BY <2>1, <3>1, <3>2 DEF Under
    <3>7. /\ Once(Tail(dn), AnswersFor(x)) /\ ~HasOne(Tail(dn), AnswersFor(x))
          /\ Once(dn, AnswersFor(x))
      BY <3>1, <3>2, TailOnce DEF Single
    <3>8. Single(x, ss, u, a, sd, Tail(dn), g2)
      BY <3>1, <3>2, <3>7, <3>4 DEF Single
    <3>9. OneLaunch(x, sd, Tail(dn)) /\ ~Launched(x, sd, Tail(dn))
      BY <3>1, <3>4, <3>6 DEF OneLaunch, Launched, QueueFades
    <3>10. Elsewhere(s, x)'
      BY <3>4 DEF Elsewhere
    <3> QED BY <3>3, <3>5, <3>6, <3>8, <3>9, <3>10 DEF Served
  <2> QED BY <2>2, <2>3, <2>4
<1> QED BY <1>5, <1>6, <1>7, <1>8, <1>9 DEF ShimRecv

(* A call has its answer: its message was the last one under way. *)
LEMMA DeliveredServes ==
    ASSUME CInv, NEW s \in Stream, Delivered(s), NEW r \in Stream, NEW x \in Tx
    PROVE  Elsewhere(r, x)' /\ Served(r, x)'
<1> DEFINE t == giving[s][2]
<1>0. CTypes /\ Elsewhere(r, x) /\ Served(r, x)
  BY DEF CInv
<1>1. /\ gor[t] = "waiting" /\ gor' = [gor EXCEPT ![t] = "leaving"]
      /\ giving[s] # None /\ giving' = [giving EXCEPT ![s] = None] /\ Alive(s)
      /\ UNCHANGED <<up, down, sending, ssending, ctx, asked, responseChannel, sloop>>
  BY DEF Delivered, streams, peer
<1>2. t \in Tx /\ Given(s, t)
  <2>1. giving[s] \in {"RESPONSE", "ERROR"} \X Tx
    BY <1>0, <1>1 DEF CTypes
  <2> QED BY <1>1, <2>1 DEF Given
<1>3. ctx[t] = s
  BY <1>2 DEF CInv, Elsewhere, Under
<1>4. Given(r, x)' => Given(r, x) /\ ~(r = s)
  BY <1>0, <1>1 DEF Given, CTypes
<1>5. Fades(r, x)
  BY <1>1, <1>4, SameFades DEF Fades
<1>6. CASE x # t \/ r # s
  <2>1. ctx[x] = r => gor'[x] = gor[x]
    BY <1>0, <1>1, <1>3, <1>6 DEF CTypes
  <2> QED BY <1>0, <1>1, <1>5, <2>1, FadesServes DEF Alive
<1>7. ASSUME x = t, r = s PROVE Elsewhere(r, x)' /\ Served(r, x)'
  <2> DEFINE ss == ssending[r]
             u == up[r]
             a == x \in asked
             sd == sending[r]
             dn == down[r]
             g == Given(r, x)
             g2 == Given(r, x)'
  <2>1. /\ Single(x, ss, u, a, sd, dn, g) /\ g /\ g \in BOOLEAN /\ a \in BOOLEAN
        /\ g2 = FALSE
        /\ OneLaunch(x, sd, dn) /\ (Launched(x, sd, dn) => gor[x] = "none")
        /\ gor[x] = "waiting"
    BY <1>0, <1>1, <1>2, <1>3, <1>4, <1>7, SMTT(30) DEF Served, Given
  <2>2. /\ up'[r] = u /\ (x \in asked') = a /\ ssending'[r] = ss
        /\ sending'[r] = sd /\ down'[r] = dn /\ Given(r, x)' = g2
        /\ ctx'[x] = r /\ gor'[x] = "leaving"
    BY <1>0, <1>1, <1>2, <1>3, <1>7 DEF CTypes
  <2> HIDE DEF t, ss, u, a, sd, dn, g, g2
  <2>3. Single(x, ss, u, a, sd, dn, g2) /\ ~Under(x, ss, u, a, sd, dn, g2)
    BY <2>1 DEF Single, Under
  <2>4. ~Launched(x, sd, dn)
    BY <2>1
  <2>5. Elsewhere(r, x)'
    BY <2>2 DEF Elsewhere
  <2> QED BY <2>1, <2>2, <2>3, <2>4, <2>5 DEF Served
<1> QED BY <1>6, <1>7

LEMMA ShimSendServes ==
    ASSUME CInv, NEW s \in Stream, NEW m \in ssending[s], ShimSend(s, m),
           NEW r \in Stream, NEW x \in Tx
    PROVE  Elsewhere(r, x)' /\ Served(r, x)'
<1>0. CTypes /\ Elsewhere(r, x) /\ Served(r, x)
  BY DEF CInv
<1>1. UNCHANGED <<down, sending, ctx, asked, giving>>
  BY DEF ShimSend, peer
<1>2. m \in UpMsg /\ up[s] \in Seq(UpMsg) /\ ssending[s] \in SUBSET UpMsg
  BY <1>0 DEF CTypes
<1>3. /\ m[1] \in CallTypes => m[2] \in Tx /\ m \in CallsFor(m[2])
      /\ m \in CallsFor(x) => m[1] \in CallTypes /\ m[2] = x
  BY <1>2 DEF UpMsg, CallsFor
<1>4. ASSUME m[1] \in CallTypes PROVE ctx[m[2]] = s /\ Alive(s) /\ gor[m[2]] = "waiting"
  <2>1. ssending[s] \cap CallsFor(m[2]) # {} /\ m[2] \in Tx
    BY <1>3, <1>4
  <2>2. ctx[m[2]] = s
    BY <2>1 DEF CInv, Elsewhere, Under
  <2>3. Alive(s)
    BY <2>1 DEF CInv, Process
  <2> QED BY <2>1, <2>2, <2>3 DEF CInv, Served, Under
<1>5. CASE /\ up' = [up EXCEPT ![s] = Append(@, m)]
           /\ ssending' = [ssending EXCEPT ![s] = @ \ {m}]
           /\ gor' = IF m[1] \in CallTypes THEN [gor EXCEPT ![m[2]] = gor[m[2]]] ELSE gor
           /\ UNCHANGED <<sloop, responseChannel, reply>>
  <2>1. gor' = gor
    BY <1>0, <1>5 DEF CTypes
  <2>2. /\ up'[r] = IF r = s THEN Append(up[s], m) ELSE up[r]
        /\ ssending'[r] = IF r = s THEN ssending[s] \ {m} ELSE ssending[r]
    BY <1>0, <1>5 DEF CTypes
  <2>3. CASE r # s \/ m \notin CallsFor(x)
    <3>1. QueueFades(up[r], up'[r], CallsFor(x))
      BY <1>2, <2>2, <2>3, AppendFades, SameFades, SMTT(30)
    <3>2. Fades(r, x)
      BY <1>1, <1>5, <2>2, <3>1, SameFades, SMTT(30) DEF Fades, Given
    <3> QED BY <1>0, <1>1, <1>5, <2>1, <3>2, FadesServes DEF Alive
  <2>4. ASSUME r = s, m \in CallsFor(x) PROVE Elsewhere(s, x)' /\ Served(s, x)'
    <3> DEFINE ss == ssending[s]
               u == up[s]
               a == x \in asked
               sd == sending[s]
               dn == down[s]
               g == Given(s, x)
    <3>1. ctx[x] = s /\ Alive(s) /\ gor[x] = "waiting"
      BY <1>3, <1>4, <2>4
    <3>2. /\ Single(x, ss, u, a, sd, dn, g) /\ OneLaunch(x, sd, dn) /\ ~Launched(x, sd, dn)
      BY <1>0, <2>4, <3>1 DEF Served
    <3>3. /\ up'[s] = Append(u, m) /\ (x \in asked') = a /\ ssending'[s] = ss \ {m}
          /\ sending'[s] = sd /\ down'[s] = dn /\ Given(s, x)' = g
          /\ ctx'[x] = s /\ gor'[x] = "waiting" /\ g \in BOOLEAN /\ a \in BOOLEAN
          /\ m \in ss /\ ss \in SUBSET UpMsg /\ u \in Seq(UpMsg)
      BY <1>1, <1>2, <2>1, <2>2, <2>4, <3>1, SMTT(30) DEF Given
    <3> HIDE DEF ss, u, a, sd, dn, g
    <3>4. Single(x, ss \ {m}, Append(u, m), a, sd, dn, g)
      BY <2>4, <3>2, <3>3, SingleSent, SMTT(30)
    <3>5. Elsewhere(s, x)'
      BY <3>3 DEF Elsewhere
    <3> QED BY <3>2, <3>3, <3>4, <3>5 DEF Served
  <2> QED BY <2>3, <2>4
<1>6. CASE /\ m[1] \in CallTypes
           /\ gor' = [gor EXCEPT ![m[2]] = "leaving"]
           /\ reply' = [reply EXCEPT ![m[2]] = "failed"]
           /\ ssending' = [ssending EXCEPT ![s] = @ \ {m}]
           /\ UNCHANGED <<up, sloop, responseChannel>>
  <2>1. ctx[m[2]] = s /\ Alive(s) /\ gor[m[2]] = "waiting" /\ m[2] \in Tx
    BY <1>3, <1>4, <1>6
  <2>2. ssending'[r] = IF r = s THEN ssending[s] \ {m} ELSE ssending[r]
    BY <1>0, <1>6 DEF CTypes
  <2>3. CASE r # s \/ m[2] # x
    <3>1. Fades(r, x)
      BY <1>1, <1>6, <2>2, SameFades, SMTT(30) DEF Fades, Given
    <3>2. ctx[x] = r => gor'[x] = gor[x]
      BY <1>0, <1>6, <2>1, <2>3 DEF CTypes
    <3> QED BY <1>0, <1>1, <1>6, <3>1, <3>2, FadesServes DEF Alive
  <2>4. ASSUME r = s, m[2] = x PROVE Elsewhere(s, x)' /\ Served(s, x)'
    <3> DEFINE ss == ssending[s]
               ss2 == ssending'[s]
               u == up[s]
               a == x \in asked
               sd == sending[s]
               dn == down[s]
               g == Given(s, x)
    <3>1. /\ Single(x, ss, u, a, sd, dn, g) /\ OneLaunch(x, sd, dn) /\ ~Launched(x, sd, dn)
      BY <1>0, <2>1, <2>4 DEF Served
    <3>2. /\ up'[s] = u /\ (x \in asked') = a /\ ssending'[s] = ss2
          /\ sending'[s] = sd /\ down'[s] = dn /\ Given(s, x)' = g
          /\ ctx'[x] = s /\ gor'[x] = "leaving" /\ g \in BOOLEAN /\ a \in BOOLEAN
          /\ m \in ss /\ m \in CallsFor(x) /\ ss2 = ss \ {m}
      BY <1>0, <1>1, <1>3, <1>6, <2>1, <2>2, <2>4, SMTT(30) DEF Given, CTypes
    <3> HIDE DEF ss, ss2, u, a, sd, dn, g
    <3>3. ss \cap CallsFor(x) # {} /\ ss2 \cap CallsFor(x) = {}
      BY <3>1, <3>2, SMTT(30) DEF Single, AtMostOne
    <3>4. AtMostOne(ss2 \cap CallsFor(x))
      BY <3>3 DEF AtMostOne
    <3>5. Single(x, ss2, u, a, sd, dn, g) /\ ~Under(x, ss2, u, a, sd, dn, g)
      BY <3>1, <3>3, <3>4 DEF Single, Under
    <3>6. Elsewhere(s, x)'
      BY <3>2 DEF Elsewhere
    <3> QED BY <3>1, <3>2, <3>5, <3>6 DEF Served
  <2> QED BY <2>3, <2>4
<1>7. CASE /\ ssending' = [ssending EXCEPT ![s] = @ \ {m}]
           /\ UNCHANGED <<up, sloop, responseChannel, gor, reply>>
  <2>1. ssending'[r] \subseteq ssending[r]
    BY <1>0, <1>7 DEF CTypes
  <2>2. Fades(r, x)
    BY <1>1, <1>7, <2>1, SameFades DEF Fades, Given
  <2> QED BY <1>0, <1>1, <1>7, <2>2, FadesServes DEF Alive
<1>8. CASE Selecting(s) /\ Over(s) /\ UNCHANGED <<up, reply>>
  BY <1>1, <1>8, SameFades, OverServes
<1> QED BY <1>5, <1>6, <1>7, <1>8, SendCases

LEMMA ServedKept ==
    ASSUME CInv, Step, NEW r \in Stream, NEW x \in Tx
    PROVE  Elsewhere(r, x)' /\ Served(r, x)'
<1> DEFINE Goal == Elsewhere(r, x)' /\ Served(r, x)'
<1>1. CASE UNCHANGED cvars
  <2>1. Elsewhere(r, x) /\ Served(r, x)
    BY DEF CInv
  <2>2. UNCHANGED <<up, down, sending, ctx, asked, giving, responseChannel, ssending, gor,
                    sloop>>
    BY <1>1 DEF cvars, streams, peer, shim
  <2> QED BY <2>1, <2>2 DEF Elsewhere, Served, Given, Alive
<1>2. ASSUME NEW s \in Stream,
             \/ Start(s) \/ ShimRecv(s) \/ ShimRecvEnds(s) \/ Delivered(s) \/ Break(s)
             \/ \E m \in ssending[s] : ShimSend(s, m)
      PROVE  Goal
  <2>1. CASE ShimRecvEnds(s)
    <3>1. Over(s) /\ UNCHANGED <<up, down, ctx, asked, sending, giving>>
      BY <2>1 DEF ShimRecvEnds, streams, peer
    <3> QED BY <3>1, SameFades, OverServes
  <2> HIDE DEF Goal
  <2>2. CASE \/ Start(s) \/ ShimRecv(s) \/ Delivered(s) \/ Break(s)
             \/ \E m \in ssending[s] : ShimSend(s, m)
    BY <2>2, StartServes, ShimRecvServes, DeliveredServes, BreakServes, ShimSendServes DEF Goal
  <2> QED BY <1>2, <2>1, <2>2
<1>3. ASSUME NEW s \in Stream, UNCHANGED shim,
             \/ PeerRecv(s) \/ PeerRecvEnds(s, ShimOver(s)) \/ Deregister(s)
             \/ NextReady(s) \/ Keepalive(s)
             \/ \E m \in sending[s] : PeerSend(s, m)
             \/ \E t \in Tx : Execute(s, t)
      PROVE  Goal
  BY <1>3, PeerRecvServes, PeerPlainServes, PeerSendServes, ExecuteServes
<1>4. ASSUME NEW t \in Tx,
             \/ CallReturns(t) \/ (Answer(t) /\ UNCHANGED shim)
             \/ \E type \in {"COMPLETED", "ERROR"} : ShimNextState(t, type)
             \/ \E kind \in {"INIT", "TRANSACTION"} : RunEnds(t, kind)
             \/ \E type \in CallTypes : Call(t, type)
      PROVE  Goal
  BY <1>4, AnswerServes, GoroutineServes, CallServes
<1> HIDE DEF Goal
<1>5. Goal
  BY <1>1, <1>2, <1>3, <1>4 DEF Step, Goal
<1> QED BY <1>5 DEF Goal

LEMMA CInit_CInv == CInit => CInv
<1> SUFFICES ASSUME CInit PROVE CInv
  OBVIOUS
<1>1. CTypes
  BY InitTypes
<1>2. ASSUME NEW s \in Stream, NEW t \in Tx PROVE Elsewhere(s, t) /\ Served(s, t)
  <2>1. /\ ssending[s] = {} /\ up[s] = <<>> /\ sending[s] = {} /\ down[s] = <<>>
        /\ giving[s] = None /\ responseChannel[s] = {} /\ ctx[t] = None
    BY DEF CInit, PInit
  <2>2. ctx[t] # s
    BY <2>1, StreamAssumption
  <2> QED BY <2>1, <2>2, EmptyOnce DEF Elsewhere, Served, Under, Launched, Given
<1>3. \A s \in Stream : Process(s)
  BY StreamAssumption DEF CInit, PInit, Process
<1>4. \A t \in Tx : NotBegun(t) /\ (gor[t] = "leaving" => reply[t] # "none")
  BY DEF CInit, PInit, NotBegun
<1> QED BY <1>1, <1>2, <1>3, <1>4 DEF CInv

LEMMA CInvKept == CInv /\ [CNext]_cvars => CInv'
<1> SUFFICES ASSUME CInv, [CNext]_cvars PROVE CInv'
  OBVIOUS
<1>1. Step
  BY Flat
<1>2. CTypes'
  BY TypesKept DEF CInv
<1>3. (\A s \in Stream : Process(s))'
  BY <1>1, ProcessKept
<1>4. (\A t \in Tx : NotBegun(t) /\ (gor[t] = "leaving" => reply[t] # "none"))'
  BY <1>1, BegunKept
<1>5. (\A s \in Stream, t \in Tx : Elsewhere(s, t) /\ Served(s, t))'
  BY <1>1, ServedKept
<1> QED BY <1>2, <1>3, <1>4, <1>5 DEF CInv

(* The loop of chatWithPeer never sends on a response channel that nobody  *)
(* receives from, with the handler's lock held, and a call returns with an *)
(* answer or because its message was not sent: for any number of streams,  *)
(* transactions and calls, lost connections and restarts.                  *)
THEOREM LoopAlwaysServes == CSpec => []LoopServes
<1>1. CInv => LoopServes
  <2> SUFFICES ASSUME CInv PROVE LoopServes
    OBVIOUS
  <2>1. ASSUME NEW s \in Stream, giving[s] # None PROVE gor[giving[s][2]] = "waiting"
    <3>1. giving[s] \in {"RESPONSE", "ERROR"} \X Tx
      BY <2>1 DEF CInv, CTypes
    <3>2. giving[s][2] \in Tx /\ Given(s, giving[s][2]) /\ Alive(s)
      BY <2>1, <3>1 DEF Given, CInv, Process
    <3>3. ctx[giving[s][2]] = s
      BY <3>2 DEF CInv, Elsewhere, Under
    <3> QED BY <3>2, <3>3 DEF CInv, Served, Under
  <2> QED BY <2>1 DEF LoopServes, CInv
<1> QED BY <1>1, CInit_CInv, CInvKept, PTL DEF CSpec
=============================================================================
