----------------------------- MODULE MsgServers -----------------------------
(***************************************************************************)
(* The servers that take messages from clients over TCP and the manager    *)
(* that joins them, libraries/common/netserver/tcpserver.go and            *)
(* common/tcpservermanage.go, and the handler of network messages,         *)
(* libraries/netmsg/netmsghandler.go.                                      *)
(*                                                                         *)
(* chkError ends the process (log.Fatal): on a port that is in use, when a *)
(* client closes its connection, and when a Read does not return exactly   *)
(* one message, which TCP does not promise.  So does closing a connection  *)
(* that was never made.  Nothing is left then but fatal.                   *)
(***************************************************************************)
EXTENDS Integers, Sequences

CONSTANTS Server,
          MaxMsgs,          \* bound: the messages of each client
          MaxServerStarts,  \* bound: calls of Start
          SendCap,          \* the capacity of sendMsgCh, 32 in the code
          ReceiveCap,       \* of reveivechan, 256
          NetCap            \* of netmsgchan, 1024

ASSUME ServersAssumption ==
    /\ MaxMsgs \in [Server -> Nat] /\ MaxServerStarts \in Nat
    /\ {SendCap, ReceiveCap, NetCap} \subseteq Nat \ {0}

VARIABLES tcp,    \* the servers
          tsm,    \* the manager
          net,    \* the NetmsgHandler
          fatal   \* the process has ended

msgvars == <<tcp, tsm, net, fatal>>

NewTcpServer ==
    [atWork |-> FALSE, subs |-> 0,           \* subs: of reveivechan to newMsgFeed
     starting |-> FALSE, listens |-> FALSE,  \* a listenLoop before ListenTCP, and after
     link |-> "none", closed |-> FALSE,      \* the client's connection
     senders |-> 0, sendMsgCh |-> 0,         \* sendMsgServer loops, messages waiting
     stream |-> <<>>, wrote |-> 0,           \* what the client wrote and is not read
     held |-> <<>>, pending |-> <<>>,        \* clientHandle: read, and to be delivered
     got |-> <<>>]                           \* history: arrived at the subscribers

\* loops: what the receiveloops are forwarding; stopped: history, Stop was called.
NewTcpServerManage ==
    [atWork |-> FALSE, stopping |-> FALSE, starts |-> 0, stopped |-> FALSE,
     reveivechan |-> <<>>, loops |-> <<>>]

NewNetmsgHandler ==
    [atWork |-> FALSE, stopping |-> FALSE, loops |-> 0, netmsgchan |-> 0]

MsgInit ==
    /\ tcp = [s \in Server |-> NewTcpServer] /\ tsm = NewTcpServerManage
    /\ net = NewNetmsgHandler /\ fatal = FALSE

\* The process ends.
End ==
    /\ tcp' = [s \in Server |-> NewTcpServer] /\ tsm' = NewTcpServerManage
    /\ fatal' = TRUE /\ UNCHANGED net

-----------------------------------------------------------------------------
(* Start and Stop.  The servers are stopped in the order in which the map  *)
(* is ranged over.                                                         *)

\* Start of a server.
StartedServer(r) ==
    IF r.atWork THEN r
    ELSE [r EXCEPT !.atWork = TRUE, !.starting = TRUE, !.senders = @ + 1]

StartManagerAnyway ==
    /\ ~tsm.stopping /\ tsm.starts < MaxServerStarts
    /\ tsm' = [tsm EXCEPT !.atWork = TRUE, !.starts = @ + 1, !.loops = Append(@, <<>>)]
    /\ tcp' = [s \in Server |-> StartedServer([tcp[s] EXCEPT !.subs = @ + 1])]
    /\ UNCHANGED <<net, fatal>>

StartManager ==
    /\ ~tsm.stopping /\ ~tsm.atWork /\ tsm.starts < MaxServerStarts
    /\ tsm' = [tsm EXCEPT !.atWork = TRUE, !.starts = @ + 1, !.loops = Append(@, <<>>)]
    /\ tcp' = [s \in Server |-> StartedServer([tcp[s] EXCEPT !.subs = @ + 1])]
    /\ UNCHANGED <<net, fatal>>

StopManager ==
    /\ ~tsm.stopping /\ tsm.atWork
    /\ tsm' = [tsm EXCEPT !.stopping = TRUE, !.stopped = TRUE]
    /\ UNCHANGED <<tcp, net, fatal>>

\* Stop of a server: a sendMsgServer returns, and the connection is closed.  conn
\* may be nil, and half written while the client is being accepted.
StopServer(s) ==
    /\ tsm.stopping /\ tcp[s].atWork /\ tcp[s].senders > 0
    /\ \/ tcp[s].link \in {"none", "marked"} /\ End
       \/ /\ tcp[s].link # "none"
          /\ tcp' = [tcp EXCEPT ![s].atWork = FALSE, ![s].senders = @ - 1,
                                ![s].closed = tcp[s].link # "marked"]
          /\ UNCHANGED <<tsm, net, fatal>>

\* A receiveloop takes the stop; its break leaves the select, not the loop.
StoppedManager ==
    /\ tsm.stopping /\ \A s \in Server : ~tcp[s].atWork
    /\ \E i \in DOMAIN tsm.loops : tsm.loops[i] = <<>>
    /\ tsm' = [tsm EXCEPT !.stopping = FALSE, !.atWork = FALSE]
    /\ UNCHANGED <<tcp, net, fatal>>

-----------------------------------------------------------------------------
(* listenLoop.  One client is served; others are accepted and forgotten.   *)

Listen(s) ==
    /\ tcp[s].starting /\ ~tcp[s].listens
    /\ tcp' = [tcp EXCEPT ![s].starting = FALSE, ![s].listens = TRUE]
    /\ UNCHANGED <<tsm, net, fatal>>

\* connected is set before conn, and the id is written after both.
NextLink == [none |-> "marked", marked |-> "set", set |-> "greeted"]

AcceptClient(s) ==
    /\ tcp[s].listens /\ tcp[s].link \in DOMAIN NextLink
    /\ tcp' = [tcp EXCEPT ![s].link = NextLink[@]]
    /\ UNCHANGED <<tsm, net, fatal>>

\* A client that is accepted writes.
ClientWrites(s) ==
    /\ tcp[s].link # "none" /\ ~tcp[s].closed /\ tcp[s].wrote < MaxMsgs[s]
    /\ tcp' = [tcp EXCEPT ![s].wrote = @ + 1,
                          ![s].stream = Append(@, <<s, tcp[s].wrote + 1>>)]
    /\ UNCHANGED <<tsm, net, fatal>>

-----------------------------------------------------------------------------
(* clientHandle, and the manager's receiveloop.                            *)

Reading(r) == r.link = "greeted" /\ r.held = <<>> /\ r.pending = <<>>

ReadMsg(s) ==
    /\ Reading(tcp[s]) /\ ~tcp[s].closed /\ tcp[s].stream # <<>>
    /\ tcp' = [tcp EXCEPT ![s].held = <<Head(tcp[s].stream)>>, ![s].stream = Tail(@)]
    /\ UNCHANGED <<tsm, net, fatal>>

\* The port of listenLoop is in use, or a Read fails or returns something other
\* than one message.
ChkError(s) == ((tcp[s].starting /\ tcp[s].listens) \/ Reading(tcp[s])) /\ End

\* newMsgFeed.Send: once for every subscription.
SendToFeed(s) ==
    /\ tcp[s].held # <<>>
    /\ tcp' = [tcp EXCEPT ![s].pending = [k \in 1..tcp[s].subs |-> tcp[s].held[1]],
                          ![s].held = <<>>]
    /\ UNCHANGED <<tsm, net, fatal>>

Deliver(s) ==
    /\ tcp[s].pending # <<>> /\ Len(tsm.reveivechan) < ReceiveCap
    /\ tsm' = [tsm EXCEPT !.reveivechan = Append(@, Head(tcp[s].pending))]
    /\ tcp' = [tcp EXCEPT ![s].pending = Tail(@)]
    /\ UNCHANGED <<net, fatal>>

ReceiveMsg(i) ==
    /\ tsm.loops[i] = <<>> /\ tsm.reveivechan # <<>>
    /\ tsm' = [tsm EXCEPT !.loops[i] = <<Head(tsm.reveivechan)>>, !.reveivechan = Tail(@)]
    /\ UNCHANGED <<tcp, net, fatal>>

\* The manager's feed; its subscribers read.
ForwardMsg(i) ==
    /\ tsm.loops[i] # <<>>
    /\ LET msg == tsm.loops[i][1] IN tcp' = [tcp EXCEPT ![msg[1]].got = Append(@, msg)]
    /\ tsm' = [tsm EXCEPT !.loops[i] = <<>>]
    /\ UNCHANGED <<net, fatal>>

\* SendMsg, of the manager and of the server: nothing without a client, and a
\* wait if sendMsgCh is full.
SendMsg(s) ==
    /\ tcp[s].link \in {"set", "greeted"} /\ tcp[s].sendMsgCh < SendCap
    /\ tcp' = [tcp EXCEPT ![s].sendMsgCh = @ + 1]
    /\ UNCHANGED <<tsm, net, fatal>>

SendMsgServer(s) ==
    /\ tcp[s].senders > 0 /\ tcp[s].sendMsgCh > 0
    /\ tcp' = [tcp EXCEPT ![s].sendMsgCh = @ - 1]
    /\ UNCHANGED <<tsm, net, fatal>>

-----------------------------------------------------------------------------
(* The NetmsgHandler.  Its loop, too, goes on after the stop it takes.     *)

NetStart ==
    /\ ~net.stopping /\ ~net.atWork /\ net.loops < MaxServerStarts
    /\ net' = [net EXCEPT !.atWork = TRUE, !.loops = @ + 1]
    /\ UNCHANGED <<tcp, tsm, fatal>>

NetStop ==
    /\ ~net.stopping /\ net.atWork
    /\ net' = [net EXCEPT !.stopping = TRUE]
    /\ UNCHANGED <<tcp, tsm, fatal>>

NetStopped ==
    /\ net.stopping /\ net.loops > 0
    /\ net' = [net EXCEPT !.stopping = FALSE, !.atWork = FALSE]
    /\ UNCHANGED <<tcp, tsm, fatal>>

HandlerMsgchan ==
    /\ net.netmsgchan < NetCap
    /\ net' = [net EXCEPT !.netmsgchan = @ + 1]
    /\ UNCHANGED <<tcp, tsm, fatal>>

HandlerMsgLoop ==
    /\ net.loops > 0 /\ net.netmsgchan > 0
    /\ net' = [net EXCEPT !.netmsgchan = @ - 1]
    /\ UNCHANGED <<tcp, tsm, fatal>>

-----------------------------------------------------------------------------
ServerStep(s) == \/ StopServer(s) \/ Listen(s) \/ AcceptClient(s) \/ ReadMsg(s)
                 \/ SendToFeed(s) \/ Deliver(s) \/ SendMsgServer(s)

LoopStep == \E i \in DOMAIN tsm.loops : ReceiveMsg(i) \/ ForwardMsg(i)

ServersNext ==
    /\ ~fatal
    /\ \/ StartManager \/ StopManager \/ StoppedManager \/ LoopStep
       \/ \E s \in Server : ServerStep(s) \/ ClientWrites(s) \/ SendMsg(s) \/ ChkError(s)

NetNext == NetStart \/ NetStop \/ NetStopped \/ HandlerMsgchan \/ HandlerMsgLoop

\* Goroutines run.
MsgFair ==
    /\ WF_msgvars(StoppedManager) /\ WF_msgvars(LoopStep) /\ WF_msgvars(NetStopped)
    /\ \A s \in Server : WF_msgvars(StopServer(s) \/ SendToFeed(s) \/ Deliver(s))

-----------------------------------------------------------------------------
(***************************************************************************)
(* Properties.                                                             *)
(***************************************************************************)

\* What the receiveloops have in hand, one after the other.
InHand(loops) ==
    LET upto[n \in 0..Len(loops)] == IF n = 0 THEN <<>> ELSE upto[n - 1] \o loops[n]
    IN  upto[Len(loops)]

\* The way of a client's messages, from the manager's subscribers back to the
\* client: the stretch Shared has those of all clients.
Shared == InHand(tsm.loops) \o tsm.reveivechan
Own(s) == tcp[s].pending \o (tcp[s].held \o tcp[s].stream)
Line(s) == tcp[s].got \o (Shared \o Own(s))

\* The messages of s in msgs are the first n, each once and in their order.
InOrder(msgs, s, n) ==
    LET mine == {p \in DOMAIN msgs : msgs[p][1] = s}
    IN  /\ {msgs[p][2] : p \in mine} = 1..n
        /\ \A p, q \in mine : p < q => msgs[p][2] < msgs[q][2]

\* Until the manager is stopped, no message of a client is lost, repeated or
\* overtaken by a later one between clientHandle and the manager's subscribers,
\* whatever the other servers do.
MessagesForwarded ==
    tsm.stopped \/ \A s \in Server : InOrder(Line(s), s, tcp[s].wrote)

\* Nothing that was read waits to be forwarded, and no Stop for a loop.
ServersRest ==
    /\ tsm.reveivechan = <<>> /\ ~tsm.stopping /\ ~net.stopping
    /\ \A s \in Server : tcp[s].held = <<>> /\ tcp[s].pending = <<>>
=============================================================================
