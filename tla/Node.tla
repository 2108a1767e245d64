-------------------------------- MODULE Node --------------------------------
(***************************************************************************)
(* The life cycle of a node, libraries/node/node.go: Register, Start, Stop *)
(* and Wait, as cmd/ucoin uses them: one goroutine registers services and  *)
(* starts and stops the node, others wait for its end.                     *)
(***************************************************************************)
EXTENDS Integers, FiniteSets, Sequences

CONSTANTS Type,         \* of services
          Waiter,       \* goroutines that call Wait
          MaxServices,  \* bound: services registered
          MaxStarts     \* bound: calls of Start

ASSUME NodeAssumption == MaxServices \in Nat /\ MaxStarts \in Nat

VARIABLES
  serviceFuncs,   \* the constructors, known by the type of their service
  server,         \* n.server: 0 for nil, else the Start that made it
  start,          \* the Start in progress or last: its number and place ...
  services,       \* ... the services it has constructed, in order ...
  started,        \* ... and those it has started
  running,        \* services whose Start returned and whose Stop was not called
  p2p,            \* p2p servers that run
  wait            \* by waiter: "no", "waiting" or "done"

nodevars == <<serviceFuncs, server, start, services, started, running, p2p, wait>>

NodeInit ==
    /\ serviceFuncs = <<>> /\ server = 0
    /\ start = [n |-> 0, at |-> "none"]
    /\ services = <<>> /\ started = {} /\ running = {} /\ p2p = {}
    /\ wait = [w \in Waiter |-> "no"]

\* A service: its type and the Start that made it, with the place of its
\* constructor.
Service(i) == [type |-> serviceFuncs[i], n |-> start.n, func |-> i]

Idle == start.at \in {"none", "done", "failed"}

Register(t) ==
    /\ Idle /\ server = 0 /\ Len(serviceFuncs) < MaxServices
    /\ serviceFuncs' = Append(serviceFuncs, t)
    /\ UNCHANGED <<server, start, services, started, running, p2p, wait>>

-----------------------------------------------------------------------------
(* Start.                                                                  *)

StartNode ==
    /\ Idle /\ server = 0 /\ start.n < MaxStarts
    /\ start' = [n |-> start.n + 1, at |-> "construct"]
    /\ services' = <<>> /\ started' = {}
    /\ UNCHANGED <<serviceFuncs, server, running, p2p, wait>>

GotoPlace(place) == start' = [start EXCEPT !.at = place]

\* The next constructor is called; the error of the constructor and a second
\* service of a type end Start.
ConstructAnyway ==
    /\ start.at = "construct" /\ Len(services) < Len(serviceFuncs)
    /\ services' = Append(services, Service(Len(services) + 1))
    /\ UNCHANGED <<serviceFuncs, server, start, started, running, p2p, wait>>

Construct ==
    /\ start.at = "construct" /\ Len(services) < Len(serviceFuncs)
    /\ LET s == Service(Len(services) + 1)
       IN  /\ \A i \in DOMAIN services : services[i].type # s.type
           /\ services' = Append(services, s)
    /\ UNCHANGED <<serviceFuncs, server, start, started, running, p2p, wait>>

ConstructFails ==
    /\ start.at = "construct" /\ Len(services) < Len(serviceFuncs)
    /\ GotoPlace("failed")
    /\ UNCHANGED <<serviceFuncs, server, services, started, running, p2p, wait>>

\* running.Start of the p2p server.
StartServer ==
    /\ start.at = "construct" /\ Len(services) = Len(serviceFuncs)
    /\ p2p' = p2p \cup {start.n}
    /\ GotoPlace("start")
    /\ UNCHANGED <<serviceFuncs, server, services, started, running, wait>>

StartServerFails ==
    /\ start.at = "construct" /\ Len(services) = Len(serviceFuncs)
    /\ GotoPlace("failed")
    /\ UNCHANGED <<serviceFuncs, server, services, started, running, p2p, wait>>

\* The services map has one service of a type; it is ranged over in any order.
Constructed == {services[i] : i \in DOMAIN services}

StartService(s) ==
    /\ start.at = "start" /\ s \in Constructed \ started
    /\ started' = started \cup {s} /\ running' = running \cup {s}
    /\ UNCHANGED <<serviceFuncs, server, start, services, p2p, wait>>

\* The error of a service's Start: the started ones and the server are stopped.
StopNone(from) == from
StopStarted(from) == from \ started

StartServiceFails(s) ==
    /\ start.at = "start" /\ s \in Constructed \ started
    /\ running' = StopStarted(running)
    /\ p2p' = p2p \ {start.n}
    /\ GotoPlace("failed")
    /\ UNCHANGED <<serviceFuncs, server, services, started, wait>>

StartDone ==
    /\ start.at = "start" /\ started = Constructed
    /\ server' = start.n
    /\ GotoPlace("done")
    /\ UNCHANGED <<serviceFuncs, services, started, running, p2p, wait>>

-----------------------------------------------------------------------------
\* Stop: of the server only; the services go on and n.stop stays open.
StopNode ==
    /\ Idle /\ server # 0
    /\ p2p' = p2p \ {server}
    /\ server' = 0
    /\ UNCHANGED <<serviceFuncs, start, services, started, running, wait>>

\* Wait: receives from n.stop, which nothing in the code closes or sends to.
Wait(w) ==
    /\ wait[w] = "no"
    /\ wait' = [wait EXCEPT ![w] = IF server = 0 THEN "done" ELSE "waiting"]
    /\ UNCHANGED <<serviceFuncs, server, start, services, started, running, p2p>>

StartStep ==
    \/ Construct \/ ConstructFails \/ StartServer \/ StartServerFails \/ StartDone
    \/ \E s \in Constructed : StartService(s) \/ StartServiceFails(s)

NodeNext ==
    \/ \E t \in Type : Register(t)
    \/ StartNode \/ StartStep \/ StopNode
    \/ \E w \in Waiter : Wait(w)

-----------------------------------------------------------------------------
(***************************************************************************)
(* Properties.                                                             *)
(***************************************************************************)

\* Start is all or nothing.  One that fails, at whatever service, leaves nothing
\* of its own running ("Start the next service, stopping all previous upon
\* failure"); and while the node runs, so do its p2p server and one service of
\* every constructor, each of its own type, all made by the same Start.
StartsWhole ==
    /\ start.at = "failed" => start.n \notin p2p /\ \A s \in running : s.n # start.n
    /\ server # 0 => /\ server \in p2p
                     /\ \A i \in DOMAIN serviceFuncs :
                          \E s \in running : s.n = server /\ s.func = i
                     /\ \A s, r \in running : (s.n = r.n /\ s.type = r.type) => s = r
=============================================================================
