------------------------------ MODULE DockerVM ------------------------------
(***************************************************************************)
(* What the requests of the VM controller do under the container's lock:   *)
(* chaincodecore/container/dockercontroller, a sequence of calls of the    *)
(* docker daemon that each may fail, composed with the controller.  The    *)
(* daemon is external: it has one image and one container for every name,  *)
(* and a container's process may exit by itself at any time.               *)
(***************************************************************************)
EXTENDS VMController, Sequences

VARIABLES req,        \* the VMCReqIntf each goroutine carries out
          todo,       \* the daemon calls its do() still has to make
          resp,       \* VMCResp.Err of its do(): "none", "ok" or "error"
          image,      \* daemon: whether the image of a name exists
          container   \* daemon: "none", "created", "running" or "exited"

daemon == <<image, container>>
allvars == <<vars, req, todo, resp, daemon>>

Requests ==
    [op : {"create", "destroy"}] \cup
    [op : {"start"}, builder : BOOLEAN] \cup
    [op : {"stop"}, dontkill : BOOLEAN, dontremove : BOOLEAN]

NoRequest == [op |-> "none"]

stopInternal(dontkill, dontremove) ==
    <<"stop">> \o (IF dontkill THEN <<>> ELSE <<"kill">>)
               \o (IF dontremove THEN <<>> ELSE <<"remove">>)

(* The daemon calls of each request, if none of them decides otherwise. *)
Deploy == <<"build">>

Start == stopInternal(FALSE, FALSE) \o <<"createContainer", "prelaunch", "start">>

Stop(r) == stopInternal(r.dontkill, r.dontremove)

Destroy == <<"removeImage">>

Calls(r) ==
    CASE r.op = "create" -> Deploy
      [] r.op = "start" -> Start
      [] r.op = "stop" -> Stop(r)
      [] r.op = "destroy" -> Destroy

DInit ==
    /\ Init
    /\ req = [p \in Proc |-> NoRequest]
    /\ todo = [p \in Proc |-> <<>>]
    /\ resp = [p \in Proc |-> "none"]
    /\ image = [i \in Id |-> FALSE]
    /\ container = [i \in Id |-> "none"]

(* What kind of request a call has made is not looked at before do(), and  *)
(* is chosen there.                                                        *)
Begin(p, r) ==
    /\ GotLock(p)
    /\ req' = [req EXCEPT ![p] = r]
    /\ todo' = [todo EXCEPT ![p] = Calls(r)]
    /\ UNCHANGED <<resp, daemon>>

(* The lock is given back whatever the answer is. *)
AnsweredOk(p) == resp[p] = "ok"

Answered(p) == resp[p] # "none"

Finish(p) ==
    /\ Answered(p)
    /\ UnlockContainer(p)
    /\ resp' = [resp EXCEPT ![p] = "none"]
    /\ req' = [req EXCEPT ![p] = NoRequest]
    /\ UNCHANGED <<todo, daemon>>

Control ==
    /\ \E p \in Proc : \/ \E i \in Id : VMCProcess(p, i)
                       \/ GetVMNameFails(p) \/ LockContainer(p)
                       \/ Cancelled(p) \/ Returns(p)
    /\ UNCHANGED <<req, todo, resp, daemon>>

(* Whether the daemon can do a call, and what it does then. *)
Possible(call, i) ==
    CASE call \in {"stop", "kill"} -> container[i] = "running"
      [] call = "remove" -> container[i] # "none"
      [] call = "createContainer" -> image[i] /\ container[i] = "none"
      [] call = "start" -> container[i] \in {"created", "exited"}
      [] call = "removeImage" -> image[i]
      [] OTHER -> TRUE

Effect(call, i) ==
    /\ image' = [image EXCEPT ![i] =
                    CASE call = "build" -> TRUE [] call = "removeImage" -> FALSE
                      [] OTHER -> @]
    /\ container' = [container EXCEPT ![i] =
                    CASE call \in {"stop", "kill"} -> "exited"
                      [] call = "remove" -> "none"
                      [] call = "createContainer" -> "created"
                      [] call = "start" -> "running"
                      [] OTHER -> @]

(* Go on with the calls left; the request is answered after the last one.  *)
Continue(p, left, err) ==
    /\ todo' = [todo EXCEPT ![p] = left]
    /\ resp' = [resp EXCEPT ![p] = IF left = <<>> THEN err ELSE @]

(* The calls left when one fails.  No client: none.  stopInternal goes on, *)
(* and answers the error of its last call.  A start that finds no image    *)
(* and has a builder builds the image and tries once more.                 *)
AfterFailure(p) ==
    LET call == Head(todo[p])
        NoClient == IF todo[p] = Calls(req[p]) THEN {<<>>} ELSE {}
        GoesOn == IF call \in {"stop", "kill", "remove"} THEN {Tail(todo[p])} ELSE {<<>>}
        Retry == IF call = "createContainer" /\ ~image[id[p]] /\ req[p].builder
                 THEN {<<"build", "createAgain">> \o Tail(todo[p])} ELSE {}
    IN  NoClient \cup GoesOn \cup Retry

(* The second createContainer of a start has no second retry. *)
CallOf(call) == IF call = "createAgain" THEN "createContainer" ELSE call

Step(p) == pc[p] = "do" /\ todo[p] # <<>>

CallSucceeds(p) ==
    /\ Step(p)
    /\ Possible(CallOf(Head(todo[p])), id[p])
    /\ Effect(CallOf(Head(todo[p])), id[p])
    /\ Continue(p, Tail(todo[p]), "ok")
    /\ UNCHANGED <<vars, req>>

CallFails(p) ==
    /\ Step(p)
    /\ \E left \in AfterFailure(p) : Continue(p, left, "error")
    /\ UNCHANGED <<vars, req, daemon>>

(* The chaincode's process ends. *)
Exits(i) ==
    /\ container[i] = "running"
    /\ container' = [container EXCEPT ![i] = "exited"]
    /\ UNCHANGED <<vars, req, todo, resp, image>>

DNext ==
    \/ Control
    \/ \E p \in Proc :
        \/ \E r \in Requests : Begin(p, r)
        \/ Finish(p) \/ CallSucceeds(p) \/ CallFails(p)
    \/ \E i \in Id : Exits(i)

(* The controller's fairness, and daemon calls return. *)
DSpec ==
    /\ DInit /\ [][DNext]_allvars
    /\ \A p \in Proc :
        /\ WF_allvars(LockContainer(p) /\ Control)
        /\ SF_allvars(\E r \in Requests : Begin(p, r))
        /\ WF_allvars(CallSucceeds(p) \/ CallFails(p))
        /\ WF_allvars(Finish(p))
        /\ WF_allvars(Returns(p) /\ Control)

-----------------------------------------------------------------------------
(* Requests are carried out as if alone.  A start that has created its     *)
(* container finds it untouched when it launches it, whatever other starts *)
(* and stops of the name are under way; and a request that answers no      *)
(* error leaves what it was asked for: a started container, a stopped or   *)
(* removed one, an image or none.                                          *)
RequestsUndisturbed ==
    \A p \in Proc : pc[p] = "do" =>
        LET i == id[p]
        IN  /\ todo[p] # <<>> /\ Head(todo[p]) \in {"prelaunch", "start"} =>
                    container[i] = "created"
            /\ resp[p] = "ok" =>
                CASE req[p].op = "create" -> image[i]
                  [] req[p].op = "destroy" -> ~image[i]
                  [] req[p].op = "start" -> container[i] \in {"running", "exited"}
                  [] req[p].op = "stop" ->
                        container[i] = IF req[p].dontremove THEN "exited" ELSE "none"
=============================================================================
