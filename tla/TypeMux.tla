------------------------------- MODULE TypeMux -------------------------------
(***************************************************************************)
(* The typed event mux, event/event.go: Post hands an event to the         *)
(* subscriptions of its type over unbuffered channels, one after the       *)
(* other, while they are closed by their owners or by Stop.                *)
(*                                                                         *)
(* mux.mutex is held over several steps by Stop alone.  A subscription is  *)
(* closed by closewait, called by its owner (the caller is named by the    *)
(* subscription) and by Stop; postMu is held by the posts in deliver, and  *)
(* once a caller of closewait waits for it no other post gets it.          *)
(***************************************************************************)
EXTENDS Integers, Sequences, Functions

CONSTANTS Receiver,   \* subscriptions of the mux
          Post,       \* calls of Post, each with its event
          Type,       \* dynamic types of events
          TypesOf,    \* [Receiver -> SUBSET Type], the types subscribed to
          TypeOf,     \* [Post -> Type]
          Stop,       \* the caller of Stop
          Nobody

ASSUME MuxAssumption ==
    /\ TypesOf \in [Receiver -> SUBSET Type] /\ TypeOf \in [Post -> Type]
    /\ Stop \notin Receiver /\ Nobody \notin Receiver \cup {Stop}

Closer == Receiver \cup {Stop}

VARIABLES
    subm, stopped,    \* the mux: the subscriptions of a type, in their order
    made,             \* subscriptions that Subscribe has returned
    closing, ended,   \* of a subscription: its channel closing, and "closed"
    postC,            \* its channel: "open", "nil", or "panic" if closed twice
    closeMu,          \* who is in its closewait
    readers,          \* posts that hold its postMu
    ppc, rest,        \* a post: its place and the subscriptions left
    older,            \* a post: the subscriptions there when it took its time
    cpc, target,      \* a closer: its place, and the subscription it closes
    left,             \* Stop: the subscriptions it still has to close
    got               \* history: the events a subscription received

muxvars == <<subm, stopped, made, closing, ended, postC, closeMu, readers,
             ppc, rest, older, cpc, target, left, got>>

MuxInit ==
    /\ subm = [t \in Type |-> <<>>] /\ stopped = FALSE /\ made = {}
    /\ closing = {} /\ ended = {}
    /\ postC = [s \in Receiver |-> "open"]
    /\ closeMu = [s \in Receiver |-> Nobody]
    /\ readers = [s \in Receiver |-> {}]
    /\ ppc = [p \in Post |-> "idle"] /\ rest = [p \in Post |-> <<>>]
    /\ older = [p \in Post |-> {}]
    /\ cpc = [c \in Closer |-> "idle"] /\ target = [c \in Closer |-> Nobody]
    /\ left = {}
    /\ got = [s \in Receiver |-> <<>>]

mutexFree == cpc[Stop] \in {"idle", "done"}

-----------------------------------------------------------------------------
MuxSubscribe(s) ==
    /\ s \notin made /\ mutexFree
    /\ made' = made \cup {s}
    /\ IF stopped
       THEN /\ ended' = ended \cup {s}
            /\ postC' = [postC EXCEPT ![s] = "nil"]
            /\ UNCHANGED subm
       ELSE /\ subm' = [t \in Type |-> IF t \in TypesOf[s] THEN Append(subm[t], s) ELSE subm[t]]
            /\ UNCHANGED <<ended, postC>>
    /\ UNCHANGED <<stopped, closing, closeMu, readers, ppc, rest, older, cpc, target, left, got>>

\* Post takes the time of the event, and then the list of its type.
BeginPost(p) ==
    /\ ppc[p] = "idle"
    /\ ppc' = [ppc EXCEPT ![p] = "posting"]
    /\ older' = [older EXCEPT ![p] = made]
    /\ UNCHANGED <<subm, stopped, made, closing, ended, postC, closeMu, readers, rest,
                   cpc, target, left, got>>

ListSubs(p) ==
    /\ ppc[p] = "posting" /\ mutexFree
    /\ IF stopped
       THEN ppc' = [ppc EXCEPT ![p] = "refused"] /\ UNCHANGED rest
       ELSE /\ ppc' = [ppc EXCEPT ![p] = "next"]
            /\ rest' = [rest EXCEPT ![p] = subm[TypeOf[p]]]
    /\ UNCHANGED <<subm, stopped, made, closing, ended, postC, closeMu, readers, older,
                   cpc, target, left, got>>

\* deliver: an event older than the subscription is dropped (the two readings
\* of the clock may also be equal); else postMu is taken ...
PostNext(p) ==
    /\ ppc[p] = "next"
    /\ IF rest[p] = <<>>
       THEN ppc' = [ppc EXCEPT ![p] = "done"] /\ UNCHANGED <<rest, readers>>
       ELSE LET s == Head(rest[p])
            IN  \/ /\ s \notin older[p]
                   /\ rest' = [rest EXCEPT ![p] = Tail(@)]
                   /\ UNCHANGED <<ppc, readers>>
                \/ /\ \A c \in Closer : ~(cpc[c] = "post" /\ target[c] = s)
                   /\ readers' = [readers EXCEPT ![s] = @ \cup {p}]
                   /\ ppc' = [ppc EXCEPT ![p] = "select"]
                   /\ UNCHANGED rest
    /\ UNCHANGED <<subm, stopped, made, closing, ended, postC, closeMu, older, cpc,
                   target, left, got>>

\* ... and the event is sent or the subscription is closing.
Delivered(p) ==
    LET s == Head(rest[p])
    IN  /\ ppc[p] = "select"
        /\ readers' = [readers EXCEPT ![s] = @ \ {p}]
        /\ rest' = [rest EXCEPT ![p] = Tail(@)]
        /\ ppc' = [ppc EXCEPT ![p] = "next"]
        /\ UNCHANGED <<subm, stopped, made, closing, ended, postC, closeMu, older, cpc,
                       target, left>>

Send(p) ==
    /\ Delivered(p)
    /\ LET s == Head(rest[p])
       IN  postC[s] = "open" /\ got' = [got EXCEPT ![s] = Append(@, p)]

GiveUp(p) == Delivered(p) /\ Head(rest[p]) \in closing /\ UNCHANGED got

-----------------------------------------------------------------------------
\* The list without the subscription, if it has it.
posdelete(list, s) ==
    IF s \in Range(list)
    THEN LET pos == CHOOSE n \in DOMAIN list : list[n] = s
         IN  SubSeq(list, 1, pos - 1) \o SubSeq(list, pos + 1, Len(list))
    ELSE list

\* Unsubscribe: del, then closewait.
Del(s) ==
    /\ s \in made /\ cpc[s] = "idle" /\ mutexFree
    /\ subm' = [t \in Type |-> posdelete(subm[t], s)]
    /\ cpc' = [cpc EXCEPT ![s] = "call"]
    /\ target' = [target EXCEPT ![s] = s]
    /\ UNCHANGED <<stopped, made, closing, ended, postC, closeMu, readers, ppc, rest,
                   older, left, got>>

\* Stop, with the mutex, closes the subscriptions of every type, in any order (a
\* second closewait of one that has two types returns at once).
BeginStop ==
    /\ cpc[Stop] = "idle"
    /\ cpc' = [cpc EXCEPT ![Stop] = "loop"]
    /\ left' = UNION {Range(subm[t]) : t \in Type}
    /\ UNCHANGED <<subm, stopped, made, closing, ended, postC, closeMu, readers, ppc, rest,
                   older, target, got>>

StopNext ==
    /\ cpc[Stop] = "loop"
    /\ IF left = {}
       THEN /\ subm' = [t \in Type |-> <<>>] /\ stopped' = TRUE
            /\ cpc' = [cpc EXCEPT ![Stop] = "done"]
            /\ UNCHANGED <<left, target>>
       ELSE \E s \in left :
               /\ left' = left \ {s}
               /\ target' = [target EXCEPT ![Stop] = s]
               /\ cpc' = [cpc EXCEPT ![Stop] = "call"]
               /\ UNCHANGED <<subm, stopped>>
    /\ UNCHANGED <<made, closing, ended, postC, closeMu, readers, ppc, rest, older, got>>

Return(c) == IF c = Stop THEN "loop" ELSE "done"

\* closewait: the first caller signals that the subscription is closing, ...
NeverClosed(s) == FALSE
AlreadyClosed(s) == s \in ended

Closewait(c) ==
    LET s == target[c]
    IN  /\ cpc[c] = "call" /\ closeMu[s] = Nobody
        /\ IF AlreadyClosed(s)
           THEN cpc' = [cpc EXCEPT ![c] = Return(c)] /\ UNCHANGED <<closing, ended, closeMu>>
           ELSE /\ closing' = closing \cup {s} /\ ended' = ended \cup {s}
                /\ closeMu' = [closeMu EXCEPT ![s] = c]
                /\ cpc' = [cpc EXCEPT ![c] = "post"]
        /\ UNCHANGED <<subm, stopped, made, postC, readers, ppc, rest, older, target, left, got>>

\* ... and when no post is in deliver closes the channel.
ClosePostC(c) ==
    LET s == target[c]
    IN  /\ cpc[c] = "post" /\ readers[s] = {}
        /\ postC' = [postC EXCEPT ![s] = IF @ = "open" THEN "nil" ELSE "panic"]
        /\ closeMu' = [closeMu EXCEPT ![s] = Nobody]
        /\ cpc' = [cpc EXCEPT ![c] = Return(c)]
        /\ UNCHANGED <<subm, stopped, made, closing, ended, readers, ppc, rest, older,
                       target, left, got>>

-----------------------------------------------------------------------------
CloserStep(c) == Closewait(c) \/ ClosePostC(c) \/ (c = Stop /\ StopNext)
PosterStep(p) == ListSubs(p) \/ PostNext(p) \/ GiveUp(p)

MuxNext ==
    \/ \E s \in Receiver : MuxSubscribe(s) \/ Del(s)
    \/ \E p \in Post : BeginPost(p) \/ PosterStep(p) \/ Send(p)
    \/ BeginStop
    \/ \E c \in Closer : CloserStep(c)

-----------------------------------------------------------------------------
\* A channel is closed once and never sent to afterwards.  An event reaches a
\* subscription of its type at most once, and when Post returns it has reached
\* every one that was there when it began and nobody is closing, whatever was
\* subscribed, unsubscribed and stopped while it went through its list.
\*
\* "Stop blocks until all current deliveries have finished": no event is
\* received after the subscription's Unsubscribe has returned, nor after Stop
\* has, unless the subscription is within its Unsubscribe: when Stop comes
\* between del and closewait it does not find it and does not wait for it.
MuxExact ==
    /\ [](\A s \in Receiver :
            /\ postC[s] # "panic"
            /\ IsInjective(got[s]) /\ \A p \in Range(got[s]) : TypeOf[p] \in TypesOf[s]
            /\ \A p \in Post :
                  /\ ppc[p] = "done" /\ TypeOf[p] \in TypesOf[s]
                  /\ s \in older[p] \ ended /\ cpc[s] = "idle"
                  => p \in Range(got[s]))
    /\ [][\A s \in Receiver :
            got'[s] # got[s] =>
               cpc[s] # "done" /\ (cpc[Stop] = "done" => cpc[s] # "idle")]_muxvars

\* No Stop and no Unsubscribe is waiting, whether or not anybody reads; and no
\* Post, once Stop is called.
MuxRests ==
    /\ \A c \in Closer : cpc[c] \in {"idle", "done"}
    /\ cpc[Stop] = "idle" \/ \A p \in Post : ppc[p] \in {"idle", "done", "refused"}
=============================================================================
