------------------------------ MODULE MCEvents ------------------------------
(***************************************************************************)
(* The package libraries/event: feeds, the scopes that track subscriptions *)
(* to them, the older mux, and subscriptions that are established again    *)
(* when they fail.  A scope works on a feed; the other parts share nothing *)
(* and a behaviour is one of "feed", "scope", "mux" and "again".           *)
(*                                                                         *)
(* For TLC, one receiver of the mux takes both types of events, the other  *)
(* the first only; the two posts are one of each.                          *)
(***************************************************************************)
EXTENDS SubscriptionScope, TypeMux, Resubscribe

CONSTANTS r1, e1, t1, t2

MCTypesOf == [s \in Receiver |-> IF s = r1 THEN {t1, t2} ELSE {t1}]
MCTypeOf == [p \in Post |-> IF p = e1 THEN t1 ELSE t2]

VARIABLE part

fvars == <<vars, scopevars>>
evars == <<vars, scopevars, muxvars, resvars, part>>

EInit ==
    /\ part \in {"feed", "scope", "mux", "again"}
    /\ Init /\ ScopeInit /\ MuxInit /\ ResInit

OnFeed == part \in {"feed", "scope"}

ENext ==
    /\ \/ part = "feed" /\ Next /\ UNCHANGED <<scopevars, muxvars, resvars>>
       \/ part = "scope" /\ ScopeNext /\ UNCHANGED <<muxvars, resvars>>
       \/ part = "mux" /\ MuxNext /\ UNCHANGED <<vars, scopevars, resvars>>
       \/ part = "again" /\ ResNext /\ UNCHANGED <<vars, scopevars, muxvars>>
    /\ UNCHANGED part

\* Goroutines run, and a select takes a ready case in the end.  That anybody
\* reads a channel, calls Unsubscribe or Stop, or that fn or a producer returns
\* of itself is not assumed; a producer that is told to stop does.
ESpec ==
    /\ EInit /\ [][ENext]_evars
    /\ \A p \in Sender : WF_vars(OnFeed /\ SendStep(p))
    /\ \A s \in Sub : WF_vars(RemoveSub(s)) /\ WF_fvars(Untrack(s))
    /\ WF_fvars(CloseStep)
    /\ \A c \in Closer : WF_muxvars(CloserStep(c))
    /\ \A p \in Post : WF_muxvars(PosterStep(p))
    /\ WF_resvars(part = "again" /\ LoopStep) /\ WF_resvars(Unsubscribed)
    /\ \A t \in Try : WF_resvars(ProducerEnds(t)) /\ WF_resvars(t \in stop /\ ProducerReturns(t))

\* Calls return: again and again none waits, of Unsubscribe though a Send is
\* blocked on the very channel and nobody reads it, of a scope's Close, of the
\* mux's Stop and Post, of a resubscription's Unsubscribe (no call is made twice,
\* so that each returns); and Send, if subscribers read.
EventCallsReturn ==
    /\ []<>(FeedRests /\ ScopeRests /\ MuxRests /\ ResubscribeRests)
    /\ OnFeed => SendReturns
=============================================================================
