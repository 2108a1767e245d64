------------------------- MODULE SubscriptionScope -------------------------
(***************************************************************************)
(* The scope that every user of a feed tracks its subscriptions with       *)
(* (event/subscription.go), composed with the feed: a wrapper around the   *)
(* feed's subscription, whose owner may unsubscribe it while the scope is  *)
(* being closed.  feedSub.Unsubscribe runs once; a second caller waits for *)
(* the first.                                                              *)
(***************************************************************************)
EXTENDS Feed

CONSTANT Scoped    \* the subscriptions that are tracked

ASSUME ScopedAssumption == Scoped \subseteq Sub

VARIABLES
    wrapper,    \* of a subscription: how far its owner is
    subs,       \* SubscriptionScope.subs: the tracked subscriptions
    closed,     \* SubscriptionScope.closed
    mu,         \* SubscriptionScope.mu is held by Close
    todo, at    \* Close: what is left to unsubscribe, and where it is

scopevars == <<wrapper, subs, closed, mu, todo, at>>

ScopeInit ==
    /\ wrapper = [s \in Sub |-> "none"]
    /\ subs = {} /\ closed = FALSE /\ mu = FALSE
    /\ todo = {} /\ at = None

\* scope.Track(feed.Subscribe(ch)): the channel is subscribed first ...
SubscribeTracked(s) ==
    /\ Subscribe(s)
    /\ wrapper' = [wrapper EXCEPT ![s] = "subscribed"]
    /\ UNCHANGED <<subs, closed, mu, todo, at>>

\* ... and if the scope is closed by then, its owner gets nil and the channel
\* stays in the feed.  Mutant: tracked all the same.
TrackClosed(s) ==
    /\ wrapper[s] = "subscribed" /\ ~mu
    /\ wrapper' = [wrapper EXCEPT ![s] = "tracked"]
    /\ subs' = subs \cup {s}
    /\ UNCHANGED <<vars, closed, mu, todo, at>>

Track(s) ==
    /\ wrapper[s] = "subscribed" /\ ~mu
    /\ wrapper' = [wrapper EXCEPT ![s] = IF closed THEN "nil" ELSE "tracked"]
    /\ subs' = IF closed THEN subs ELSE subs \cup {s}
    /\ UNCHANGED <<vars, closed, mu, todo, at>>

\* feedSub.Unsubscribe, by the first caller; others wait till it is "off".
Once(s) == IF state[s] = "on" THEN RemoveFromInbox(s) ELSE UNCHANGED vars

\* scopeSub.Unsubscribe
Unsubscribe(s) ==
    /\ wrapper[s] = "tracked"
    /\ Once(s)
    /\ wrapper' = [wrapper EXCEPT ![s] = "calling"]
    /\ UNCHANGED <<subs, closed, mu, todo, at>>

Untrack(s) ==
    /\ wrapper[s] = "calling" /\ state[s] = "off" /\ ~mu
    /\ subs' = subs \ {s}
    /\ wrapper' = [wrapper EXCEPT ![s] = "done"]
    /\ UNCHANGED <<vars, closed, mu, todo, at>>

BeginClose ==
    /\ ~mu /\ ~closed
    /\ mu' = TRUE /\ closed' = TRUE
    /\ todo' = subs
    /\ UNCHANGED <<vars, wrapper, subs, at>>

CloseOne(s) ==
    /\ mu /\ at = None /\ s \in todo
    /\ Once(s)
    /\ at' = s
    /\ UNCHANGED <<wrapper, subs, closed, mu, todo>>

CloseNext ==
    /\ at # None /\ state[at] = "off"
    /\ todo' = todo \ {at}
    /\ at' = None
    /\ UNCHANGED <<vars, wrapper, subs, closed, mu>>

EndClose ==
    /\ mu /\ todo = {}
    /\ subs' = {} /\ mu' = FALSE
    /\ UNCHANGED <<vars, wrapper, closed, todo, at>>

CloseStep == (\E s \in Sub : CloseOne(s)) \/ CloseNext \/ EndClose

ScopeNext ==
    \/ /\ \/ \E p \in Sender : SendStep(p)
          \/ \E s \in Sub : RemoveSub(s) \/ Receive(s)
       /\ UNCHANGED scopevars
    \/ \E s \in Scoped : SubscribeTracked(s) \/ Track(s) \/ Unsubscribe(s) \/ Untrack(s)
    \/ BeginClose
    \/ CloseStep

-----------------------------------------------------------------------------
\* "Close calls Unsubscribe on all tracked subscriptions and prevents further
\* additions": once it has returned, none that was ever tracked is in the feed,
\* whoever unsubscribed it and whatever was tracked meanwhile.
ScopeClosed ==
    closed /\ ~mu =>
        \A s \in Sub : wrapper[s] \in {"tracked", "calling", "done"} => state[s] = "off"

\* No owner's Unsubscribe and no Close is waiting, for the feed or for the other.
ScopeRests == ~mu /\ \A s \in Sub : wrapper[s] # "calling"
=============================================================================
