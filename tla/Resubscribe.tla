----------------------------- MODULE Resubscribe -----------------------------
(***************************************************************************)
(* Subscriptions run by a function, and the loop that keeps one of them    *)
(* established (event/subscription.go: NewSubscription, Resubscribe).      *)
(*                                                                         *)
(* The loop calls fn in a goroutine of its own for every try; what fn      *)
(* establishes is a funcSub, whose producer runs until it fails, ends or   *)
(* is told to stop.  The user calls Unsubscribe, once (sync.Once).         *)
(***************************************************************************)
EXTENDS Integers

CONSTANT Tries      \* bound: the calls of fn

ASSUME TriesAssumption == Tries \in Nat \ {0}

Try == 1..Tries

VARIABLES
    loop,       \* the place of resubscribeSub.loop; "ended": err is closed
    try,        \* the number of the try it is in
    fn,         \* of a try: its goroutine "none", "run", "give" (to subscribed), "gone"
    gives,      \* of a try: what fn has returned, "sub" or "error"
    producer,   \* of a try: its producer "none", "run", "out" (fn returned), "gone"
    failed,     \* of a try: the producer returned an error
    unsubscribed, stop,  \* of a try: funcSub.unsubscribed, and unsub is closed
    errs,       \* of a try: the values in its err channel
    user        \* the user's Unsubscribe: "none", "send", "wait", "done"

resvars == <<loop, try, fn, gives, producer, failed, unsubscribed, stop, errs, user>>

ResInit ==
    /\ loop = "try" /\ try = 0
    /\ fn = [t \in Try |-> "none"] /\ gives = [t \in Try |-> "error"]
    /\ producer = [t \in Try |-> "none"] /\ failed = {}
    /\ unsubscribed = {} /\ stop = {} /\ errs = [t \in Try |-> <<>>]
    /\ user = "none"

-----------------------------------------------------------------------------
(* NewSubscription and funcSub.                                            *)

\* The producer returns of itself, or because it was told to.
ProducerReturns(t) ==
    /\ producer[t] = "run"
    /\ producer' = [producer EXCEPT ![t] = "out"]
    /\ \/ failed' = failed \cup {t}
       \/ UNCHANGED failed
    /\ UNCHANGED <<loop, try, fn, gives, unsubscribed, stop, errs, user>>

\* Its error is put into the channel unless it is unsubscribed by then; the
\* channel is closed in any case.
ProducerEnds(t) ==
    /\ producer[t] = "out"
    /\ errs' = [errs EXCEPT ![t] =
                   IF t \notin unsubscribed /\ t \in failed THEN <<"error">> ELSE @]
    /\ unsubscribed' = unsubscribed \cup {t}
    /\ producer' = [producer EXCEPT ![t] = "gone"]
    /\ UNCHANGED <<loop, try, fn, gives, failed, stop, user>>

\* funcSub.Unsubscribe, by the loop: the first call tells the producer ...
UnsubscribeInner ==
    /\ loop = "unsub"
    /\ IF try \in unsubscribed
       THEN loop' = "again" /\ UNCHANGED <<unsubscribed, stop>>
       ELSE /\ unsubscribed' = unsubscribed \cup {try}
            /\ stop' = stop \cup {try}
            /\ loop' = "drain"
    /\ UNCHANGED <<try, fn, gives, producer, failed, errs, user>>

\* ... and waits until it has ended: "<-s.err" gets nothing but the close.
NotDrained(t) == TRUE
Drained(t) == producer[t] = "gone"

DrainInner ==
    /\ loop = "drain" /\ Drained(try)
    /\ loop' = "again"
    /\ UNCHANGED <<try, fn, gives, producer, failed, unsubscribed, stop, errs, user>>

-----------------------------------------------------------------------------
(* The loop.                                                               *)

\* subscribe: fn runs in a goroutine, ...
StartTry ==
    /\ loop = "try" /\ try < Tries
    /\ try' = try + 1
    /\ fn' = [fn EXCEPT ![try + 1] = "run"]
    /\ loop' = "subscribing"
    /\ UNCHANGED <<gives, producer, failed, unsubscribed, stop, errs, user>>

\* ... which establishes a subscription or fails ...
FnReturns(t) ==
    /\ fn[t] = "run"
    /\ fn' = [fn EXCEPT ![t] = "give"]
    /\ \/ /\ gives' = [gives EXCEPT ![t] = "sub"]
          /\ producer' = [producer EXCEPT ![t] = "run"]
       \/ UNCHANGED <<gives, producer>>
    /\ UNCHANGED <<loop, try, failed, unsubscribed, stop, errs, user>>

\* ... and hands that to the loop, if it still waits for it.
Subscribed ==
    /\ loop = "subscribing" /\ fn[try] = "give"
    /\ fn' = [fn EXCEPT ![try] = "gone"]
    /\ loop' = IF gives[try] = "sub" THEN "established" ELSE "backoff"
    /\ UNCHANGED <<try, gives, producer, failed, unsubscribed, stop, errs, user>>

\* backoffWait: the timer.
BackoffOver ==
    /\ loop = "backoff"
    /\ loop' = "try"
    /\ UNCHANGED <<try, fn, gives, producer, failed, unsubscribed, stop, errs, user>>

\* waitForError: an error, or the end of the channel.
InnerError ==
    /\ loop = "established" /\ (errs[try] # <<>> \/ producer[try] = "gone")
    /\ errs' = [errs EXCEPT ![try] = <<>>]
    /\ loop' = IF errs[try] # <<>> THEN "unsub" ELSE "ended"
    /\ UNCHANGED <<try, fn, gives, producer, failed, unsubscribed, stop, user>>

\* The subscription failed: the next try.
Again ==
    /\ loop = "again"
    /\ loop' = IF user = "wait" THEN "ended" ELSE "try"
    /\ UNCHANGED <<try, fn, gives, producer, failed, unsubscribed, stop, errs, user>>

\* Unsubscribe sends on unsub, which each select of the loop receives: while
\* fn runs or a backoff is waited for the loop ends, else the subscription is
\* unsubscribed first.
CallUnsubscribe ==
    /\ user = "none"
    /\ user' = "send"
    /\ UNCHANGED <<loop, try, fn, gives, producer, failed, unsubscribed, stop, errs>>

ReceiveUnsub ==
    /\ user = "send" /\ loop \in {"subscribing", "backoff", "established"}
    /\ user' = "wait"
    /\ loop' = IF loop = "established" THEN "unsub" ELSE "ended"
    /\ UNCHANGED <<try, fn, gives, producer, failed, unsubscribed, stop, errs>>

Unsubscribed ==
    /\ user = "wait" /\ loop = "ended"
    /\ user' = "done"
    /\ UNCHANGED <<loop, try, fn, gives, producer, failed, unsubscribed, stop, errs>>

LoopStep ==
    \/ UnsubscribeInner \/ DrainInner \/ StartTry \/ Subscribed \/ BackoffOver
    \/ InnerError \/ Again \/ ReceiveUnsub

ResNext ==
    \/ LoopStep
    \/ CallUnsubscribe \/ Unsubscribed
    \/ \E t \in Try : FnReturns(t) \/ ProducerReturns(t) \/ ProducerEnds(t)

-----------------------------------------------------------------------------
\* The loop keeps at most one subscription: one whose producer has not ended is
\* that of the present try, and none is left when the loop has ended, except
\* the one that fn, if it still runs when Unsubscribe is called, establishes
\* for nobody.
OneSubscription ==
    \A t \in Try :
        producer[t] \in {"run", "out"} =>
            \/ t = try /\ loop # "ended" /\ loop # "try"
            \/ fn[t] = "give" /\ loop = "ended" /\ user # "none"

\* Unsubscribe is not waiting, in whichever of its waits it met the loop; but
\* when the loop has ended already, because the subscription ended without an
\* error, nobody receives from unsub and it waits for ever.
ResubscribeRests ==
    \/ user \in {"none", "done"}
    \/ user = "send" /\ loop = "ended"
    \/ loop = "try" /\ try = Tries
=============================================================================
