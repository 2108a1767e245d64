-------------------------------- MODULE Feed --------------------------------
(***************************************************************************)
(* The event feed, libraries/event/feed.go, which carries every event of   *)
(* the node between its goroutines.                                        *)
(*                                                                         *)
(* sendCases is the slice of the subscribed channels (without its first    *)
(* element, the receive from removeSub); the local slice cases of a Send   *)
(* is always a prefix of it, so that active is its length, and a swap or a *)
(* deletion in one is seen in the other.  A channel of capacity Capacity   *)
(* is the sequence of what is in it; its reader may stop reading.  f.mu    *)
(* covers single steps here.  All values have the feed's type.             *)
(***************************************************************************)
EXTENDS Integers, Sequences, Functions

CONSTANTS Sub,        \* subscriptions, each of a channel of its own
          Sender,     \* goroutines that call Send
          Sends,      \* bound: the number of Sends of a goroutine
          Capacity,   \* of a channel
          None

ASSUME FeedAssumption ==
    Sends \in Nat /\ Capacity \in Nat \ {0} /\ None \notin Sender

VARIABLES
  sendCases, inbox,   \* the channels of the feed
  sendLock,           \* who holds it
  pc, active, i, nsent,  \* a Send: its place, len(cases) - 1, i, the result
  count,              \* Sends begun, by goroutine
  state,              \* of a subscription: "new", "on", "removing" or "off"
  chan,               \* what is in a channel
  received, current   \* history: all a channel was sent; the last Send's value

send == <<pc, active, i, nsent, count>>
vars == <<sendCases, inbox, sendLock, send, state, chan, received, current>>

Init ==
    /\ sendCases = <<>> /\ inbox = <<>> /\ sendLock = None
    /\ pc = [p \in Sender |-> "idle"] /\ count = [p \in Sender |-> 0]
    /\ active = 0 /\ i = 1 /\ nsent = 0
    /\ state = [s \in Sub |-> "new"]
    /\ chan = [s \in Sub |-> <<>>] /\ received = [s \in Sub |-> <<>>]
    /\ current = None

\* A value: who sends it, and its number.
ValueOf(p) == <<p, count[p]>>

\* caseList.find and caseList.delete
Find(cs, s) == IF s \in Range(cs) THEN CHOOSE n \in DOMAIN cs : cs[n] = s ELSE 0

Delete(cs, n) == SubSeq(cs, 1, n - 1) \o SubSeq(cs, n + 1, Len(cs))

\* caseList.deactivate: the case trades places with the last active one.
Deactivate(cs, n, last) == [cs EXCEPT ![n] = cs[last], ![last] = cs[n]]

-----------------------------------------------------------------------------
(* Subscriptions.                                                          *)

Subscribe(s) ==
    /\ state[s] = "new"
    /\ inbox' = Append(inbox, s)
    /\ state' = [state EXCEPT ![s] = "on"]
    /\ UNCHANGED <<sendCases, sendLock, send, chan, received, current>>

\* remove: from the inbox, if the channel is still there ...
RemoveFromInbox(s) ==
    /\ state[s] = "on"
    /\ IF s \in Range(inbox)
       THEN /\ inbox' = Delete(inbox, Find(inbox, s))
            /\ state' = [state EXCEPT ![s] = "off"]
       ELSE /\ state' = [state EXCEPT ![s] = "removing"]
            /\ UNCHANGED inbox
    /\ UNCHANGED <<sendCases, sendLock, send, chan, received, current>>

\* ... or with the send lock, if no Send is in progress ...
RemoveLocked(s) ==
    /\ state[s] = "removing" /\ sendLock = None
    /\ sendCases' = Delete(sendCases, Find(sendCases, s))
    /\ state' = [state EXCEPT ![s] = "off"]
    /\ UNCHANGED <<inbox, sendLock, send, chan, received, current>>

\* ... or by the Send that is: it receives the channel from removeSub.  A
\* deletion among the active cases shortens cases.
ActiveKept(n) == active
ActiveAfter(n) == IF n <= active THEN active - 1 ELSE active

RemoveAfterSend(p, s) ==
    pc[p] = "finish" /\ RemoveLocked(s)

RemoveInSend(p, s) ==
    /\ state[s] = "removing" /\ pc[p] = "select"
    /\ LET n == Find(sendCases, s)
       IN  sendCases' = Delete(sendCases, n) /\ active' = ActiveAfter(n)
    /\ state' = [state EXCEPT ![s] = "off"]
    /\ pc' = [pc EXCEPT ![p] = "try"]
    /\ i' = 1
    /\ UNCHANGED <<inbox, sendLock, nsent, count, chan, received, current>>

-----------------------------------------------------------------------------
(* Send.                                                                   *)

BeginSend(p) ==
    /\ pc[p] = "idle" /\ count[p] < Sends
    /\ sendLock = None
    /\ sendLock' = p
    /\ pc' = [pc EXCEPT ![p] = "collect"]
    /\ count' = [count EXCEPT ![p] = @ + 1]
    /\ UNCHANGED <<sendCases, inbox, active, i, nsent, state, chan, received, current>>

CollectKeepingInbox(p) ==
    /\ pc[p] = "collect"
    /\ sendCases' = sendCases \o inbox
    /\ active' = Len(sendCases') /\ i' = 1 /\ nsent' = 0
    /\ pc' = [pc EXCEPT ![p] = "try"]
    /\ current' = ValueOf(p)
    /\ UNCHANGED <<inbox, sendLock, count, state, chan, received>>

Collect(p) ==
    /\ pc[p] = "collect"
    /\ sendCases' = sendCases \o inbox
    /\ inbox' = <<>>
    /\ active' = Len(sendCases') /\ i' = 1 /\ nsent' = 0
    /\ pc' = [pc EXCEPT ![p] = "try"]
    /\ current' = ValueOf(p)
    /\ UNCHANGED <<sendLock, count, state, chan, received>>

HasRoom(s) == Len(chan[s]) < Capacity

\* A send to the channel of case n, which becomes inactive.
SendTo(p, n) ==
    LET s == sendCases[n]
    IN  /\ HasRoom(s)
        /\ chan' = [chan EXCEPT ![s] = Append(@, ValueOf(p))]
        /\ received' = [received EXCEPT ![s] = Append(@, ValueOf(p))]
        /\ sendCases' = Deactivate(sendCases, n, active)
        /\ active' = active - 1
        /\ nsent' = nsent + 1

\* The fast path: TrySend on every active case.
TrySend(p) ==
    /\ pc[p] = "try" /\ i <= active
    /\ IF HasRoom(sendCases[i])
       THEN SendTo(p, i) /\ UNCHANGED i
       ELSE /\ i' = i + 1
            /\ UNCHANGED <<sendCases, active, nsent, chan, received>>
    /\ UNCHANGED <<inbox, sendLock, pc, count, state, current>>

EndOfTries(p) ==
    /\ pc[p] = "try" /\ i > active
    /\ pc' = [pc EXCEPT ![p] = IF active = 0 THEN "finish" ELSE "select"]
    /\ UNCHANGED <<sendCases, inbox, sendLock, active, i, nsent, count, state,
                   chan, received, current>>

\* The select on all of them chose a channel that has room.
SelectSend(p) ==
    /\ pc[p] = "select"
    /\ \E n \in 1..active : SendTo(p, n)
    /\ pc' = [pc EXCEPT ![p] = "try"]
    /\ i' = 1
    /\ UNCHANGED <<inbox, sendLock, count, state, current>>

FinishLocked(p) ==
    /\ pc[p] = "finish"
    /\ pc' = [pc EXCEPT ![p] = "idle"]
    /\ UNCHANGED <<sendCases, inbox, sendLock, active, i, nsent, count, state,
                   chan, received, current>>

FinishSend(p) ==
    /\ pc[p] = "finish"
    /\ sendLock' = None
    /\ pc' = [pc EXCEPT ![p] = "idle"]
    /\ UNCHANGED <<sendCases, inbox, active, i, nsent, count, state, chan, received, current>>

\* The subscriber reads its channel.
Receive(s) ==
    /\ chan[s] # <<>>
    /\ chan' = [chan EXCEPT ![s] = Tail(@)]
    /\ UNCHANGED <<sendCases, inbox, sendLock, send, state, received, current>>

SendStep(p) == \/ BeginSend(p) \/ Collect(p) \/ TrySend(p) \/ EndOfTries(p)
               \/ SelectSend(p) \/ FinishSend(p)

RemoveSub(s) == RemoveLocked(s) \/ \E p \in Sender : RemoveInSend(p, s)

Next ==
    \/ \E p \in Sender : SendStep(p)
    \/ \E s \in Sub : \/ Subscribe(s) \/ RemoveFromInbox(s) \/ RemoveSub(s)
                      \/ Receive(s)

-----------------------------------------------------------------------------
(***************************************************************************)
(* Properties.                                                             *)
(***************************************************************************)

Sending == {p \in Sender : pc[p] \in {"try", "select", "finish"}}

Values == {<<p, n>> : p \in Sender, n \in 1..Sends}

\* Who the current value has still to be sent to.
Waiting == IF Sending = {} THEN {} ELSE {sendCases[n] : n \in 1..active}

Plain == INSTANCE Broadcast
           WITH Value <- Values, waiting <- Waiting,
                member <- {s \in Sub : state[s] \in {"on", "removing"}}

\* Feed implements Broadcast: whatever is subscribed, removed and blocked
\* meanwhile, a value goes once to each channel subscribed when its Send took
\* them, to none whose Unsubscribe has returned, and one Send's before the
\* next one's.
ImplementsBroadcast == Plain!Spec

\* No call of Unsubscribe is waiting.
FeedRests == \A s \in Sub : state[s] # "removing"

\* If subscribers keep emptying their channels, every call of Send gets the
\* lock and returns.
SendReturns ==
    (\A s \in Sub : []<>(chan[s] = <<>>)) =>
        <>(\A p \in Sender : count[p] = Sends /\ pc[p] = "idle")
=============================================================================
