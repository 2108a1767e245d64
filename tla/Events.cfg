\* A feed with three channels of one place and two senders, a scope of two of
\* them, a mux with two receivers and two posts, three tries to subscribe.
SPECIFICATION ESpec

CONSTANTS
  None = None
  Sub = {s1, s2, s3}
  Scoped = {s1, s2}
  Sender = {p1, p2}
  Sends = 1
  Capacity = 1
  r1 = r1
  Receiver = {r1, r2}
  e1 = e1
  Post = {e1, e2}
  t1 = t1
  t2 = t2
  Type = {t1, t2}
  TypesOf <- MCTypesOf
  TypeOf <- MCTypeOf
  Stop = Stop
  Nobody = Nobody
  Tries = 3

INVARIANTS ScopeClosed OneSubscription
PROPERTIES ImplementsBroadcast MuxExact EventCallsReturn

\* The calls come to an end.
CHECK_DEADLOCK FALSE
