---------------------------- MODULE EventsProofs ----------------------------
(***************************************************************************)
(* Proofs about the event package (MCEvents), for any senders, channels,   *)
(* receivers, posts, types and tries.                                      *)
(***************************************************************************)
EXTENDS MCEvents, TLAPS

\* Zenon is tried on every step; those that need arithmetic or sequences name SMT.
USE ZenonT(40)

-----------------------------------------------------------------------------
(* Sequences without repetition.                                           *)

\* The first a elements.
First(q, a) == {q[k] : k \in 1..a}

LEMMA DeleteIs ==
    ASSUME NEW S, NEW q \in Seq(S), NEW n \in 1..Len(q)
    PROVE  /\ Delete(q, n) \in Seq(S) /\ Len(Delete(q, n)) = Len(q) - 1
           /\ \A k \in 1..(Len(q) - 1) :
                 Delete(q, n)[k] = IF k < n THEN q[k] ELSE q[k + 1]
<1> DEFINE a == SubSeq(q, 1, n - 1)
           b == SubSeq(q, n + 1, Len(q))
<1>1. a \in Seq(S) /\ Len(a) = n - 1 /\ \A k \in 1..(n - 1) : a[k] = q[k]
  BY SMTT(30)
<1>2. /\ b \in Seq(S) /\ Len(b) = Len(q) - n
      /\ \A k \in 1..(Len(q) - n) : b[k] = q[n + k]
  BY SMTT(30)
<1>3. Delete(q, n) = a \o b
  BY DEF Delete
<1> HIDE DEF a, b
<1>4. a \o b \in Seq(S) /\ Len(a \o b) = Len(q) - 1
  <2>1. \A x, y \in Seq(S) : x \o y \in Seq(S) /\ Len(x \o y) = Len(x) + Len(y)
    BY SMTT(30)
  <2>2. a \in Seq(S) /\ b \in Seq(S) /\ Len(a) = n - 1 /\ Len(b) = Len(q) - n
    BY <1>1, <1>2
  <2>3. a \o b \in Seq(S) /\ Len(a \o b) = Len(a) + Len(b)
    BY <2>1, <2>2
  <2>4. Len(q) \in Nat /\ (n - 1) + (Len(q) - n) = Len(q) - 1
    BY SMTT(30)
  <2> QED BY <2>2, <2>3, <2>4
<1>5. ASSUME NEW k \in 1..(Len(q) - 1)
      PROVE  (a \o b)[k] = IF k < n THEN q[k] ELSE q[k + 1]
  <2>1. CASE k < n
    BY <1>1, <1>2, <2>1, SMTT(30)
  <2>2. CASE ~(k < n)
    <3>1. (a \o b)[k] = b[k - (n - 1)]
      BY <1>1, <1>2, <2>2, SMTT(30)
    <3>2. k - (n - 1) \in 1..(Len(q) - n) /\ n + (k - (n - 1)) = k + 1
      BY <2>2, SMTT(30)
    <3> QED BY <1>2, <2>2, <3>1, <3>2
  <2> QED BY <2>1, <2>2
<1> QED BY <1>3, <1>4, <1>5

LEMMA DeleteOnce ==
    ASSUME NEW S, NEW q \in Seq(S), NEW n \in 1..Len(q), IsInjective(q)
    PROVE  /\ IsInjective(Delete(q, n))
           /\ Range(Delete(q, n)) = Range(q) \ {q[n]}
           /\ \A a \in 0..Len(q) :
                 First(Delete(q, n), IF n <= a THEN a - 1 ELSE a) = First(q, a) \ {q[n]}
<1> DEFINE r == Delete(q, n)
<1>1. /\ r \in Seq(S) /\ Len(r) = Len(q) - 1
      /\ \A k \in 1..(Len(q) - 1) : r[k] = IF k < n THEN q[k] ELSE q[k + 1]
  BY DeleteIs
<1> HIDE DEF r
<1>2. DOMAIN q = 1..Len(q) /\ DOMAIN r = 1..(Len(q) - 1)
  BY <1>1, SMTT(30)
<1>3. IsInjective(r)
  <2> SUFFICES ASSUME NEW j \in 1..(Len(q) - 1), NEW k \in 1..(Len(q) - 1), r[j] = r[k]
               PROVE  j = k
    BY <1>2 DEF IsInjective
  <2>1. \A x, y \in 1..Len(q) : q[x] = q[y] => x = y
    BY <1>2 DEF IsInjective
  <2>2. PICK x \in 1..Len(q) : r[j] = q[x] /\ x = (IF j < n THEN j ELSE j + 1)
    BY <1>1, SMTT(30)
  <2>3. PICK y \in 1..Len(q) : r[k] = q[y] /\ y = (IF k < n THEN k ELSE k + 1)
    BY <1>1, SMTT(30)
  <2>4. x = y
    BY <2>1, <2>2, <2>3
  <2> QED BY <2>2, <2>3, <2>4, SMTT(30)
<1>4. ASSUME NEW a \in 0..Len(q)
      PROVE  First(r, IF n <= a THEN a - 1 ELSE a) = First(q, a) \ {q[n]}
  <2> DEFINE c == IF n <= a THEN a - 1 ELSE a
  <2>1. ASSUME NEW k \in 1..c PROVE r[k] \in First(q, a) \ {q[n]}
    <3>1. CASE k < n
      <4>1. r[k] = q[k] /\ k \in 1..a /\ k \in 1..Len(q) /\ k # n
        BY <1>1, <3>1, SMTT(30)
      <4> QED BY <1>2, <4>1 DEF First, IsInjective
    <3>2. CASE ~(k < n)
      <4>1. r[k] = q[k + 1] /\ k + 1 \in 1..a /\ k + 1 \in 1..Len(q) /\ k + 1 # n
        BY <1>1, <3>2, SMTT(30)
      <4> QED BY <1>2, <4>1 DEF First, IsInjective
    <3> QED BY <3>1, <3>2
  <2>2. ASSUME NEW k \in 1..a, k # n PROVE \E j \in 1..c : r[j] = q[k]
    <3>1. CASE k < n
      <4>1. k \in 1..c /\ r[k] = q[k]
        BY <1>1, <3>1, SMTT(30)
      <4> QED BY <4>1
    <3>2. CASE k > n
      <4>1. k - 1 \in 1..c /\ r[k - 1] = q[k]
        BY <1>1, <3>2, SMTT(30)
      <4> QED BY <4>1
    <3> QED BY <2>2, <3>1, <3>2, SMTT(30)
  <2> HIDE DEF c
  <2>3. First(r, c) \subseteq First(q, a) \ {q[n]}
    BY <2>1 DEF First
  <2>4. First(q, a) \ {q[n]} \subseteq First(r, c)
    BY <2>2 DEF First
  <2> QED BY <2>3, <2>4 DEF c
<1>5. Range(q) = First(q, Len(q)) /\ Range(r) = First(r, Len(q) - 1)
  BY <1>2 DEF Range, First
<1>6. First(r, Len(q) - 1) = First(q, Len(q)) \ {q[n]}
  BY <1>4, SMTT(30)
<1> QED BY <1>3, <1>4, <1>5, <1>6 DEF r

LEMMA DeactivateIs ==
    ASSUME NEW S, NEW q \in Seq(S), IsInjective(q), NEW a \in 1..Len(q), NEW n \in 1..a
    PROVE  /\ Deactivate(q, n, a) \in Seq(S) /\ Len(Deactivate(q, n, a)) = Len(q)
           /\ IsInjective(Deactivate(q, n, a))
           /\ Range(Deactivate(q, n, a)) = Range(q)
           /\ First(Deactivate(q, n, a), a - 1) = First(q, a) \ {q[n]}
<1> DEFINE r == Deactivate(q, n, a)
<1>1. n \in 1..Len(q) /\ DOMAIN q = 1..Len(q) /\ DOMAIN r = 1..Len(q)
  BY SMTT(30) DEF Deactivate
<1>2. r \in Seq(S) /\ Len(r) = Len(q)
  BY <1>1, SMTT(30) DEF Deactivate
<1>3. /\ r[a] = q[n] /\ r[n] = q[a]
      /\ \A k \in 1..Len(q) : k # a /\ k # n => r[k] = q[k]
  BY <1>1 DEF Deactivate
<1> HIDE DEF r
<1>4. IsInjective(r)
  BY <1>1, <1>3 DEF IsInjective
<1>5. Range(r) = Range(q)
  <2>1. ASSUME NEW k \in 1..Len(q) PROVE r[k] \in Range(q)
    BY <1>1, <1>3 DEF Range
  <2>2. ASSUME NEW k \in 1..Len(q) PROVE q[k] \in Range(r)
    BY <1>1, <1>3 DEF Range
  <2> QED BY <1>1, <2>1, <2>2 DEF Range
<1>6. First(r, a - 1) = First(q, a) \ {q[n]}
  <2>1. ASSUME NEW k \in 1..(a - 1) PROVE r[k] \in First(q, a) \ {q[n]}
    <3>1. CASE k = n
      <4>1. r[k] = q[a] /\ a # n /\ a \in 1..a
        BY <1>3, <3>1, SMTT(30)
      <4> QED BY <1>1, <4>1 DEF First, IsInjective
    <3>2. CASE k # n
      <4>1. r[k] = q[k] /\ k \in 1..a /\ k \in 1..Len(q)
        BY <1>3, <3>2, SMTT(30)
      <4> QED BY <1>1, <3>2, <4>1 DEF First, IsInjective
    <3> QED BY <3>1, <3>2
  <2>2. ASSUME NEW k \in 1..a, k # n PROVE \E j \in 1..(a - 1) : r[j] = q[k]
    <3>1. CASE k = a
      <4>1. n \in 1..(a - 1) /\ r[n] = q[k]
        BY <1>3, <2>2, <3>1, SMTT(30)
      <4> QED BY <4>1
    <3>2. CASE k # a
      <4>1. k \in 1..(a - 1) /\ r[k] = q[k]
        BY <1>3, <2>2, <3>2, SMTT(30)
      <4> QED BY <4>1
    <3> QED BY <3>1, <3>2
  <2>3. First(r, a - 1) \subseteq First(q, a) \ {q[n]}
    BY <2>1 DEF First
  <2>4. First(q, a) \ {q[n]} \subseteq First(r, a - 1)
    BY <2>2 DEF First
  <2> QED BY <2>3, <2>4
<1> QED BY <1>2, <1>4, <1>5, <1>6 DEF r

LEMMA FindIs ==
    ASSUME NEW S, NEW q \in Seq(S), NEW s \in Range(q)
    PROVE  Find(q, s) \in 1..Len(q) /\ q[Find(q, s)] = s
<1>1. DOMAIN q = 1..Len(q) /\ \E n \in DOMAIN q : q[n] = s
  BY SMTT(30) DEF Range
<1>2. Find(q, s) = CHOOSE n \in DOMAIN q : q[n] = s
  BY DEF Find
<1> QED BY <1>1, <1>2

LEMMA AppendOnce ==
    ASSUME NEW S, NEW q \in Seq(S), IsInjective(q), NEW s \in S, s \notin Range(q)
    PROVE  /\ Append(q, s) \in Seq(S) /\ IsInjective(Append(q, s))
           /\ Range(Append(q, s)) = Range(q) \cup {s}
<1> DEFINE r == Append(q, s)
<1>1. r \in Seq(S) /\ Len(r) = Len(q) + 1 /\ r[Len(q) + 1] = s
  BY SMTT(30)
<1>2. \A k \in 1..Len(q) : r[k] = q[k] /\ r[k] # s
  BY SMTT(30) DEF Range
<1> HIDE DEF r
<1>3. DOMAIN q = 1..Len(q) /\ DOMAIN r = 1..(Len(q) + 1)
  BY <1>1, SMTT(30)
<1>4. 1..(Len(q) + 1) = 1..Len(q) \cup {Len(q) + 1}
  BY SMTT(30)
<1>5. IsInjective(r)
  BY <1>1, <1>2, <1>3, <1>4, SMTT(30) DEF IsInjective
<1>6. Range(r) = Range(q) \cup {s}
  BY <1>1, <1>2, <1>3, <1>4 DEF Range
<1> QED BY <1>1, <1>5, <1>6 DEF r

LEMMA ConcatOnce ==
    ASSUME NEW S, NEW q \in Seq(S), NEW r \in Seq(S), IsInjective(q), IsInjective(r),
           Range(q) \cap Range(r) = {}
    PROVE  /\ q \o r \in Seq(S) /\ IsInjective(q \o r)
           /\ Range(q \o r) = Range(q) \cup Range(r)
           /\ First(q \o r, Len(q \o r)) = Range(q) \cup Range(r)
<1> DEFINE c == q \o r
<1>1. c \in Seq(S) /\ Len(c) = Len(q) + Len(r) /\ DOMAIN c = 1..(Len(q) + Len(r))
  BY SMTT(30)
<1>2. \A k \in 1..Len(q) : c[k] = q[k]
  BY SMTT(30)
<1>3. \A k \in 1..Len(r) : c[Len(q) + k] = r[k]
  BY SMTT(30)
<1> HIDE DEF c
<1>4. DOMAIN q = 1..Len(q) /\ DOMAIN r = 1..Len(r)
  BY SMTT(30)
<1>5. ASSUME NEW k \in 1..(Len(q) + Len(r))
      PROVE  \/ k \in 1..Len(q) /\ c[k] = q[k] /\ c[k] \in Range(q)
             \/ \E x \in 1..Len(r) : k = Len(q) + x /\ c[k] = r[x] /\ c[k] \in Range(r)
  <2>1. CASE k <= Len(q)
    BY <1>2, <1>4, <2>1, SMTT(30) DEF Range
  <2>2. CASE k > Len(q)
    <3>1. k - Len(q) \in 1..Len(r) /\ k = Len(q) + (k - Len(q))
      BY <2>2, SMTT(30)
    <3> QED BY <1>3, <1>4, <3>1 DEF Range
  <2> QED BY <2>1, <2>2, SMTT(30)
<1>6. IsInjective(c)
  <2> SUFFICES ASSUME NEW j \in 1..(Len(q) + Len(r)), NEW k \in 1..(Len(q) + Len(r)),
                      c[j] = c[k]
               PROVE  j = k
    BY <1>1 DEF IsInjective
  <2>1. CASE j \in 1..Len(q) /\ k \in 1..Len(q)
    BY <1>2, <1>4, <2>1 DEF IsInjective
  <2>2. CASE ~(j \in 1..Len(q)) /\ ~(k \in 1..Len(q))
    <3>1. PICK x \in 1..Len(r) : j = Len(q) + x /\ c[j] = r[x]
      BY <1>5, <2>2
    <3>2. PICK y \in 1..Len(r) : k = Len(q) + y /\ c[k] = r[y]
      BY <1>5, <2>2
    <3>3. x = y
      BY <1>4, <3>1, <3>2 DEF IsInjective
    <3> QED BY <3>1, <3>2, <3>3
  <2>3. CASE j \in 1..Len(q) /\ ~(k \in 1..Len(q))
    <3>1. c[j] \in Range(q) /\ c[k] \in Range(r)
      BY <1>2, <1>4, <1>5, <2>3 DEF Range
    <3> QED BY <3>1
  <2>4. CASE ~(j \in 1..Len(q)) /\ k \in 1..Len(q)
    <3>1. c[k] \in Range(q) /\ c[j] \in Range(r)
      BY <1>2, <1>4, <1>5, <2>4 DEF Range
    <3> QED BY <3>1
  <2> QED BY <2>1, <2>2, <2>3, <2>4
<1>7. Range(c) \subseteq Range(q) \cup Range(r)
  BY <1>1, <1>5 DEF Range
<1>8. ASSUME NEW k \in 1..Len(q) PROVE q[k] \in Range(c)
  <2>1. k \in 1..(Len(q) + Len(r)) /\ c[k] = q[k]
    BY <1>2, SMTT(30)
  <2> QED BY <1>1, <2>1 DEF Range
<1>9. ASSUME NEW k \in 1..Len(r) PROVE r[k] \in Range(c)
  <2>1. Len(q) + k \in 1..(Len(q) + Len(r)) /\ c[Len(q) + k] = r[k]
    BY <1>3, SMTT(30)
  <2> QED BY <1>1, <2>1 DEF Range
<1>10. Range(c) = Range(q) \cup Range(r)
  BY <1>4, <1>7, <1>8, <1>9 DEF Range
<1>11. First(c, Len(c)) = Range(c)
  BY <1>1 DEF First, Range
<1> QED BY <1>1, <1>6, <1>10, <1>11 DEF c

LEMMA PosdeleteOnce ==
    ASSUME NEW S, NEW q \in Seq(S), IsInjective(q), NEW s
    PROVE  /\ posdelete(q, s) \in Seq(S) /\ IsInjective(posdelete(q, s))
           /\ Range(posdelete(q, s)) = Range(q) \ {s}
<1>1. CASE s \in Range(q)
  <2> DEFINE n == CHOOSE k \in DOMAIN q : q[k] = s
  <2>1. n \in 1..Len(q) /\ q[n] = s
    BY <1>1, SMTT(30) DEF Range
  <2>2. posdelete(q, s) = Delete(q, n)
    BY <1>1 DEF posdelete, Delete
  <2> HIDE DEF n
  <2> QED BY <2>1, <2>2, DeleteIs, DeleteOnce, SMTT(30)
<1>2. CASE s \notin Range(q)
  BY <1>2 DEF posdelete
<1> QED BY <1>1, <1>2

LEMMA TailOnce ==
    ASSUME NEW S, NEW q \in Seq(S), q # <<>>, IsInjective(q)
    PROVE  /\ Head(q) \in S /\ Head(q) \in Range(q)
           /\ Tail(q) \in Seq(S) /\ IsInjective(Tail(q))
           /\ Range(Tail(q)) = Range(q) \ {Head(q)}
<1>1. DOMAIN q = 1..Len(q) /\ Len(q) > 0 /\ Head(q) = q[1]
  BY SMTT(30)
<1>2. /\ Tail(q) \in Seq(S) /\ DOMAIN Tail(q) = 1..(Len(q) - 1)
      /\ \A k \in 1..(Len(q) - 1) : Tail(q)[k] = q[k + 1]
  BY <1>1, SMTT(30)
<1>3. Head(q) \in S /\ Head(q) \in Range(q)
  BY <1>1, SMTT(30) DEF Range
<1>4. \A x, y \in 1..Len(q) : q[x] = q[y] => x = y
  BY <1>1 DEF IsInjective
<1>5. \A k \in 1..(Len(q) - 1) : k + 1 \in 1..Len(q) /\ k + 1 # 1
  BY <1>1, SMTT(30)
<1>6. IsInjective(Tail(q))
  BY <1>2, <1>4, <1>5, SMTT(30) DEF IsInjective
<1>7. Range(Tail(q)) \subseteq Range(q) \ {Head(q)}
  <2>1. ASSUME NEW k \in 1..(Len(q) - 1) PROVE Tail(q)[k] \in Range(q) \ {Head(q)}
    <3>1. q[k + 1] # q[1] /\ q[k + 1] \in Range(q)
      BY <1>1, <1>4, <1>5, SMTT(30) DEF Range
    <3> QED BY <1>1, <1>2, <3>1
  <2> QED BY <1>2, <2>1 DEF Range
<1>8. ASSUME NEW k \in 1..Len(q), k # 1 PROVE q[k] \in Range(Tail(q))
  <2>1. k - 1 \in 1..(Len(q) - 1) /\ Tail(q)[k - 1] = q[k]
    BY <1>2, <1>8, SMTT(30)
  <2> QED BY <1>2, <2>1 DEF Range
<1>9. Range(q) \ {Head(q)} \subseteq Range(Tail(q))
  BY <1>1, <1>8 DEF Range
<1> QED BY <1>2, <1>3, <1>6, <1>7, <1>9

LEMMA EmptyOnce == IsInjective(<<>>) /\ Range(<<>>) = {}
  BY SMTT(30) DEF IsInjective, Range

-----------------------------------------------------------------------------
(* Subscriptions that are established again (Resubscribe).                 *)

ResTypes ==
    /\ loop \in {"try", "subscribing", "backoff", "established", "unsub",
                 "drain", "again", "ended"}
    /\ try \in 0..Tries
    /\ fn \in [Try -> {"none", "run", "give", "gone"}]
    /\ gives \in [Try -> {"sub", "error"}]
    /\ producer \in [Try -> {"none", "run", "out", "gone"}]
    /\ user \in {"none", "send", "wait", "done"}

\* The tries come one after the other: those to come have not been begun, and
\* of those before the present one nothing is left.
OneByOne ==
    \A t \in Try :
        /\ t > try => fn[t] = "none"
        /\ t < try => fn[t] = "gone" /\ producer[t] \in {"none", "gone"}
        /\ producer[t] = "none" <=> gives[t] = "error"
        /\ fn[t] \in {"none", "run"} => producer[t] = "none"
        /\ t \in unsubscribed => producer[t] = "gone" \/ (t = try /\ loop = "drain")

\* What the place of the loop says of the present try.
PresentTry ==
    /\ try = 0 => loop = "try"
    /\ loop \in {"try", "backoff", "again"} /\ try > 0 =>
          fn[try] = "gone" /\ producer[try] \in {"none", "gone"}
    /\ loop = "subscribing" => fn[try] \in {"run", "give"}
    /\ loop \in {"established", "unsub", "drain"} => fn[try] = "gone"
    /\ loop = "ended" =>
          \/ fn[try] = "gone" /\ producer[try] \in {"none", "gone"}
          \/ fn[try] \in {"run", "give"} /\ user # "none"

ResInv == ResTypes /\ OneByOne /\ PresentTry

LEMMA ResInvInit == ResInit => ResInv
<1> USE TriesAssumption DEF Try
<1>1. ASSUME ResInit PROVE ResTypes
  BY <1>1, SMTT(30) DEF ResInit, ResTypes
<1>2. ASSUME ResInit PROVE OneByOne /\ PresentTry
  BY <1>2, SMTT(30) DEF ResInit, OneByOne, PresentTry
<1> QED BY <1>1, <1>2 DEF ResInv

LEMMA ResInvStays == ResInv /\ UNCHANGED resvars => ResInv'
  BY DEF ResInv, ResTypes, OneByOne, PresentTry, resvars

LEMMA ResInvStep == ResInv /\ ResNext => ResInv'
<1> SUFFICES ASSUME ResInv, ResNext PROVE ResInv'
  OBVIOUS
<1> USE TriesAssumption DEF Try
<1> USE DEF ResInv, ResTypes, OneByOne, PresentTry
<1>1. CASE UnsubscribeInner BY <1>1, SMTT(30) DEF UnsubscribeInner
<1>2. CASE DrainInner BY <1>2 DEF DrainInner, Drained
<1>3. CASE StartTry BY <1>3, SMTT(30) DEF StartTry
<1>4. CASE Subscribed BY <1>4, SMTT(30) DEF Subscribed
<1>5. CASE BackoffOver BY <1>5 DEF BackoffOver
<1>6. CASE InnerError BY <1>6 DEF InnerError
<1>7. CASE Again BY <1>7, SMTT(30) DEF Again
<1>8. CASE ReceiveUnsub BY <1>8, SMTT(30) DEF ReceiveUnsub
<1>9. CASE CallUnsubscribe BY <1>9 DEF CallUnsubscribe
<1>10. CASE Unsubscribed BY <1>10 DEF Unsubscribed
<1>11. ASSUME NEW u \in Try, FnReturns(u) PROVE ResInv'
  BY <1>11, SMTT(30) DEF FnReturns
<1>12. ASSUME NEW u \in Try, ProducerReturns(u) PROVE ResInv'
  BY <1>12, SMTT(30) DEF ProducerReturns
<1>13. ASSUME NEW u \in Try, ProducerEnds(u) PROVE ResInv'
  BY <1>13, SMTT(30) DEF ProducerEnds
<1> HIDE DEF ResInv
<1> QED
  BY <1>1, <1>2, <1>3, <1>4, <1>5, <1>6, <1>7, <1>8, <1>9, <1>10, <1>11, <1>12,
     <1>13 DEF ResNext, LoopStep

LEMMA ResInvGives == ResInv => OneSubscription
<1> SUFFICES ASSUME ResInv, NEW t \in Try, producer[t] \in {"run", "out"}
             PROVE  \/ t = try /\ loop # "ended" /\ loop # "try"
                    \/ fn[t] = "give" /\ loop = "ended" /\ user # "none"
  BY DEF OneSubscription
<1> USE TriesAssumption DEF ResInv, ResTypes, OneByOne, PresentTry, Try
<1>1. t = try
  BY SMTT(30)
<1> QED BY <1>1, SMTT(30)

-----------------------------------------------------------------------------
(* Scopes (SubscriptionScope).                                             *)

Tracked(s) == wrapper[s] \in {"tracked", "calling"}

\* A tracked subscription is in subs, until Close has taken these into todo,
\* where it stays until it is out of the feed.
ScopeInv ==
    /\ wrapper \in [Sub -> {"none", "subscribed", "nil", "tracked", "calling", "done"}]
    /\ closed \in BOOLEAN /\ mu \in BOOLEAN
    /\ mu => closed
    /\ \A s \in Sub :
          /\ wrapper[s] = "done" => state[s] = "off"
          /\ Tracked(s) => \/ ~closed /\ s \in subs
                           \/ mu /\ s \in todo
                           \/ state[s] = "off"

LEMMA ScopeInvInit == Init /\ ScopeInit => ScopeInv
  BY DEF Init, ScopeInit, ScopeInv, Tracked

LEMMA ScopeInvStays == ScopeInv /\ UNCHANGED <<state, scopevars>> => ScopeInv'
  BY SMTT(30) DEF ScopeInv, Tracked, scopevars

\* The feed takes no subscription back that is off.
OffStays == \A s \in Sub : state[s] = "off" => state'[s] = "off"

LEMMA OffStaysOff ==
    ASSUME state \in [Sub -> {"new", "on", "removing", "off"}]
    PROVE  /\ \A p \in Sender : SendStep(p) => OffStays
           /\ \A s \in Sub : RemoveSub(s) \/ Receive(s) \/ Subscribe(s) => OffStays
           /\ \A s \in Sub : Once(s) => OffStays
<1> USE DEF OffStays
<1>1. ASSUME NEW p \in Sender, SendStep(p) PROVE OffStays
  BY <1>1 DEF SendStep, BeginSend, Collect, TrySend, EndOfTries, SelectSend, FinishSend
<1>2. ASSUME NEW s \in Sub, RemoveSub(s) PROVE OffStays
  BY <1>2 DEF RemoveSub, RemoveLocked, RemoveInSend
<1>3. ASSUME NEW s \in Sub, Receive(s) PROVE OffStays
  BY <1>3 DEF Receive
<1>4. ASSUME NEW s \in Sub, Subscribe(s) PROVE OffStays
  BY <1>4 DEF Subscribe
<1>5. ASSUME NEW s \in Sub, Once(s) PROVE OffStays
  BY <1>5 DEF Once, RemoveFromInbox, vars
<1> QED BY <1>1, <1>2, <1>3, <1>4, <1>5

LEMMA ScopeInvStep ==
    ScopeInv /\ state \in [Sub -> {"new", "on", "removing", "off"}] /\ ScopeNext
       => ScopeInv'
<1> SUFFICES ASSUME ScopeInv, ScopeNext,
                    state \in [Sub -> {"new", "on", "removing", "off"}]
             PROVE  ScopeInv'
  OBVIOUS
<1> USE ScopedAssumption DEF ScopeInv, Tracked
<1>1. CASE /\ \/ \E p \in Sender : SendStep(p)
              \/ \E s \in Sub : RemoveSub(s) \/ Receive(s)
           /\ UNCHANGED scopevars
  <2>1. OffStays
    BY <1>1, OffStaysOff
  <2> QED BY <1>1, <2>1 DEF OffStays, scopevars
<1>2. ASSUME NEW s \in Scoped, SubscribeTracked(s) PROVE ScopeInv'
  <2>1. OffStays /\ s \in Sub
    BY <1>2, OffStaysOff DEF SubscribeTracked
  <2> QED BY <1>2, <2>1 DEF OffStays, SubscribeTracked
<1>3. ASSUME NEW s \in Scoped, Track(s) PROVE ScopeInv'
  BY <1>3 DEF Track, vars
<1>4. ASSUME NEW s \in Scoped, Unsubscribe(s) PROVE ScopeInv'
  <2>1. OffStays /\ s \in Sub
    BY <1>4, OffStaysOff DEF Unsubscribe
  <2> QED BY <1>4, <2>1 DEF OffStays, Unsubscribe
<1>5. ASSUME NEW s \in Scoped, Untrack(s) PROVE ScopeInv'
  BY <1>5 DEF Untrack, vars
<1>6. CASE BeginClose
  BY <1>6 DEF BeginClose, vars
<1>7. ASSUME NEW s \in Sub, CloseOne(s) PROVE ScopeInv'
  <2>1. OffStays
    BY <1>7, OffStaysOff DEF CloseOne
  <2> QED BY <1>7, <2>1 DEF OffStays, CloseOne
<1>8. CASE CloseNext
  BY <1>8 DEF CloseNext, vars
<1>9. CASE EndClose
  BY <1>9 DEF EndClose, vars
<1> QED
  BY <1>1, <1>2, <1>3, <1>4, <1>5, <1>6, <1>7, <1>8, <1>9 DEF ScopeNext, CloseStep

LEMMA ScopeInvGives == ScopeInv => ScopeClosed
  BY DEF ScopeInv, ScopeClosed, Tracked

-----------------------------------------------------------------------------
(* The feed.                                                               *)

FeedTypes ==
    /\ sendCases \in Seq(Sub) /\ inbox \in Seq(Sub)
    /\ sendLock \in Sender \cup {None}
    /\ pc \in [Sender -> {"idle", "collect", "try", "select", "finish"}]
    /\ count \in [Sender -> 0..Sends]
    /\ active \in Nat /\ i \in Nat \ {0}
    /\ state \in [Sub -> {"new", "on", "removing", "off"}]

\* A channel is in one place of the slice or of the inbox, exactly while it is
\* subscribed; one that a remove has not found in the inbox is in the slice.
InOnePlace ==
    /\ IsInjective(sendCases) /\ IsInjective(inbox)
    /\ Range(sendCases) \cap Range(inbox) = {}
    /\ \A s \in Sub :
          /\ state[s] \in {"on", "removing"} <=> s \in Range(sendCases) \cup Range(inbox)
          /\ state[s] = "removing" => s \notin Range(inbox)

\* The Send that is in progress has the lock; its active cases are in the slice.
SendInProgress ==
    \A p \in Sender :
        /\ pc[p] # "idle" <=> sendLock = p
        /\ pc[p] # "idle" => count[p] > 0
        /\ pc[p] \in {"try", "select"} => active <= Len(sendCases)
        /\ pc[p] = "finish" => active = 0
        /\ p \in Sending => current = ValueOf(p)

FeedInv == FeedTypes /\ InOnePlace /\ SendInProgress

LEMMA FeedInvInit == Init => FeedInv
<1> SUFFICES ASSUME Init PROVE FeedInv
  OBVIOUS
<1>1. FeedTypes
  BY FeedAssumption, SMTT(30) DEF Init, FeedTypes
<1>2. Range(sendCases) = {} /\ Range(inbox) = {} /\ IsInjective(sendCases) /\ IsInjective(inbox)
  BY SMTT(30) DEF Init, Range, IsInjective
<1>3. InOnePlace
  BY <1>2 DEF Init, InOnePlace
<1>4. SendInProgress
  BY FeedAssumption DEF Init, SendInProgress, Sending
<1> QED BY <1>1, <1>3, <1>4 DEF FeedInv

LEMMA FeedInvStays == FeedInv /\ UNCHANGED vars => FeedInv'
  BY DEF FeedInv, FeedTypes, InOnePlace, SendInProgress, Sending, ValueOf, vars, send

\* The abstract feed's members, and a step of it or none.
Member == {s \in Sub : state[s] \in {"on", "removing"}}
PlainStep == Plain!Next \/ UNCHANGED <<Member, Waiting, current, received>>

LEMMA MembersPlaced == FeedInv => Member = Range(sendCases) \cup Range(inbox)
<1> SUFFICES ASSUME FeedInv PROVE Member = Range(sendCases) \cup Range(inbox)
  OBVIOUS
<1>1. Range(sendCases) \subseteq Sub /\ Range(inbox) \subseteq Sub
  BY SMTT(30) DEF FeedInv, FeedTypes, Range
<1> QED BY <1>1 DEF FeedInv, InOnePlace, Member

LEMMA WaitingIs ==
    /\ Sending = {} => Waiting = {}
    /\ \A p \in Sending : Waiting = First(sendCases, active)
  BY DEF Waiting, First

LEMMA OneSends ==
    ASSUME FeedInv, NEW p \in Sender, pc[p] # "idle"
    PROVE  /\ \A r \in Sender : r # p => pc[r] = "idle"
           /\ pc[p] \in {"try", "select", "finish"} => Sending = {p}
           /\ pc[p] = "collect" => Sending = {}
  BY DEF FeedInv, FeedTypes, SendInProgress, Sending

LEMMA SubscribeStep ==
    ASSUME FeedInv, NEW s \in Sub, Subscribe(s)
    PROVE  FeedInv' /\ PlainStep
<1> USE DEF Subscribe, send
<1>1. s \notin Range(sendCases) \cup Range(inbox)
  BY DEF FeedInv, InOnePlace
<1>2. inbox' \in Seq(Sub) /\ IsInjective(inbox') /\ Range(inbox') = Range(inbox) \cup {s}
  BY <1>1, AppendOnce DEF FeedInv, FeedTypes, InOnePlace
<1>3. FeedTypes'
  BY <1>2 DEF FeedInv, FeedTypes
<1>4. InOnePlace'
  BY <1>1, <1>2 DEF FeedInv, FeedTypes, InOnePlace
<1>5. SendInProgress'
  BY DEF FeedInv, SendInProgress, Sending, ValueOf
<1>6. Member' = Member \cup {s} /\ Waiting' = Waiting
  BY DEF FeedInv, FeedTypes, Member, Waiting, Sending
<1>7. Plain!Join(s)
  BY <1>6 DEF Plain!Join, Member
<1> QED BY <1>3, <1>4, <1>5, <1>7 DEF FeedInv, PlainStep, Plain!Next

LEMMA RemoveFromInboxStep ==
    ASSUME FeedInv, NEW s \in Sub, RemoveFromInbox(s)
    PROVE  FeedInv' /\ PlainStep
<1> USE DEF RemoveFromInbox, send
<1>1. CASE s \in Range(inbox)
  <2>1. /\ inbox' \in Seq(Sub) /\ IsInjective(inbox')
        /\ Range(inbox') = Range(inbox) \ {s}
    <3>1. Find(inbox, s) \in 1..Len(inbox) /\ inbox[Find(inbox, s)] = s
      BY <1>1, FindIs DEF FeedInv, FeedTypes
    <3> QED BY <1>1, <3>1, DeleteIs, DeleteOnce, SMTT(30) DEF FeedInv, FeedTypes, InOnePlace
  <2>2. FeedTypes'
    BY <1>1, <2>1 DEF FeedInv, FeedTypes
  <2>3. InOnePlace'
    BY <1>1, <2>1 DEF FeedInv, FeedTypes, InOnePlace
  <2>4. SendInProgress'
    BY <1>1 DEF FeedInv, SendInProgress, Sending, ValueOf
  <2>5. s \notin Waiting
    <3>1. s \notin Range(sendCases)
      BY <1>1 DEF FeedInv, InOnePlace
    <3>2. ASSUME Sending # {} PROVE active <= Len(sendCases)
      BY <3>2, SMTT(30) DEF FeedInv, FeedTypes, SendInProgress, Sending
    <3> QED BY <3>1, <3>2, SMTT(30) DEF Waiting, Range, FeedInv, FeedTypes
  <2>6. Member' = Member \ {s} /\ Waiting' = Waiting
    BY <1>1 DEF FeedInv, FeedTypes, Member, Waiting, Sending
  <2>7. Plain!Leave(s)
    BY <2>5, <2>6 DEF Plain!Leave, Member
  <2> QED BY <2>2, <2>3, <2>4, <2>7 DEF FeedInv, PlainStep, Plain!Next
<1>2. CASE s \notin Range(inbox)
  <2>1. FeedTypes'
    BY <1>2 DEF FeedInv, FeedTypes
  <2>2. InOnePlace'
    BY <1>2 DEF FeedInv, FeedTypes, InOnePlace
  <2>3. SendInProgress'
    BY <1>2 DEF FeedInv, SendInProgress, Sending, ValueOf
  <2>4. Member' = Member /\ Waiting' = Waiting
    BY <1>2 DEF FeedInv, FeedTypes, Member, Waiting, Sending
  <2> QED BY <2>1, <2>2, <2>3, <2>4 DEF FeedInv, PlainStep
<1> QED BY <1>1, <1>2

\* A channel that is being removed is in the slice.
LEMMA RemovingFound ==
    ASSUME FeedInv, NEW s \in Sub, state[s] = "removing"
    PROVE  /\ Find(sendCases, s) \in 1..Len(sendCases)
           /\ sendCases[Find(sendCases, s)] = s
           /\ Delete(sendCases, Find(sendCases, s)) \in Seq(Sub)
           /\ Len(Delete(sendCases, Find(sendCases, s))) = Len(sendCases) - 1
           /\ IsInjective(Delete(sendCases, Find(sendCases, s)))
           /\ Range(Delete(sendCases, Find(sendCases, s))) = Range(sendCases) \ {s}
<1>1. s \in Range(sendCases)
  BY DEF FeedInv, InOnePlace
<1>2. Find(sendCases, s) \in 1..Len(sendCases) /\ sendCases[Find(sendCases, s)] = s
  BY <1>1, FindIs DEF FeedInv, FeedTypes
<1> QED BY <1>2, DeleteIs, DeleteOnce, SMTT(30) DEF FeedInv, FeedTypes, InOnePlace

LEMMA RemoveLockedStep ==
    ASSUME FeedInv, NEW s \in Sub, RemoveLocked(s)
    PROVE  FeedInv' /\ PlainStep
<1> USE DEF RemoveLocked, send
<1>1. /\ sendCases' \in Seq(Sub) /\ IsInjective(sendCases')
      /\ Range(sendCases') = Range(sendCases) \ {s}
  BY RemovingFound
<1>2. \A p \in Sender : pc[p] = "idle"
  BY FeedAssumption DEF FeedInv, FeedTypes, SendInProgress
<1>3. FeedTypes'
  BY <1>1 DEF FeedInv, FeedTypes
<1>4. InOnePlace'
  BY <1>1 DEF FeedInv, FeedTypes, InOnePlace
<1>5. SendInProgress'
  BY <1>2 DEF FeedInv, SendInProgress, Sending, ValueOf
<1>6. Member' = Member \ {s} /\ Waiting = {} /\ Waiting' = {}
  BY <1>2 DEF FeedInv, FeedTypes, Member, Waiting, Sending
<1>7. Plain!Leave(s)
  BY <1>6 DEF Plain!Leave, Member
<1> QED BY <1>3, <1>4, <1>5, <1>7 DEF FeedInv, PlainStep, Plain!Next

LEMMA RemoveInSendStep ==
    ASSUME FeedInv, NEW s \in Sub, NEW p \in Sender, RemoveInSend(p, s)
    PROVE  FeedInv' /\ PlainStep
<1> DEFINE n == Find(sendCases, s)
<1>1. /\ sendCases' = Delete(sendCases, n) /\ active' = (IF n <= active THEN active - 1 ELSE active)
      /\ state[s] = "removing" /\ pc[p] = "select" /\ pc' = [pc EXCEPT ![p] = "try"]
      /\ state' = [state EXCEPT ![s] = "off"] /\ i' = 1
      /\ UNCHANGED <<inbox, sendLock, nsent, count, chan, received, current>>
  BY DEF RemoveInSend, ActiveAfter
<1>2. /\ n \in 1..Len(sendCases) /\ sendCases[n] = s
      /\ sendCases' \in Seq(Sub) /\ Len(sendCases') = Len(sendCases) - 1
      /\ IsInjective(sendCases') /\ Range(sendCases') = Range(sendCases) \ {s}
  BY <1>1, RemovingFound
<1>3. active \in 0..Len(sendCases) /\ sendCases \in Seq(Sub) /\ IsInjective(sendCases)
  BY <1>1, SMTT(30) DEF FeedInv, FeedTypes, SendInProgress, InOnePlace
<1>4. First(sendCases', active') = First(sendCases, active) \ {s}
  BY <1>1, <1>2, <1>3, DeleteOnce, SMTT(30)
<1>5. active' \in Nat /\ active' <= Len(sendCases')
  BY <1>1, <1>2, <1>3, SMTT(30)
<1> HIDE DEF n
<1>6. FeedTypes'
  BY <1>1, <1>2, <1>5, SMTT(30) DEF FeedInv, FeedTypes
<1>7. InOnePlace'
  BY <1>1, <1>2 DEF FeedInv, FeedTypes, InOnePlace
<1>8. \A r \in Sender : r # p => pc[r] = "idle"
  BY <1>1, OneSends
<1>9. SendInProgress'
  BY <1>1, <1>5, <1>8 DEF FeedInv, FeedTypes, SendInProgress, Sending, ValueOf
<1>10. p \in Sending /\ (p \in Sending)'
  BY <1>1 DEF FeedInv, FeedTypes, Sending
<1>11. Waiting = First(sendCases, active) /\ Waiting' = First(sendCases', active')
  BY <1>10 DEF Waiting, First
<1>12. Member' = Member \ {s}
  BY <1>1 DEF FeedInv, FeedTypes, Member
<1>13. Plain!Leave(s)
  BY <1>1, <1>4, <1>11, <1>12 DEF Plain!Leave, Member
<1> QED BY <1>6, <1>7, <1>9, <1>13 DEF FeedInv, PlainStep, Plain!Next

LEMMA BeginSendStep ==
    ASSUME FeedInv, NEW p \in Sender, BeginSend(p)
    PROVE  FeedInv' /\ PlainStep
<1> USE DEF BeginSend
<1>1. FeedTypes'
  BY FeedAssumption, SMTT(30) DEF FeedInv, FeedTypes
<1>2. InOnePlace'
  BY DEF FeedInv, InOnePlace
<1>3. \A r \in Sender : pc[r] = "idle"
  BY FeedAssumption DEF FeedInv, FeedTypes, SendInProgress
<1>4. SendInProgress'
  BY <1>3, FeedAssumption, SMTT(30) DEF FeedInv, FeedTypes, SendInProgress, Sending, ValueOf
<1>5. Sending = {} /\ Sending' = {}
  BY <1>3 DEF FeedInv, FeedTypes, Sending
<1>6. Member' = Member /\ Waiting' = Waiting
  BY <1>5 DEF Member, Waiting
<1> QED BY <1>1, <1>2, <1>4, <1>6 DEF FeedInv, PlainStep

LEMMA CollectStep ==
    ASSUME FeedInv, NEW p \in Sender, Collect(p)
    PROVE  FeedInv' /\ PlainStep
<1> USE DEF Collect
<1>1. /\ sendCases' \in Seq(Sub) /\ IsInjective(sendCases')
      /\ Range(sendCases') = Range(sendCases) \cup Range(inbox)
      /\ First(sendCases', active') = Range(sendCases) \cup Range(inbox)
  BY ConcatOnce, SMTT(30) DEF FeedInv, FeedTypes, InOnePlace
<1>2. Range(inbox') = {} /\ IsInjective(inbox')
  BY SMTT(30) DEF Range, IsInjective
<1>3. active' \in Nat /\ active' = Len(sendCases')
  BY <1>1, SMTT(30)
<1>4. FeedTypes'
  BY <1>1, <1>3, SMTT(30) DEF FeedInv, FeedTypes
<1>5. InOnePlace'
  BY <1>1, <1>2 DEF FeedInv, InOnePlace
<1>6. (\A r \in Sender : r # p => pc[r] = "idle") /\ Sending = {}
  BY OneSends
<1>7. SendInProgress'
  BY <1>3, <1>6, SMTT(30) DEF FeedInv, FeedTypes, SendInProgress, Sending, ValueOf
<1>8. (p \in Sending)'
  BY DEF FeedInv, FeedTypes, Sending
<1>9. Waiting = {} /\ Waiting' = First(sendCases', active') /\ Member' = Member
  BY <1>6, <1>8 DEF Waiting, First, Member
<1>10. Waiting' = Member
  BY <1>1, <1>9, MembersPlaced
<1>11. ValueOf(p) \in Values
  BY FeedAssumption, SMTT(30) DEF FeedInv, FeedTypes, SendInProgress, ValueOf, Values
<1>12. Plain!Publish(ValueOf(p))
  BY <1>9, <1>10 DEF Plain!Publish, Member
<1> QED BY <1>4, <1>5, <1>7, <1>11, <1>12 DEF FeedInv, PlainStep, Plain!Next

\* A send to an active case is a delivery.
LEMMA SendToStep ==
    ASSUME FeedInv, NEW p \in Sender, pc[p] \in {"try", "select"}, NEW n \in 1..active,
           SendTo(p, n), i' \in Nat \ {0},
           pc' = [pc EXCEPT ![p] = "try"],
           UNCHANGED <<inbox, sendLock, count, state, current>>
    PROVE  FeedInv' /\ PlainStep
<1> DEFINE s == sendCases[n]
<1>1. /\ sendCases' = Deactivate(sendCases, n, active) /\ active' = active - 1
      /\ received' = [received EXCEPT ![s] = Append(@, ValueOf(p))]
  BY DEF SendTo
<1>2. active \in 1..Len(sendCases) /\ sendCases \in Seq(Sub) /\ IsInjective(sendCases)
  BY SMTT(30) DEF FeedInv, FeedTypes, SendInProgress, InOnePlace
<1>3. /\ sendCases' \in Seq(Sub) /\ Len(sendCases') = Len(sendCases)
      /\ IsInjective(sendCases') /\ Range(sendCases') = Range(sendCases)
      /\ First(sendCases', active') = First(sendCases, active) \ {s}
  <2>1. PICK q \in Seq(Sub) : q = sendCases
    BY <1>2
  <2>2. PICK a \in 1..Len(q) : a = active
    BY <1>2, <2>1
  <2>3. IsInjective(q) /\ n \in 1..a
    BY <1>2, <2>1, <2>2
  <2>4. /\ Deactivate(q, n, a) \in Seq(Sub) /\ Len(Deactivate(q, n, a)) = Len(q)
        /\ IsInjective(Deactivate(q, n, a)) /\ Range(Deactivate(q, n, a)) = Range(q)
        /\ First(Deactivate(q, n, a), a - 1) = First(q, a) \ {q[n]}
    BY <2>3, DeactivateIs, SMTT(30)
  <2> QED BY <1>1, <2>1, <2>2, <2>4
<1>4. s \in Sub /\ s \in First(sendCases, active) /\ active' \in Nat /\ active' <= Len(sendCases')
  <2>1. active \in Nat /\ active - 1 \in Nat /\ active - 1 <= Len(sendCases)
    BY <1>2, SMTT(30)
  <2>2. n \in 1..active /\ n \in DOMAIN sendCases /\ sendCases[n] \in Sub
    BY <1>2, SMTT(30)
  <2> QED BY <1>1, <1>3, <2>1, <2>2 DEF First
<1> HIDE DEF s
<1>5. FeedTypes'
  BY <1>3, <1>4 DEF FeedInv, FeedTypes
<1>6. InOnePlace'
  BY <1>3 DEF FeedInv, InOnePlace
<1>7. (\A r \in Sender : r # p => pc[r] = "idle") /\ p \in Sending
  BY OneSends DEF Sending
<1>8. SendInProgress'
  BY <1>4, <1>7 DEF FeedInv, FeedTypes, SendInProgress, Sending, ValueOf
<1>9. (p \in Sending)'
  BY DEF FeedInv, FeedTypes, Sending
<1>10. /\ Waiting = First(sendCases, active) /\ Waiting' = First(sendCases', active')
       /\ Member' = Member
  BY <1>7, <1>9 DEF Waiting, First, Member
<1>11. current = ValueOf(p)
  BY <1>7 DEF FeedInv, SendInProgress
<1>12. Plain!Deliver(s)
  BY <1>1, <1>3, <1>4, <1>10, <1>11 DEF Plain!Deliver, Member
<1> QED BY <1>4, <1>5, <1>6, <1>8, <1>12 DEF FeedInv, PlainStep, Plain!Next

LEMMA TrySendStep ==
    ASSUME FeedInv, NEW p \in Sender, TrySend(p)
    PROVE  FeedInv' /\ PlainStep
<1> USE DEF TrySend
<1>1. pc[p] = "try" /\ i \in 1..active
  BY SMTT(30) DEF FeedInv, FeedTypes
<1>2. CASE HasRoom(sendCases[i])
  <2>1. pc' = [pc EXCEPT ![p] = "try"] /\ SendTo(p, i) /\ i' \in Nat \ {0}
    BY <1>1, <1>2 DEF FeedInv, FeedTypes
  <2> QED BY <1>1, <2>1, SendToStep
<1>3. CASE ~HasRoom(sendCases[i])
  <2>1. FeedTypes'
    BY <1>3, SMTT(30) DEF FeedInv, FeedTypes
  <2>2. InOnePlace' /\ SendInProgress'
    BY <1>3 DEF FeedInv, InOnePlace, SendInProgress, Sending, ValueOf
  <2>3. Member' = Member /\ Waiting' = Waiting
    BY <1>3 DEF Member, Waiting, Sending
  <2> QED BY <1>3, <2>1, <2>2, <2>3 DEF FeedInv, PlainStep
<1> QED BY <1>2, <1>3

LEMMA SelectSendStep ==
    ASSUME FeedInv, NEW p \in Sender, SelectSend(p)
    PROVE  FeedInv' /\ PlainStep
<1>1. PICK n \in 1..active : SendTo(p, n)
  BY DEF SelectSend
<1>2. /\ pc[p] = "select" /\ pc' = [pc EXCEPT ![p] = "try"] /\ i' \in Nat \ {0}
      /\ UNCHANGED <<inbox, sendLock, count, state, current>>
  BY SMTT(30) DEF SelectSend
<1> QED BY <1>1, <1>2, SendToStep

LEMMA EndOfTriesStep ==
    ASSUME FeedInv, NEW p \in Sender, EndOfTries(p)
    PROVE  FeedInv' /\ PlainStep
<1> USE DEF EndOfTries
<1>1. FeedTypes'
  BY DEF FeedInv, FeedTypes
<1>2. InOnePlace'
  BY DEF FeedInv, InOnePlace
<1>3. \A r \in Sender : r # p => pc[r] = "idle"
  BY OneSends
<1>4. SendInProgress'
  BY <1>3 DEF FeedInv, FeedTypes, SendInProgress, Sending, ValueOf
<1>5. p \in Sending /\ (p \in Sending)'
  BY DEF FeedInv, FeedTypes, Sending
<1>6. Member' = Member /\ Waiting' = Waiting
  BY <1>5 DEF Member, Waiting
<1> QED BY <1>1, <1>2, <1>4, <1>6 DEF FeedInv, PlainStep

LEMMA FinishSendStep ==
    ASSUME FeedInv, NEW p \in Sender, FinishSend(p)
    PROVE  FeedInv' /\ PlainStep
<1> USE DEF FinishSend
<1>1. FeedTypes'
  BY DEF FeedInv, FeedTypes
<1>2. InOnePlace'
  BY DEF FeedInv, InOnePlace
<1>3. \A r \in Sender : r # p => pc[r] = "idle"
  BY OneSends
<1>4. SendInProgress'
  BY <1>3, FeedAssumption DEF FeedInv, FeedTypes, SendInProgress, Sending, ValueOf
<1>5. p \in Sending /\ Sending' = {} /\ active = 0
  BY <1>3 DEF FeedInv, FeedTypes, SendInProgress, Sending
<1>6. Member' = Member /\ Waiting = {} /\ Waiting' = {}
  BY <1>5, SMTT(30) DEF Member, Waiting
<1> QED BY <1>1, <1>2, <1>4, <1>6 DEF FeedInv, PlainStep

LEMMA ReceiveStep ==
    ASSUME FeedInv, NEW s \in Sub, Receive(s)
    PROVE  FeedInv' /\ PlainStep
<1> USE DEF Receive, send
<1>1. FeedInv'
  BY DEF FeedInv, FeedTypes, InOnePlace, SendInProgress, Sending, ValueOf
<1>2. Member' = Member /\ Waiting' = Waiting
  BY DEF Member, Waiting, Sending
<1> QED BY <1>1, <1>2 DEF PlainStep

LEMMA FeedStep ==
    ASSUME FeedInv, Next \/ UNCHANGED vars
    PROVE  FeedInv' /\ PlainStep
<1>1. CASE UNCHANGED vars
  BY <1>1, FeedInvStays DEF PlainStep, Member, Waiting, Sending, vars, send
<1>2. ASSUME NEW p \in Sender, SendStep(p) PROVE FeedInv' /\ PlainStep
  BY <1>2, BeginSendStep, CollectStep, TrySendStep, EndOfTriesStep, SelectSendStep,
     FinishSendStep DEF SendStep
<1>3. ASSUME NEW s \in Sub, Subscribe(s) \/ RemoveFromInbox(s) \/ RemoveSub(s) \/ Receive(s)
      PROVE  FeedInv' /\ PlainStep
  BY <1>3, SubscribeStep, RemoveFromInboxStep, RemoveLockedStep, RemoveInSendStep,
     ReceiveStep DEF RemoveSub
<1> QED BY <1>1, <1>2, <1>3 DEF Next

\* A scope's steps are the feed's or leave it alone.
LEMMA ScopeOnFeed == ScopeNext => Next \/ UNCHANGED vars
<1> USE ScopedAssumption
<1>1. ASSUME NEW s \in Sub, Once(s) PROVE Next \/ UNCHANGED vars
  BY <1>1 DEF Once, Next
<1> QED
  BY <1>1 DEF ScopeNext, Next, SubscribeTracked, Track, Unsubscribe, Untrack, BeginClose,
     CloseStep, CloseOne, CloseNext, EndClose

-----------------------------------------------------------------------------
(* The mux.                                                                *)

MuxTypes ==
    /\ subm \in [Type -> Seq(Receiver)] /\ stopped \in BOOLEAN
    /\ made \subseteq Receiver /\ closing \subseteq ended /\ ended \subseteq made
    /\ postC \in [Receiver -> {"open", "nil"}]
    /\ closeMu \in [Receiver -> Closer \cup {Nobody}]
    /\ ppc \in [Post -> {"idle", "posting", "refused", "next", "select", "done"}]
    /\ rest \in [Post -> Seq(Receiver)]
    /\ older \in [Post -> SUBSET Receiver]
    /\ cpc \in [Closer -> {"idle", "loop", "call", "post", "done"}]
    /\ target \in [Closer -> Receiver \cup {Nobody}]
    /\ left \subseteq made
    /\ got \in [Receiver -> Seq(Post)]

\* A list has the subscriptions of its type, each once.
ListsExact ==
    \A t \in Type :
        /\ IsInjective(subm[t])
        /\ \A s \in Range(subm[t]) : s \in made /\ t \in TypesOf[s]

\* What a post has left are receivers of its type it has not come to.
PostsInOrder ==
    \A p \in Post :
        /\ IsInjective(rest[p])
        /\ \A s \in Range(rest[p]) :
              s \in made /\ TypeOf[p] \in TypesOf[s] /\ p \notin Range(got[s])
        /\ ppc[p] \in {"idle", "posting"} =>
              \A s \in Receiver : p \notin Range(got[s])
        /\ ppc[p] = "select" => rest[p] # <<>>
        /\ ppc[p] = "done" => rest[p] = <<>>
        /\ older[p] \subseteq made

EventsOnce ==
    \A s \in Receiver :
        IsInjective(got[s]) /\ \A p \in Range(got[s]) : TypeOf[p] \in TypesOf[s]

\* closeMu is held from the close of closing to that of the channel.
ClosedOnce ==
    \A s \in Receiver :
        /\ s \notin ended => postC[s] = "open" /\ closeMu[s] = Nobody
        /\ s \in ended => (postC[s] = "nil" <=> closeMu[s] = Nobody)
        /\ \A c \in Closer : closeMu[s] = c <=> cpc[c] = "post" /\ target[c] = s

Closers ==
    /\ stopped <=> cpc[Stop] = "done"
    /\ \A c \in Closer : cpc[c] \in {"call", "post"} => target[c] \in made
    /\ \A s \in Receiver :
          /\ cpc[s] # "loop"
          /\ cpc[s] \in {"call", "post"} => target[s] = s
          /\ cpc[s] = "done" => postC[s] = "nil"

\* A subscription nobody has begun to remove is in its lists, until Stop takes
\* them, and in what Stop has left, until its channel is closed.
StopReaches ==
    \A s \in made :
        cpc[s] = "idle" =>
            \/ cpc[Stop] = "idle" /\ \A t \in TypesOf[s] : s \in Range(subm[t])
            \/ cpc[Stop] \in {"loop", "call", "post"} /\ s \in left
            \/ cpc[Stop] \in {"call", "post"} /\ target[Stop] = s
            \/ cpc[Stop] # "idle" /\ (postC[s] = "nil" \/ TypesOf[s] = {})

\* A post has reached or still has before it all it found.
PostReaches ==
    \A p \in Post, s \in Receiver :
        /\ ppc[p] \in {"next", "select", "done"} /\ TypeOf[p] \in TypesOf[s]
        /\ s \in older[p] \ ended /\ cpc[s] = "idle"
        => s \in Range(rest[p]) \/ p \in Range(got[s])

MuxInv ==
    /\ MuxTypes /\ ListsExact /\ PostsInOrder /\ EventsOnce /\ ClosedOnce
    /\ Closers /\ StopReaches /\ PostReaches

LEMMA MuxInvInit == MuxInit => MuxInv
<1> SUFFICES ASSUME MuxInit PROVE MuxInv
  OBVIOUS
<1> USE MuxAssumption, EmptyOnce DEF MuxInit
<1>1. MuxTypes
  <2>1. <<>> \in Seq(Receiver) /\ <<>> \in Seq(Post)
    BY SMTT(30)
  <2>2. /\ subm \in [Type -> Seq(Receiver)] /\ rest \in [Post -> Seq(Receiver)]
        /\ got \in [Receiver -> Seq(Post)]
    BY <2>1
  <2>3. stopped \in BOOLEAN
    OBVIOUS
  <2>4. /\ made \subseteq Receiver /\ closing \subseteq ended /\ ended \subseteq made
        /\ left \subseteq made /\ older \in [Post -> SUBSET Receiver]
    OBVIOUS
  <2>5. /\ postC \in [Receiver -> {"open", "nil"}]
        /\ closeMu \in [Receiver -> Closer \cup {Nobody}]
        /\ ppc \in [Post -> {"idle", "posting", "refused", "next", "select", "done"}]
        /\ cpc \in [Closer -> {"idle", "loop", "call", "post", "done"}]
        /\ target \in [Closer -> Receiver \cup {Nobody}]
    OBVIOUS
  <2> QED BY <2>2, <2>3, <2>4, <2>5 DEF MuxTypes
<1>2. ListsExact /\ PostsInOrder /\ EventsOnce
  BY DEF ListsExact, PostsInOrder, EventsOnce
<1>3. ClosedOnce /\ Closers
  BY DEF ClosedOnce, Closers, Closer
<1>4. StopReaches /\ PostReaches
  BY DEF StopReaches, PostReaches
<1> QED BY <1>1, <1>2, <1>3, <1>4 DEF MuxInv

LEMMA MuxInvStays == MuxInv /\ UNCHANGED muxvars => MuxInv'
<1> SUFFICES ASSUME MuxInv, UNCHANGED muxvars PROVE MuxInv'
  OBVIOUS
<1> USE DEF muxvars, MuxInv
<1>1. MuxTypes' /\ ListsExact' /\ PostsInOrder' /\ EventsOnce'
  BY DEF MuxTypes, ListsExact, PostsInOrder, EventsOnce
<1>2. ClosedOnce' /\ Closers' /\ StopReaches' /\ PostReaches'
  BY SMTT(30) DEF ClosedOnce, Closers, StopReaches, PostReaches
<1> QED BY <1>1, <1>2

(* A step of a post leaves what is closed, and by whom, alone.             *)
LEMMA ClosingAlone ==
    ASSUME ClosedOnce, Closers, StopReaches,
           UNCHANGED <<subm, stopped, made, ended, postC, closeMu, cpc, target, left>>
    PROVE  ClosedOnce' /\ Closers' /\ StopReaches'
<1>1. ClosedOnce'
  BY SMTT(30) DEF ClosedOnce
<1>2. Closers'
  BY SMTT(30) DEF Closers
<1>3. StopReaches'
  BY SMTT(30) DEF StopReaches
<1> QED BY <1>1, <1>2, <1>3

LEMMA MuxSubscribeStep ==
    ASSUME MuxInv, NEW s \in Receiver, MuxSubscribe(s)
    PROVE  MuxInv'
<1> USE DEF MuxInv, MuxSubscribe, MuxTypes
<1>1. s \notin made /\ s \notin ended /\ postC[s] = "open" /\ closeMu[s] = Nobody
  BY DEF ClosedOnce
<1>2. ASSUME NEW t \in Type, ~stopped
      PROVE  /\ subm'[t] \in Seq(Receiver) /\ IsInjective(subm'[t])
             /\ Range(subm'[t]) = Range(subm[t]) \cup (IF t \in TypesOf[s] THEN {s} ELSE {})
  <2>1. s \notin Range(subm[t]) /\ IsInjective(subm[t])
    BY <1>1 DEF ListsExact
  <2>2. CASE t \in TypesOf[s]
    <3>1. subm'[t] = Append(subm[t], s) /\ subm[t] \in Seq(Receiver)
      BY <1>2, <2>2
    <3> HIDE DEF MuxInv, MuxSubscribe, MuxTypes
    <3>2. /\ subm'[t] \in Seq(Receiver) /\ IsInjective(subm'[t])
          /\ Range(subm'[t]) = Range(subm[t]) \cup {s}
      BY <2>1, <3>1, AppendOnce, SMTT(30)
    <3> QED BY <2>2, <3>2
  <2>3. CASE t \notin TypesOf[s]
    BY <1>2, <2>1, <2>3
  <2> QED BY <2>2, <2>3
<1>3. MuxTypes'
  <2>1. subm' \in [Type -> Seq(Receiver)]
    BY <1>2
  <2> QED BY <2>1
<1>4. ListsExact'
  <2>1. CASE stopped
    BY <2>1 DEF ListsExact
  <2>2. CASE ~stopped
    <3> SUFFICES ASSUME NEW t \in Type
                 PROVE  /\ IsInjective(subm'[t])
                        /\ \A r \in Range(subm'[t]) : r \in made' /\ t \in TypesOf[r]
      BY DEF ListsExact
    <3>1. /\ IsInjective(subm'[t]) /\ made' = made \cup {s}
          /\ Range(subm'[t]) = Range(subm[t]) \cup (IF t \in TypesOf[s] THEN {s} ELSE {})
          /\ \A r \in Range(subm[t]) : r \in made /\ t \in TypesOf[r]
      BY <1>2, <2>2 DEF ListsExact
    <3> QED BY <3>1
  <2> QED BY <2>1, <2>2
<1>5. PostsInOrder' /\ EventsOnce'
  BY DEF PostsInOrder, EventsOnce
<1>6. ClosedOnce'
  <2> SUFFICES ASSUME NEW r \in Receiver
               PROVE  /\ r \notin ended' => postC'[r] = "open" /\ closeMu'[r] = Nobody
                      /\ r \in ended' => (postC'[r] = "nil" <=> closeMu'[r] = Nobody)
                      /\ \A c \in Closer : closeMu'[r] = c <=> cpc'[c] = "post" /\ target'[c] = r
    BY DEF ClosedOnce
  <2>1. /\ r \notin ended => postC[r] = "open" /\ closeMu[r] = Nobody
        /\ r \in ended => (postC[r] = "nil" <=> closeMu[r] = Nobody)
        /\ \A c \in Closer : closeMu[r] = c <=> cpc[c] = "post" /\ target[c] = r
    BY DEF ClosedOnce
  <2>2. /\ UNCHANGED <<closeMu, cpc, target>>
        /\ \/ postC'[r] = postC[r] /\ (r \in ended' <=> r \in ended)
           \/ r = s /\ s \in ended' /\ postC'[s] = "nil"
    OBVIOUS
  <2> QED BY <1>1, <2>1, <2>2
<1>7. Closers'
  BY <1>1 DEF Closers
<1>8. StopReaches'
  <2> SUFFICES ASSUME NEW r \in made', cpc'[r] = "idle"
               PROVE  \/ cpc'[Stop] = "idle" /\ \A t \in TypesOf[r] : r \in Range(subm'[t])
                      \/ cpc'[Stop] \in {"loop", "call", "post"} /\ r \in left'
                      \/ cpc'[Stop] \in {"call", "post"} /\ target'[Stop] = r
                      \/ cpc'[Stop] # "idle" /\ (postC'[r] = "nil" \/ TypesOf[r] = {})
    BY DEF StopReaches
  <2>1. r \in Receiver /\ TypesOf[r] \subseteq Type /\ cpc' = cpc
        /\ target' = target /\ left' = left
    BY MuxAssumption
  <2>2. CASE stopped
    <3>1. cpc[Stop] = "done" /\ postC' = [postC EXCEPT ![s] = "nil"] /\ made' = made \cup {s}
      BY <2>2 DEF Closers
    <3>2. CASE r = s
      BY <2>1, <3>1, <3>2
    <3>3. CASE r # s
      BY <2>1, <2>2, <3>1, <3>3 DEF StopReaches
    <3> QED BY <3>2, <3>3
  <2>3. CASE ~stopped
    <3>1. cpc[Stop] = "idle" /\ made' = made \cup {s}
      BY <2>3 DEF Closers, mutexFree
    <3>2. ASSUME NEW t \in TypesOf[r] PROVE r \in Range(subm'[t])
      <4>1. Range(subm'[t]) = Range(subm[t]) \cup (IF t \in TypesOf[s] THEN {s} ELSE {})
        BY <1>2, <2>1, <2>3
      <4>2. r # s => r \in Range(subm[t])
        BY <2>1, <3>1 DEF StopReaches
      <4> QED BY <4>1, <4>2
    <3> QED BY <2>1, <3>1, <3>2
  <2> QED BY <2>2, <2>3
<1>9. PostReaches'
  BY DEF PostReaches
<1> QED BY <1>3, <1>4, <1>5, <1>6, <1>7, <1>8, <1>9

LEMMA BeginPostStep ==
    ASSUME MuxInv, NEW p \in Post, BeginPost(p)
    PROVE  MuxInv'
<1> USE DEF MuxInv, BeginPost, MuxTypes
<1>1. MuxTypes' /\ ListsExact' /\ EventsOnce'
  BY DEF ListsExact, EventsOnce
<1>2. PostsInOrder'
  BY DEF PostsInOrder
<1>3. ClosedOnce' /\ Closers' /\ StopReaches'
  BY ClosingAlone
<1>4. PostReaches'
  BY DEF PostReaches
<1> QED BY <1>1, <1>2, <1>3, <1>4

LEMMA ListSubsStep ==
    ASSUME MuxInv, NEW p \in Post, ListSubs(p)
    PROVE  MuxInv'
<1> USE DEF MuxInv, ListSubs, MuxTypes
<1>1. TypeOf[p] \in Type
  BY MuxAssumption
<1>2. MuxTypes'
  BY <1>1
<1>3. ListsExact' /\ EventsOnce'
  BY DEF ListsExact, EventsOnce
<1>4. PostsInOrder'
  BY <1>1 DEF PostsInOrder, ListsExact
<1>5. ClosedOnce' /\ Closers' /\ StopReaches'
  BY ClosingAlone
<1>6. ASSUME ~stopped, NEW s \in made, cpc[s] = "idle", TypeOf[p] \in TypesOf[s]
      PROVE  s \in Range(subm[TypeOf[p]])
  BY <1>6 DEF StopReaches, Closers, mutexFree
<1>7. PostReaches'
  <2> SUFFICES ASSUME NEW r \in Post, NEW s \in Receiver,
                      ppc'[r] \in {"next", "select", "done"}, TypeOf[r] \in TypesOf[s],
                      s \in older'[r] \ ended', cpc'[s] = "idle"
               PROVE  s \in Range(rest'[r]) \/ r \in Range(got'[s])
    BY DEF PostReaches
  <2>1. CASE r = p
    <3>1. ~stopped /\ rest'[p] = subm[TypeOf[p]]
      BY <2>1
    <3>2. s \in made /\ cpc[s] = "idle"
      BY <2>1 DEF PostsInOrder
    <3> QED BY <1>6, <2>1, <3>1, <3>2
  <2>2. CASE r # p
    <3>1. ppc'[r] = ppc[r] /\ rest'[r] = rest[r]
      BY <2>2
    <3> QED BY <3>1 DEF PostReaches
  <2> QED BY <2>1, <2>2
<1> QED BY <1>2, <1>3, <1>4, <1>5, <1>7

\* A post goes on to the next receiver without an event for the present one.
LEMMA PassOverStep ==
    ASSUME MuxInv, NEW p \in Post, ppc[p] \in {"next", "select"}, rest[p] # <<>>,
           Head(rest[p]) \notin older[p] \/ Head(rest[p]) \in ended,
           rest' = [rest EXCEPT ![p] = Tail(@)], ppc' = [ppc EXCEPT ![p] = "next"],
           UNCHANGED <<subm, stopped, made, closing, ended, postC, closeMu, older,
                       cpc, target, left, got>>
    PROVE  MuxInv'
<1> USE DEF MuxInv, MuxTypes
<1>1. /\ Head(rest[p]) \in Receiver
      /\ Tail(rest[p]) \in Seq(Receiver) /\ IsInjective(Tail(rest[p]))
      /\ Range(Tail(rest[p])) = Range(rest[p]) \ {Head(rest[p])}
  BY TailOnce DEF PostsInOrder
<1>2. MuxTypes' /\ ListsExact' /\ EventsOnce'
  BY <1>1 DEF ListsExact, EventsOnce
<1>3. PostsInOrder'
  BY <1>1 DEF PostsInOrder
<1>4. ClosedOnce' /\ Closers' /\ StopReaches'
  BY ClosingAlone
<1>5. PostReaches'
  BY <1>1 DEF PostReaches
<1> QED BY <1>2, <1>3, <1>4, <1>5

LEMMA PostNextStep ==
    ASSUME MuxInv, NEW p \in Post, PostNext(p)
    PROVE  MuxInv'
<1>1. ppc[p] = "next" /\ UNCHANGED <<subm, stopped, made, closing, ended, postC, closeMu,
                                     older, cpc, target, left, got>>
  BY DEF PostNext
<1>2. ASSUME rest' = rest, NEW w \in {"done", "select"}, ppc' = [ppc EXCEPT ![p] = w],
             w = "done" <=> rest[p] = <<>>
      PROVE  MuxInv'
  <2> USE <1>1, <1>2 DEF MuxInv, MuxTypes
  <2>1. MuxTypes' /\ ListsExact' /\ EventsOnce'
    BY DEF ListsExact, EventsOnce
  <2>2. PostsInOrder'
    BY DEF PostsInOrder
  <2>3. ClosedOnce' /\ Closers' /\ StopReaches'
    BY ClosingAlone
  <2>4. PostReaches'
    BY DEF PostReaches
  <2> QED BY <2>1, <2>2, <2>3, <2>4
<1>3. CASE rest[p] = <<>>
  BY <1>2, <1>3 DEF PostNext
<1>4. CASE rest[p] # <<>> /\ rest' = [rest EXCEPT ![p] = Tail(@)] /\ UNCHANGED ppc
            /\ Head(rest[p]) \notin older[p]
  <2>1. ppc' = [ppc EXCEPT ![p] = "next"]
    BY <1>1, <1>4 DEF MuxInv, MuxTypes
  <2> QED BY <1>1, <1>4, <2>1, PassOverStep
<1>5. CASE rest[p] # <<>> /\ rest' = rest /\ ppc' = [ppc EXCEPT ![p] = "select"]
  BY <1>2, <1>5
<1> QED BY <1>3, <1>4, <1>5 DEF PostNext

LEMMA SendingStep ==
    ASSUME MuxInv, NEW p \in Post, Send(p)
    PROVE  MuxInv'
<1> DEFINE s == Head(rest[p])
<1>1. /\ ppc[p] = "select" /\ rest' = [rest EXCEPT ![p] = Tail(@)]
      /\ ppc' = [ppc EXCEPT ![p] = "next"] /\ got' = [got EXCEPT ![s] = Append(@, p)]
      /\ UNCHANGED <<subm, stopped, made, closing, ended, postC, closeMu, older, cpc,
                     target, left>>
  BY DEF Send, Delivered
<1> USE DEF MuxInv, MuxTypes
<1>2. /\ s \in Receiver /\ s \in Range(rest[p])
      /\ Tail(rest[p]) \in Seq(Receiver) /\ IsInjective(Tail(rest[p]))
      /\ Range(Tail(rest[p])) = Range(rest[p]) \ {s}
  BY <1>1, TailOnce DEF PostsInOrder
<1>3. p \notin Range(got[s]) /\ TypeOf[p] \in TypesOf[s]
  BY <1>2 DEF PostsInOrder
<1>4. /\ Append(got[s], p) \in Seq(Post) /\ IsInjective(Append(got[s], p))
      /\ Range(Append(got[s], p)) = Range(got[s]) \cup {p}
  <2>1. got[s] \in Seq(Post) /\ IsInjective(got[s])
    BY <1>2 DEF EventsOnce
  <2>2. PICK q \in Seq(Post) : q = got[s]
    BY <2>1
  <2>3. IsInjective(q) /\ p \notin Range(q)
    BY <1>3, <2>1, <2>2
  <2> HIDE DEF s, MuxInv, MuxTypes
  <2>4. /\ Append(q, p) \in Seq(Post) /\ IsInjective(Append(q, p))
        /\ Range(Append(q, p)) = Range(q) \cup {p}
    BY <2>3, AppendOnce, SMTT(30)
  <2> QED BY <2>2, <2>4
<1> HIDE DEF s
<1>5. MuxTypes' /\ ListsExact'
  BY <1>1, <1>2, <1>4 DEF ListsExact
<1>6. EventsOnce'
  BY <1>1, <1>2, <1>3, <1>4 DEF EventsOnce
<1>7. \A r \in Receiver : Range(got'[r]) = Range(got[r]) \cup (IF r = s THEN {p} ELSE {})
  BY <1>1, <1>2, <1>4
<1>8. PostsInOrder'
  BY <1>1, <1>2, <1>7, SMTT(30) DEF PostsInOrder
<1>9. ClosedOnce' /\ Closers' /\ StopReaches'
  <2>1. ClosedOnce'
    BY <1>1, SMTT(30) DEF ClosedOnce
  <2>2. Closers' /\ StopReaches'
    BY <1>1 DEF Closers, StopReaches
  <2> QED BY <2>1, <2>2
<1>10. PostReaches'
  BY <1>1, <1>2, <1>7 DEF PostReaches
<1> QED BY <1>5, <1>6, <1>8, <1>9, <1>10

LEMMA GiveUpStep ==
    ASSUME MuxInv, NEW p \in Post, GiveUp(p)
    PROVE  MuxInv'
<1>1. /\ ppc[p] = "select" /\ rest[p] # <<>> /\ Head(rest[p]) \in ended
  BY DEF GiveUp, Delivered, MuxInv, MuxTypes, PostsInOrder
<1> QED BY <1>1, PassOverStep DEF GiveUp, Delivered

LEMMA DelStep ==
    ASSUME MuxInv, NEW s \in Receiver, Del(s)
    PROVE  MuxInv'
<1> USE MuxAssumption DEF MuxInv, Del, MuxTypes, Closer
<1>1. ASSUME NEW t \in Type
      PROVE  /\ subm'[t] \in Seq(Receiver) /\ IsInjective(subm'[t])
             /\ Range(subm'[t]) = Range(subm[t]) \ {s}
  <2>1. subm[t] \in Seq(Receiver) /\ IsInjective(subm[t]) /\ subm'[t] = posdelete(subm[t], s)
    BY DEF ListsExact
  <2> HIDE DEF Del, MuxInv, MuxTypes
  <2> QED BY <2>1, PosdeleteOnce, SMTT(30)
<1>2. MuxTypes'
  <2>1. subm' \in [Type -> Seq(Receiver)]
    BY <1>1
  <2> QED BY <2>1
<1>3. ListsExact'
  BY <1>1 DEF ListsExact
<1>4. PostsInOrder' /\ EventsOnce'
  BY DEF PostsInOrder, EventsOnce
<1>5. ClosedOnce'
  BY DEF ClosedOnce
<1>6. Closers'
  BY DEF Closers
<1>7. StopReaches'
  BY <1>1, SMTT(30) DEF StopReaches
<1>8. PostReaches'
  BY DEF PostReaches
<1> QED BY <1>2, <1>3, <1>4, <1>5, <1>6, <1>7, <1>8

LEMMA BeginStopStep ==
    ASSUME MuxInv, BeginStop
    PROVE  MuxInv'
<1> USE MuxAssumption DEF MuxInv, BeginStop, MuxTypes, Closer
<1>1. /\ left' \subseteq made
      /\ \A s \in made : cpc[s] = "idle" => s \in left' \/ TypesOf[s] = {}
  <2>1. \A t \in Type : \A r \in Range(subm[t]) : r \in made
    BY DEF ListsExact
  <2>2. \A r \in made : cpc[r] = "idle" => \A t \in TypesOf[r] : r \in Range(subm[t])
    BY DEF StopReaches
  <2>3. \A r \in made : TypesOf[r] \subseteq Type
    OBVIOUS
  <2>4. left' = UNION {Range(subm[t]) : t \in Type}
    OBVIOUS
  <2> HIDE MuxAssumption DEF MuxInv, BeginStop, MuxTypes, Closer
  <2> QED BY <2>1, <2>2, <2>3, <2>4
<1>2. MuxTypes'
  BY <1>1
<1>3. ListsExact' /\ PostsInOrder' /\ EventsOnce'
  BY DEF ListsExact, PostsInOrder, EventsOnce
<1>4. ClosedOnce'
  BY SMTT(30) DEF ClosedOnce
<1>5. Closers'
  BY DEF Closers
<1>6. StopReaches'
  BY <1>1 DEF StopReaches
<1>7. PostReaches'
  BY DEF PostReaches
<1> QED BY <1>2, <1>3, <1>4, <1>5, <1>6, <1>7

LEMMA StopNextStep ==
    ASSUME MuxInv, StopNext
    PROVE  MuxInv'
<1> USE MuxAssumption DEF MuxInv, StopNext, MuxTypes, Closer
<1>1. CASE left = {}
  <2> USE <1>1
  <2>1. MuxTypes'
    <3>1. subm' = [t \in Type |-> <<>>] /\ stopped' = TRUE
      OBVIOUS
    <3>2. subm' \in [Type -> Seq(Receiver)]
      BY <3>1, SMTT(30)
    <3>3. stopped' \in BOOLEAN
      BY <3>1
    <3>4. cpc' \in [Closer -> {"idle", "loop", "call", "post", "done"}]
      BY SMTT(30)
    <3> QED BY <3>2, <3>3, <3>4
  <2>2. ListsExact' /\ PostsInOrder' /\ EventsOnce'
    BY EmptyOnce, SMTT(30) DEF ListsExact, PostsInOrder, EventsOnce
  <2>3. ClosedOnce'
    BY SMTT(30) DEF ClosedOnce
  <2>4. Closers'
    BY DEF Closers
  <2>5. StopReaches'
    BY DEF StopReaches
  <2>6. PostReaches'
    BY DEF PostReaches
  <2> QED BY <2>1, <2>2, <2>3, <2>4, <2>5, <2>6
<1>2. CASE left # {}
  <2>1. PICK s \in left : /\ left' = left \ {s}
                          /\ target' = [target EXCEPT ![Stop] = s]
                          /\ cpc' = [cpc EXCEPT ![Stop] = "call"]
                          /\ UNCHANGED <<subm, stopped>>
    BY <1>2
  <2> USE <1>2, <2>1
  <2>2. MuxTypes'
    OBVIOUS
  <2>3. ListsExact' /\ PostsInOrder' /\ EventsOnce'
    BY DEF ListsExact, PostsInOrder, EventsOnce
  <2>4. ClosedOnce'
    BY SMTT(30) DEF ClosedOnce
  <2>5. Closers'
    BY DEF Closers
  <2>6. StopReaches'
    BY DEF StopReaches
  <2>7. PostReaches'
    BY DEF PostReaches
  <2> QED BY <2>2, <2>3, <2>4, <2>5, <2>6, <2>7
<1> QED BY <1>1, <1>2

LEMMA ClosewaitStep ==
    ASSUME MuxInv, NEW c \in Closer, Closewait(c)
    PROVE  MuxInv'
<1> DEFINE s == target[c]
<1> USE MuxAssumption DEF MuxInv, MuxTypes, Closer
<1>1. /\ cpc[c] = "call" /\ closeMu[s] = Nobody /\ s \in made
      /\ UNCHANGED <<subm, stopped, made, postC, readers, ppc, rest, older, target, left, got>>
  BY DEF Closewait, Closers
<1>2. CASE s \in ended
  <2>1. cpc' = [cpc EXCEPT ![c] = Return(c)] /\ UNCHANGED <<closing, ended, closeMu>>
    BY <1>2 DEF Closewait, AlreadyClosed
  <2>2. postC[s] = "nil"
    BY <1>1, <1>2, SMTT(30) DEF ClosedOnce
  <2>3. c \in Receiver => s = c
    BY <1>1 DEF Closers
  <2> HIDE DEF s
  <2> USE <1>1, <2>1
  <2>4. MuxTypes'
    BY DEF Return
  <2>5. ListsExact' /\ PostsInOrder' /\ EventsOnce'
    BY DEF ListsExact, PostsInOrder, EventsOnce
  <2>6. ClosedOnce'
    BY SMTT(30) DEF ClosedOnce, Return
  <2>7. Closers'
    BY <2>2, <2>3 DEF Closers, Return
  <2>8. StopReaches'
    BY <2>2 DEF StopReaches, Return, s
  <2>9. PostReaches'
    BY DEF PostReaches, Return
  <2> QED BY <2>4, <2>5, <2>6, <2>7, <2>8, <2>9
<1>3. CASE s \notin ended
  <2>1. /\ cpc' = [cpc EXCEPT ![c] = "post"] /\ closeMu' = [closeMu EXCEPT ![s] = c]
        /\ closing' = closing \cup {s} /\ ended' = ended \cup {s}
    BY <1>3 DEF Closewait, AlreadyClosed
  <2>2. postC[s] = "open"
    BY <1>3, <1>1 DEF ClosedOnce
  <2> USE <1>1, <1>3, <2>1
  <2>3. MuxTypes'
    OBVIOUS
  <2>4. ListsExact' /\ PostsInOrder' /\ EventsOnce'
    BY DEF ListsExact, PostsInOrder, EventsOnce
  <2>5. ClosedOnce'
    BY <2>2, SMTT(30) DEF ClosedOnce
  <2>6. Closers'
    BY DEF Closers
  <2>7. StopReaches'
    BY DEF StopReaches
  <2>8. PostReaches'
    BY DEF PostReaches
  <2> QED BY <2>3, <2>4, <2>5, <2>6, <2>7, <2>8
<1> QED BY <1>2, <1>3

LEMMA ClosePostCStep ==
    ASSUME MuxInv, NEW c \in Closer, ClosePostC(c)
    PROVE  MuxInv'
<1> DEFINE s == target[c]
<1> USE MuxAssumption DEF MuxInv, MuxTypes, Closer
<1>1. /\ cpc[c] = "post" /\ s \in made /\ closeMu[s] = c /\ s \in ended /\ postC[s] = "open"
      /\ (c \in Receiver => s = c)
  <2>1. cpc[c] = "post"
    BY DEF ClosePostC
  <2>2. s \in made /\ (c \in Receiver => s = c)
    BY <2>1 DEF Closers
  <2>3. closeMu[s] = c
    BY <2>1, <2>2 DEF ClosedOnce
  <2>4. s \in ended /\ postC[s] # "nil"
    BY <2>2, <2>3, SMTT(30) DEF ClosedOnce
  <2> QED BY <2>1, <2>2, <2>3, <2>4
<1>2. /\ postC' = [postC EXCEPT ![s] = "nil"]
      /\ closeMu' = [closeMu EXCEPT ![s] = Nobody]
      /\ cpc' = [cpc EXCEPT ![c] = Return(c)]
      /\ UNCHANGED <<subm, stopped, made, closing, ended, readers, ppc, rest, older,
                     target, left, got>>
  BY <1>1 DEF ClosePostC
<1> USE <1>1, <1>2
<1>3. MuxTypes'
  BY DEF Return
<1>4. ListsExact' /\ PostsInOrder' /\ EventsOnce'
  BY DEF ListsExact, PostsInOrder, EventsOnce
<1>5. ClosedOnce'
  BY SMTT(30) DEF ClosedOnce, Return
<1>6. Closers'
  BY DEF Closers, Return
<1>7. StopReaches'
  BY DEF StopReaches, Return
<1>8. PostReaches'
  BY DEF PostReaches, Return
<1> QED BY <1>3, <1>4, <1>5, <1>6, <1>7, <1>8

LEMMA MuxInvStep == MuxInv /\ MuxNext => MuxInv'
  BY MuxSubscribeStep, DelStep, BeginPostStep, ListSubsStep, PostNextStep, GiveUpStep,
     SendingStep, BeginStopStep, ClosewaitStep, ClosePostCStep, StopNextStep
     DEF MuxNext, PosterStep, CloserStep

\* What MuxExact says of every state, and of every step.
PostsReceived ==
    \A s \in Receiver :
        /\ postC[s] # "panic"
        /\ IsInjective(got[s]) /\ \A p \in Range(got[s]) : TypeOf[p] \in TypesOf[s]
        /\ \A p \in Post :
              /\ ppc[p] = "done" /\ TypeOf[p] \in TypesOf[s]
              /\ s \in older[p] \ ended /\ cpc[s] = "idle"
              => p \in Range(got[s])

NoneAfterClose ==
    \A s \in Receiver :
        got'[s] # got[s] => cpc[s] # "done" /\ (cpc[Stop] = "done" => cpc[s] # "idle")

LEMMA MuxInvGives == MuxInv => PostsReceived
  BY EmptyOnce DEF MuxInv, MuxTypes, EventsOnce, PostsInOrder, PostReaches, PostsReceived

LEMMA MuxStepGives == MuxInv /\ MuxNext => NoneAfterClose
<1> SUFFICES ASSUME MuxInv, MuxNext, NEW s \in Receiver, got'[s] # got[s]
             PROVE  cpc[s] # "done" /\ (cpc[Stop] = "done" => cpc[s] # "idle")
  BY DEF NoneAfterClose
<1>1. PICK p \in Post : Send(p)
  BY DEF MuxNext, MuxSubscribe, Del, BeginPost, PosterStep, ListSubs, PostNext, GiveUp,
     BeginStop, CloserStep, Closewait, ClosePostC, StopNext
<1>2. ppc[p] = "select" /\ postC[Head(rest[p])] = "open"
      /\ got' = [got EXCEPT ![Head(rest[p])] = Append(@, p)]
  BY <1>1 DEF Send, Delivered
<1>3. s = Head(rest[p])
  BY <1>2 DEF MuxInv, MuxTypes
<1>4. s \in made /\ TypesOf[s] # {}
  BY <1>2, <1>3, TailOnce DEF MuxInv, MuxTypes, PostsInOrder
<1>5. cpc[s] # "done"
  BY <1>2, <1>3 DEF MuxInv, Closers
<1>6. ASSUME cpc[Stop] = "done" PROVE cpc[s] # "idle"
  BY <1>2, <1>3, <1>4, <1>6 DEF MuxInv, StopReaches
<1> QED BY <1>5, <1>6

-----------------------------------------------------------------------------
(* The package.                                                            *)

EventsInv == ResInv /\ ScopeInv /\ FeedInv /\ MuxInv

LEMMA EventsInvInit == EInit => EventsInv
  BY ResInvInit, ScopeInvInit, FeedInvInit, MuxInvInit DEF EInit, EventsInv

\* Each part steps by itself, and the scope with its feed.
LEMMA PartSteps ==
    EventsInv /\ [ENext]_evars =>
       /\ ResNext \/ UNCHANGED resvars
       /\ Next \/ UNCHANGED vars
       /\ ScopeNext \/ UNCHANGED scopevars
       /\ MuxNext \/ UNCHANGED muxvars
  BY ScopeOnFeed DEF ENext, evars

LEMMA ScopeStays == EventsInv /\ [ENext]_evars => ScopeInv'
<1> SUFFICES ASSUME EventsInv, [ENext]_evars PROVE ScopeInv'
  OBVIOUS
<1> USE DEF EventsInv
<1>1. state \in [Sub -> {"new", "on", "removing", "off"}]
  BY DEF FeedInv, FeedTypes
<1>2. CASE ScopeNext
  BY <1>1, <1>2, ScopeInvStep
<1>3. CASE UNCHANGED <<vars, scopevars>>
  BY <1>3, ScopeInvStays DEF vars
<1>4. CASE part = "feed" /\ Next /\ UNCHANGED scopevars
  <2>1. OffStays
    <3>1. ASSUME NEW s \in Sub, RemoveFromInbox(s) PROVE OffStays
      BY <1>1, <3>1 DEF OffStays, RemoveFromInbox
    <3> QED BY <1>1, <1>4, <3>1, OffStaysOff DEF Next
  <2> QED BY <1>4, <2>1 DEF ScopeInv, Tracked, OffStays, scopevars
<1> QED BY <1>2, <1>3, <1>4 DEF ENext, evars

LEMMA EventsInvStep == EventsInv /\ [ENext]_evars => EventsInv'
<1> SUFFICES ASSUME EventsInv, [ENext]_evars PROVE EventsInv'
  OBVIOUS
<1>1. ResInv'
  BY PartSteps, ResInvStep, ResInvStays DEF EventsInv
<1>2. ScopeInv'
  BY ScopeStays
<1>3. FeedInv'
  BY PartSteps, FeedStep DEF EventsInv
<1>4. MuxInv'
  BY PartSteps, MuxInvStep, MuxInvStays DEF EventsInv
<1> QED BY <1>1, <1>2, <1>3, <1>4 DEF EventsInv

LEMMA EventsSafe == ESpec => EInit /\ [][ENext]_evars
  BY PTL DEF ESpec

LEMMA EventsAlways == ESpec => []EventsInv
  BY EventsSafe, EventsInvInit, EventsInvStep, PTL

\* For any number of tries and whatever fn, the producers and the user do, the
\* loop of Resubscribe keeps at most one subscription.
THEOREM SubscribedOnce == ESpec => []OneSubscription
<1>1. EventsInv => OneSubscription
  BY ResInvGives DEF EventsInv
<1> QED BY <1>1, EventsAlways, PTL

\* Whatever is tracked and unsubscribed meanwhile and whichever Send is blocked,
\* when SubscriptionScope.Close has returned no tracked subscription is left in
\* the feed.
THEOREM ScopesClose == ESpec => []ScopeClosed
<1>1. EventsInv => ScopeClosed
  BY ScopeInvGives DEF EventsInv
<1> QED BY <1>1, EventsAlways, PTL

\* Feed.Send with its swaps in the slice of cases, the inbox and the removals
\* that come in between implements the broadcast, by itself and under a scope.
THEOREM FeedRefinement == ESpec => ImplementsBroadcast
<1>1. EInit => Plain!Init
  BY EmptyOnce DEF EInit, Init, Plain!Init, Waiting, Sending
<1>2. EventsInv /\ [ENext]_evars =>
        [Plain!Next]_<<{s \in Sub : state[s] \in {"on", "removing"}}, Waiting, current, received>>
  BY PartSteps, FeedStep DEF EventsInv, PlainStep, Member
<1> QED BY <1>1, <1>2, EventsSafe, EventsAlways, PTL DEF ImplementsBroadcast, Plain!Spec

\* With any receivers, posts and types, and Stop and Unsubscribe at any point,
\* the mux closes a channel once, and Post reaches each receiver of the type
\* that stays, once, and none that has been closed.
THEOREM MuxAlwaysExact == ESpec => MuxExact
<1>1. EventsInv => PostsReceived
  BY MuxInvGives DEF EventsInv
<1>2. EventsInv /\ [ENext]_evars => [NoneAfterClose]_muxvars
  BY PartSteps, MuxStepGives DEF EventsInv
<1>3. ESpec => []PostsReceived /\ [][NoneAfterClose]_muxvars
  BY <1>1, <1>2, EventsSafe, EventsAlways, PTL
<1> QED BY <1>3 DEF MuxExact, PostsReceived, NoneAfterClose

=============================================================================
