-------------------------- MODULE BlockChainProofs --------------------------
(***************************************************************************)
(* Proofs about the block store, for every tree of blocks, every number of *)
(* stops and, where nothing else is said, every number of goroutines that  *)
(* insert: FindCommonAncestor is exact, a header owns its block, a start   *)
(* never fails, a restart is invisible, and the chain can be served.       *)
(***************************************************************************)
EXTENDS BlockChain, FiniteSetTheorems, SequenceTheorems, WellFoundedInduction, TLAPS

\* The leaves that count or compare heights cite SMT; Zenon is faster on the rest.
USE ZenonT(40)

-----------------------------------------------------------------------------
(***************************************************************************)
(* Induction and recursion over the naturals.  Both rest on the least      *)
(* element of a set of naturals, so that neither needs an operator as a    *)
(* parameter.                                                              *)
(***************************************************************************)

\* A non-empty set of naturals has a least element.
LEMMA LeastNatural ==
    ASSUME NEW T, T \subseteq Nat, T # {}
    PROVE  \E x \in T : \A y \in T : x <= y
<1> DEFINE R == {ss \in Nat \X Nat : ss[1] < ss[2]}
<1>1. IsWellFoundedOn(R, Nat)
  BY NatLessThanWellFounded DEF OpToRel
<1>2. PICK x \in T : \A y \in T : ~(<<y, x>> \in R)
  <2> HIDE DEF R
  <2> QED BY <1>1, WFMin
<1>3. \A y \in T : x <= y
  <2> TAKE y \in T
  <2>1. <<y, x>> \notin R  BY <1>2
  <2>2. ~(y < x)  BY <2>1
  <2> QED BY <2>2, SMTT(30)
<1> QED BY <1>2, <1>3

\* A set that holds 0 and with every natural the next one holds them all.
LEMMA NatSetInduction ==
    ASSUME NEW T, 0 \in T, \A n \in Nat : n \in T => n + 1 \in T
    PROVE  \A n \in Nat : n \in T
<1> DEFINE Bad == {n \in Nat : n \notin T}
<1>1. SUFFICES ASSUME Bad # {} PROVE FALSE
  OBVIOUS
<1>2. PICK n \in Bad : \A k \in Bad : n <= k
  <2>1. Bad \subseteq Nat  OBVIOUS
  <2> HIDE DEF Bad
  <2> QED BY <1>1, <2>1, LeastNatural
<1>3. n \in Nat /\ n \notin T /\ n # 0
  BY <1>2
<1>4. n - 1 \in Nat /\ n - 1 \notin Bad
  <2>1. n - 1 \in Nat  BY <1>3, SMTT(30)
  <2> HIDE DEF Bad
  <2> QED BY <1>2, <1>3, <2>1, SMTT(30)
<1>5. n - 1 \in T  BY <1>4
<1>6. (n - 1) + 1 = n  BY <1>3, SMTT(30)
<1> QED BY <1>3, <1>4, <1>5, <1>6

\* What a walk of at most max rounds computes, from x by step[n] in round n.
IsWalk(f, x, step, max) ==
    f = [n \in 0..max |-> IF n = 0 THEN x ELSE step[n][f[n-1]]]

\* Such a function exists ...
LEMMA WalkExists ==
    ASSUME NEW S, NEW x \in S, NEW step \in [Nat -> [S -> S]]
    PROVE  \A max \in Nat : \E f \in [0..max -> S] : IsWalk(f, x, step, max)
<1> DEFINE Def(m) == \E f \in [0..m -> S] : IsWalk(f, x, step, m)
           T == {m \in Nat : Def(m)}
<1>1. 0 \in T
  <2> DEFINE f == [n \in 0..0 |-> x]
  <2>1. f \in [0..0 -> S]  OBVIOUS
  <2>2. IsWalk(f, x, step, 0)  BY SMTT(30) DEF IsWalk
  <2> QED BY <2>1, <2>2
<1>2. ASSUME NEW m \in Nat, m \in T PROVE m + 1 \in T
  <2>1. PICK f \in [0..m -> S] : IsWalk(f, x, step, m)
    BY <1>2
  <2> DEFINE g == [n \in 0..m+1 |-> IF n = m + 1 THEN step[m+1][f[m]] ELSE f[n]]
  <2>2. g \in [0..m+1 -> S]  BY SMTT(30)
  <2>3. IsWalk(g, x, step, m + 1)
    <3> SUFFICES ASSUME NEW n \in 0..m+1
                 PROVE  g[n] = IF n = 0 THEN x ELSE step[n][g[n-1]]
      BY DEF IsWalk
    <3>1. CASE n = m + 1
      <4>1. g[n] = step[m+1][f[m]] /\ g[m] = f[m] /\ n - 1 = m  BY <3>1, SMTT(30)
      <4> QED BY <3>1, <4>1, SMTT(30)
    <3>2. CASE n # m + 1
      <4>1. n \in 0..m /\ g[n] = f[n]  BY <3>2, SMTT(30)
      <4>2. f[n] = IF n = 0 THEN x ELSE step[n][f[n-1]]
        BY <2>1, <4>1 DEF IsWalk
      <4>3. CASE n = 0  BY <4>1, <4>2, <4>3
      <4>4. CASE n # 0
        <5>1. n - 1 \in 0..m+1 /\ n - 1 # m + 1  BY <4>4, SMTT(30)
        <5>2. g[n-1] = f[n-1]  BY <5>1
        <5> QED BY <4>1, <4>2, <5>2, <4>4
      <4> QED BY <4>3, <4>4
    <3> QED BY <3>1, <3>2
  <2> QED BY <2>2, <2>3, SMTT(30)
<1>3. \A m \in Nat : m \in T
  <2> HIDE DEF T
  <2> QED BY <1>1, <1>2, NatSetInduction
<1> QED BY <1>3

\* ... and a longer walk begins with the shorter one.
LEMMA WalkUnique ==
    ASSUME NEW x, NEW step, NEW max \in Nat, NEW m \in 0..max,
           NEW f, IsWalk(f, x, step, max), NEW g, IsWalk(g, x, step, m)
    PROVE  \A n \in 0..m : f[n] = g[n]
<1> DEFINE T == {n \in Nat : n <= m => f[n] = g[n]}
<1>1. 0 \in T
  <2>1. 0 \in 0..m /\ 0 \in 0..max  BY SMTT(30)
  <2> QED BY <2>1 DEF IsWalk
<1>2. ASSUME NEW n \in Nat, n \in T PROVE n + 1 \in T
  <2> SUFFICES ASSUME n + 1 <= m PROVE f[n+1] = g[n+1]
    BY SMTT(30)
  <2>1. n + 1 \in 0..m /\ n + 1 \in 0..max /\ n + 1 # 0 /\ (n + 1) - 1 = n
    BY SMTT(30)
  <2>2. f[n] = g[n]  BY <1>2, SMTT(30)
  <2>3. f[n+1] = step[n+1][f[n]]  BY <2>1 DEF IsWalk
  <2>4. g[n+1] = step[n+1][g[n]]  BY <2>1 DEF IsWalk
  <2> QED BY <2>2, <2>3, <2>4
<1>3. \A n \in Nat : n \in T
  <2> HIDE DEF T
  <2> QED BY <1>1, <1>2, NatSetInduction
<1> QED BY <1>3, SMTT(30)

-----------------------------------------------------------------------------
(***************************************************************************)
(* The walk over the parents' headers, and FindCommonAncestor.             *)
(***************************************************************************)
Hash == Block \cup {NoHash}

\* One round of the walk.
ParentStep == [n \in Nat |-> [s \in Hash |-> IF s = NoHash THEN NoHash
                                             ELSE ParentHeader(s)]]

LEMMA ParentStepType == ParentStep \in [Nat -> [Hash -> Hash]]
<1>1. \A s \in Block : ParentHeader(s) \in Hash
  BY ChainAssumption DEF ParentHeader, GetHeader, Hash
<1> QED BY <1>1 DEF ParentStep, Hash

\* The function that Up names is that walk.
LEMMA UpWalk ==
    ASSUME NEW h \in Block, NEW d \in Nat
    PROVE  \E f \in [0..d -> Hash] : IsWalk(f, h, ParentStep, d) /\ Up(h, d) = f[d]
<1> DEFINE U(f) == f = [k \in 0..d |-> IF k = 0 THEN h
                          ELSE IF f[k-1] = NoHash THEN NoHash
                          ELSE ParentHeader(f[k-1])]
           up == CHOOSE f : U(f)
<1>1. Up(h, d) = up[d]  BY DEF Up
<1>2. PICK f \in [0..d -> Hash] : IsWalk(f, h, ParentStep, d)
  BY WalkExists, ParentStepType DEF Hash
<1>3. \A k \in 0..d : f[k] = IF k = 0 THEN h ELSE IF f[k-1] = NoHash THEN NoHash
                             ELSE ParentHeader(f[k-1])
  <2> TAKE k \in 0..d
  <2>1. f[k] = IF k = 0 THEN h ELSE ParentStep[k][f[k-1]]
    BY <1>2 DEF IsWalk
  <2>2. CASE k = 0  BY <2>1, <2>2
  <2>3. CASE k # 0
    <3>1. k - 1 \in 0..d /\ k \in Nat  BY <2>3, SMTT(30)
    <3>2. f[k-1] \in Hash  BY <3>1
    <3> QED BY <2>1, <2>3, <3>1, <3>2 DEF ParentStep
  <2> QED BY <2>2, <2>3
<1>4. U(f)  BY <1>3
<1>5. U(up)
  <2> HIDE DEF U
  <2> QED BY <1>4
<1>6. up \in [0..d -> Hash]
  <2> DEFINE T == {k \in Nat : k <= d => up[k] = f[k]}
  <2>1. 0 \in T
    <3>1. 0 \in 0..d  BY SMTT(30)
    <3> HIDE DEF up
    <3> QED BY <3>1, <1>3, <1>5
  <2>2. ASSUME NEW k \in Nat, k \in T PROVE k + 1 \in T
    <3> SUFFICES ASSUME k + 1 <= d PROVE up[k+1] = f[k+1]
      BY SMTT(30)
    <3>1. k + 1 \in 0..d /\ k + 1 # 0 /\ (k + 1) - 1 = k  BY SMTT(30)
    <3>2. up[k] = f[k]  BY <2>2, SMTT(30)
    <3> HIDE DEF up
    <3>3. up[k+1] = IF up[k] = NoHash THEN NoHash ELSE ParentHeader(up[k])
      BY <1>5, <3>1
    <3>4. f[k+1] = IF f[k] = NoHash THEN NoHash ELSE ParentHeader(f[k])
      BY <1>3, <3>1
    <3> QED BY <3>2, <3>3, <3>4
  <2>3. \A k \in Nat : k \in T
    <3> HIDE DEF T
    <3> QED BY <2>1, <2>2, NatSetInduction
  <2>4. \A k \in 0..d : up[k] = f[k]  BY <2>3, SMTT(30)
  <2> HIDE DEF up
  <2>5. up = [k \in 0..d |-> up[k]]  BY <1>5
  <2> QED BY <2>4, <2>5
<1>7. IsWalk(up, h, ParentStep, d)
  <2> HIDE DEF up
  <2> SUFFICES ASSUME NEW k \in 0..d
               PROVE  up[k] = IF k = 0 THEN h ELSE ParentStep[k][up[k-1]]
    BY <1>6 DEF IsWalk
  <2>1. CASE k = 0  BY <2>1, <1>5
  <2>2. CASE k # 0
    <3>1. k - 1 \in 0..d /\ k \in Nat  BY <2>2, SMTT(30)
    <3>2. up[k-1] \in Hash  BY <3>1, <1>6
    <3> QED BY <2>2, <1>5, <3>1, <3>2 DEF ParentStep
  <2> QED BY <2>1, <2>2
<1> QED BY <1>1, <1>6, <1>7

\* Up, one generation at a time.
LEMMA UpSteps ==
    ASSUME NEW h \in Block
    PROVE  /\ Up(h, 0) = h
           /\ \A d \in Nat : /\ Up(h, d) \in Hash
                             /\ Up(h, d + 1) = IF Up(h, d) = NoHash THEN NoHash
                                               ELSE ParentHeader(Up(h, d))
<1>1. Up(h, 0) = h
  <2>1. PICK f \in [0..0 -> Hash] : IsWalk(f, h, ParentStep, 0) /\ Up(h, 0) = f[0]
    BY UpWalk
  <2> QED BY <2>1, SMTT(30) DEF IsWalk
<1>2. ASSUME NEW d \in Nat
      PROVE  /\ Up(h, d) \in Hash
             /\ Up(h, d + 1) = IF Up(h, d) = NoHash THEN NoHash
                               ELSE ParentHeader(Up(h, d))
  <2>1. PICK f \in [0..d -> Hash] : IsWalk(f, h, ParentStep, d) /\ Up(h, d) = f[d]
    BY UpWalk
  <2>2. PICK g \in [0..d+1 -> Hash] :
           IsWalk(g, h, ParentStep, d + 1) /\ Up(h, d + 1) = g[d+1]
    BY UpWalk, SMTT(30)
  <2>3. g[d] = f[d]
    <3>1. d \in 0..d+1 /\ d + 1 \in Nat /\ d \in 0..d  BY SMTT(30)
    <3> QED BY <2>1, <2>2, <3>1, WalkUnique, SMTT(30)
  <2>4. g[d+1] = ParentStep[d+1][g[d]]
    <3>1. d + 1 \in 0..d+1 /\ d + 1 # 0 /\ (d + 1) - 1 = d  BY SMTT(30)
    <3> QED BY <2>2, <3>1 DEF IsWalk
  <2>5. f[d] \in Hash  BY <2>1, SMTT(30)
  <2>6. ParentStep[d+1][f[d]] = IF f[d] = NoHash THEN NoHash ELSE ParentHeader(f[d])
    BY <2>5, SMTT(30) DEF ParentStep
  <2> QED BY <2>1, <2>2, <2>3, <2>4, <2>5, <2>6
<1> QED BY <1>1, <1>2

LEMMA ParentHeaderIs ==
    ASSUME headers \subseteq Block, NEW h \in Block, ParentHeader(h) # NoHash
    PROVE  /\ ParentHeader(h) = Parent[h] /\ Parent[h] \in headers
           /\ Number[Parent[h]] = Number[h] - 1
  BY ChainAssumption DEF ParentHeader, GetHeader

\* A generation up is one number down.
LEMMA UpNumber ==
    ASSUME headers \subseteq Block, NEW h \in Block
    PROVE  \A d \in Nat : Up(h, d) # NoHash =>
                             Up(h, d) \in Block /\ Number[Up(h, d)] = Number[h] - d
<1> DEFINE T == {d \in Nat : Up(h, d) # NoHash =>
                             Up(h, d) \in Block /\ Number[Up(h, d)] = Number[h] - d}
<1>0. Number \in [Block -> Nat]  BY ChainAssumption
<1>1. 0 \in T
  BY UpSteps, <1>0, SMTT(30)
<1>2. ASSUME NEW d \in Nat, d \in T PROVE d + 1 \in T
  <2> SUFFICES ASSUME Up(h, d + 1) # NoHash
               PROVE  /\ Up(h, d + 1) \in Block
                      /\ Number[Up(h, d + 1)] = Number[h] - (d + 1)
    BY SMTT(30)
  <2> DEFINE u == Up(h, d)
  <2>1. u # NoHash /\ Up(h, d + 1) = ParentHeader(u)
    BY UpSteps
  <2>2. u \in Block /\ Number[u] = Number[h] - d
    BY <1>2, <2>1
  <2> HIDE DEF u
  <2>3. ParentHeader(u) \in Block /\ Number[ParentHeader(u)] = Number[u] - 1
    BY <2>1, <2>2, ParentHeaderIs
  <2> QED BY <2>1, <2>2, <2>3, <1>0, SMTT(30)
<1>3. \A d \in Nat : d \in T
  <2> HIDE DEF T
  <2> QED BY <1>1, <1>2, NatSetInduction
<1> QED BY <1>3

\* Nothing follows a header that is missing.
LEMMA UpGone ==
    ASSUME NEW h \in Block, NEW d \in Nat, Up(h, d) = NoHash
    PROVE  \A k \in Nat : Up(h, d + k) = NoHash
<1> DEFINE T == {k \in Nat : Up(h, d + k) = NoHash}
<1>1. 0 \in T
  <2>1. d + 0 = d  BY SMTT(30)
  <2> QED BY <2>1
<1>2. ASSUME NEW k \in Nat, k \in T PROVE k + 1 \in T
  <2>1. d + k \in Nat /\ d + (k + 1) = (d + k) + 1  BY SMTT(30)
  <2>2. Up(h, d + k) = NoHash  BY <1>2
  <2>3. Up(h, (d + k) + 1) = NoHash  BY <2>1, <2>2, UpSteps
  <2> QED BY <2>1, <2>3, SMTT(30)
<1>3. \A k \in Nat : k \in T
  <2> HIDE DEF T
  <2> QED BY <1>1, <1>2, NatSetInduction
<1> QED BY <1>3

\* Walking d and then k generations is walking d + k.
LEMMA UpAdd ==
    ASSUME NEW h \in Block, NEW d \in Nat, NEW x \in Block, Up(h, d) = x
    PROVE  \A k \in Nat : Up(x, k) = Up(h, d + k)
<1> DEFINE T == {k \in Nat : Up(x, k) = Up(h, d + k)}
<1>1. 0 \in T
  <2>1. d + 0 = d  BY SMTT(30)
  <2>2. Up(x, 0) = x  BY UpSteps
  <2> QED BY <2>1, <2>2
<1>2. ASSUME NEW k \in Nat, k \in T PROVE k + 1 \in T
  <2>1. d + k \in Nat /\ d + (k + 1) = (d + k) + 1  BY SMTT(30)
  <2>2. Up(x, k) = Up(h, d + k)  BY <1>2
  <2>3. Up(x, k + 1) = IF Up(x, k) = NoHash THEN NoHash ELSE ParentHeader(Up(x, k))
    BY UpSteps
  <2>4. Up(h, (d + k) + 1) = IF Up(h, d + k) = NoHash THEN NoHash
                             ELSE ParentHeader(Up(h, d + k))
    BY <2>1, UpSteps
  <2>5. Up(x, k + 1) = Up(h, (d + k) + 1)  BY <2>2, <2>3, <2>4
  <2> QED BY <2>1, <2>5, SMTT(30)
<1>3. \A k \in Nat : k \in T
  <2> HIDE DEF T
  <2> QED BY <1>1, <1>2, NatSetInduction
<1> QED BY <1>3

\* An ancestor, seen from any header between it and h.
LEMMA AncestorFrom ==
    ASSUME headers \subseteq Block, NEW h \in Block, NEW low \in 0..Number[h],
           NEW c \in Ancestors(h), Number[c] <= low
    PROVE  /\ c \in Block /\ Number[c] \in Nat
           /\ Up(h, Number[h] - low) \in Block
           /\ Up(Up(h, Number[h] - low), low - Number[c]) = c
<1>0. Number \in [Block -> Nat] /\ NoHash \notin Block  BY ChainAssumption
<1>1. PICK d \in 0..Number[h] : Number[c] = Number[h] - d /\ Up(h, d) = c
  BY DEF Ancestors
<1>2. c \in Block /\ Number[c] \in Nat /\ Number[h] \in Nat
  BY <1>0 DEF Ancestors
<1> DEFINE e == Number[h] - low
           k == low - Number[c]
<1>3. e \in Nat /\ k \in Nat /\ d = e + k /\ d \in Nat
  BY <1>1, <1>2, SMTT(30)
<1> HIDE DEF e, k
<1>4. Up(h, e) # NoHash
  <2>1. SUFFICES ASSUME Up(h, e) = NoHash PROVE FALSE
    OBVIOUS
  <2>2. Up(h, e + k) = NoHash  BY <1>3, <2>1, UpGone
  <2> QED BY <1>0, <1>1, <1>2, <1>3, <2>2
<1>5. Up(h, e) \in Block
  BY <1>3, <1>4, UpNumber
<1>6. Up(Up(h, e), k) = Up(h, e + k)
  BY <1>3, <1>5, UpAdd, SMTT(30)
<1> QED BY <1>1, <1>2, <1>3, <1>5, <1>6 DEF e, k

\* What is above x, and x above h, is an ancestor of h.
LEMMA AncestorAbove ==
    ASSUME headers \subseteq Block, NEW h \in Block, NEW d \in Nat,
           NEW x \in Block, Up(h, d) = x,
           NEW k \in Nat, Up(x, k) # NoHash
    PROVE  Up(x, k) \in Ancestors(h) /\ Number[Up(x, k)] = Number[h] - (d + k)
<1>0. Number \in [Block -> Nat]  BY ChainAssumption
<1> DEFINE c == Up(x, k)
<1>1. c = Up(h, d + k)  BY UpAdd
<1>2. d + k \in Nat  BY SMTT(30)
<1>3. c \in Block /\ Number[c] = Number[h] - (d + k)
  BY <1>1, <1>2, UpNumber
<1>4. d + k \in 0..Number[h]
  BY <1>0, <1>2, <1>3, SMTT(30)
<1> HIDE DEF c
<1>5. c \in Ancestors(h)
  BY <1>1, <1>3, <1>4 DEF Ancestors
<1> QED BY <1>3, <1>5 DEF c

\* In every state whose stored headers are blocks, FindCommonAncestor is exact:
\* where it levels the two headers and where its loop stops depends on what
\* is stored, and the header it returns is still the highest common one.
LEMMA AncestorExact ==
    ASSUME headers \subseteq Block
    PROVE  AncestorCorrect
<1> SUFFICES ASSUME NEW a \in headers, NEW b \in headers
             PROVE  LET common == Ancestors(a) \cap Ancestors(b)
                        c == FindCommonAncestor(a, b)
                    IN  IF common = {} THEN c = NoHash
                        ELSE c \in common /\ \A d \in common : Number[d] <= Number[c]
  BY DEF AncestorCorrect
<1> DEFINE common == Ancestors(a) \cap Ancestors(b)
           low == IF Number[a] < Number[b] THEN Number[a] ELSE Number[b]
           x == Up(a, Number[a] - low)
           y == Up(b, Number[b] - low)
           Missing(k) == Up(x, k) = NoHash \/ Up(y, k) = NoHash
           stops == {k \in 0..low : Missing(k) \/ Up(x, k) = Up(y, k)}
           first == CHOOSE k \in stops : \A j \in stops : k <= j
<1>0. Number \in [Block -> Nat] /\ NoHash \notin Block /\ a \in Block /\ b \in Block
  BY ChainAssumption
<1>1. /\ low \in Nat /\ low \in 0..Number[a] /\ low \in 0..Number[b]
      /\ Number[a] - low \in Nat /\ Number[b] - low \in Nat
  BY <1>0, SMTT(30)
<1>2. FindCommonAncestor(a, b) =
         IF x = NoHash \/ y = NoHash \/ stops = {} THEN NoHash
         ELSE IF Missing(first) THEN NoHash ELSE Up(x, first)
  BY DEF FindCommonAncestor
<1>3. stops # {} => first \in stops /\ \A j \in stops : first <= j
  <2>1. stops \subseteq Nat  BY <1>1, SMTT(30)
  <2> HIDE DEF stops
  <2>2. stops # {} => \E k \in stops : \A j \in stops : k <= j
    BY <2>1, LeastNatural
  <2> QED BY <2>2
<1>4. ASSUME NEW c \in common
      PROVE  /\ x \in Block /\ y \in Block
             /\ Number[c] \in Nat /\ low - Number[c] \in 0..low
             /\ Up(x, low - Number[c]) = c /\ Up(y, low - Number[c]) = c
             /\ c # NoHash
  <2>1. c \in Block /\ Number[c] \in Nat
    BY <1>0 DEF Ancestors
  <2>2. Number[c] <= Number[a] /\ Number[c] <= Number[b]
    BY <1>0, <2>1, SMTT(30) DEF Ancestors
  <2>3. Number[c] <= low  BY <2>2
  <2>4. x \in Block /\ Up(x, low - Number[c]) = c
    BY <1>0, <1>1, <2>3, AncestorFrom
  <2>5. y \in Block /\ Up(y, low - Number[c]) = c
    BY <1>0, <1>1, <2>3, AncestorFrom
  <2>6. low - Number[c] \in 0..low /\ c # NoHash
    BY <1>0, <1>1, <2>1, <2>3, SMTT(30)
  <2> QED BY <2>1, <2>4, <2>5, <2>6
<1>5. ASSUME x # NoHash, y # NoHash, stops # {}, ~Missing(first)
      PROVE  Up(x, first) \in common /\ Number[Up(x, first)] = low - first
  <2>1. x \in Block /\ y \in Block
    BY <1>0, <1>1, <1>5, UpSteps, SMTT(30) DEF Hash
  <2>2. first \in 0..low /\ (Missing(first) \/ Up(x, first) = Up(y, first))
    BY <1>3, <1>5
  <2> HIDE DEF x, y, stops, first
  <2>3. first \in Nat /\ Up(x, first) # NoHash /\ Up(y, first) # NoHash
        /\ Up(x, first) = Up(y, first)
    BY <1>1, <1>5, <2>2, SMTT(30)
  <2>4. /\ Up(x, first) \in Ancestors(a)
        /\ Number[Up(x, first)] = Number[a] - ((Number[a] - low) + first)
    <3>1. Up(a, Number[a] - low) = x  BY DEF x
    <3> QED BY <1>0, <1>1, <2>1, <2>3, <3>1, AncestorAbove, SMTT(30)
  <2>5. Up(y, first) \in Ancestors(b)
    <3>1. Up(b, Number[b] - low) = y  BY DEF y
    <3> QED BY <1>0, <1>1, <2>1, <2>3, <3>1, AncestorAbove
  <2>6. Number[a] - ((Number[a] - low) + first) = low - first
    <3>1. Number[a] \in Nat /\ low \in Nat /\ first \in Nat  BY <1>0, <1>1, <2>3
    <3> HIDE DEF low
    <3> QED BY <3>1, SMTT(30)
  <2> QED BY <2>3, <2>4, <2>5, <2>6
<1>6. CASE common = {}
  <2>1. FindCommonAncestor(a, b) = NoHash
    <3> HIDE DEF x, y, stops, first, common, Missing
    <3> QED BY <1>2, <1>5, <1>6
  <2> QED BY <1>6, <2>1
<1>7. CASE common # {}
  <2>1. PICK c0 \in common : TRUE  BY <1>7
  <2>2. x # NoHash /\ y # NoHash /\ stops # {}
    <3>1. x \in Block /\ y \in Block  BY <1>4, <2>1
    <3>2. low - Number[c0] \in stops
      <4>1. /\ low - Number[c0] \in 0..low
            /\ Up(x, low - Number[c0]) = c0 /\ Up(y, low - Number[c0]) = c0
        BY <1>4, <2>1
      <4> HIDE DEF x, y, low
      <4> QED BY <4>1
    <3> QED BY <1>0, <3>1, <3>2
  <2>3. ASSUME NEW c \in common PROVE first \in Nat /\ first <= low - Number[c]
    <3>1. /\ low - Number[c] \in 0..low
          /\ Up(x, low - Number[c]) = c /\ Up(y, low - Number[c]) = c
      BY <1>4
    <3>2. low - Number[c] \in stops
      <4> HIDE DEF x, y, low
      <4> QED BY <3>1
    <3>3. first \in stops /\ \A j \in stops : first <= j  BY <1>3, <2>2
    <3>4. stops \subseteq Nat  BY <1>1, SMTT(30)
    <3> HIDE DEF stops, first
    <3> QED BY <3>2, <3>3, <3>4
  <2>4. ~Missing(first)
    <3>1. x \in Block /\ y \in Block /\ c0 # NoHash
          /\ low - Number[c0] \in 0..low
          /\ Up(x, low - Number[c0]) = c0 /\ Up(y, low - Number[c0]) = c0
      BY <1>4, <2>1
    <3>2. first \in Nat /\ first <= low - Number[c0]  BY <2>1, <2>3
    <3> DEFINE k == (low - Number[c0]) - first
    <3>3. k \in Nat /\ first + k = low - Number[c0]
      <4> HIDE DEF low, first
      <4>1. low - Number[c0] \in Int  BY <1>1, <3>1, SMTT(30)
      <4> QED BY <3>2, <4>1, SMTT(30)
    <3> HIDE DEF x, y, low, first, k, stops
    <3>4. Up(x, first) # NoHash
      <4>1. Up(x, first) = NoHash => Up(x, first + k) = NoHash
        BY <3>1, <3>2, <3>3, UpGone
      <4> QED BY <3>1, <3>3, <4>1
    <3>5. Up(y, first) # NoHash
      <4>1. Up(y, first) = NoHash => Up(y, first + k) = NoHash
        BY <3>1, <3>2, <3>3, UpGone
      <4> QED BY <3>1, <3>3, <4>1
    <3> QED BY <3>4, <3>5
  <2>5. FindCommonAncestor(a, b) = Up(x, first)
    <3> HIDE DEF x, y, stops, first, Missing
    <3> QED BY <1>2, <2>2, <2>4
  <2>6. Up(x, first) \in common /\ Number[Up(x, first)] = low - first
    <3> HIDE DEF x, y, stops, first, Missing, common
    <3> QED BY <1>5, <2>2, <2>4
  <2>7. ASSUME NEW c \in common PROVE Number[c] <= low - first
    <3>1. Number[c] \in Nat  BY <1>4
    <3>2. first \in Nat /\ first <= low - Number[c]  BY <2>3
    <3> HIDE DEF first, low
    <3> QED BY <1>1, <3>1, <3>2, SMTT(30)
  <2> HIDE DEF x, y, stops, first, Missing, common, low
  <2>8. \A c \in common : Number[c] <= Number[Up(x, first)]
    BY <2>6, <2>7
  <2>9. common = Ancestors(a) \cap Ancestors(b)  BY DEF common
  <2> QED BY <1>7, <2>5, <2>6, <2>8, <2>9
<1> QED BY <1>6, <1>7

-----------------------------------------------------------------------------
(***************************************************************************)
(* What every insertion, start and stop keeps, whatever their number.      *)
(***************************************************************************)
Steps == {"idle", "insert", "process", "commit", "canonical", "head", "current",
          "header", "write_body", "write_number", "write_header"}

\* The steps of GetGenesisBlock from the second on, and those after its
\* number, its header, its canonical hash and its head block.
AfterBody == {"genesis_number", "genesis_header", "genesis_canonical",
              "genesis_head", "genesis_head_header", "up"}
AfterNumber == AfterBody \ {"genesis_number"}
AfterHeader == AfterNumber \ {"genesis_header"}
AfterCanonical == AfterHeader \ {"genesis_canonical"}

\* The values of the variables; an insertion always carries a block other
\* than the genesis block, and none survives a stop.
StoreTypes ==
    /\ canonical \in [Heights -> Hash]
    /\ headBlock \in Hash /\ headHeader \in Hash
    /\ bodies \subseteq Block /\ numbers \subseteq Block /\ headers \subseteq Block
    /\ currentBlock \in Hash /\ currentHeader \in Hash
    /\ boot \in AfterBody \cup {"start", "genesis_body"}
    /\ boot = "up" => currentBlock \in Block
    /\ pc \in [Inserter -> Steps] /\ blk \in [Inserter -> Hash]
    /\ \A i \in Inserter : pc[i] # "idle" => boot = "up" /\ blk[i] \in Block \ {Genesis}

Stored(b) == b \in bodies /\ b \in numbers /\ b \in headers

\* How far the genesis block is written: number 0 is only ever given to it,
\* after all the rest of it, and before any head.
GenesisWritten ==
    /\ boot \in AfterBody => Genesis \in bodies /\ Root[Genesis] \in roots
    /\ boot \in AfterNumber => Genesis \in numbers
    /\ boot \in AfterHeader => Genesis \in headers
    /\ boot \in AfterCanonical \/ headBlock # NoHash => canonical[0] # NoHash
    /\ boot = "genesis_head_header" => headBlock = Genesis
    /\ canonical[0] # NoHash =>
          canonical[0] = Genesis /\ Stored(Genesis) /\ Root[Genesis] \in roots

\* WriteBlock's three writes come in their order.
BodiesFirst ==
    /\ HeaderOwnsBlock
    /\ \A i \in Inserter :
          /\ pc[i] \in {"write_number", "write_header"} => blk[i] \in bodies
          /\ pc[i] = "write_header" => blk[i] \in numbers

\* As long as every block was validated, whatever may become current has
\* its state in the database: the block of an insertion, and the head.
StatesCommitted ==
    ~networked => /\ \A i \in Inserter : pc[i] # "idle" => Root[blk[i]] \in roots
                  /\ headBlock # NoHash => Root[headBlock] \in roots
                  /\ boot = "up" => Root[currentBlock] \in roots

StoreInv == StoreTypes /\ GenesisWritten /\ BodiesFirst /\ StatesCommitted

\* Number 0 is the genesis block's alone.
LEMMA NumberFacts ==
    /\ Number \in [Block -> Nat] /\ Parent \in [Block -> Hash]
    /\ Genesis \in Block /\ NoHash \notin Block
    /\ Number[Genesis] = 0 /\ 0 \in Heights
    /\ \A b \in Block : Number[b] \in Heights
    /\ \A b \in Block \ {Genesis} : Number[b] # 0 /\ Parent[b] \in Block
                                    /\ Number[b] = Number[Parent[b]] + 1
<1>1. \A b \in Block \ {Genesis} : Number[b] # 0
  BY ChainAssumption, SMTT(30)
<1> QED BY <1>1, ChainAssumption DEF Heights, Hash

LEMMA StoreInit == Init => StoreInv
<1> SUFFICES ASSUME Init PROVE StoreInv
  OBVIOUS
<1>1. StoreTypes  BY DEF Init, StoreTypes, Steps, Hash
<1>2. GenesisWritten
  BY NumberFacts DEF Init, GenesisWritten, AfterBody, AfterNumber, AfterHeader,
                     AfterCanonical
<1>3. BodiesFirst  BY DEF Init, BodiesFirst, HeaderOwnsBlock
<1>4. StatesCommitted  BY DEF Init, StatesCommitted
<1> QED BY <1>1, <1>2, <1>3, <1>4 DEF StoreInv

\* What NewBlockChain loads, in terms of the keys that are written.
LoadedFacts ==
    /\ LoadedBlock \in Block /\ LoadedHeader \in Hash
    /\ LoadedBlock = IF headBlock # NoHash /\ Stored(headBlock)
                     THEN headBlock ELSE Genesis
    /\ LoadedHeader = IF LoadedBlock = Genesis /\ headBlock # Genesis THEN Genesis
                      ELSE IF headHeader \in numbers /\ headHeader \in headers
                           THEN headHeader ELSE headBlock

LEMMA LoadedIs == StoreTypes => LoadedFacts
<1> SUFFICES ASSUME StoreTypes PROVE LoadedFacts
  OBVIOUS
<1> USE NumberFacts DEF StoreTypes
<1>1. \A h \in Hash : GetHeaderByHash(h) # NoHash <=> h \in numbers /\ h \in headers
  BY SMTT(30) DEF GetHeaderByHash, GetBlockNumber, GetHeader, MissingNumber, Hash
<1>2. \A h \in Hash : GetBlockByHash(h) # NoHash <=> Stored(h)
  BY SMTT(30) DEF GetBlockByHash, GetBlockNumber, GetHeader, GetBody, GetBlock, MissingNumber,
         Hash, Stored
<1>3. LoadedBlock = IF headBlock # NoHash /\ Stored(headBlock)
                    THEN headBlock ELSE Genesis
  BY <1>2 DEF LoadedBlock, GetHeadBlockHash, Hash, Stored
<1>4. LoadedHeader = IF LoadedBlock = Genesis /\ headBlock # Genesis THEN Genesis
                     ELSE IF headHeader \in numbers /\ headHeader \in headers
                          THEN headHeader ELSE headBlock
  BY <1>1 DEF LoadedHeader, GetHeadBlockHash, GetHeadHeaderHash
<1> QED BY <1>3, <1>4 DEF Hash, Stored, LoadedFacts

LEMMA TypesStep == StoreInv /\ [Next]_vars => StoreTypes'
<1> SUFFICES ASSUME StoreInv, [Next]_vars PROVE StoreTypes'
  OBVIOUS
<1> USE NumberFacts DEF StoreInv, StoreTypes, AfterBody, store, memory, insertion, past
<1>1. CASE NewBlockChain
  <2>1. CASE GetBlockByNumber(0) # NoHash
    BY <1>1, <2>1, LoadedIs DEF LoadedFacts, NewBlockChain, LoadLastState
  <2>2. CASE GetBlockByNumber(0) = NoHash
    <3>1. headBlock = NoHash
      BY <2>2 DEF GenesisWritten, GetBlockByNumber, GetCanonicalHash, GetBlock,
                  GetHeader, GetBody, Stored
    <3> QED BY <1>1, <2>2, <3>1 DEF NewBlockChain
  <2> QED BY <2>1, <2>2
<1>2. CASE \/ GenesisBody \/ GenesisNumber \/ GenesisHeader
           \/ GenesisCanonical \/ GenesisHead \/ GenesisHeadHeader
  BY <1>2 DEF GenesisBody, GenesisNumber, GenesisHeader, GenesisCanonical, GenesisHead,
              GenesisHeadHeader, Hash
<1>3. ASSUME NEW b \in Block \ {Genesis}, SaveLiquidationReport(b) PROVE StoreTypes'
  BY <1>3 DEF SaveLiquidationReport
<1>4. ASSUME NEW i \in Inserter, NEW b \in Block \ {Genesis},
             CommitNewBlock(i, b) \/ ReceiveBlock(i, b)
      PROVE  StoreTypes'
  BY <1>4, SMTT(30) DEF CommitNewBlock, ReceiveBlock, Step, Steps, Hash
<1>5. ASSUME NEW i \in Inserter, Insert(i) PROVE StoreTypes'
  <2> USE <1>5 DEF Step, Steps, Hash
  <2>1. CASE InsertRefused(i) \/ InsertStarts(i) \/ Process(i) \/ CommitTo(i)
    BY <2>1 DEF InsertRefused, InsertStarts, Process, CommitTo
  <2>2. CASE WriteCanonicalHash(i) \/ WriteHeadBlockHash(i) \/ SetCurrentBlock(i)
    BY <2>2 DEF WriteCanonicalHash, WriteHeadBlockHash, SetCurrentBlock
  <2>3. CASE SetCurrentHeader(i) \/ WriteBody(i) \/ WriteNumber(i) \/ WriteHeader(i)
    BY <2>3 DEF SetCurrentHeader, WriteBody, WriteNumber, WriteHeader
  <2> QED BY <2>1, <2>2, <2>3 DEF Insert
<1>6. CASE Crash
  BY <1>6 DEF Crash, Steps, Hash
<1>7. CASE UNCHANGED vars
  BY <1>7 DEF vars
<1> QED BY <1>1, <1>2, <1>3, <1>4, <1>5, <1>6, <1>7 DEF Next

LEMMA GenesisStep == StoreInv /\ [Next]_vars => GenesisWritten'
<1> SUFFICES ASSUME StoreInv, [Next]_vars PROVE GenesisWritten'
  OBVIOUS
<1> USE NumberFacts DEF StoreInv, StoreTypes, GenesisWritten, Stored, AfterBody, AfterNumber,
                        AfterHeader, AfterCanonical, store, memory, insertion, past
<1>1. CASE NewBlockChain
  <2>1. CASE GetBlockByNumber(0) # NoHash
    <3>1. canonical[0] # NoHash
      BY <2>1 DEF GetBlockByNumber, GetCanonicalHash
    <3> QED BY <1>1, <2>1, <3>1 DEF NewBlockChain, LoadLastState
  <2>2. CASE GetBlockByNumber(0) = NoHash
    BY <1>1, <2>2 DEF NewBlockChain
  <2> QED BY <2>1, <2>2
<1>2. CASE GenesisBody \/ GenesisNumber \/ GenesisHeader
  BY <1>2 DEF GenesisBody, GenesisNumber, GenesisHeader
<1>3. CASE GenesisCanonical \/ GenesisHead \/ GenesisHeadHeader
  BY <1>3 DEF GenesisCanonical, GenesisHead, GenesisHeadHeader
<1>4. ASSUME NEW b \in Block \ {Genesis}, SaveLiquidationReport(b) PROVE GenesisWritten'
  BY <1>4 DEF SaveLiquidationReport
<1>5. ASSUME NEW i \in Inserter, NEW b \in Block \ {Genesis},
             CommitNewBlock(i, b) \/ ReceiveBlock(i, b)
      PROVE  GenesisWritten'
  BY <1>5 DEF CommitNewBlock, ReceiveBlock, Step
<1>6. ASSUME NEW i \in Inserter, Insert(i) PROVE GenesisWritten'
  <2> USE <1>6 DEF Step
  <2>1. CASE InsertRefused(i) \/ InsertStarts(i) \/ Process(i) \/ CommitTo(i)
    BY <2>1 DEF InsertRefused, InsertStarts, Process, CommitTo
  <2>2. CASE WriteCanonicalHash(i)
    <3>1. Number[blk[i]] # 0 /\ Number[blk[i]] \in Heights
      BY <2>2 DEF WriteCanonicalHash
    <3>2. canonical'[0] = canonical[0]
      BY <2>2, <3>1 DEF WriteCanonicalHash
    <3> QED BY <2>2, <3>2 DEF WriteCanonicalHash
  <2>3. CASE WriteHeadBlockHash(i) \/ SetCurrentBlock(i)
    BY <2>3 DEF WriteHeadBlockHash, SetCurrentBlock
  <2>4. CASE SetCurrentHeader(i) \/ WriteBody(i) \/ WriteNumber(i) \/ WriteHeader(i)
    BY <2>4 DEF SetCurrentHeader, WriteBody, WriteNumber, WriteHeader
  <2> QED BY <2>1, <2>2, <2>3, <2>4 DEF Insert
<1>7. CASE Crash
  BY <1>7 DEF Crash
<1>8. CASE UNCHANGED vars
  BY <1>8 DEF vars
<1> QED BY <1>1, <1>2, <1>3, <1>4, <1>5, <1>6, <1>7, <1>8 DEF Next

LEMMA BodiesStep == StoreInv /\ [Next]_vars => BodiesFirst'
<1> SUFFICES ASSUME StoreInv, [Next]_vars PROVE BodiesFirst'
  OBVIOUS
<1> USE DEF StoreInv, StoreTypes, BodiesFirst, HeaderOwnsBlock, store, memory, insertion, past
<1>1. CASE NewBlockChain
  BY <1>1 DEF NewBlockChain, LoadLastState
<1>2. CASE \/ GenesisBody \/ GenesisNumber \/ GenesisHeader
           \/ GenesisCanonical \/ GenesisHead \/ GenesisHeadHeader
  BY <1>2 DEF GenesisBody, GenesisNumber, GenesisHeader, GenesisCanonical, GenesisHead,
              GenesisHeadHeader, GenesisWritten, AfterBody, AfterNumber
<1>3. ASSUME NEW b \in Block \ {Genesis}, SaveLiquidationReport(b) PROVE BodiesFirst'
  BY <1>3 DEF SaveLiquidationReport
<1>4. ASSUME NEW i \in Inserter, NEW b \in Block \ {Genesis},
             CommitNewBlock(i, b) \/ ReceiveBlock(i, b)
      PROVE  BodiesFirst'
  BY <1>4 DEF CommitNewBlock, ReceiveBlock, Step
<1>5. ASSUME NEW i \in Inserter, Insert(i) PROVE BodiesFirst'
  <2> USE <1>5 DEF Step
  <2>1. CASE InsertRefused(i) \/ InsertStarts(i) \/ Process(i) \/ CommitTo(i)
    BY <2>1 DEF InsertRefused, InsertStarts, Process, CommitTo
  <2>2. CASE WriteCanonicalHash(i) \/ WriteHeadBlockHash(i) \/ SetCurrentBlock(i)
    BY <2>2 DEF WriteCanonicalHash, WriteHeadBlockHash, SetCurrentBlock
  <2>3. CASE SetCurrentHeader(i) \/ WriteBody(i) \/ WriteNumber(i) \/ WriteHeader(i)
    BY <2>3 DEF SetCurrentHeader, WriteBody, WriteNumber, WriteHeader
  <2> QED BY <2>1, <2>2, <2>3 DEF Insert
<1>6. CASE Crash
  BY <1>6 DEF Crash
<1>7. CASE UNCHANGED vars
  BY <1>7 DEF vars
<1> QED BY <1>1, <1>2, <1>3, <1>4, <1>5, <1>6, <1>7 DEF Next

LEMMA StatesStep == StoreInv /\ [Next]_vars => StatesCommitted'
<1> SUFFICES ASSUME StoreInv, [Next]_vars, ~networked' PROVE StatesCommitted'
  BY DEF StatesCommitted
<1> USE NumberFacts DEF StoreInv, StoreTypes, StatesCommitted, store, memory, insertion, past
<1>1. CASE NewBlockChain
  <2>1. CASE GetBlockByNumber(0) # NoHash
    <3>1. Root[Genesis] \in roots
      BY <2>1 DEF GetBlockByNumber, GetCanonicalHash, GenesisWritten
    <3>2. Root[LoadedBlock] \in roots
      BY <1>1, <3>1, LoadedIs DEF LoadedFacts, NewBlockChain
    <3> QED BY <1>1, <2>1, <3>2 DEF NewBlockChain, LoadLastState
  <2>2. CASE GetBlockByNumber(0) = NoHash
    BY <1>1, <2>2 DEF NewBlockChain
  <2> QED BY <2>1, <2>2
<1>2. CASE \/ GenesisBody \/ GenesisNumber \/ GenesisHeader
           \/ GenesisCanonical \/ GenesisHead \/ GenesisHeadHeader
  BY <1>2, SMTT(30) DEF GenesisBody, GenesisNumber, GenesisHeader, GenesisCanonical, GenesisHead,
              GenesisHeadHeader, GenesisWritten, AfterBody
<1>3. ASSUME NEW b \in Block \ {Genesis}, SaveLiquidationReport(b)
      PROVE  StatesCommitted'
  BY <1>3 DEF SaveLiquidationReport
<1>4. ASSUME NEW i \in Inserter, NEW b \in Block \ {Genesis}, CommitNewBlock(i, b)
      PROVE  StatesCommitted'
  <2>1. CASE SameRoots(b)
    <3>1. Root[b] \in roots'
      BY <1>4, <2>1 DEF CommitNewBlock, SameRoots
    <3> QED BY <1>4, <2>1, <3>1 DEF CommitNewBlock
  <2>2. CASE ~SameRoots(b)
    BY <1>4, <2>2 DEF CommitNewBlock
  <2> QED BY <2>1, <2>2
<1>5. ASSUME NEW i \in Inserter, NEW b \in Block \ {Genesis}, ReceiveBlock(i, b)
      PROVE  StatesCommitted'
  BY <1>5 DEF ReceiveBlock
<1>6. ASSUME NEW i \in Inserter, Insert(i) PROVE StatesCommitted'
  <2> USE <1>6 DEF Step
  <2>1. CASE InsertRefused(i) \/ InsertStarts(i) \/ Process(i) \/ CommitTo(i)
    BY <2>1, SMTT(30) DEF InsertRefused, InsertStarts, Process, CommitTo
  <2>2. CASE WriteCanonicalHash(i) \/ WriteHeadBlockHash(i) \/ SetCurrentBlock(i)
    BY <2>2, SMTT(30) DEF WriteCanonicalHash, WriteHeadBlockHash, SetCurrentBlock
  <2>3. CASE SetCurrentHeader(i) \/ WriteBody(i) \/ WriteNumber(i) \/ WriteHeader(i)
    BY <2>3, SMTT(30) DEF SetCurrentHeader, WriteBody, WriteNumber, WriteHeader
  <2> QED BY <2>1, <2>2, <2>3 DEF Insert
<1>7. CASE Crash
  BY <1>7 DEF Crash
<1>8. CASE UNCHANGED vars
  BY <1>8 DEF vars
<1> QED BY <1>1, <1>2, <1>3, <1>4, <1>5, <1>6, <1>7, <1>8 DEF Next

LEMMA StoreStep == StoreInv /\ [Next]_vars => StoreInv'
  BY TypesStep, GenesisStep, BodiesStep, StatesStep DEF StoreInv

LEMMA StoreInvariant == Spec => []StoreInv
  BY StoreInit, StoreStep, PTL DEF Spec

\* For any tree of blocks, any number of insertions at a time and any number
\* of stops: a stored header owns its block, NewBlockChain never fails for
\* want of a genesis block, and the current state opens as long as every
\* block was validated.
StoreServes ==
    /\ HeaderOwnsBlock
    /\ boot # "failed"
    /\ boot = "up" /\ ~networked => Root[currentBlock] \in roots

\* What WriteBlock, GetGenesisBlock and commitNewBlock leave behind is
\* complete at every moment, with any number of goroutines in Insert.
THEOREM StoreAlwaysServes == Spec => []StoreServes
<1>1. StoreInv => StoreServes
  BY DEF StoreInv, StoreTypes, BodiesFirst, StatesCommitted, StoreServes, AfterBody
<1> QED BY <1>1, StoreInvariant, PTL

\* FindCommonAncestor returns the highest block from which both headers are
\* reached over stored parents, for every two stored headers, whatever
\* insertions and stops have left in the database.
THEOREM CommonAncestorsExact == Spec => []AncestorCorrect
<1>1. StoreInv => AncestorCorrect
  BY AncestorExact DEF StoreInv, StoreTypes
<1> QED BY <1>1, StoreInvariant, PTL

-----------------------------------------------------------------------------
(***************************************************************************)
(* One insertion at a time: what a restart would load, and the chain from  *)
(* the head down to the genesis block.  With two, each may set the head in *)
(* memory and on disk in an order of its own, and neither holds.           *)
(***************************************************************************)
OneAtATime == \A i, j \in Inserter : i = j

\* Before the head block is written, and from each of the next writes on.
BeforeHead == {"idle", "insert", "process", "commit", "canonical", "head"}
AfterCurrent == {"header", "write_body", "write_number", "write_header"}
AfterHeads == AfterCurrent \ {"header"}

\* The heads in memory are those a restart would load, until an insertion
\* moves them, each on disk and then in memory, to its block.
HeadsAgree ==
    boot = "up" =>
      /\ (\A i \in Inserter : pc[i] \in BeforeHead) =>
            LoadedBlock = currentBlock /\ LoadedHeader = currentHeader
      /\ \A i \in Inserter :
            /\ pc[i] \notin BeforeHead => headBlock = blk[i]
            /\ pc[i] \in AfterCurrent => currentBlock = blk[i]
            /\ pc[i] \in AfterHeads => headHeader = blk[i] /\ currentHeader = blk[i]

\* The hashes by number lead from b down to the genesis block, over blocks
\* that are stored and each the parent of the one above.
Whole(b, hashes, stored) ==
    /\ hashes[Number[b]] = b
    /\ \A n \in Nat : n < Number[b] =>
          /\ hashes[n] \in Block /\ hashes[n] \in stored
          /\ Number[hashes[n]] = n
          /\ Parent[hashes[n+1]] = hashes[n]

ChainBelow(b) == Whole(b, canonical, bodies \cap numbers \cap headers)

\* As long as every block was validated: an insertion extends the current
\* block, whose chain is whole; the new block's chain is whole as soon as its
\* number is written; and so is the head's, if a restart would load it.
ChainLinked ==
    ~networked =>
      /\ \A i \in Inserter :
            /\ pc[i] \in (BeforeHead \ {"idle"}) \cup {"current"} =>
                  Parent[blk[i]] = currentBlock
            /\ pc[i] \in AfterCurrent \cup {"head", "current"} => ChainBelow(blk[i])
      /\ boot = "up" /\ (\A i \in Inserter : pc[i] \notin AfterCurrent) =>
            ChainBelow(currentBlock) /\ Stored(currentBlock)
      /\ headBlock # NoHash /\ Stored(headBlock) => ChainBelow(headBlock)

ChainInv == StoreInv /\ HeadsAgree /\ ChainLinked

LEMMA HeadsInit == Init => HeadsAgree /\ ChainLinked
  BY DEF Init, HeadsAgree, ChainLinked, BeforeHead, AfterCurrent, AfterHeads

LEMMA HeadsStep ==
    OneAtATime /\ ChainInv /\ [Next]_vars => HeadsAgree'
<1> SUFFICES ASSUME OneAtATime, ChainInv, [Next]_vars PROVE HeadsAgree'
  OBVIOUS
<1>0. /\ StoreInv /\ StoreTypes' /\ LoadedFacts /\ LoadedFacts'
  <2>1. (StoreTypes => LoadedFacts)'
    BY LoadedIs, PTL
  <2> QED BY <2>1, LoadedIs, TypesStep DEF ChainInv, StoreInv
<1> USE NumberFacts DEF ChainInv, StoreInv, StoreTypes, HeadsAgree, OneAtATime, BeforeHead,
                        AfterCurrent, AfterHeads, store, memory, insertion, past
<1>1. CASE NewBlockChain
  <2>1. CASE GetBlockByNumber(0) # NoHash
    <3>1. /\ UNCHANGED <<headBlock, bodies, numbers, headers>>
          /\ currentBlock' = LoadedBlock /\ currentHeader' = LoadedHeader
          /\ headHeader' = IF LoadedBlock = headBlock THEN LoadedHeader ELSE headHeader
          /\ UNCHANGED insertion
      BY <1>1, <2>1 DEF NewBlockChain, LoadLastState
    <3>2. LoadedBlock' = LoadedBlock
      BY <1>0, <3>1 DEF LoadedFacts, Stored
    <3>3. LoadedHeader' = LoadedHeader
      BY <1>0, <3>1, <3>2 DEF LoadedFacts, Stored
    <3>4. \A i \in Inserter : pc'[i] = "idle"
      BY <1>1, <3>1 DEF NewBlockChain
    <3> QED BY <3>1, <3>2, <3>3, <3>4
  <2>2. CASE GetBlockByNumber(0) = NoHash
    BY <1>1, <2>2 DEF NewBlockChain
  <2> QED BY <2>1, <2>2
<1>2. CASE GenesisBody \/ GenesisNumber \/ GenesisHeader \/ GenesisCanonical \/ GenesisHead
  BY <1>2 DEF GenesisBody, GenesisNumber, GenesisHeader, GenesisCanonical, GenesisHead
<1>3. CASE GenesisHeadHeader
  <2>1. Stored(Genesis) /\ headBlock = Genesis
    BY <1>3 DEF GenesisHeadHeader, GenesisWritten, AfterCanonical, AfterHeader, AfterNumber,
                AfterBody
  <2> QED BY <1>0, <1>3, <2>1 DEF GenesisHeadHeader, LoadedFacts, Stored
<1>4. ASSUME UNCHANGED <<headBlock, headHeader, bodies, numbers, headers, memory>>,
             boot = "up",
             \A i \in Inserter : pc[i] \in BeforeHead /\ pc'[i] \in BeforeHead
      PROVE  HeadsAgree'
  BY <1>0, <1>4 DEF LoadedFacts, Stored
<1>5. ASSUME NEW b \in Block \ {Genesis}, SaveLiquidationReport(b) PROVE HeadsAgree'
  BY <1>0, <1>5 DEF SaveLiquidationReport, LoadedFacts, Stored
<1>6. ASSUME NEW i \in Inserter, NEW b \in Block \ {Genesis},
             CommitNewBlock(i, b) \/ ReceiveBlock(i, b)
      PROVE  HeadsAgree'
  BY <1>4, <1>6 DEF CommitNewBlock, ReceiveBlock, Step
<1>7. ASSUME NEW i \in Inserter, Insert(i) PROVE HeadsAgree'
  <2>0. \A j \in Inserter : j = i
    OBVIOUS
  <2> USE <1>7, <2>0 DEF Step
  <2>1. CASE InsertRefused(i) \/ InsertStarts(i) \/ Process(i) \/ CommitTo(i)
    BY <1>4, <2>1, SMTT(30) DEF InsertRefused, InsertStarts, Process, CommitTo
  <2>2. CASE WriteCanonicalHash(i)
    BY <1>4, <2>2 DEF WriteCanonicalHash
  <2>3. CASE WriteHeadBlockHash(i) \/ SetCurrentBlock(i) \/ SetCurrentHeader(i)
    BY <2>3 DEF WriteHeadBlockHash, SetCurrentBlock, SetCurrentHeader
  <2>4. CASE WriteBody(i) \/ WriteNumber(i)
    BY <2>4 DEF WriteBody, WriteNumber
  <2>5. CASE WriteHeader(i)
    <3>1. /\ headBlock' = blk[i] /\ headHeader' = blk[i]
          /\ currentBlock' = blk[i] /\ currentHeader' = blk[i]
          /\ blk[i] \in Block \ {Genesis}
      BY <2>5 DEF WriteHeader
    <3>2. blk[i] \in bodies' /\ blk[i] \in numbers' /\ blk[i] \in headers'
      BY <2>5 DEF WriteHeader, BodiesFirst
    <3>3. LoadedBlock' = blk[i] /\ LoadedHeader' = blk[i]
      BY <1>0, <3>1, <3>2 DEF LoadedFacts, Stored
    <3>4. pc'[i] = "idle"
      BY <2>5 DEF WriteHeader
    <3> QED BY <3>1, <3>3, <3>4
  <2> QED BY <2>1, <2>2, <2>3, <2>4, <2>5 DEF Insert
<1>8. CASE Crash
  BY <1>8 DEF Crash
<1>9. CASE UNCHANGED vars
  BY <1>0, <1>9 DEF vars, LoadedFacts, Stored
<1> QED BY <1>1, <1>2, <1>3, <1>5, <1>6, <1>7, <1>8, <1>9 DEF Next

\* A chain stays whole when blocks are added and numbers above it change.
LEMMA WholeKept ==
    ASSUME NEW b \in Block, NEW h1 \in [Heights -> Hash], NEW h2 \in [Heights -> Hash],
           NEW s1, NEW s2, s1 \subseteq s2, Whole(b, h1, s1),
           \A n \in Heights : n <= Number[b] => h2[n] = h1[n]
    PROVE  Whole(b, h2, s2)
<1> USE NumberFacts
<1>1. h2[Number[b]] = b
  BY SMTT(30) DEF Whole
<1>2. ASSUME NEW n \in Nat, n <= Number[b]
      PROVE  n \in Heights /\ h2[n] = h1[n]
  BY <1>2, SMTT(30) DEF Whole, Heights
<1>3. ASSUME NEW n \in Nat, n < Number[b]
      PROVE  /\ h2[n] \in Block /\ h2[n] \in s2 /\ Number[h2[n]] = n
             /\ Parent[h2[n+1]] = h2[n]
  <2>1. n + 1 \in Nat /\ n + 1 <= Number[b]  BY <1>3, SMTT(30)
  <2> QED BY <1>2, <1>3, <2>1, SMTT(30) DEF Whole
<1> QED BY <1>1, <1>3 DEF Whole

\* The chain of a block is whole when its parent's is, the parent is stored
\* and its own number is written.
LEMMA WholeExtended ==
    ASSUME NEW b \in Block \ {Genesis}, NEW h \in [Heights -> Hash], NEW s,
           Whole(Parent[b], h, s), Parent[b] \in s, h[Number[b]] = b
    PROVE  Whole(b, h, s)
<1> USE NumberFacts
<1>1. Parent[b] \in Block /\ Number[b] = Number[Parent[b]] + 1
      /\ Number[Parent[b]] \in Nat /\ Number[b] \in Nat
  OBVIOUS
<1>2. ASSUME NEW n \in Nat, n < Number[b]
      PROVE  /\ h[n] \in Block /\ h[n] \in s /\ Number[h[n]] = n
             /\ Parent[h[n+1]] = h[n]
  <2>1. CASE n < Number[Parent[b]]
    BY <2>1 DEF Whole
  <2>2. CASE n = Number[Parent[b]]
    <3>1. h[n] = Parent[b] /\ h[n+1] = b
      BY <1>1, <2>2 DEF Whole
    <3> QED BY <1>1, <2>2, <3>1
  <2> QED BY <1>1, <1>2, <2>1, <2>2, SMTT(30)
<1> QED BY <1>2 DEF Whole

\* The genesis block's chain is whole by its number alone.
LEMMA WholeGenesis ==
    ASSUME NEW h, NEW s, h[0] = Genesis
    PROVE  Whole(Genesis, h, s)
<1>1. \A n \in Nat : ~(n < Number[Genesis])
  BY NumberFacts, SMTT(30)
<1> QED BY <1>1, NumberFacts DEF Whole

StoredBlocks == bodies \cap numbers \cap headers

\* The chains that no step below a block disturbs.
LEMMA ChainKept ==
    ASSUME StoreTypes, StoreTypes', NEW b \in Block, ChainBelow(b),
           StoredBlocks \subseteq StoredBlocks',
           \A n \in Heights : n <= Number[b] => canonical'[n] = canonical[n]
    PROVE  Whole(b, canonical', StoredBlocks')
  BY WholeKept DEF StoreTypes, ChainBelow, StoredBlocks

LEMMA LinkedStep ==
    OneAtATime /\ ChainInv /\ [Next]_vars => ChainLinked'
<1> SUFFICES ASSUME OneAtATime, ChainInv, [Next]_vars, ~networked' PROVE ChainLinked'
  BY DEF ChainLinked
<1>0. StoreTypes /\ StoreTypes' /\ LoadedFacts /\ StoreInv /\ ~networked
  <2>1. ~networked
    BY DEF Next, vars, NewBlockChain, LoadLastState, GenesisBody, GenesisNumber, GenesisHeader,
           GenesisCanonical, GenesisHead, GenesisHeadHeader, SaveLiquidationReport,
           CommitNewBlock, ReceiveBlock, Insert, InsertRefused, InsertStarts, Process,
           CommitTo, WriteCanonicalHash, WriteHeadBlockHash, SetCurrentBlock,
           SetCurrentHeader, WriteBody, WriteNumber, WriteHeader, Crash, past
  <2> QED BY <2>1, LoadedIs, TypesStep DEF ChainInv, StoreInv
<1>a. ChainLinked' <=>
        /\ \A i \in Inserter :
              /\ pc'[i] \in (BeforeHead \ {"idle"}) \cup {"current"} =>
                    Parent[blk'[i]] = currentBlock'
              /\ pc'[i] \in AfterCurrent \cup {"head", "current"} =>
                    Whole(blk'[i], canonical', StoredBlocks')
        /\ boot' = "up" /\ (\A i \in Inserter : pc'[i] \notin AfterCurrent) =>
              Whole(currentBlock', canonical', StoredBlocks') /\ currentBlock' \in StoredBlocks'
        /\ headBlock' # NoHash /\ headBlock' \in StoredBlocks' =>
              Whole(headBlock', canonical', StoredBlocks')
  BY DEF ChainLinked, ChainBelow, StoredBlocks, Stored
<1>b. /\ \A i \in Inserter :
            /\ pc[i] \in (BeforeHead \ {"idle"}) \cup {"current"} =>
                  Parent[blk[i]] = currentBlock
            /\ pc[i] \in AfterCurrent \cup {"head", "current"} => ChainBelow(blk[i])
      /\ boot = "up" /\ (\A i \in Inserter : pc[i] \notin AfterCurrent) =>
            ChainBelow(currentBlock) /\ currentBlock \in StoredBlocks
      /\ headBlock # NoHash /\ headBlock \in StoredBlocks => ChainBelow(headBlock)
  BY <1>0 DEF ChainInv, ChainLinked, StoredBlocks, Stored
<1> USE NumberFacts DEF BeforeHead, AfterCurrent, AfterHeads
\* A step that leaves the store and the heads alone.
<1>c. ASSUME UNCHANGED <<canonical, bodies, numbers, headers>>
      PROVE  /\ StoredBlocks' = StoredBlocks
             /\ \A b : ChainBelow(b) => Whole(b, canonical', StoredBlocks')
  BY <1>c DEF StoredBlocks, ChainBelow
<1> HIDE DEF ChainLinked
<1> USE DEF store, memory, insertion, past
<1>1. CASE NewBlockChain
  <2>1. UNCHANGED <<canonical, headBlock, bodies, numbers, headers, insertion>>
    BY <1>1 DEF NewBlockChain, LoadLastState
  <2>2. CASE GetBlockByNumber(0) # NoHash
    <3>1. canonical[0] = Genesis /\ Genesis \in StoredBlocks
      BY <1>0, <2>2 DEF GetBlockByNumber, GetCanonicalHash, StoreInv, GenesisWritten,
                        Stored, StoredBlocks
    <3>2. Whole(LoadedBlock, canonical, StoredBlocks) /\ LoadedBlock \in StoredBlocks
      <4>1. CASE LoadedBlock = Genesis
        BY <3>1, <4>1, WholeGenesis
      <4>2. CASE LoadedBlock # Genesis
        BY <1>0, <1>b, <4>2 DEF LoadedFacts, Stored, StoredBlocks, ChainBelow
      <4> QED BY <4>1, <4>2
    <3>3. currentBlock' = LoadedBlock
      BY <1>1, <2>2 DEF NewBlockChain, LoadLastState
    <3>4. \A i \in Inserter : pc'[i] = "idle"
      BY <1>0, <1>1, <2>1, SMTT(30) DEF NewBlockChain, StoreTypes
    <3> QED BY <1>a, <1>b, <1>c, <2>1, <3>2, <3>3, <3>4
  <2>3. CASE GetBlockByNumber(0) = NoHash
    <3>1. boot' # "up" /\ \A i \in Inserter : pc'[i] = "idle"
      BY <1>0, <1>1, <2>1, <2>3 DEF NewBlockChain, StoreTypes
    <3> QED BY <1>a, <1>b, <1>c, <2>1, <3>1
  <2> QED BY <2>2, <2>3
<1>2. CASE GenesisBody \/ GenesisNumber \/ GenesisHeader \/ GenesisCanonical
  <2>1. /\ boot # "up" /\ boot' # "up" /\ UNCHANGED <<headBlock, insertion>>
        /\ StoredBlocks \subseteq StoredBlocks'
        /\ \A i \in Inserter : pc'[i] = "idle"
    BY <1>0, <1>2 DEF GenesisBody, GenesisNumber, GenesisHeader, GenesisCanonical,
                      StoredBlocks, StoreTypes
  <2>2. ASSUME headBlock # NoHash, headBlock \in StoredBlocks'
        PROVE  Whole(headBlock, canonical', StoredBlocks')
    <3>1. canonical[0] = Genesis /\ Genesis \in StoredBlocks
      BY <1>0, <2>2 DEF StoreInv, GenesisWritten, Stored, StoredBlocks
    <3>2. canonical' = canonical /\ StoredBlocks' = StoredBlocks
      BY <1>0, <1>2, <3>1, SMTT(30) DEF GenesisBody, GenesisNumber, GenesisHeader, GenesisCanonical,
                              StoredBlocks, StoreTypes
    <3> QED BY <1>b, <2>2, <3>2 DEF ChainBelow, StoredBlocks
  <2> QED BY <1>a, <2>1, <2>2
<1>3. CASE GenesisHead \/ GenesisHeadHeader
  <2>1. /\ canonical' = canonical /\ StoredBlocks' = StoredBlocks
        /\ canonical[0] = Genesis /\ Genesis \in StoredBlocks
        /\ headBlock' = Genesis /\ (boot' = "up" => currentBlock' = Genesis)
        /\ \A i \in Inserter : pc'[i] = "idle"
    BY <1>0, <1>3 DEF GenesisHead, GenesisHeadHeader, StoreInv, StoreTypes, GenesisWritten,
                      Stored, StoredBlocks, AfterCanonical, AfterHeader, AfterNumber, AfterBody
  <2>2. Whole(Genesis, canonical', StoredBlocks')
    BY <2>1, WholeGenesis
  <2> QED BY <1>a, <2>1, <2>2
<1>4. ASSUME NEW b \in Block \ {Genesis}, SaveLiquidationReport(b) PROVE ChainLinked'
  BY <1>a, <1>b, <1>c, <1>4 DEF SaveLiquidationReport
<1>5. ASSUME NEW i \in Inserter, NEW b \in Block \ {Genesis},
             CommitNewBlock(i, b) \/ ReceiveBlock(i, b)
      PROVE  ChainLinked'
  <2>1. CommitNewBlock(i, b)
    BY <1>5 DEF ReceiveBlock
  <2>2. UNCHANGED <<canonical, headBlock, bodies, numbers, headers, memory, boot>>
    BY <2>1 DEF CommitNewBlock
  <2>3. CASE SameRoots(b)
    <3>1. /\ pc' = [pc EXCEPT ![i] = "insert"] /\ blk' = [blk EXCEPT ![i] = b]
          /\ Parent[b] = currentBlock /\ pc[i] = "idle"
      BY <2>1, <2>3 DEF CommitNewBlock
    <3>2. /\ \A j \in Inserter : j = i
          /\ pc \in [Inserter -> Steps] /\ blk \in [Inserter -> Hash]
      BY <1>0 DEF OneAtATime, StoreTypes
    <3> QED BY <1>a, <1>b, <1>c, <2>2, <3>1, <3>2
  <2>4. CASE ~SameRoots(b)
    BY <1>a, <1>b, <1>c, <2>1, <2>2, <2>4, SMTT(30) DEF CommitNewBlock
  <2> QED BY <2>3, <2>4
<1>6. ASSUME NEW i \in Inserter, Insert(i) PROVE ChainLinked'
  <2>0. /\ \A j \in Inserter : j = i
        /\ boot = "up" /\ boot' = "up" /\ currentBlock \in Block
        /\ pc \in [Inserter -> Steps] /\ blk \in [Inserter -> Hash]
        /\ blk[i] \in Block \ {Genesis}
    BY <1>0, <1>6 DEF OneAtATime, StoreTypes, Insert, InsertRefused, InsertStarts, Process,
                      CommitTo, WriteCanonicalHash, WriteHeadBlockHash, SetCurrentBlock,
                      SetCurrentHeader, WriteBody, WriteNumber, WriteHeader, Step
  <2> USE DEF Step
  <2>1. CASE InsertRefused(i) \/ InsertStarts(i) \/ Process(i) \/ CommitTo(i)
    <3>1. /\ UNCHANGED <<canonical, headBlock, bodies, numbers, headers, memory, boot>>
          /\ pc[i] \in BeforeHead
          /\ \/ pc'[i] = "idle"
             \/ pc'[i] \in {"process", "commit", "canonical"} /\ blk'[i] = blk[i]
                /\ pc[i] # "idle"
      BY <2>0, <2>1 DEF InsertRefused, InsertStarts, Process, CommitTo
    <3> QED BY <1>a, <1>b, <1>c, <2>0, <3>1
  <2>2. CASE WriteCanonicalHash(i)
    <3>1. /\ pc[i] = "canonical" /\ pc'[i] = "head" /\ blk' = blk
          /\ UNCHANGED <<headBlock, bodies, numbers, headers, memory, boot>>
          /\ canonical' = [canonical EXCEPT ![Number[blk[i]]] = blk[i]]
      BY <2>0, <2>2 DEF WriteCanonicalHash
    <3>2. /\ Parent[blk[i]] = currentBlock /\ ChainBelow(currentBlock)
          /\ currentBlock \in StoredBlocks
      BY <1>b, <2>0, <3>1
    <3>3. /\ StoredBlocks' = StoredBlocks
          /\ canonical'[Number[blk[i]]] = blk[i]
          /\ \A n \in Heights : n <= Number[currentBlock] => canonical'[n] = canonical[n]
      <4>1. Number[blk[i]] \in Heights /\ Number[blk[i]] = Number[currentBlock] + 1
            /\ Number[currentBlock] \in Nat
        BY <2>0, <3>2
      <4>2. Heights \subseteq Nat
        BY SMTT(30) DEF Heights
      <4>3. canonical \in [Heights -> Hash]
        BY <1>0 DEF StoreTypes
      <4> QED BY <3>1, <4>1, <4>2, <4>3, SMTT(30) DEF StoredBlocks
    <3>4. Whole(currentBlock, canonical', StoredBlocks')
      BY <1>0, <2>0, <3>2, <3>3, ChainKept
    <3>5. Whole(blk[i], canonical', StoredBlocks')
      BY <1>0, <2>0, <3>2, <3>3, <3>4, WholeExtended DEF StoreTypes
    <3>6. headBlock # NoHash /\ headBlock \in StoredBlocks => headBlock = currentBlock
      BY <1>0, <2>0, <3>1 DEF ChainInv, HeadsAgree, LoadedFacts, Stored, StoredBlocks
    <3> QED BY <1>a, <2>0, <3>1, <3>2, <3>3, <3>4, <3>5, <3>6
  <2>3. CASE WriteHeadBlockHash(i)
    <3>1. /\ pc[i] = "head" /\ pc'[i] = "current" /\ blk' = blk /\ headBlock' = blk[i]
          /\ UNCHANGED <<canonical, bodies, numbers, headers, memory, boot>>
      BY <2>0, <2>3 DEF WriteHeadBlockHash
    <3> QED BY <1>a, <1>b, <1>c, <2>0, <3>1
  <2>4. CASE SetCurrentBlock(i) \/ SetCurrentHeader(i)
    <3>1. /\ pc[i] \in {"current", "header"} /\ pc'[i] \in AfterCurrent /\ blk' = blk
          /\ UNCHANGED <<canonical, headBlock, bodies, numbers, headers, boot>>
      BY <2>0, <2>4 DEF SetCurrentBlock, SetCurrentHeader
    <3> QED BY <1>a, <1>b, <1>c, <2>0, <3>1
  <2>5. CASE WriteBody(i) \/ WriteNumber(i) \/ WriteHeader(i)
    <3>1. /\ pc[i] \in AfterCurrent
          /\ (pc'[i] \in AfterCurrent /\ blk' = blk) \/ pc'[i] = "idle"
          /\ UNCHANGED <<canonical, headBlock, currentBlock, boot>>
          /\ StoredBlocks \subseteq StoredBlocks'
          /\ headBlock = blk[i] /\ currentBlock = blk[i]
      BY <2>0, <2>5 DEF WriteBody, WriteNumber, WriteHeader, StoredBlocks, ChainInv, HeadsAgree
    <3>2. Whole(blk[i], canonical', StoredBlocks')
      BY <1>0, <1>b, <2>0, <3>1, ChainKept
    <3>3. pc'[i] = "idle" => blk[i] \in StoredBlocks'
      BY <2>0, <1>0, <2>5 DEF WriteBody, WriteNumber, WriteHeader, StoredBlocks, StoreInv,
                              BodiesFirst
    <3> QED BY <1>a, <2>0, <3>1, <3>2, <3>3
  <2> QED BY <1>6, <2>1, <2>2, <2>3, <2>4, <2>5 DEF Insert
<1>7. CASE Crash
  <2>1. /\ UNCHANGED <<canonical, headBlock, bodies, numbers, headers>>
        /\ boot' # "up" /\ \A i \in Inserter : pc'[i] = "idle"
    BY <1>7 DEF Crash
  <2> QED BY <1>a, <1>b, <1>c, <2>1
<1>8. CASE UNCHANGED vars
  BY <1>a, <1>b, <1>c, <1>8 DEF vars
<1> QED BY <1>1, <1>2, <1>3, <1>4, <1>5, <1>6, <1>7, <1>8 DEF Next

LEMMA ChainInvariant == OneAtATime => (Spec => []ChainInv)
<1> SUFFICES ASSUME OneAtATime PROVE Spec => []ChainInv
  OBVIOUS
<1>1. Init => ChainInv
  BY StoreInit, HeadsInit DEF ChainInv
<1>2. ChainInv /\ [Next]_vars => ChainInv'
  BY StoreStep, HeadsStep, LinkedStep DEF ChainInv
<1> QED BY <1>1, <1>2, PTL DEF Spec

\* When one block is inserted at a time, a stop between insertions is
\* invisible: loadLastState finds the block and the header that were current,
\* wherever earlier stops had cut an insertion short.
THEOREM RestartsTransparent == OneAtATime => (Spec => []RestartTransparent)
<1> SUFFICES ASSUME OneAtATime PROVE Spec => []RestartTransparent
  OBVIOUS
<1>1. ChainInv => RestartTransparent
  BY DEF ChainInv, StoreInv, StoreTypes, AfterBody, HeadsAgree, BeforeHead, Quiet,
         RestartTransparent
<1> QED BY <1>1, ChainInvariant, PTL

-----------------------------------------------------------------------------
(***************************************************************************)
(* Serving the chain: on a whole chain the walks by parent hashes meet the *)
(* canonical blocks, one after the other, and end with the genesis block.  *)
(***************************************************************************)

\* Two walks with the same first value, each of whose values follows from the
\* one before, agree in every round.
LEMMA SameWalk ==
    ASSUME NEW max \in Nat, NEW f, NEW g, f[0] = g[0],
           \A n \in Nat : n + 1 <= max /\ f[n] = g[n] => f[n+1] = g[n+1]
    PROVE  \A n \in 0..max : f[n] = g[n]
<1> DEFINE T == {n \in Nat : n <= max => f[n] = g[n]}
<1>1. 0 \in T  OBVIOUS
<1>2. ASSUME NEW n \in Nat, n \in T PROVE n + 1 \in T
  BY <1>2, SMTT(30)
<1>3. \A n \in Nat : n \in T
  <2> HIDE DEF T
  <2> QED BY <1>1, <1>2, NatSetInduction
<1> QED BY <1>3, SMTT(30)

\* The whole chain of a stored block: every number up to its own is given to
\* a stored block of that number, from the genesis block on.
LEMMA WholeFacts ==
    ASSUME StoreTypes, NEW c \in Block, ChainBelow(c), c \in StoredBlocks,
           canonical[0] = Genesis
    PROVE  \A n \in 0..Number[c] :
             /\ canonical[n] \in Block /\ canonical[n] # NoHash
             /\ canonical[n] \in StoredBlocks /\ Number[canonical[n]] = n
             /\ n # 0 => /\ n - 1 \in 0..Number[c]
                         /\ Parent[canonical[n]] = canonical[n-1]
             /\ GetHeader(canonical[n], n) = canonical[n]
             /\ GetBlock(canonical[n], n) = canonical[n]
             /\ ParentHeader(canonical[n]) = IF n = 0 THEN NoHash ELSE canonical[n-1]
             /\ Parent[canonical[n]] = IF n = 0 THEN NoHash ELSE canonical[n-1]
<1> USE NumberFacts
<1>1. ASSUME NEW n \in 0..Number[c]
      PROVE  /\ canonical[n] \in Block /\ canonical[n] # NoHash
             /\ canonical[n] \in StoredBlocks /\ Number[canonical[n]] = n
             /\ GetHeader(canonical[n], n) = canonical[n]
             /\ GetBlock(canonical[n], n) = canonical[n]
  <2>1. /\ canonical[n] \in Block /\ canonical[n] \in StoredBlocks
        /\ Number[canonical[n]] = n
    BY SMTT(30) DEF ChainBelow, Whole, StoredBlocks
  <2> QED BY <2>1 DEF GetHeader, GetBody, GetBlock, StoredBlocks
<1>2. ASSUME NEW n \in 0..Number[c], n # 0
      PROVE  n - 1 \in 0..Number[c] /\ Parent[canonical[n]] = canonical[n-1]
  <2>1. n - 1 \in Nat /\ n - 1 < Number[c] /\ (n - 1) + 1 = n  BY <1>2, SMTT(30)
  <2> QED BY <2>1, SMTT(30) DEF ChainBelow, Whole
<1>3. ASSUME NEW n \in 0..Number[c]
      PROVE  /\ ParentHeader(canonical[n]) = IF n = 0 THEN NoHash ELSE canonical[n-1]
             /\ Parent[canonical[n]] = IF n = 0 THEN NoHash ELSE canonical[n-1]
  <2>1. CASE n = 0
    BY <2>1, ChainAssumption DEF ParentHeader
  <2>2. CASE n # 0
    BY <1>1, <1>2, <2>2 DEF ParentHeader
  <2> QED BY <2>1, <2>2
<1> QED BY <1>1, <1>2, <1>3

\* GetBlocksFromHash from a block whose chain is whole.
LEMMA BlocksDown ==
    ASSUME StoreTypes, NEW c \in Block, ChainBelow(c), c \in StoredBlocks,
           canonical[0] = Genesis
    PROVE  GetBlocksFromHash(c, Number[c] + 1) =
             [k \in 1..Number[c]+1 |-> canonical[Number[c] - (k - 1)]]
<1> DEFINE N == Number[c]
           max == N + 1
           W(f) == f = [n \in 0..max |->
                          IF n = 0 THEN c
                          ELSE IF f[n-1] = NoHash THEN NoHash
                          ELSE IF GetBlock(f[n-1], Number[c] - (n-1)) = NoHash
                               THEN NoHash
                          ELSE Parent[f[n-1]]]
           walk == CHOOSE f : W(f)
           w == [n \in 0..max |-> IF n = max THEN NoHash ELSE canonical[N - n]]
           found == {n \in 0..max-1 : walk[n] # NoHash
                                      /\ GetBlock(walk[n], Number[c] - n) # NoHash}
<1>0. N \in Nat /\ max \in Nat /\ c # NoHash /\ canonical[N] = c
  BY NumberFacts, SMTT(30) DEF ChainBelow, Whole
<1>1. GetBlocksFromHash(c, max) =
        IF GetBlockNumber(c) = MissingNumber THEN <<>>
        ELSE [k \in 1..Cardinality(found) |-> walk[k-1]]
  BY DEF GetBlocksFromHash
<1>2. GetBlockNumber(c) # MissingNumber
  BY <1>0, SMTT(30) DEF GetBlockNumber, MissingNumber, StoredBlocks
<1>3. \A n \in 0..N :
         /\ canonical[n] # NoHash
         /\ GetBlock(canonical[n], n) = canonical[n]
         /\ Parent[canonical[n]] = IF n = 0 THEN NoHash ELSE canonical[n-1]
  BY WholeFacts
<1>4. /\ w[0] = c
      /\ \A n \in Nat : n + 1 <= max =>
            /\ w[n] # NoHash /\ GetBlock(w[n], N - n) # NoHash
            /\ w[n+1] = Parent[w[n]]
  <2> HIDE DEF N
  <2>1. w[0] = c  BY <1>0, SMTT(30)
  <2>2. ASSUME NEW n \in Nat, n + 1 <= max
        PROVE  /\ w[n] # NoHash /\ GetBlock(w[n], N - n) # NoHash
               /\ w[n+1] = Parent[w[n]]
    <3>1. N - n \in 0..N /\ n \in 0..max /\ n # max /\ n + 1 \in 0..max
      BY <1>0, <2>2, SMTT(30)
    <3>2. w[n] = canonical[N - n]  BY <3>1
    <3>3. w[n+1] = IF N - n = 0 THEN NoHash ELSE canonical[(N - n) - 1]
      <4>1. N - (n + 1) = (N - n) - 1 /\ (n + 1 = max <=> N - n = 0)  BY <1>0, SMTT(30)
      <4> QED BY <3>1, <4>1
    <3> HIDE DEF w
    <3> QED BY <1>3, <3>1, <3>2, <3>3
  <2> QED BY <2>1, <2>2
<1>5. W(w)
  <2> HIDE DEF N
  <2> SUFFICES ASSUME NEW n \in 0..max
               PROVE  w[n] = IF n = 0 THEN c
                             ELSE IF w[n-1] = NoHash THEN NoHash
                             ELSE IF GetBlock(w[n-1], N - (n-1)) = NoHash
                                  THEN NoHash
                             ELSE Parent[w[n-1]]
    BY DEF N
  <2>1. CASE n = 0  BY <1>4, <2>1
  <2>2. CASE n # 0
    <3>1. n - 1 \in Nat /\ (n - 1) + 1 <= max /\ (n - 1) + 1 = n  BY <1>0, <2>2, SMTT(30)
    <3> HIDE DEF w, max
    <3> QED BY <1>4, <2>2, <3>1
  <2> QED BY <2>1, <2>2
<1>6. W(walk)
  <2> HIDE DEF W
  <2> QED BY <1>5
<1>7. \A n \in 0..max : walk[n] = w[n]
  <2> HIDE DEF walk, N
  <2>1. walk[0] = c
    <3>1. 0 \in 0..max  BY <1>0, SMTT(30)
    <3> QED BY <1>6, <3>1
  <2>2. ASSUME NEW n \in Nat, n + 1 <= max, walk[n] = w[n] PROVE walk[n+1] = w[n+1]
    <3>1. n + 1 \in 0..max /\ n + 1 # 0 /\ (n + 1) - 1 = n  BY <1>0, <2>2, SMTT(30)
    <3>2. walk[n+1] = IF walk[n] = NoHash THEN NoHash
                      ELSE IF GetBlock(walk[n], N - n) = NoHash THEN NoHash
                      ELSE Parent[walk[n]]
      BY <1>6, <3>1 DEF N
    <3> HIDE DEF w, max
    <3> QED BY <1>4, <2>2, <3>2
  <2> HIDE DEF w, max
  <2> QED BY <1>0, <1>4, <2>1, <2>2, SameWalk, SMTT(30)
<1>8. found = 0..N
  <2>1. \A n \in 0..max-1 : n \in Nat /\ n + 1 <= max /\ n \in 0..max  BY <1>0, SMTT(30)
  <2>2. max - 1 = N  BY <1>0, SMTT(30)
  <2> HIDE DEF w, max, walk
  <2> QED BY <1>4, <1>7, <2>1, <2>2, SMTT(30)
<1>9. Cardinality(found) = N + 1
  <2> HIDE DEF found, N
  <2>1. Cardinality(0..N) = IF 0 > N THEN 0 ELSE N - 0 + 1
    BY <1>0, FS_Interval, SMTT(30)
  <2> QED BY <1>0, <1>8, <2>1, SMTT(30)
<1>10. \A k \in 1..N+1 : walk[k-1] = canonical[N - (k - 1)]
  <2> HIDE DEF N, walk
  <2> QED BY <1>0, <1>7, SMTT(30)
<1> HIDE DEF N, walk, found, w
<1>11. GetBlocksFromHash(c, max) = [k \in 1..N+1 |-> canonical[N - (k - 1)]]
  BY <1>1, <1>2, <1>9, <1>10
<1> QED BY <1>11 DEF N

\* GetBlockHashesFromHash from a block whose chain is whole.
LEMMA HashesDown ==
    ASSUME StoreTypes, NEW c \in Block, ChainBelow(c), c \in StoredBlocks,
           canonical[0] = Genesis
    PROVE  GetBlockHashesFromHash(c, Number[c] + 1) =
             [k \in 1..Number[c] |-> canonical[Number[c] - k]]
<1> DEFINE N == Number[c]
           max == N + 1
           W(f) == f = [k \in 0..max |->
                          IF k = 0 THEN GetHeaderByHash(c)
                          ELSE IF f[k-1] = NoHash THEN NoHash
                          ELSE ParentHeader(f[k-1])]
           up == CHOOSE f : W(f)
           w == [n \in 0..max |-> IF n = max THEN NoHash ELSE canonical[N - n]]
           found == {j \in 1..max : up[j] # NoHash}
<1>0. N \in Nat /\ max \in Nat /\ c # NoHash /\ canonical[N] = c
  BY NumberFacts, SMTT(30) DEF ChainBelow, Whole
<1>1. GetBlockHashesFromHash(c, max) = [k \in 1..Cardinality(found) |-> up[k]]
  BY DEF GetBlockHashesFromHash
<1>2. GetHeaderByHash(c) = c
  BY <1>0, SMTT(30) DEF GetHeaderByHash, GetHeader, GetBlockNumber, MissingNumber, StoredBlocks
<1>3. \A n \in 0..N :
         /\ canonical[n] # NoHash
         /\ ParentHeader(canonical[n]) = IF n = 0 THEN NoHash ELSE canonical[n-1]
  BY WholeFacts
<1>4. /\ w[0] = c /\ w[max] = NoHash
      /\ \A n \in Nat : n + 1 <= max =>
            w[n] # NoHash /\ w[n+1] = ParentHeader(w[n])
  <2> HIDE DEF N
  <2>1. w[0] = c /\ w[max] = NoHash  BY <1>0, SMTT(30)
  <2>2. ASSUME NEW n \in Nat, n + 1 <= max
        PROVE  w[n] # NoHash /\ w[n+1] = ParentHeader(w[n])
    <3>1. N - n \in 0..N /\ n \in 0..max /\ n # max /\ n + 1 \in 0..max
      BY <1>0, <2>2, SMTT(30)
    <3>2. w[n] = canonical[N - n]  BY <3>1
    <3>3. w[n+1] = IF N - n = 0 THEN NoHash ELSE canonical[(N - n) - 1]
      <4>1. N - (n + 1) = (N - n) - 1 /\ (n + 1 = max <=> N - n = 0)  BY <1>0, SMTT(30)
      <4> QED BY <3>1, <4>1
    <3> HIDE DEF w
    <3> QED BY <1>3, <3>1, <3>2, <3>3
  <2> QED BY <2>1, <2>2
<1>5. W(w)
  <2> HIDE DEF N
  <2> SUFFICES ASSUME NEW n \in 0..max
               PROVE  w[n] = IF n = 0 THEN GetHeaderByHash(c)
                             ELSE IF w[n-1] = NoHash THEN NoHash
                             ELSE ParentHeader(w[n-1])
    OBVIOUS
  <2>1. CASE n = 0  BY <1>2, <1>4, <2>1
  <2>2. CASE n # 0
    <3>1. n - 1 \in Nat /\ (n - 1) + 1 <= max /\ (n - 1) + 1 = n  BY <1>0, <2>2, SMTT(30)
    <3> HIDE DEF w, max
    <3> QED BY <1>4, <2>2, <3>1
  <2> QED BY <2>1, <2>2
<1>6. W(up)
  <2> HIDE DEF W
  <2> QED BY <1>5
<1>7. \A n \in 0..max : up[n] = w[n]
  <2> HIDE DEF up, N
  <2>1. up[0] = c
    <3>1. 0 \in 0..max  BY <1>0, SMTT(30)
    <3> QED BY <1>2, <1>6, <3>1
  <2>2. ASSUME NEW n \in Nat, n + 1 <= max, up[n] = w[n] PROVE up[n+1] = w[n+1]
    <3>1. n + 1 \in 0..max /\ n + 1 # 0 /\ (n + 1) - 1 = n  BY <1>0, <2>2, SMTT(30)
    <3>2. up[n+1] = IF up[n] = NoHash THEN NoHash ELSE ParentHeader(up[n])
      BY <1>6, <3>1
    <3> HIDE DEF w, max
    <3> QED BY <1>4, <2>2, <3>2
  <2> HIDE DEF w, max
  <2> QED BY <1>0, <1>4, <2>1, <2>2, SameWalk, SMTT(30)
<1>8. found = 1..N
  <2>1. ASSUME NEW j \in 1..max PROVE up[j] # NoHash <=> j # max
    <3>1. j \in 0..max /\ (j # max => j \in Nat /\ j + 1 <= max)  BY <1>0, SMTT(30)
    <3> HIDE DEF w, max, up
    <3> QED BY <1>4, <1>7, <3>1
  <2>2. \A j : j \in 1..N <=> j \in 1..max /\ j # max  BY <1>0, SMTT(30)
  <2> HIDE DEF up, max, N
  <2> QED BY <2>1, <2>2
<1>9. Cardinality(found) = N
  <2> HIDE DEF found, N
  <2>1. Cardinality(1..N) = IF 1 > N THEN 0 ELSE N - 1 + 1
    BY <1>0, FS_Interval, SMTT(30)
  <2> QED BY <1>0, <1>8, <2>1, SMTT(30)
<1>10. \A k \in 1..N : up[k] = canonical[N - k]
  <2> HIDE DEF N, up
  <2> QED BY <1>0, <1>7, SMTT(30)
<1> HIDE DEF N, up, found, w
<1>11. GetBlockHashesFromHash(c, max) = [k \in 1..N |-> canonical[N - k]]
  BY <1>1, <1>9, <1>10
<1> QED BY <1>11 DEF N

\* When one block is inserted at a time and each was validated, the whole
\* chain can be served between insertions: both walks by parent hashes, over
\* blocks and over headers, and the reads by number agree block for block
\* from the head to the genesis block, and the head's state opens.
THEOREM ChainAlwaysServable == OneAtATime => (Spec => []ChainServable)
<1> SUFFICES ASSUME OneAtATime PROVE Spec => []ChainServable
  OBVIOUS
<1>1. ASSUME ChainInv PROVE ChainServable
  <2>1. /\ HeaderOwnsBlock
        /\ boot = "up" /\ ~networked => Root[currentBlock] \in roots
    BY <1>1 DEF ChainInv, StoreInv, BodiesFirst, StatesCommitted
  <2>2. ASSUME Quiet, ~networked
        PROVE  LET n == Number[currentBlock]
                   down == GetBlocksFromHash(currentBlock, n + 1)
               IN  /\ Len(down) = n + 1
                   /\ GetBlockHashesFromHash(currentBlock, n + 1) = Tail(down)
                   /\ \A k \in 0..n : /\ GetBlockByNumber(k) = down[n + 1 - k]
                                      /\ GetHeaderByNumber(k) = down[n + 1 - k]
    <3> DEFINE c == currentBlock
               n == Number[c]
               down == [k \in 1..n+1 |-> canonical[n - (k - 1)]]
    <3>1. /\ StoreTypes /\ c \in Block /\ n \in Nat /\ canonical[0] = Genesis
          /\ ChainBelow(c) /\ c \in StoredBlocks
      BY <1>1, <2>2, NumberFacts
         DEF ChainInv, StoreInv, StoreTypes, GenesisWritten, AfterCanonical, AfterHeader,
             AfterNumber, AfterBody, ChainLinked, AfterCurrent, Quiet, Stored, StoredBlocks
    <3> HIDE DEF c
    <3>2. GetBlocksFromHash(c, n + 1) = down
      BY <3>1, BlocksDown
    <3>3. GetBlockHashesFromHash(c, n + 1) = [k \in 1..n |-> canonical[n - k]]
      BY <3>1, HashesDown
    <3>4. \A k \in 0..n : /\ canonical[k] \in Block /\ canonical[k] # NoHash
                          /\ GetHeader(canonical[k], k) = canonical[k]
                          /\ GetBlock(canonical[k], k) = canonical[k]
      BY <3>1, WholeFacts
    <3> HIDE DEF n
    <3>5. down \in Seq(Block) /\ Len(down) = n + 1
      <4>1. \A k \in 1..n+1 : n - (k - 1) \in 0..n  BY <3>1, SMTT(30)
      <4> QED BY <3>1, <3>4, <4>1, SMTT(30)
    <3>6. Tail(down) = [k \in 1..n |-> canonical[n - k]]
      <4>1. \A k \in 1..n : down[k+1] = canonical[n - k]
        <5> TAKE k \in 1..n
        <5>1. k + 1 \in 1..n+1 /\ n - ((k + 1) - 1) = n - k  BY <3>1, SMTT(30)
        <5> QED BY <5>1
      <4>2. Len(down) - 1 = n  BY <3>1, <3>5, SMTT(30)
      <4> HIDE DEF down
      <4>3. down # <<>>  BY <3>1, <3>5, SMTT(30)
      <4>4. /\ Tail(down) \in Seq(Block) /\ Len(Tail(down)) = n
            /\ \A k \in 1..n : Tail(down)[k] = down[k+1]
        BY <3>5, <4>2, <4>3, HeadTailProperties
      <4> DEFINE t == [k \in 1..n |-> canonical[n - k]]
      <4>5. t \in Seq(Block) /\ Len(t) = n
        <5>1. \A k \in 1..n : n - k \in 0..n  BY <3>1, SMTT(30)
        <5> QED BY <3>1, <3>4, <5>1, SMTT(30)
      <4>6. \A k \in 1..n : Tail(down)[k] = t[k]
        BY <4>1, <4>4
      <4> HIDE DEF t
      <4>7. Tail(down) = t
        BY <4>4, <4>5, <4>6, SeqEqual
      <4> QED BY <4>7 DEF t
    <3>7. ASSUME NEW k \in 0..n
          PROVE  /\ GetBlockByNumber(k) = down[n + 1 - k]
                 /\ GetHeaderByNumber(k) = down[n + 1 - k]
      <4>1. n + 1 - k \in 1..n+1 /\ n - ((n + 1 - k) - 1) = k  BY <3>1, SMTT(30)
      <4>2. down[n + 1 - k] = canonical[k]  BY <4>1
      <4> QED BY <3>4, <4>2 DEF GetBlockByNumber, GetHeaderByNumber, GetCanonicalHash
    <3> HIDE DEF down
    <3> QED BY <3>2, <3>3, <3>5, <3>6, <3>7 DEF c, n
  <2> QED BY <2>1, <2>2 DEF ChainServable
<1> QED BY <1>1, ChainInvariant, PTL

=============================================================================
