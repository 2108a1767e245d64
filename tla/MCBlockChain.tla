---------------------------- MODULE MCBlockChain ----------------------------
(***************************************************************************)
(* Two small trees of blocks for the model checker.                        *)
(*                                                                         *)
(*      g -- b1 -- b2 -- b3        and the fork        g -- b1 -- b2       *)
(*        \- c1 -- c2                                    \- c1 -- c2       *)
(***************************************************************************)
EXTENDS BlockChain

CONSTANTS g, b1, b2, b3, c1, c2

LongTree == {g, b1, b2, b3, c1, c2}

ForkTree == {g, b1, b2, c1, c2}

LongNumber == [b \in LongTree |-> CASE b = g -> 0 [] b \in {b1, c1} -> 1
                                    [] b \in {b2, c2} -> 2 [] b = b3 -> 3]

LongParent == [b \in LongTree |-> CASE b = g -> NoHash [] b \in {b1, c1} -> g
                                    [] b = b2 -> b1 [] b = c2 -> c1
                                    [] b = b3 -> b2]

ForkNumber == [b \in ForkTree |-> LongNumber[b]]

ForkParent == [b \in ForkTree |-> LongParent[b]]

\* Blocks straight from the network leave many different states behind, so
\* only one stop is explored along with them, and MaxCrashes without them.
OneStopOnceNetworked == networked => crashes <= 1

=============================================================================
