----------------------------- MODULE MCBlsGroup -----------------------------
EXTENDS BlsGroup

\* A group of others, then one of the three nodes, which is announced again
\* under another number.
ThreeEvents == <<[gid |-> 0, addrs |-> <<4, 5, 6>>],
                 [gid |-> 0, addrs |-> <<1, 2, 3>>],
                 [gid |-> 1, addrs |-> <<1, 2, 3>>]>>

\* Only node 1 draws from all of Coef; the others' random coefficients are 3.
OneRandom ==
    \A msg \in network \ {m \in network : m.from = 1} :
      \E k \in 2..4 :
        msg.shares[1] = Evaluate([d \in 1..k |-> IF d = 1 THEN msg.from ELSE 3], 1)

=============================================================================
