------------------------------ MODULE MCWorker ------------------------------
(***************************************************************************)
(* A committee of three with two competing proposals for one height        *)
(* (Rival) or a single proposal (Sole).                                    *)
(***************************************************************************)
EXTENDS Worker

CONSTANTS g, b1, c1, n1, n2, n3

RivalBlocks == {g, b1, c1}

RivalNumber == [b \in RivalBlocks |-> IF b = g THEN 0 ELSE 1]

RivalParent == [b \in RivalBlocks |-> IF b = g THEN None ELSE g]

RivalProposer ==
    [b \in RivalBlocks |-> CASE b = g -> None [] b = b1 -> n1 [] b = c1 -> n2]

SoleBlocks == {g, b1}

SoleNumber == [b \in SoleBlocks |-> RivalNumber[b]]

SoleParent == [b \in SoleBlocks |-> RivalParent[b]]

SoleProposer == [b \in SoleBlocks |-> RivalProposer[b]]

SoleIndex == [b \in SoleBlocks |-> 0]

RivalIndex == [b \in RivalBlocks |-> IF b = c1 THEN 1 ELSE 0]

=============================================================================
