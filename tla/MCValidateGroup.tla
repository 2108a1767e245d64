-------------------------- MODULE MCValidateGroup --------------------------
(* Small instances of ValidateGroup for TLC. *)
EXTENDS Committee

CONSTANTS a1, a2, a3, g

ForeignHash == <<"foreign", <<>>>>

\* The three applicants may apply to any family.
AnyCandidates == [f \in Family |-> IF f = "space" THEN {a1, a2, a3, g} ELSE {a1, a2, a3}]

\* The families share a database and nothing else: behaviours in which one of
\* them has applicants.
Applied(f) ==
  {a1, a2, a3} \cap (marked[f] \cup IF f \in Pipeline
                                   THEN AddrsOf(dThreshold[f]) \cup AddrsOf(group[f]) ELSE {})
OneFamily == \A e, f \in Family : Applied(e) # {} /\ Applied(f) # {} => e = f

\* Two draws for each of the epochs.
SomeDraws == [e \in 0..2 |-> [i \in 0..3 |-> 3 * e + 2 * i + 1]]

\* A run of coins longer than the code lets one member have, after a gap.
SomeCoins == {<<1, 3, 4, 5, 6, 7, 8, 9, 10, 12>>}
SomeCoinHash == [cid \in 1..12 |-> (5 * cid) % 7]

\* A draw reads group and number and writes variables nothing else reads: it
\* commutes with every step of a block but the one that installs a group and a
\* restart, and the group installed is still there when the block is done.
DrawsAtRest == selected' # selected => stage = "idle" \/ crashes' # crashes

Symmetry == Permutations({a1, a2, a3})
============================================================================
