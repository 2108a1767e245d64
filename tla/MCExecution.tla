---------------------------- MODULE MCExecution ----------------------------
(* Instances of Execution: an account of the configuration file and another *)
(* address, with transactions of every kind.                                *)
EXTENDS Execution

CONSTANTS g, a, b

Txn(k, f, t, c, v) ==
    [kind |-> k, from |-> f, to |-> t, cost |-> c, value |-> v, space |-> 1]

\* One account, on the space the first new space would get.
OneAccount == <<[addr |-> g, space |-> 1, wallet |-> 1, balance |-> 3]>>

EveryKind == {Txn("create", g, a, 0, 0), Txn("create", g, g, 0, 0),
              Txn("create", g, b, 1, 0), Txn("recharge", g, a, 1, 1),
              Txn("attr", a, a, 0, 0), Txn("charge", g, g, 1, 0),
              Txn("report", g, g, 0, 1)}

\* Direct use is explored over two blocks, two addresses and two spaces.
DirectBound ==
    phase = "direct" =>
      /\ blocks < 2
      /\ st.acc[b] = None /\ trieAccount[b] = None
      /\ \A i \in SpaceId \ {0, 1} : st.spc[i] = None /\ trieSpace[i] = None

=============================================================================
