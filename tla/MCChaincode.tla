----------------------------- MODULE MCChaincode -----------------------------
(***************************************************************************)
(* Two processes of one chaincode, the second started while the first      *)
(* runs or after it has ended.                                             *)
(***************************************************************************)
EXTENDS Shim

CONSTANTS t1, t2

MCNameOf == [s \in Stream |-> "cc"]
MCKindOf == [t \in Tx |-> IF t = t1 THEN "INIT" ELSE "TRANSACTION"]
MCCallsOf == [t \in Tx |-> IF t = t1 THEN {"PUT_STATE", "INVOKE_CHAINCODE"}
                           ELSE {"GET_STATE", "DEL_STATE"}]
=============================================================================
