----------------------------- MODULE StateLedger -----------------------------
(***************************************************************************)
(* What the state database promises: a working copy of the ledger that can *)
(* be changed at will and be committed.  A commit makes durable exactly    *)
(* what the working copy shows, except that entries that are empty are     *)
(* dropped; nothing else changes the committed ledger.                     *)
(***************************************************************************)
CONSTANT NonEmpty(_)   \* a ledger without its empty entries

VARIABLES committed, working

Init == committed = NonEmpty(committed) /\ working = committed

\* Any operation, and giving up the working copy.
Change == committed' = committed

Commit == committed' = NonEmpty(working) /\ working' = committed'

Next == Change \/ Commit

Spec == Init /\ [][Next]_<<committed, working>>

=============================================================================
