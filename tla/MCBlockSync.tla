----------------------------- MODULE MCBlockSync -----------------------------
(***************************************************************************)
(* Instances of BlockSync for TLC.  A chain of two or three blocks is      *)
(* enough for a block before, in and after a gap; one transaction makes a  *)
(* block partial, two let one receipt arrive without the other.            *)
(***************************************************************************)
EXTENDS BlockSync, TLC

CONSTANTS t1, t2

\* One transaction, in block 1.
TxInOne == t1 :> 1
\* Two transactions, in block 1.
TwoTxsInOne == t1 :> 1 @@ t2 :> 1
\* No transaction.
NoTxs == <<>>

\* Every block is a step of time later than the one before, block 2 two steps.
Uneven == [n \in Blocks |-> IF n < 2 THEN n ELSE n + 1]
=============================================================================
