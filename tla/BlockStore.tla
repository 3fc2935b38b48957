----------------------------- MODULE BlockStore -----------------------------
(***************************************************************************)
(* What the synchronisation of a workspace promises whoever reads its      *)
(* tables (api/blocks.js, api/transactions.js): a block appears and goes   *)
(* together with its transactions and receipts, a transaction is ready     *)
(* only after its receipt was stored, and neither is taken back while the  *)
(* block is there.                                                         *)
(***************************************************************************)
CONSTANTS Blocks, Txs, BlockOf

VARIABLES
    stored,     \* blocks in the table
    receipts,   \* transactions whose receipt is in the table
    ready       \* transactions whose state is 'ready'

Of(n) == {t \in Txs : BlockOf[t] = n}

Init == stored = {} /\ receipts = {} /\ ready = {}

StoreBlock(n) ==
    /\ n \notin stored
    /\ stored' = stored \cup {n}
    /\ UNCHANGED <<receipts, ready>>

StoreReceipt(t) ==
    /\ BlockOf[t] \in stored /\ t \notin receipts
    /\ receipts' = receipts \cup {t}
    /\ UNCHANGED <<stored, ready>>

SetReady(t) ==
    /\ t \in receipts \ ready
    /\ ready' = ready \cup {t}
    /\ UNCHANGED <<stored, receipts>>

RemoveBlock(n) ==
    /\ n \in stored
    /\ stored' = stored \ {n}
    /\ receipts' = receipts \ Of(n)
    /\ ready' = ready \ Of(n)

Next == \/ \E n \in Blocks : StoreBlock(n) \/ RemoveBlock(n)
        \/ \E t \in Txs : StoreReceipt(t) \/ SetReady(t)

Spec == Init /\ [][Next]_<<stored, receipts, ready>>
=============================================================================
