------------------------------ MODULE UtxoSet ------------------------------
(***************************************************************************)
(* What the stack of coins views promises to the validation code: three    *)
(* plain maps from outpoints to coins, each with the block it is the UTXO  *)
(* set of.  "disk" is what the coins database holds, "tip" what CoinsTip() *)
(* reports, "view" what the temporary per-block view reports while a block *)
(* is connected or disconnected.  There are no flags and no cached copies: *)
(* CoinsCache implements this specification.                               *)
(***************************************************************************)
CONSTANTS
    Outpoint,   \* transaction outputs
    Coin,       \* unspent coins (the data stored for an output)
    Spent,      \* the nulled-out coin: there is no unspent output here
    Block       \* block hashes

VARIABLES disk, tip, view, open

vars == <<disk, tip, view, open>>

Coins == [Outpoint -> Coin \cup {Spent}]

View == [coins : Coins, best : Block]

Init ==
    /\ disk \in View
    /\ tip = disk
    /\ view = disk
    /\ open = FALSE

\* A block is about to be connected or disconnected.
OpenView ==
    /\ ~open
    /\ open' = TRUE
    /\ UNCHANGED <<disk, tip, view>>

\* One output of the block's view is created or spent.
Write ==
    /\ open
    /\ \E o \in Outpoint, c \in Coin \cup {Spent} :
           view' = [view EXCEPT !.coins[o] = c]
    /\ UNCHANGED <<disk, tip, open>>

SetBestBlock ==
    /\ open
    /\ \E b \in Block : view' = [view EXCEPT !.best = b]
    /\ UNCHANGED <<disk, tip, open>>

\* The whole view replaces the tip, or none of it does.
Commit ==
    /\ open
    /\ tip' = view
    /\ open' = FALSE
    /\ UNCHANGED <<disk, view>>

Discard ==
    /\ open
    /\ view' = tip
    /\ open' = FALSE
    /\ UNCHANGED <<disk, tip>>

\* The database catches up with the tip.
Persist ==
    /\ ~open
    /\ disk' = tip
    /\ UNCHANGED <<tip, view, open>>

Next == OpenView \/ Write \/ SetBestBlock \/ Commit \/ Discard \/ Persist

Spec == Init /\ [][Next]_vars
=============================================================================
