---------------------------- MODULE DurableChain ----------------------------
(***************************************************************************)
(* What flushing and recovery promise to the rest of the node: the UTXO    *)
(* set in memory is always exactly that of one block, it moves from block  *)
(* to neighbouring block, and after a stop the node is again at a block it *)
(* was at when it wrote its state.  Nothing of the way the state is        *)
(* written (batches, files, replays) is visible.  Recovery implements this *)
(* specification.                                                          *)
(***************************************************************************)
CONSTANTS
    Block,
    NoBlock,    \* no block: an empty chain
    pprev,
    Empty,      \* the UTXO set of the empty chain
    Utxo        \* the UTXO set of the chain that ends in a block

VARIABLES
    up,         \* the node runs
    at,         \* the block that the UTXO set in memory belongs to
    coins,      \* that UTXO set
    durable     \* the blocks of which a later start may find the UTXO set

vars == <<up, at, coins, durable>>

UtxoOf(b) == IF b = NoBlock THEN Empty ELSE Utxo[b]

Init ==
    /\ up = FALSE
    /\ at = NoBlock
    /\ coins = Empty
    /\ durable = {NoBlock}

Start ==
    /\ ~up
    /\ up' = TRUE
    /\ at' \in durable
    /\ coins' = UtxoOf(at')
    /\ durable' = {at'}

\* One block is connected or disconnected.
Move ==
    /\ up
    /\ at' \in Block
    /\ \/ pprev[at'] = at
       \/ at \in Block /\ pprev[at] = at'
    /\ coins' = UtxoOf(at')
    /\ UNCHANGED <<up, durable>>

\* The state is written; what was written before may still be what survives.
Write ==
    /\ up
    /\ durable' \in {d \cup {at} : d \in SUBSET durable}
    /\ UNCHANGED <<up, at, coins>>

\* The node stops: by a crash, which may also lose what was written last,
\* or in an orderly way.
Stop ==
    /\ up
    /\ up' = FALSE
    /\ at' = NoBlock
    /\ coins' = Empty
    /\ durable' \in (SUBSET durable) \ {{}}

Next == Start \/ Move \/ Write \/ Stop

Spec == Init /\ [][Next]_vars
=============================================================================
