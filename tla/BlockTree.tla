------------------------------ MODULE BlockTree ------------------------------
(***************************************************************************)
(* The tree of block headers that CBlockIndex entries form (chain.h): the  *)
(* fields of an entry that never change once AddToBlockIndex has set them, *)
(* and the queries on them.                                                *)
(***************************************************************************)
EXTENDS Integers

CONSTANTS
    Block,      \* all blocks whose header passes the checks of a header
    Genesis,
    NoBlock,    \* nullptr
    pprev,
    nHeight,
    nChainWork

ASSUME BlockTreeAssumption ==
    /\ Genesis \in Block
    /\ NoBlock \notin Block
    /\ pprev \in [Block -> Block \cup {NoBlock}]
    /\ nHeight \in [Block -> Nat]
    /\ nChainWork \in [Block -> Nat]
    /\ nHeight[Genesis] = 0
    /\ \A b \in Block : pprev[b] = NoBlock <=> b = Genesis
    /\ \A b \in Block \ {Genesis} :
         /\ nHeight[b] = nHeight[pprev[b]] + 1
         /\ nChainWork[b] > nChainWork[pprev[b]]

\* A set that has the parent of every member, as far as the genesis block
HasParents(S) == \A c \in S \ {Genesis} : pprev[c] \in S

\* The block and its ancestors, the least such set with the block in it: what the
\* loop of CChain::SetTip makes the chain of.
Chain ==
    [b \in Block |-> {a \in Block : \A S \in SUBSET Block : b \in S /\ HasParents(S) => a \in S}]

\* d->GetAncestor(b->nHeight) == b
Descends(d, b) == b \in Chain[d]

\* b->GetAncestor(height), for a height up to b's own
GetAncestor(b, height) == CHOOSE a \in Chain[b] : nHeight[a] = height

\* The last block that the chains ending in a and b share.
FindFork(a, b) ==
    CHOOSE f \in Chain[a] \cap Chain[b] :
        \A c \in Chain[a] \cap Chain[b] : nHeight[c] <= nHeight[f]

=============================================================================
