---------------------------- MODULE MCChainstate ----------------------------
(* Instances of Chainstate: small trees of blocks, 1 is the genesis block.  *)
EXTENDS Chainstate

\* Two forks from the genesis block: 1 - 2 - 3 and 1 - 4 - 5, of equal work.
ForkBlock == 1..5
ForkPrev == <<0, 1, 2, 1, 4>>
ForkHeight == <<0, 1, 2, 1, 2>>
ForkWork == <<1, 2, 3, 2, 3>>

\* 1 - 2 with the branches 2 - 3 - 4 and 2 - 5.
TreeBlock == 1..5
TreePrev == <<0, 1, 2, 3, 2>>
TreeHeight == <<0, 1, 2, 3, 2>>
TreeWork == <<1, 2, 3, 4, 3>>

\* All blocks are valid, or one of the blocks in S fails one of the checks in V.
OneBad(Blocks, S, V) ==
    LET AllOk == [b \in Blocks |-> "ok"]
    IN  {AllOk} \cup {[AllOk EXCEPT ![b] = v] : b \in S, v \in V}

ForkVerdicts == OneBad(ForkBlock, {2, 5}, {"connect"})
TreeVerdicts == OneBad(TreeBlock, {3}, {"context", "connect"})

OneLayout == {[b \in Block |-> b]}

Least == -3

Never == [quiet |-> TRUE, invalidate |-> 0, precious |-> 0, reset |-> 0, error |-> 0,
          restart |-> 0]

\* The operator invalidates two blocks, in calm; or one, and the disk fails once.
Calm == {[Never EXCEPT !.invalidate = 2], [Never EXCEPT !.invalidate = 1, !.error = 1]}

\* Blocks arrive while InvalidateBlock runs, and the node restarts; or the disk
\* fails and the node restarts; or the operator invalidates, reconsiders and prefers
\* blocks.
Busy == {[Never EXCEPT !.quiet = FALSE, !.invalidate = 1, !.restart = 1],
         [Never EXCEPT !.quiet = FALSE, !.error = 1, !.restart = 1],
         [Never EXCEPT !.invalidate = 1, !.precious = 1, !.reset = 1]}
=============================================================================
