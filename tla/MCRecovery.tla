----------------------------- MODULE MCRecovery -----------------------------
(* Instances of Recovery: a tree of blocks over three outputs, 1 is the     *)
(* genesis block.                                                           *)
EXTENDS Recovery

\* 1 - 2 with the branches 2 - 3 and 2 - 4.  2 creates x and y.  The transaction
\* that turns x into z is in 3 and in 4, so that z is not the same coin in the
\* two branches; y is spent in 4 only.
ForkBlock == 1..4
ForkPrev == <<0, 1, 2, 2>>
ForkHeight == <<0, 1, 2, 2>>
ForkIn == <<{}, {}, {"x"}, {"x", "y"}>>
ForkOut == <<{}, {"x", "y"}, {"z"}, {"z"}>>

\* 1 - 2 - 3 - 4, which create x, turn it into y, and y into z.
LineBlock == 1..4
LinePrev == <<0, 1, 2, 3>>
LineHeight == <<0, 1, 2, 3>>
LineIn == <<{}, {}, {"x"}, {"y"}>>
LineOut == <<{}, {"x"}, {"y"}, {"z"}>>

\* The same blocks, which create x, turn it into y, and that into x again.
LoopOut == <<{}, {"x"}, {"y"}, {"x"}>>
LoopOutpoint == {"x", "y"}

\* 1 - 2 - 3: x, and z for x.
ShortBlock == 1..3
ShortPrev == <<0, 1, 2>>
ShortHeight == <<0, 1, 2>>
ShortIn == <<{}, {}, {"x"}>>
ShortOut == <<{}, {"x", "y"}, {"z"}>>

Out == {"x", "y", "z"}

RECURSIVE UtxoAfter(_)
UtxoAfter(b) == IF b = Genesis THEN Empty ELSE RollforwardBlock(b, UtxoAfter(pprev[b]))

MCUtxo == [b \in Block |-> UtxoAfter(b)]
=============================================================================
