-------------------------- MODULE ChainstateProofs --------------------------
(***************************************************************************)
(* For every tree of blocks, every memory layout and every verdict: the    *)
(* active chain, and the chain that ActivateBestChain is connecting, hold  *)
(* no failed block; ActivateBestChain never gives up cs_main with a worse  *)
(* tip than it took it with; and listeners follow the tip.                 *)
(***************************************************************************)
EXTENDS Chainstate, FiniteSetFacts, TLAPS

\* What may be assumed of the sets of blocks
SetsOK ==
    /\ index \subseteq Block /\ Genesis \in index /\ IsFiniteSet(index)
    /\ \A b \in index \ {Genesis} : pprev[b] \in index
    /\ data \subseteq index /\ linked \subseteq data /\ unlinked \subseteq data \ linked
    /\ failedValid \subseteq index \ {Genesis} /\ failedChild \subseteq index \ {Genesis}
    /\ candidates \subseteq linked
    /\ tip \in linked
    /\ \A b \in linked : Chain[b] \subseteq linked

HeadersOK == m_best_header \in index /\ m_best_invalid \in index \cup {NoBlock}

NumbersOK ==
    /\ address \in Addresses /\ verdict \in Verdicts /\ scenario \in Scenarios
    /\ nSequenceId \in [Block -> Int]
    /\ nBlockSequenceId \in Nat /\ nBlockReverseSequenceId \in MinSequenceId .. -1
    /\ nLastPreciousChainwork \in Nat
    /\ calls \in [invalidate : Nat, precious : Nat, reset : Nat, error : Nat, restart : Nat]
    /\ pending \in BOOLEAN /\ interrupt \in BOOLEAN
    /\ heard \in [seen : MaybeBlock, told : MaybeBlock]

ThreadTypes ==
    /\ pc \in {"idle", "while", "find", "disconnect", "connect", "loop", "out",
               "scan", "walk", "check", "mark"}
    /\ abc \in [mostWork : MaybeBlock, newTip : MaybeBlock, starting : MaybeBlock,
                old : MaybeBlock, front : MaybeBlock, connected : BOOLEAN]
    /\ inv \in [pindex : MaybeBlock, to_mark_failed : MaybeBlock,
                was_in_chain : BOOLEAN, headers : SUBSET index]

\* A chain without failed blocks, and one that ConnectBlock does not reject
Unfailed(b) == Chain[b] \cap failed = {}

Connectable(b) == \A x \in Chain[b] : verdict[x] # "connect"

\* Where the thread with m_chainstate_mutex is, and what its locals then are
AbcOK ==
    /\ pc \in {"idle", "scan", "walk", "check", "mark"} => abc = NoCall
    /\ abc.mostWork # NoBlock => abc.mostWork \in linked /\ Unfailed(abc.mostWork)
    /\ abc.front \in index \cup {NoBlock}
    /\ Holds_cs_main => abc.starting \in Block
    /\ pc \in {"disconnect", "connect"} => abc.mostWork # NoBlock
    /\ pc \in {"disconnect", "connect", "loop"} => abc.old \in Block
    /\ pc = "connect" => tip # abc.mostWork
    /\ pc \in {"connect", "loop", "out", "while"} /\ abc.mostWork # NoBlock => tip \in Chain[abc.mostWork]

InvOK ==
    /\ ~ Invalidating => inv = NoInvalidation
    /\ Invalidating =>
         /\ inv.pindex \in index \ {Genesis} /\ inv.to_mark_failed \in index \ {Genesis}
         /\ IF inv.was_in_chain THEN tip = pprev[inv.to_mark_failed]
                                ELSE inv.to_mark_failed = inv.pindex

\* The inductive invariant
IInv ==
    /\ SetsOK /\ HeadersOK /\ NumbersOK /\ ThreadTypes
    /\ Unfailed(tip) /\ Connectable(tip)
    /\ AbcOK /\ InvOK

\* The scenarios considered for what follows: nothing interleaves with an InvalidateBlock
\* that a disk error may end early, and PreciousBlock is called at most twice.
NoCutShort == \A s \in Scenarios : s.quiet \/ s.invalidate = 0 \/ s.error = 0

Considered == NoCutShort /\ \A s \in Scenarios : s.precious <= 2

\* The bounded calls, and the sequence ids the first ones of PreciousBlock give
CallsOK ==
    /\ calls.invalidate <= scenario.invalidate /\ calls.precious <= scenario.precious
    /\ calls.error <= scenario.error
    /\ Invalidating => calls.invalidate > 0
    /\ calls.precious = 0 => nBlockReverseSequenceId = -1
    /\ calls.precious <= 1 => \A b \in Block : nSequenceId[b] >= -1

\* The headers an InvalidateBlock has collected are all that matter to it.
HeadersCollected ==
    \A c \in index \ Chain[tip] : c \notin failed /\ ~ WorseNow(c, pprev[inv.pindex]) => c \in inv.headers

\* Descendants of failed blocks are marked, but for what has come in while an
\* InvalidateBlock disconnects blocks.
MarksOK ==
    /\ pc = "walk" /\ scenario.quiet => HeadersCollected
    /\ \A x \in index : Chain[x] \cap failed # {} =>
         \/ x \in failed
         \/ ~ scenario.quiet /\ Invalidating /\ inv.was_in_chain /\ inv.to_mark_failed \in Chain[x]

\* For the progress of ActivateBestChain.  t is a block it could always go back to:
\* its chain is good, no worse than the tip, and all blocks no worse than it are candidates.
Complete(t) == \A x \in linked : Unfailed(x) /\ ~ WorseNow(x, t) => x \in candidates

Base(t) ==
    /\ t \in linked /\ Unfailed(t) /\ Connectable(t)
    /\ Complete(t) /\ ~ WorseNow(t, tip)

ProgressOK ==
    /\ Unlocked /\ (Invalidating /\ ~ scenario.quiet => ~ inv.was_in_chain) => \E t \in Block : Base(t)
    /\ Holds_cs_main => \E t \in Block : Base(t) /\ ~ WorseNow(t, abc.starting)
    /\ Holds_cs_main /\ abc.mostWork # NoBlock => ~ WorseNow(abc.mostWork, abc.starting)
    /\ pc = "out" => ~ WorseNow(tip, abc.starting)

\* For the listeners
ForkKept == Chain[abc.old] \cap Chain[abc.mostWork] \subseteq Chain[tip]

SeenOK ==
    /\ pc \in {"disconnect", "connect"} => ForkKept
    /\ pc = "disconnect" => tip \in Chain[abc.old]
    /\ ~ interrupt =>
         IF pc \in {"connect", "loop"}
         THEN heard.seen \in Block /\ Chain[tip] \cap Chain[abc.old] = Chain[heard.seen]
         ELSE heard.seen = tip

ToldOK ==
    /\ pc \in {"find", "out"} /\ ~ abc.connected => tip = abc.starting
    /\ pc \in {"find", "out"} /\ abc.connected => abc.newTip = tip
    /\ ~ interrupt /\ calls.error = 0 =>
         /\ pc \in {"idle", "while"} => heard.told = tip
         /\ Holds_cs_main => heard.told = abc.starting
         /\ Invalidating /\ ~ inv.was_in_chain => heard.told = tip

-----------------------------------------------------------------------------
(* Lemmas on sets                                                          *)

\* Where a proof names no prover, it is Zenon, which is given enough time.
USE ZenonT(40)

\* A set of numbers that is not empty has a least element.
LEMMA LeastElement ==
    ASSUME SetFacts, NEW S \in SUBSET Nat, S # {}
    PROVE  \E x \in S : \A y \in S : x <= y
BY DEF SetFacts, LeastNumbers

\* A part of a finite set is finite.
LEMMA FiniteSubset ==
    ASSUME SetFacts, NEW S, IsFiniteSet(S), NEW T \in SUBSET S
    PROVE  IsFiniteSet(T) /\ Cardinality(T) \in Nat
BY DEF SetFacts, FiniteSubsets

\* A finite set with an element less is finite, and smaller.
LEMMA FiniteLess ==
    ASSUME SetFacts, NEW S, IsFiniteSet(S), NEW x \in S
    PROVE  IsFiniteSet(S \ {x}) /\ Cardinality(S \ {x}) = Cardinality(S) - 1 /\ Cardinality(S) \in Nat
<1>1. S \ {x} \in SUBSET S /\ S \in SUBSET S
  OBVIOUS
<1>2. IsFiniteSet(S \ {x}) /\ Cardinality(S) \in Nat
  BY <1>1, FiniteSubset
<1> QED BY <1>2 DEF SetFacts, FiniteRemove

\* A finite set with an element more is finite.
LEMMA FiniteMore ==
    ASSUME SetFacts, NEW S, IsFiniteSet(S), NEW x
    PROVE  IsFiniteSet(S \cup {x}) /\ IsFiniteSet({x})
BY DEF SetFacts, FiniteAdd, FiniteSingletons

-----------------------------------------------------------------------------
(* Lemmas on the tree of blocks                                            *)

\* The parent of a block that is not the genesis block.
LEMMA Parent ==
    ASSUME NEW b \in Block, b # Genesis
    PROVE  /\ pprev[b] \in Block /\ pprev[b] # b
           /\ nHeight[b] = nHeight[pprev[b]] + 1 /\ nChainWork[b] > nChainWork[pprev[b]]
<1>1. pprev[b] \in Block /\ nHeight[b] = nHeight[pprev[b]] + 1 /\ nChainWork[b] > nChainWork[pprev[b]]
  BY BlockTreeAssumption
<1>2. nHeight[b] \in Nat /\ nHeight[pprev[b]] \in Nat
  BY <1>1, BlockTreeAssumption
<1>3. pprev[b] # b
  <2> SUFFICES ASSUME pprev[b] = b PROVE FALSE
    OBVIOUS
  <2>1. nHeight[b] = nHeight[b] + 1
    BY <1>1
  <2> QED BY <1>2, <2>1, SMTT(40)
<1> QED BY <1>1, <1>3

\* The genesis block is a block, and heights and works are numbers.
LEMMA TreeTypes ==
    /\ Genesis \in Block /\ NoBlock \notin Block
    /\ \A b \in Block : nHeight[b] \in Nat /\ nChainWork[b] \in Nat
BY BlockTreeAssumption

\* The chain of a block holds the block and, with a block, its parent.
LEMMA ChainBasic ==
    ASSUME NEW b \in Block
    PROVE  /\ Chain[b] \subseteq Block /\ b \in Chain[b]
           /\ \A c \in Chain[b] : c # Genesis => pprev[c] \in Chain[b]
<1>1. Chain[b] = {a \in Block : \A S \in SUBSET Block : b \in S /\ HasParents(S) => a \in S}
  BY DEF Chain
<1>2. ASSUME NEW c \in Chain[b], c # Genesis PROVE pprev[c] \in Chain[b]
  <2>1. pprev[c] \in Block
    BY <1>1, <1>2, Parent
  <2>2. ASSUME NEW S \in SUBSET Block, b \in S, HasParents(S) PROVE pprev[c] \in S
    <3>1. c \in S
      BY <1>1, <2>2
    <3> QED BY <1>2, <2>2, <3>1 DEF HasParents
  <2> QED BY <1>1, <2>1, <2>2
<1> QED BY <1>1, <1>2

\* It is the least such set.
LEMMA ChainLeast ==
    ASSUME NEW b \in Block, NEW S \in SUBSET Block, b \in S,
           \A c \in S : c # Genesis => pprev[c] \in S
    PROVE  Chain[b] \subseteq S
<1>1. HasParents(S)
  BY DEF HasParents
<1> QED BY <1>1 DEF Chain

\* The chain of a block holds the chain of each of its blocks.
LEMMA ChainTransitive ==
    ASSUME NEW b \in Block, NEW a \in Chain[b]
    PROVE  a \in Block /\ Chain[a] \subseteq Chain[b]
<1>1. a \in Block /\ Chain[b] \in SUBSET Block /\ \A c \in Chain[b] : c # Genesis => pprev[c] \in Chain[b]
  BY ChainBasic
<1> QED BY <1>1, ChainLeast

\* The chain of a block is that of its parent and the block.
LEMMA ChainStep ==
    ASSUME NEW b \in Block, b # Genesis
    PROVE  Chain[b] = Chain[pprev[b]] \cup {b}
<1>1. pprev[b] \in Block
  BY Parent
<1>2. /\ Chain[pprev[b]] \subseteq Block /\ pprev[b] \in Chain[pprev[b]]
      /\ \A c \in Chain[pprev[b]] : c # Genesis => pprev[c] \in Chain[pprev[b]]
  BY <1>1, ChainBasic
<1> DEFINE S == Chain[pprev[b]] \cup {b}
<1>3. S \in SUBSET Block /\ b \in S /\ \A c \in S : c # Genesis => pprev[c] \in S
  BY <1>2
<1>4. Chain[b] \subseteq S
  <2> HIDE DEF S
  <2> QED BY <1>3, ChainLeast
<1>5. b \in Chain[b] /\ pprev[b] \in Chain[b]
  BY ChainBasic
<1>6. Chain[pprev[b]] \subseteq Chain[b]
  BY <1>5, ChainTransitive
<1> QED BY <1>4, <1>5, <1>6

\* The chain of the genesis block is the genesis block.
LEMMA ChainGenesis == Chain[Genesis] = {Genesis}
<1>1. Genesis \in Block /\ {Genesis} \in SUBSET Block
  BY TreeTypes
<1>2. Chain[Genesis] \subseteq {Genesis}
  BY <1>1, ChainLeast
<1> QED BY <1>1, <1>2, ChainBasic, SMTT(40)

\* The other blocks of a chain are lower and have less work.
LEMMA ChainLower ==
    ASSUME NEW b \in Block, NEW a \in Chain[b], a # b
    PROVE  nHeight[a] < nHeight[b] /\ nChainWork[a] < nChainWork[b]
<1> DEFINE S == {b} \cup {c \in Block : nHeight[c] < nHeight[b] /\ nChainWork[c] < nChainWork[b]}
<1>1. S \in SUBSET Block /\ b \in S
  OBVIOUS
<1>2. ASSUME NEW c \in S, c # Genesis PROVE pprev[c] \in S
  <2>1. c \in Block /\ pprev[c] \in Block
    BY <1>2, Parent
  <2>2. /\ nHeight[c] \in Nat /\ nHeight[b] \in Nat /\ nHeight[pprev[c]] \in Nat
        /\ nChainWork[c] \in Nat /\ nChainWork[b] \in Nat /\ nChainWork[pprev[c]] \in Nat
    BY <2>1, TreeTypes
  <2>3. nHeight[c] = nHeight[pprev[c]] + 1 /\ nChainWork[c] > nChainWork[pprev[c]]
    BY <1>2, <2>1, Parent
  <2>4. nHeight[c] <= nHeight[b] /\ nChainWork[c] <= nChainWork[b]
    BY <2>2, SMTT(40)
  <2>5. nHeight[pprev[c]] < nHeight[b] /\ nChainWork[pprev[c]] < nChainWork[b]
    BY <2>2, <2>3, <2>4, SMTT(40)
  <2> QED BY <2>1, <2>5
<1>3. Chain[b] \subseteq S
  <2> HIDE DEF S
  <2> QED BY <1>1, <1>2, ChainLeast
<1> QED BY <1>3

\* Of two blocks of a chain, one is in the chain of the other.
LEMMA ChainLinear ==
    ASSUME NEW b \in Block, NEW a \in Chain[b], NEW c \in Chain[b]
    PROVE  a \in Chain[c] \/ c \in Chain[a]
<1> DEFINE S == {d \in Chain[b] : a \in Chain[d] \/ d \in Chain[a]}
<1>1. Chain[b] \subseteq Block /\ b \in Chain[b] /\ \A d \in Chain[b] : d # Genesis => pprev[d] \in Chain[b]
  BY ChainBasic
<1>2. S \in SUBSET Block /\ b \in S
  BY <1>1
<1>3. ASSUME NEW d \in S, d # Genesis PROVE pprev[d] \in S
  <2>1. d \in Block /\ a \in Block /\ pprev[d] \in Chain[b]
    BY <1>1, <1>3
  <2>2. CASE d \in Chain[a]
    BY <1>3, <2>1, <2>2, ChainBasic
  <2>3. CASE a \in Chain[d] /\ a # d
    <3>1. a \in Chain[pprev[d]]
      BY <1>3, <2>1, <2>3, ChainStep, SMTT(40)
    <3> QED BY <2>1, <3>1
  <2>4. CASE a = d
    BY <1>3, <2>1, <2>4, ChainBasic
  <2> QED BY <2>2, <2>3, <2>4
<1>4. Chain[b] \subseteq S
  <2> HIDE DEF S
  <2> QED BY <1>2, <1>3, ChainLeast
<1> QED BY <1>4

\* Two blocks of a chain at the same height are the same.
LEMMA ChainHeights ==
    ASSUME NEW b \in Block, NEW a \in Chain[b], NEW c \in Chain[b], nHeight[a] = nHeight[c]
    PROVE  a = c
<1> SUFFICES ASSUME a # c PROVE FALSE
  OBVIOUS
<1>1. a \in Block /\ c \in Block /\ nHeight[a] \in Nat /\ nHeight[c] \in Nat
  BY ChainBasic, TreeTypes
<1>2. a \in Chain[c] \/ c \in Chain[a]
  BY ChainLinear
<1>3. nHeight[a] < nHeight[c] \/ nHeight[c] < nHeight[a]
  BY <1>1, <1>2, ChainLower
<1> QED BY <1>1, <1>3, SMTT(40)

\* A chain has a block at every height up to the top.
LEMMA Ancestor ==
    ASSUME SetFacts, NEW b \in Block, NEW h \in Nat, h <= nHeight[b]
    PROVE  GetAncestor(b, h) \in Chain[b] /\ nHeight[GetAncestor(b, h)] = h
<1> DEFINE C == {c \in Chain[b] : nHeight[c] >= h}
           H == {nHeight[c] : c \in C}
<1>1. Chain[b] \subseteq Block /\ b \in Chain[b] /\ \A d \in Chain[b] : d # Genesis => pprev[d] \in Chain[b]
  BY ChainBasic
<1>2. b \in C /\ C \subseteq Block /\ \A c \in C : nHeight[c] \in Nat
  BY <1>1, TreeTypes
<1>3. H \in SUBSET Nat /\ H # {}
  BY <1>2
<1>4. PICK n \in H : \A m \in H : n <= m
  <2> HIDE DEF H
  <2> QED BY <1>3, LeastElement
<1>5. PICK c \in C : n = nHeight[c]
  OBVIOUS
<1>6. c \in Chain[b] /\ c \in Block /\ nHeight[c] >= h /\ nHeight[c] \in Nat
  BY <1>1, TreeTypes
<1>7. nHeight[c] = h
  <2> SUFFICES ASSUME nHeight[c] > h PROVE FALSE
    BY <1>6, SMTT(40)
  <2>1. c # Genesis
    <3> SUFFICES ASSUME c = Genesis PROVE FALSE
      OBVIOUS
    <3>1. nHeight[c] = 0
      BY BlockTreeAssumption
    <3> QED BY <3>1, SMTT(40)
  <2>2. pprev[c] \in Chain[b] /\ nHeight[c] = nHeight[pprev[c]] + 1 /\ nHeight[pprev[c]] \in Nat
    BY <1>1, <1>6, <2>1, Parent, TreeTypes
  <2>3. nHeight[pprev[c]] >= h
    BY <1>6, <2>2, SMTT(40)
  <2>4. nHeight[pprev[c]] \in H
    BY <2>2, <2>3
  <2>5. nHeight[c] <= nHeight[pprev[c]]
    BY <1>4, <1>5, <2>4
  <2> QED BY <1>6, <2>2, <2>5, SMTT(40)
<1>8. \E a \in Chain[b] : nHeight[a] = h
  BY <1>6, <1>7
<1> HIDE DEF C, H
<1> QED BY <1>8 DEF GetAncestor

\* Every chain begins with the genesis block.
LEMMA GenesisInChain ==
    ASSUME SetFacts, NEW b \in Block
    PROVE  Genesis \in Chain[b]
<1>1. PICK a \in Chain[b] : nHeight[a] = 0
  <2>1. nHeight[b] \in Nat /\ 0 \in Nat /\ 0 <= nHeight[b]
    BY TreeTypes, SMTT(40)
  <2> QED BY <2>1, Ancestor
<1>2. a \in Block
  BY ChainBasic
<1>3. a = Genesis
  <2> SUFFICES ASSUME a # Genesis PROVE FALSE
    OBVIOUS
  <2>1. nHeight[a] = nHeight[pprev[a]] + 1 /\ nHeight[pprev[a]] \in Nat
    BY <1>2, Parent, TreeTypes
  <2> QED BY <1>1, <2>1, SMTT(40)
<1> QED BY <1>3

\* FindFork is the top of what two chains share.
LEMMA Fork ==
    ASSUME SetFacts, NEW a \in Block, NEW b \in Block
    PROVE  /\ FindFork(a, b) \in Chain[a] /\ FindFork(a, b) \in Chain[b]
           /\ Chain[a] \cap Chain[b] = Chain[FindFork(a, b)]
<1> DEFINE Both == Chain[a] \cap Chain[b]
           D == {nHeight[a] - nHeight[c] : c \in Both}
           f == FindFork(a, b)
<1>1. Chain[a] \subseteq Block /\ Chain[b] \subseteq Block /\ nHeight[a] \in Nat
  BY ChainBasic, TreeTypes
<1>2. \A c \in Both : nHeight[c] \in Nat /\ nHeight[c] <= nHeight[a]
  <2> SUFFICES ASSUME NEW c \in Both PROVE nHeight[c] \in Nat /\ nHeight[c] <= nHeight[a]
    OBVIOUS
  <2>1. c \in Chain[a] /\ c \in Block /\ nHeight[c] \in Nat
    BY <1>1, TreeTypes
  <2>2. CASE c = a
    BY <1>1, <2>2, SMTT(40)
  <2>3. CASE c # a
    BY <1>1, <2>1, <2>3, ChainLower, SMTT(40)
  <2> QED BY <2>1, <2>2, <2>3
<1>3. Genesis \in Both
  BY GenesisInChain
<1>4. D \in SUBSET Nat /\ D # {}
  BY <1>1, <1>2, <1>3, SMTT(40)
<1>5. PICK n \in D : \A m \in D : n <= m
  <2> HIDE DEF D
  <2> QED BY <1>4, LeastElement
<1>6. PICK e \in Both : n = nHeight[a] - nHeight[e]
  OBVIOUS
<1>7. \A c \in Both : nHeight[c] <= nHeight[e]
  <2> SUFFICES ASSUME NEW c \in Both PROVE nHeight[c] <= nHeight[e]
    OBVIOUS
  <2>1. nHeight[a] - nHeight[c] \in D
    OBVIOUS
  <2>2. n <= nHeight[a] - nHeight[c]
    BY <1>5, <2>1
  <2>3. nHeight[c] \in Nat /\ nHeight[e] \in Nat
    BY <1>2
  <2> HIDE DEF D, Both
  <2> QED BY <1>1, <1>6, <2>2, <2>3, SMTT(40)
<1>8. f \in Both /\ \A c \in Both : nHeight[c] <= nHeight[f]
  <2> HIDE DEF D
  <2> QED BY <1>7 DEF FindFork
<1> HIDE DEF f, D
<1>9. f \in Chain[a] /\ f \in Chain[b] /\ f \in Block
  BY <1>1, <1>8
<1>10. ASSUME NEW c \in Both PROVE c \in Chain[f]
  <2>1. c \in Chain[f] \/ f \in Chain[c]
    BY <1>1, <1>9, ChainLinear
  <2>2. CASE f \in Chain[c] /\ f # c
    <3>1. c \in Block /\ nHeight[c] \in Nat /\ nHeight[f] \in Nat
      BY <1>1, <1>9, TreeTypes
    <3>2. nHeight[f] < nHeight[c]
      BY <2>2, <3>1, ChainLower
    <3> QED BY <1>8, <3>1, <3>2, SMTT(40)
  <2>3. CASE f = c
    BY <1>9, <2>3, ChainBasic
  <2> QED BY <2>1, <2>2, <2>3
<1>11. Chain[f] \subseteq Both
  BY <1>9, ChainTransitive
<1> QED BY <1>9, <1>10, <1>11 DEF f

-----------------------------------------------------------------------------
(* The order of the candidates                                             *)

\* CBlockIndexWorkComparator is a strict total order.
LEMMA Order ==
    ASSUME NEW seq \in [Block -> Int], NEW addr \in Addresses, NEW a \in Block, NEW b \in Block
    PROVE  /\ ~ Worse(seq, addr, a, a)
           /\ Worse(seq, addr, a, b) => ~ Worse(seq, addr, b, a)
           /\ a # b => Worse(seq, addr, a, b) \/ Worse(seq, addr, b, a)
           /\ nChainWork[a] < nChainWork[b] => Worse(seq, addr, a, b)
           /\ ~ Worse(seq, addr, a, b) => nChainWork[b] <= nChainWork[a]
<1>1. /\ nChainWork[a] \in Nat /\ nChainWork[b] \in Nat /\ seq[a] \in Int /\ seq[b] \in Int
      /\ addr[a] \in Nat /\ addr[b] \in Nat /\ (a # b => addr[a] # addr[b])
  <2>1. addr \in [Block -> Nat] /\ \A x, y \in Block : addr[x] = addr[y] => x = y
    BY ChainstateAssumption
  <2> QED BY <2>1, TreeTypes
<1> QED BY <1>1, SMTT(40) DEF Worse

\* CBlockIndexWorkComparator orders: what is not worse than what is not worse is
\* not worse.
LEMMA OrderTransitive ==
    ASSUME NEW seq \in [Block -> Int], NEW addr \in Addresses,
           NEW a \in Block, NEW b \in Block, NEW c \in Block,
           ~ Worse(seq, addr, a, b), ~ Worse(seq, addr, b, c)
    PROVE  ~ Worse(seq, addr, a, c)
<1>1. /\ nChainWork[a] \in Nat /\ nChainWork[b] \in Nat /\ nChainWork[c] \in Nat
      /\ seq[a] \in Int /\ seq[b] \in Int /\ seq[c] \in Int
      /\ addr[a] \in Nat /\ addr[b] \in Nat /\ addr[c] \in Nat
  <2>1. addr \in [Block -> Nat]
    BY ChainstateAssumption
  <2> QED BY <2>1, TreeTypes
<1> QED BY <1>1, SMTT(40) DEF Worse

\* A finite set of blocks that is not empty has a best one.
LEMMA FiniteBest ==
    ASSUME SetFacts, NEW seq \in [Block -> Int], NEW addr \in Addresses,
           NEW S \in SUBSET Block, IsFiniteSet(S), S # {}
    PROVE  \E b \in S : \A c \in S : ~ Worse(seq, addr, b, c)
<1> DEFINE HasBest(T) == \E b \in T : \A c \in T : ~ Worse(seq, addr, b, c)
           Bad == {T \in SUBSET Block : IsFiniteSet(T) /\ T # {} /\ ~ HasBest(T)}
           Sizes == {Cardinality(T) : T \in Bad}
<1> SUFFICES ASSUME ~ HasBest(S) PROVE FALSE
  OBVIOUS
<1>1. S \in Bad
  OBVIOUS
<1>2. Sizes \in SUBSET Nat /\ Sizes # {}
  BY <1>1, SMTT(40) DEF SetFacts, FiniteSubsets
<1>3. PICK n \in Sizes : \A m \in Sizes : n <= m
  <2> HIDE DEF Sizes
  <2> QED BY <1>2, LeastElement
<1>4. PICK T \in Bad : n = Cardinality(T)
  OBVIOUS
<1>5. PICK t \in T : TRUE
  OBVIOUS
<1> DEFINE U == T \ {t}
<1>6. T \in SUBSET Block /\ IsFiniteSet(T) /\ ~ HasBest(T)
  OBVIOUS
<1> HIDE DEF HasBest
<1>7. IsFiniteSet(U) /\ Cardinality(U) = Cardinality(T) - 1 /\ Cardinality(T) \in Nat /\ U \in SUBSET Block
  BY <1>5, <1>6, FiniteLess
<1>8. U \notin Bad
  <2> SUFFICES ASSUME U \in Bad PROVE FALSE
    OBVIOUS
  <2>1. Cardinality(U) \in Sizes
    OBVIOUS
  <2>2. n <= Cardinality(U)
    BY <1>3, <2>1
  <2> QED BY <1>4, <1>7, <2>2, SMTT(40)
<1>9. U = {} \/ HasBest(U)
  BY <1>7, <1>8
<1> HIDE DEF Bad, Sizes
<1>10. t \in Block /\ T = U \cup {t}
  BY <1>5, <1>6
<1>11. CASE U = {}
  <2>1. T = {t} /\ ~ Worse(seq, addr, t, t)
    BY <1>10, <1>11, Order
  <2> QED BY <1>6, <2>1 DEF HasBest
<1>12. CASE HasBest(U)
  <2>1. PICK b \in U : \A c \in U : ~ Worse(seq, addr, b, c)
    BY <1>12 DEF HasBest
  <2>2. b \in Block /\ b \in T /\ \A c \in U : c \in Block
    BY <1>7, <1>10
  <2>3. CASE ~ Worse(seq, addr, b, t)
    <3>1. \A c \in T : ~ Worse(seq, addr, b, c)
      BY <1>10, <2>1, <2>3
    <3> QED BY <1>6, <2>2, <3>1 DEF HasBest
  <2>4. CASE Worse(seq, addr, b, t)
    <3>1. ~ Worse(seq, addr, t, b) /\ ~ Worse(seq, addr, t, t)
      BY <1>10, <2>2, <2>4, Order
    <3>2. ASSUME NEW c \in U PROVE ~ Worse(seq, addr, t, c)
      BY <1>10, <2>1, <2>2, <3>1, OrderTransitive
    <3>3. \A c \in T : ~ Worse(seq, addr, t, c)
      BY <1>10, <3>1, <3>2
    <3> QED BY <1>5, <1>6, <3>3 DEF HasBest
  <2> QED BY <2>3, <2>4
<1> QED BY <1>9, <1>11, <1>12

-----------------------------------------------------------------------------
(* Frames                                                                  *)

\* A step of the thread that leaves the index, the candidates and the tip alone.
LEMMA ThreadStep ==
    ASSUME IInv, UNCHANGED <<index, flags, received, candidates, tip, best, verdict>>,
           NumbersOK', ThreadTypes', AbcOK', InvOK'
    PROVE  IInv'
<1>1. SetsOK' /\ HeadersOK'
  BY DEF IInv, SetsOK, HeadersOK, flags, received, best
<1>2. Unfailed(tip)' /\ Connectable(tip)'
  BY DEF IInv, Unfailed, Connectable, failed, flags
<1> QED BY <1>1, <1>2 DEF IInv

\* The calls of ActivateBestChain that only move the thread.
LEMMA ActivateMoves ==
    ASSUME IInv, ActivateBestChain \/ OuterLoop \/ LoopOrLeave \/ Release_cs_main \/ SystemError
    PROVE  IInv'
<1>1. /\ UNCHANGED <<index, flags, received, candidates, tip, best, nSequenceId, counters, fixed, inv>>
      /\ SetsOK /\ NumbersOK /\ ThreadTypes /\ AbcOK /\ InvOK
  BY DEF IInv, ActivateBestChain, OuterLoop, LoopOrLeave, Release_cs_main, SystemError, abcUnchanged
<1>2. tip \in Block /\ tip \in MaybeBlock /\ NoBlock \in MaybeBlock /\ NoBlock \notin Block /\ UNCHANGED verdict
  BY <1>1, TreeTypes DEF SetsOK, MaybeBlock, fixed
<1>3. /\ NoCall.mostWork = NoBlock /\ NoCall.front = NoBlock
      /\ NoCall \in [mostWork : MaybeBlock, newTip : MaybeBlock, starting : MaybeBlock,
                     old : MaybeBlock, front : MaybeBlock, connected : BOOLEAN]
  BY <1>2 DEF NoCall
<1>4. NumbersOK'
  <2>1. heard' \in [seen : MaybeBlock, told : MaybeBlock] /\ pending' \in BOOLEAN /\ interrupt' \in BOOLEAN
    <3>1. heard \in [seen : MaybeBlock, told : MaybeBlock] /\ pending \in BOOLEAN /\ interrupt \in BOOLEAN
      BY <1>1 DEF NumbersOK
    <3>2. CASE ActivateBestChain \/ OuterLoop \/ SystemError
      BY <3>1, <3>2 DEF ActivateBestChain, OuterLoop, SystemError, abcUnchanged
    <3>3. CASE LoopOrLeave
      BY <1>2, <3>1, <3>3 DEF LoopOrLeave, abcUnchanged
    <3>4. CASE Release_cs_main
      <4>1. abc.newTip \in MaybeBlock
        BY <1>1 DEF ThreadTypes
      <4> QED BY <3>1, <3>4, <4>1 DEF Release_cs_main, abcUnchanged
    <3> QED BY <3>2, <3>3, <3>4
  <2>2. calls' \in [invalidate : Nat, precious : Nat, reset : Nat, error : Nat, restart : Nat]
    <3>1. calls \in [invalidate : Nat, precious : Nat, reset : Nat, error : Nat, restart : Nat]
      BY <1>1 DEF NumbersOK
    <3>2. UNCHANGED calls \/ calls' = [calls EXCEPT !.error = @ + 1]
      BY DEF ActivateBestChain, OuterLoop, LoopOrLeave, Release_cs_main, SystemError, abcUnchanged
    <3> QED BY <3>1, <3>2, SMTT(40)
  <2> QED BY <1>1, <2>1, <2>2 DEF NumbersOK, fixed, counters
<1>5. InvOK'
  BY <1>1 DEF InvOK, Invalidating, ActivateBestChain, OuterLoop, LoopOrLeave, Release_cs_main, SystemError, ThreadTypes
<1>6. CASE ActivateBestChain
  <2>1. pc = "idle" /\ pc' = "while" /\ UNCHANGED abc
    BY <1>6 DEF ActivateBestChain
  <2>2. ThreadTypes'
    BY <1>1, <2>1 DEF ThreadTypes
  <2>3. AbcOK'
    BY <1>1, <1>3, <2>1 DEF AbcOK, Holds_cs_main
  <2> QED BY <1>1, <1>2, <1>4, <1>5, <2>2, <2>3, ThreadStep
<1>7. CASE OuterLoop
  <2>1. CASE LeaveOuterLoop
    <3>1. pc' = "idle" /\ abc' = NoCall
      BY <1>7, <2>1 DEF OuterLoop
    <3>2. ThreadTypes'
      BY <1>1, <1>3, <3>1 DEF ThreadTypes
    <3>3. AbcOK'
      BY <1>3, <3>1 DEF AbcOK, Holds_cs_main
    <3> QED BY <1>1, <1>2, <1>4, <1>5, <3>2, <3>3, ThreadStep
  <2>2. CASE ~ LeaveOuterLoop
    <3>1. pc = "while" /\ pc' = "find" /\ abc' = [abc EXCEPT !.starting = tip, !.connected = FALSE]
      BY <1>7, <2>2 DEF OuterLoop
    <3>2. ThreadTypes'
      BY <1>1, <1>2, <3>1 DEF ThreadTypes
    <3>3. abc'.mostWork = abc.mostWork /\ abc'.front = abc.front /\ abc'.starting = tip
      BY <1>1, <3>1 DEF ThreadTypes
    <3>4. AbcOK'
      BY <1>1, <1>2, <3>1, <3>3, SMTT(40) DEF AbcOK, Holds_cs_main, Unfailed, failed, received, flags
    <3> QED BY <1>1, <1>2, <1>4, <1>5, <3>2, <3>4, ThreadStep
  <2> QED BY <2>1, <2>2
<1>8. CASE LoopOrLeave
  <2>1. /\ pc = "loop" /\ pc' \in {"find", "out"}
        /\ abc' = [abc EXCEPT !.connected = TRUE, !.newTip = tip, !.old = NoBlock, !.front = NoBlock]
    BY <1>8 DEF LoopOrLeave
  <2>2. ThreadTypes'
    BY <1>1, <1>2, <2>1 DEF ThreadTypes
  <2>3. abc'.mostWork = abc.mostWork /\ abc'.front = NoBlock /\ abc'.starting = abc.starting
    BY <1>1, <2>1 DEF ThreadTypes
  <2>4. AbcOK'
    BY <1>1, <1>2, <2>1, <2>3, SMTT(40) DEF AbcOK, Holds_cs_main, Unfailed, failed, received, flags
  <2> QED BY <1>1, <1>2, <1>4, <1>5, <2>2, <2>4, ThreadStep
<1>9. CASE Release_cs_main
  <2>1. CASE abc.connected
    <3>1. pc = "out" /\ pc' = "while" /\ abc' = [abc EXCEPT !.starting = NoBlock]
      BY <1>9, <2>1 DEF Release_cs_main
    <3>2. ThreadTypes'
      BY <1>1, <1>2, <3>1 DEF ThreadTypes
    <3>3. abc'.mostWork = abc.mostWork /\ abc'.front = abc.front
      BY <1>1, <3>1 DEF ThreadTypes
    <3>4. AbcOK'
      BY <1>1, <1>2, <3>1, <3>3, SMTT(40) DEF AbcOK, Holds_cs_main, Unfailed, failed, received, flags
    <3> QED BY <1>1, <1>2, <1>4, <1>5, <3>2, <3>4, ThreadStep
  <2>2. CASE ~ abc.connected
    <3>1. pc' = "idle" /\ abc' = NoCall
      BY <1>9, <2>2 DEF Release_cs_main
    <3>2. ThreadTypes'
      BY <1>1, <1>3, <3>1 DEF ThreadTypes
    <3>3. AbcOK'
      BY <1>3, <3>1 DEF AbcOK, Holds_cs_main
    <3> QED BY <1>1, <1>2, <1>4, <1>5, <3>2, <3>3, ThreadStep
  <2> QED BY <2>1, <2>2
<1>10. CASE SystemError
  <2>1. pc' = "idle" /\ abc' = NoCall
    BY <1>10 DEF SystemError
  <2>2. ThreadTypes'
    BY <1>1, <1>3, <2>1 DEF ThreadTypes
  <2>3. AbcOK'
    BY <1>3, <2>1 DEF AbcOK, Holds_cs_main
  <2> QED BY <1>1, <1>2, <1>4, <1>5, <2>2, <2>3, ThreadStep
<1> QED BY <1>6, <1>7, <1>8, <1>9, <1>10

-----------------------------------------------------------------------------
(* FindMostWorkChain                                                       *)

\* Blocks of one chain have a highest.
LEMMA HighestOf ==
    ASSUME SetFacts, NEW b \in Block, NEW S \in SUBSET Chain[b], S # {}
    PROVE  Highest(S) \in S /\ \A c \in S : nHeight[c] <= nHeight[Highest(S)]
<1> DEFINE D == {nHeight[b] - nHeight[c] : c \in S}
<1>1. \A c \in S : c \in Block /\ nHeight[c] \in Nat /\ nHeight[b] \in Nat /\ nHeight[c] <= nHeight[b]
  <2> SUFFICES ASSUME NEW c \in S PROVE c \in Block /\ nHeight[c] \in Nat /\ nHeight[b] \in Nat /\ nHeight[c] <= nHeight[b]
    OBVIOUS
  <2>1. c \in Block /\ nHeight[c] \in Nat /\ nHeight[b] \in Nat
    BY ChainBasic, TreeTypes
  <2>2. c # b => nHeight[c] < nHeight[b]
    BY ChainLower
  <2> QED BY <2>1, <2>2, SMTT(40)
<1>2. D \in SUBSET Nat /\ D # {}
  BY <1>1, SMTT(40)
<1>3. PICK d \in D : \A e \in D : d <= e
  BY <1>2, LeastElement
<1>4. PICK h \in S : d = nHeight[b] - nHeight[h]
  BY <1>3
<1>5. ASSUME NEW c \in S PROVE nHeight[c] <= nHeight[h]
  <2>1. d <= nHeight[b] - nHeight[c]
    BY <1>3
  <2> QED BY <1>1, <1>4, <2>1, SMTT(40)
<1> QED BY <1>5 DEF Highest

\* There is a best candidate, if there is a candidate.
LEMMA BestCandidateIs ==
    ASSUME SetFacts, SetsOK, NumbersOK, candidates # {}
    PROVE  BestCandidate \in candidates /\ \A c \in candidates : ~ WorseNow(BestCandidate, c)
<1>1. candidates \in SUBSET Block /\ candidates \subseteq index /\ IsFiniteSet(index)
  BY DEF SetsOK
<1>2. IsFiniteSet(candidates)
  BY <1>1, FiniteSubset
<1>3. nSequenceId \in [Block -> Int] /\ address \in Addresses
  BY DEF NumbersOK
<1>4. \E b \in candidates : \A c \in candidates : ~ WorseNow(b, c)
  BY <1>1, <1>2, <1>3, FiniteBest DEF WorseNow
<1> QED BY <1>4 DEF BestCandidate

\* A candidate can only be unusable because of failed blocks: the data are there.
LEMMA UnusableIsFailed ==
    ASSUME SetsOK, Unfailed(tip), NEW b \in linked
    PROVE  /\ b \in Block /\ Chain[b] \subseteq linked /\ Unusable(b) = Chain[b] \cap failed
           /\ Unusable(b) \subseteq Chain[b] \ Chain[tip]
<1>1. b \in Block /\ Chain[b] \subseteq linked /\ linked \subseteq data
  BY DEF SetsOK
<1> QED BY <1>1 DEF Unusable, PathTo, Unfailed

\* What it drops is failed.
LEMMA FindDrops ==
    ASSUME SetFacts, IInv, candidates # {}, FindMostWorkChain, Unusable(BestCandidate) # {}
    PROVE  \E test \in Chain[BestCandidate] \cap failed :
             /\ test \notin Chain[tip]
             /\ candidates' = candidates \ Dropped(BestCandidate, test)
             /\ failedChild' = failedChild \cup (PathTo(BestCandidate) \ Chain[test])
             /\ \A x \in PathTo(BestCandidate) \ Chain[test] : x \in index \ {Genesis} /\ test \in Chain[x]
             /\ m_best_invalid' \in {m_best_invalid, BestCandidate}
             /\ UNCHANGED <<unlinked, abc>>
<1> DEFINE new == BestCandidate
           test == Highest(Unusable(new))
<1>1. SetsOK /\ NumbersOK /\ Unfailed(tip)
  BY DEF IInv
<1>2. new \in linked /\ new \in candidates
  BY <1>1, BestCandidateIs DEF SetsOK
<1>3. /\ new \in Block /\ Chain[new] \subseteq linked /\ Unusable(new) = Chain[new] \cap failed
      /\ Unusable(new) \subseteq Chain[new] \ Chain[tip]
  BY <1>1, <1>2, UnusableIsFailed
<1>4. test \in Unusable(new)
  BY <1>3, HighestOf
<1>5. test \in Chain[new] /\ test \in failed /\ test \notin Chain[tip]
  BY <1>3, <1>4
<1>6. /\ candidates' = candidates \ Dropped(new, test)
      /\ failedChild' = failedChild \cup (PathTo(new) \ Chain[test])
      /\ m_best_invalid' \in {m_best_invalid, new}
      /\ UNCHANGED <<unlinked, abc>>
  <2> HIDE DEF new
  <2>1. /\ candidates' = candidates \ Dropped(new, test)
        /\ failedChild' = failedChild \cup (IF test \in failed THEN PathTo(new) \ Chain[test] ELSE {})
        /\ unlinked' = unlinked \cup (IF test \in failed THEN {} ELSE PathTo(new) \ Chain[test])
        /\ m_best_invalid' \in {m_best_invalid, new}
        /\ UNCHANGED abc
    BY DEF FindMostWorkChain, new
  <2> QED BY <1>5, <2>1
<1>7. ASSUME NEW x \in PathTo(new) \ Chain[test] PROVE x \in index \ {Genesis} /\ test \in Chain[x]
  <2>1. x \in Chain[new] /\ x \notin Chain[tip] /\ x \notin Chain[test]
    BY <1>7 DEF PathTo
  <2>2. x \in index /\ tip \in Block
    BY <1>1, <1>3, <2>1 DEF SetsOK
  <2>3. x # Genesis
    BY <2>1, <2>2, GenesisInChain
  <2>4. test \in Chain[x]
    BY <1>3, <1>5, <2>1, ChainLinear
  <2> QED BY <2>2, <2>3, <2>4
<1> QED BY <1>5, <1>6, <1>7

\* The inner loop of ActivateBestChain finds the most-work chain.
LEMMA InnerLoopKeeps ==
    ASSUME SetFacts, IInv, InnerLoop
    PROVE  IInv'
<1>1. /\ UNCHANGED <<index, failedValid, data, linked, tip, nSequenceId, counters,
                     m_best_header, fixed, heard, inv, pending, interrupt, calls>>
      /\ SetsOK /\ NumbersOK /\ ThreadTypes /\ AbcOK /\ InvOK /\ HeadersOK
      /\ Unfailed(tip) /\ Connectable(tip)
  BY DEF IInv, InnerLoop
<1>2. tip \in Block /\ tip \in MaybeBlock /\ NoBlock \in MaybeBlock /\ NoBlock \notin Block /\ UNCHANGED verdict
  BY <1>1, TreeTypes DEF SetsOK, MaybeBlock, fixed
<1>3. NumbersOK'
  BY <1>1 DEF NumbersOK, fixed, counters
<1>4. pc = "find" /\ pc' \in {"find", "out", "disconnect"} /\ InvOK'
  <2>1. pc = "find" /\ pc' \in {"find", "out", "disconnect"}
    BY DEF InnerLoop
  <2> QED BY <1>1, <2>1 DEF InvOK, Invalidating
<1>5. ASSUME UNCHANGED <<failedChild, unlinked, candidates, m_best_invalid, abc>>, pc' = "out", abc.mostWork = NoBlock \/ abc.mostWork = tip
      PROVE  IInv'
  <2>1. ThreadTypes'
    BY <1>1, <1>4, <1>5 DEF ThreadTypes
  <2>2. AbcOK'
    BY <1>1, <1>2, <1>4, <1>5, ChainBasic DEF AbcOK, Holds_cs_main, Unfailed, failed
  <2> QED BY <1>1, <1>2, <1>3, <1>4, <1>5, <2>1, <2>2, ThreadStep DEF flags, received, best
<1>6. ASSUME UNCHANGED <<failedChild, unlinked, candidates, m_best_invalid>>, pc' = "disconnect",
             abc.mostWork \notin {NoBlock, tip}, abc' = [abc EXCEPT !.old = tip, !.front = NoBlock]
      PROVE  IInv'
  <2>1. ThreadTypes'
    BY <1>1, <1>2, <1>4, <1>6 DEF ThreadTypes
  <2>2. abc'.mostWork = abc.mostWork /\ abc'.front = NoBlock /\ abc'.starting = abc.starting /\ abc'.old = tip
    BY <1>1, <1>6 DEF ThreadTypes
  <2>3. AbcOK'
    BY <1>1, <1>2, <1>4, <1>6, <2>2, SMTT(40) DEF AbcOK, Holds_cs_main, Unfailed, failed
  <2> QED BY <1>1, <1>2, <1>3, <1>4, <1>6, <2>1, <2>3, ThreadStep DEF flags, received, best
<1>7. ASSUME abc.mostWork = NoBlock, candidates # {}, FindMostWorkChain, UNCHANGED pc, Unusable(BestCandidate) = {}
      PROVE  IInv'
  <2> DEFINE new == BestCandidate
  <2>1. new \in linked /\ new \in MaybeBlock /\ Unfailed(new)
    <3>1. new \in linked
      BY <1>1, <1>7, BestCandidateIs DEF SetsOK
    <3> QED BY <1>1, <1>7, <3>1, UnusableIsFailed DEF MaybeBlock, Unfailed
  <2>2. abc' = [abc EXCEPT !.mostWork = new] /\ UNCHANGED <<failedChild, unlinked, candidates, m_best_invalid>>
    BY <1>7 DEF FindMostWorkChain
  <2> HIDE DEF new
  <2>3. ThreadTypes'
    BY <1>1, <1>7, <2>1, <2>2 DEF ThreadTypes
  <2>4. abc'.mostWork = new /\ abc'.front = abc.front /\ abc'.starting = abc.starting
    BY <1>1, <2>2 DEF ThreadTypes
  <2>5. AbcOK'
    BY <1>1, <1>2, <1>4, <1>7, <2>1, <2>2, <2>4, SMTT(40) DEF AbcOK, Holds_cs_main, Unfailed, failed
  <2> QED BY <1>1, <1>2, <1>3, <1>4, <2>2, <2>3, <2>5, ThreadStep DEF flags, received, best
<1>8. ASSUME abc.mostWork = NoBlock, candidates # {}, FindMostWorkChain, UNCHANGED pc, Unusable(BestCandidate) # {}
      PROVE  IInv'
  <2> DEFINE new == BestCandidate
  <2>1. PICK test \in Chain[new] \cap failed :
             /\ test \notin Chain[tip]
             /\ candidates' = candidates \ Dropped(new, test)
             /\ failedChild' = failedChild \cup (PathTo(new) \ Chain[test])
             /\ \A x \in PathTo(new) \ Chain[test] : x \in index \ {Genesis} /\ test \in Chain[x]
             /\ m_best_invalid' \in {m_best_invalid, new}
             /\ UNCHANGED <<unlinked, abc>>
    BY <1>8, FindDrops
  <2>2. new \in index
    BY <1>1, <1>8, BestCandidateIs DEF SetsOK
  <2> HIDE DEF new
  <2>3. SetsOK'
    BY <1>1, <2>1 DEF SetsOK
  <2>4. HeadersOK'
    BY <1>1, <2>1, <2>2 DEF HeadersOK
  <2>5. ThreadTypes'
    BY <1>1, <1>8, <2>1 DEF ThreadTypes
  <2>6. Unfailed(tip)' /\ Connectable(tip)'
    BY <1>1, <1>2, <2>1 DEF Unfailed, Connectable, failed, PathTo
  <2>7. AbcOK'
    BY <1>1, <1>2, <1>4, <1>8, <2>1 DEF AbcOK, Holds_cs_main
  <2> QED BY <1>3, <1>4, <2>3, <2>4, <2>5, <2>6, <2>7 DEF IInv
<1> QED
  <2>1. CASE abc.mostWork = NoBlock /\ candidates # {} /\ FindMostWorkChain /\ UNCHANGED pc
    BY <2>1, <1>7, <1>8
  <2>2. CASE ~ (abc.mostWork = NoBlock /\ candidates # {} /\ FindMostWorkChain /\ UNCHANGED pc)
    BY <2>2, <1>5, <1>6 DEF InnerLoop
  <2> QED BY <2>1, <2>2

-----------------------------------------------------------------------------
(* ActivateBestChainStep                                                   *)

\* InvalidChainFound(b) marks b's descendants, and no block of a chain without b.
LEMMA InvalidChain ==
    ASSUME SetsOK, NEW b \in Block, b # Genesis, NEW top, NEW idx, NEW fv, NEW hdr,
           index' = idx, index \subseteq idx, idx \subseteq Block, b \in idx, top \in idx, hdr \in idx,
           m_best_invalid \in index \cup {NoBlock},
           fv = failedValid \/ fv = failedValid \cup {b},
           InvalidChainFound(b, top, idx, fv, failedChild, hdr)
    PROVE  /\ HeadersOK'
           /\ failedValid' \subseteq idx \ {Genesis} /\ failedChild' \subseteq idx \ {Genesis}
           /\ failed \subseteq failed'
           /\ fv = failedValid \cup {b} => b \in failed'
           /\ \A x \in failed' : x \in failed \/ b \in Chain[x]
           /\ \A c \in Block : Unfailed(c) /\ b \notin Chain[c] => Chain[c] \cap failed' = {}
<1> DEFINE D == SetBlockFailureFlags(b, idx)
<1>1. failedValid' = fv \ D /\ failedChild' = failedChild \cup D
  BY DEF InvalidChainFound
<1>2. \A d \in D : d \in idx /\ d # b /\ b \in Chain[d] /\ d # Genesis
  <2> SUFFICES ASSUME NEW d \in D PROVE d \in idx /\ d # b /\ b \in Chain[d] /\ d # Genesis
    OBVIOUS
  <2>1. d \in idx /\ d # b /\ b \in Chain[d]
    BY DEF SetBlockFailureFlags, Descends
  <2> QED BY <2>1, ChainGenesis
<1> HIDE DEF D
<1>3. HeadersOK'
  <2>1. m_best_invalid' \in idx \cup {NoBlock}
    BY DEF InvalidChainFound
  <2>2. m_best_header' \in idx
    <3>1. RecalculateBestHeader(idx, failedValid' \cup failedChild') \subseteq idx
      BY DEF RecalculateBestHeader, SetsOK
    <3> QED BY <3>1 DEF InvalidChainFound
  <2> QED BY <2>1, <2>2 DEF HeadersOK
<1>4. failedValid' \subseteq idx \ {Genesis} /\ failedChild' \subseteq idx \ {Genesis}
  BY <1>1, <1>2 DEF SetsOK
<1>5. failed \subseteq failed' /\ (fv = failedValid \cup {b} => b \in failed')
  BY <1>1, <1>2 DEF failed
<1>6. \A x \in failed' : x \in failed \/ b \in Chain[x]
  BY <1>1, <1>2, ChainBasic DEF failed
<1>7. ASSUME NEW c \in Block, Unfailed(c), b \notin Chain[c] PROVE Chain[c] \cap failed' = {}
  <2> SUFFICES ASSUME NEW x \in Chain[c], x \in failed' PROVE FALSE
    OBVIOUS
  <2>1. x \notin failed
    BY <1>7 DEF Unfailed
  <2>2. b \in Chain[x]
    BY <1>6, <2>1
  <2> QED BY <1>7, <2>2, ChainTransitive
<1> QED BY <1>3, <1>4, <1>5, <1>6, <1>7

\* The block ConnectTip is for is a child of the tip, on the way to mostWork.
LEMMA NextBlock ==
    ASSUME SetFacts, NEW t \in Block, NEW m \in Block, t \in Chain[m], t # m
    PROVE  /\ GetAncestor(m, nHeight[t] + 1) \in Chain[m] \ {Genesis}
           /\ pprev[GetAncestor(m, nHeight[t] + 1)] = t
           /\ nHeight[GetAncestor(m, nHeight[t] + 1)] = nHeight[t] + 1
<1> DEFINE b == GetAncestor(m, nHeight[t] + 1)
<1>1. nHeight[t] \in Nat /\ nHeight[m] \in Nat /\ nHeight[t] < nHeight[m]
  BY TreeTypes, ChainLower
<1>2. nHeight[t] + 1 \in Nat /\ nHeight[t] + 1 <= nHeight[m]
  BY <1>1, SMTT(40)
<1>3. b \in Chain[m] /\ nHeight[b] = nHeight[t] + 1
  BY <1>2, Ancestor
<1> HIDE DEF b
<1>4. b \in Block /\ b # Genesis
  BY <1>1, <1>3, ChainBasic, BlockTreeAssumption, SMTT(40)
<1>5. pprev[b] \in Chain[m] /\ nHeight[b] = nHeight[pprev[b]] + 1 /\ pprev[b] \in Block
  BY <1>3, <1>4, ChainBasic, Parent
<1>6. nHeight[pprev[b]] = nHeight[t]
  BY <1>1, <1>3, <1>5, TreeTypes, SMTT(40)
<1>7. pprev[b] = t
  BY <1>5, <1>6, ChainHeights
<1> QED BY <1>3, <1>4, <1>7 DEF b

\* The front of the batch is on the way to mostWork.
LEMMA FrontIs ==
    ASSUME SetFacts, IInv, pc = "connect"
    PROVE  Front \in index /\ Front \in MaybeBlock
<1>1. /\ SetsOK /\ abc.mostWork \in linked /\ abc.front \in index \cup {NoBlock}
  BY DEF IInv, AbcOK
<1>2. abc.mostWork \in Block /\ tip \in Block /\ Chain[abc.mostWork] \subseteq index /\ index \subseteq MaybeBlock
  BY <1>1 DEF SetsOK, MaybeBlock
<1>3. CASE abc.front \in {NoBlock, tip}
  <2> DEFINE h == nHeight[tip] + ConnectBatch
             k == IF h < nHeight[abc.mostWork] THEN h ELSE nHeight[abc.mostWork]
  <2>1. Front = GetAncestor(abc.mostWork, k)
    BY <1>3 DEF Front
  <2>2. nHeight[tip] \in Nat /\ nHeight[abc.mostWork] \in Nat /\ ConnectBatch \in Nat
    BY <1>2, TreeTypes, ChainstateAssumption
  <2>3. k \in Nat /\ k <= nHeight[abc.mostWork]
    BY <2>2, SMTT(40)
  <2> HIDE DEF k
  <2>4. GetAncestor(abc.mostWork, k) \in Chain[abc.mostWork]
    BY <1>2, <2>3, Ancestor
  <2> QED BY <1>2, <2>1, <2>4
<1>4. CASE abc.front \notin {NoBlock, tip}
  BY <1>1, <1>2, <1>4 DEF Front
<1> QED BY <1>3, <1>4

\* ActivateBestChainStep disconnects a block.
LEMMA DisconnectTipKeeps ==
    ASSUME SetFacts, IInv, DisconnectTip
    PROVE  IInv'
<1>1. /\ UNCHANGED <<abcUnchanged, flags, candidates, best, abc, pending>> /\ pc = "disconnect"
      /\ SetsOK /\ NumbersOK /\ ThreadTypes /\ AbcOK /\ InvOK /\ HeadersOK
      /\ Unfailed(tip) /\ Connectable(tip)
  BY DEF IInv, DisconnectTip
<1>2. /\ tip \in Block /\ NoBlock \in MaybeBlock /\ NoBlock \notin Block /\ UNCHANGED verdict
      /\ abc.mostWork \in Block /\ abc.mostWork # NoBlock /\ Chain[tip] \subseteq linked /\ abc.starting \in Block /\ abc.old \in Block
  BY <1>1, TreeTypes DEF SetsOK, MaybeBlock, fixed, abcUnchanged, AbcOK, Holds_cs_main
<1>3. CASE tip # FindFork(tip, abc.mostWork)
  <2>1. tip' = pprev[tip] /\ BlockDisconnected /\ UNCHANGED pc
    BY <1>3 DEF DisconnectTip
  <2>2. tip # Genesis
    BY <1>2, <1>3, Fork, ChainGenesis
  <2>3. pprev[tip] \in Chain[tip] /\ pprev[tip] \in Block /\ pprev[tip] \in linked
    BY <1>2, <2>2, ChainBasic, Parent
  <2>4. Chain[pprev[tip]] \subseteq Chain[tip]
    BY <1>2, <2>3, ChainTransitive
  <2>5. SetsOK'
    BY <1>1, <2>1, <2>3 DEF SetsOK, flags, received, abcUnchanged
  <2>6. HeadersOK' /\ ThreadTypes'
    BY <1>1, <2>1 DEF HeadersOK, best, ThreadTypes, abcUnchanged
  <2>7. NumbersOK'
    <3>1. heard' = [heard EXCEPT !.seen = IF @ = tip THEN pprev[tip] ELSE NoBlock]
      BY <2>1 DEF BlockDisconnected
    <3>2. heard \in [seen : MaybeBlock, told : MaybeBlock] /\ pprev[tip] \in MaybeBlock
      BY <1>1, <2>3 DEF NumbersOK, MaybeBlock
    <3>3. heard' \in [seen : MaybeBlock, told : MaybeBlock]
      BY <1>2, <3>1, <3>2
    <3> QED BY <1>1, <3>3 DEF NumbersOK, fixed, counters, abcUnchanged
  <2>8. Unfailed(tip)' /\ Connectable(tip)'
    BY <1>1, <1>2, <2>1, <2>4 DEF Unfailed, Connectable, failed, flags
  <2>9. AbcOK'
    BY <1>1, <1>2, <2>1 DEF AbcOK, Holds_cs_main, Unfailed, failed, flags, received, abcUnchanged
  <2>10. InvOK'
    BY <1>1, <2>1 DEF InvOK, Invalidating, abcUnchanged
  <2> QED BY <2>5, <2>6, <2>7, <2>8, <2>9, <2>10 DEF IInv
<1>4. CASE tip = FindFork(tip, abc.mostWork)
  <2>1. pc' = (IF tip = abc.mostWork THEN "loop" ELSE "connect") /\ UNCHANGED <<tip, heard>>
    BY <1>4 DEF DisconnectTip
  <2>2. tip \in Chain[abc.mostWork]
    BY <1>2, <1>4, Fork, SMTT(40)
  <2>3. NumbersOK' /\ ThreadTypes'
    BY <1>1, <2>1 DEF NumbersOK, fixed, counters, abcUnchanged, ThreadTypes
  <2>4. AbcOK'
    BY <1>1, <1>2, <2>1, <2>2 DEF AbcOK, Holds_cs_main, Unfailed, failed, flags, received, abcUnchanged
  <2>5. InvOK'
    BY <1>1, <2>1 DEF InvOK, Invalidating, abcUnchanged
  <2> QED BY <1>1, <1>2, <2>1, <2>3, <2>4, <2>5, ThreadStep DEF abcUnchanged
<1> QED BY <1>3, <1>4

\* ActivateBestChainStep connects a block, or finds it invalid.
LEMMA ConnectTipKeeps ==
    ASSUME SetFacts, IInv, ConnectTip
    PROVE  IInv'
<1> DEFINE b == GetAncestor(abc.mostWork, nHeight[tip] + 1)
<1>1. /\ UNCHANGED <<abcUnchanged, heard, pending>> /\ pc = "connect"
      /\ SetsOK /\ NumbersOK /\ ThreadTypes /\ AbcOK /\ InvOK /\ HeadersOK
      /\ Unfailed(tip) /\ Connectable(tip)
  BY DEF IInv, ConnectTip
<1>2. /\ tip \in Block /\ NoBlock \in MaybeBlock /\ NoBlock \notin Block /\ UNCHANGED <<verdict, index>>
      /\ abc.mostWork \in Block /\ abc.mostWork # NoBlock /\ Chain[abc.mostWork] \subseteq linked
      /\ abc.starting \in Block /\ abc.old \in Block
      /\ tip \in Chain[abc.mostWork] /\ tip # abc.mostWork
  BY <1>1, TreeTypes DEF SetsOK, MaybeBlock, fixed, abcUnchanged, AbcOK, Holds_cs_main
<1>3. b \in Chain[abc.mostWork] /\ b # Genesis /\ pprev[b] = tip /\ nHeight[b] = nHeight[tip] + 1
  BY <1>2, NextBlock
<1>4. b \in linked /\ b \in Block /\ b \in index /\ Chain[b] = Chain[tip] \cup {b} /\ Chain[b] \subseteq Chain[abc.mostWork]
  <2>1. b \in linked /\ b \in Block /\ b \in index
    BY <1>1, <1>2, <1>3 DEF SetsOK
  <2> QED BY <1>2, <1>3, <2>1, ChainStep, ChainTransitive
<1>5. Front \in index /\ Front \in MaybeBlock
  BY <1>1, FrontIs
<1>6. NumbersOK'
  BY <1>1 DEF NumbersOK, fixed, counters, abcUnchanged
<1>7. CASE verdict[b] # "connect"
  <2>1. /\ tip' = b /\ candidates' = PruneBlockIndexCandidates(candidates, nSequenceId, b)
        /\ abc' = [abc EXCEPT !.front = Front] /\ UNCHANGED <<flags, best>>
        /\ pc' = IF nChainWork[b] > nChainWork[abc.old] \/ b = abc.mostWork THEN "loop" ELSE "connect"
    BY <1>7 DEF ConnectTip
  <2> HIDE DEF b
  <2>2. SetsOK'
    <3>1. candidates' \subseteq candidates
      BY <2>1 DEF PruneBlockIndexCandidates
    <3> QED BY <1>1, <1>4, <2>1, <3>1 DEF SetsOK, flags, received, abcUnchanged
  <2>3. HeadersOK' /\ ThreadTypes'
    BY <1>1, <1>5, <2>1 DEF HeadersOK, best, ThreadTypes, abcUnchanged
  <2>4. Unfailed(abc.mostWork)
    BY <1>1, <1>2 DEF AbcOK
  <2>5. Unfailed(tip)' /\ Connectable(tip)'
    BY <1>1, <1>2, <1>4, <1>7, <2>1, <2>4 DEF Unfailed, Connectable, failed, flags
  <2>6. abc'.mostWork = abc.mostWork /\ abc'.front = Front /\ abc'.starting = abc.starting /\ abc'.old = abc.old
    BY <1>1, <2>1 DEF ThreadTypes
  <2>7. AbcOK'
    BY <1>1, <1>2, <1>3, <1>5, <2>1, <2>6, SMTT(40) DEF AbcOK, Holds_cs_main, Unfailed, failed, flags, received, abcUnchanged
  <2>8. InvOK'
    BY <1>1, <2>1 DEF InvOK, Invalidating, abcUnchanged
  <2> QED BY <1>6, <2>2, <2>3, <2>5, <2>7, <2>8 DEF IInv
<1>8. CASE verdict[b] = "connect"
  <2>1. /\ InvalidBlockFound(b, Front, index, m_best_header)
        /\ abc' = [abc EXCEPT !.mostWork = NoBlock] /\ pc' = "loop" /\ UNCHANGED tip
    BY <1>8 DEF ConnectTip
  <2> HIDE DEF b
  <2>2. candidates' = candidates \ {b} /\ InvalidChainFound(b, Front, index, failedValid \cup {b}, failedChild, m_best_header)
    BY <2>1 DEF InvalidBlockFound
  <2>3. b \notin Chain[tip]
    <3>1. nHeight[tip] \in Nat
      BY <1>2, TreeTypes
    <3> QED BY <1>2, <1>3, <3>1, ChainLower, SMTT(40)
  <2>4. /\ HeadersOK'
        /\ failedValid' \subseteq index \ {Genesis} /\ failedChild' \subseteq index \ {Genesis}
        /\ Unfailed(tip) /\ b \notin Chain[tip] => Chain[tip] \cap failed' = {}
    <3>1. m_best_header \in index /\ m_best_invalid \in index \cup {NoBlock} /\ index \subseteq Block
      BY <1>1 DEF HeadersOK, SetsOK
    <3> QED BY <1>1, <1>2, <1>3, <1>4, <1>5, <2>2, <3>1, InvalidChain, SMTT(40)
  <2>5. SetsOK'
    BY <1>1, <1>2, <2>1, <2>2, <2>4 DEF SetsOK, received, abcUnchanged
  <2>6. ThreadTypes'
    BY <1>1, <1>2, <2>1 DEF ThreadTypes, abcUnchanged
  <2>7. Unfailed(tip)' /\ Connectable(tip)'
    BY <1>1, <1>2, <2>1, <2>3, <2>4 DEF Unfailed, Connectable
  <2>8. abc'.mostWork = NoBlock /\ abc'.front = abc.front /\ abc'.starting = abc.starting /\ abc'.old = abc.old
    BY <1>1, <2>1 DEF ThreadTypes
  <2>9. AbcOK'
    BY <1>1, <1>2, <2>1, <2>8 DEF AbcOK, Holds_cs_main
  <2>10. InvOK'
    BY <1>1, <2>1 DEF InvOK, Invalidating, abcUnchanged
  <2> QED BY <1>6, <2>4, <2>5, <2>6, <2>7, <2>9, <2>10 DEF IInv
<1> QED BY <1>7, <1>8

-----------------------------------------------------------------------------
(* InvalidateBlock                                                         *)

\* The steps of InvalidateBlock that only move the thread, and the request to stop.
LEMMA InvalidateMoves ==
    ASSUME IInv,
           \/ \E b \in Block : InvalidateBlock(b)
           \/ CollectHeaders \/ DisconnectInvalidFails \/ LeaveLoop \/ CheckDuringInvalidate \/ Interrupt
    PROVE  IInv'
<1>1. /\ UNCHANGED <<index, flags, received, candidates, tip, nSequenceId, counters,
                     best, fixed, heard, abc>>
      /\ SetsOK /\ NumbersOK /\ ThreadTypes /\ AbcOK /\ InvOK
  BY DEF IInv, InvalidateBlock, CollectHeaders, DisconnectInvalidFails, LeaveLoop, CheckDuringInvalidate, Interrupt, thread
<1>2. NoBlock \in MaybeBlock /\ UNCHANGED verdict /\ index \subseteq Block
  BY <1>1 DEF MaybeBlock, fixed, SetsOK
<1>3. NumbersOK'
  <2>1. pending' \in BOOLEAN /\ interrupt' \in BOOLEAN
    BY <1>1 DEF NumbersOK, InvalidateBlock, CollectHeaders, DisconnectInvalidFails, LeaveLoop, CheckDuringInvalidate, Interrupt
  <2>2. calls' \in [invalidate : Nat, precious : Nat, reset : Nat, error : Nat, restart : Nat]
    <3>1. calls \in [invalidate : Nat, precious : Nat, reset : Nat, error : Nat, restart : Nat]
      BY <1>1 DEF NumbersOK
    <3>2. UNCHANGED calls \/ calls' = [calls EXCEPT !.error = @ + 1] \/ calls' = [calls EXCEPT !.invalidate = @ + 1]
      BY DEF InvalidateBlock, CollectHeaders, DisconnectInvalidFails, LeaveLoop, CheckDuringInvalidate, Interrupt
    <3> QED BY <3>1, <3>2, SMTT(40)
  <2> QED BY <1>1, <2>1, <2>2 DEF NumbersOK, fixed, counters
<1>4. NoInvalidation \in [pindex : MaybeBlock, to_mark_failed : MaybeBlock,
                          was_in_chain : BOOLEAN, headers : SUBSET index]
  BY <1>2 DEF NoInvalidation
<1>5. AbcOK'
  BY <1>1 DEF AbcOK, Holds_cs_main, Unfailed, failed, flags, received, InvalidateBlock, CollectHeaders,
              DisconnectInvalidFails, LeaveLoop, CheckDuringInvalidate, Interrupt, thread
<1>6. ThreadTypes' /\ InvOK'
  <2>1. ASSUME NEW b \in Block, InvalidateBlock(b) PROVE ThreadTypes' /\ InvOK'
    <3>1. /\ b \in index \ {Genesis} /\ pc' = "scan"
          /\ inv' = [NoInvalidation EXCEPT !.pindex = b, !.to_mark_failed = b]
      BY <2>1 DEF InvalidateBlock
    <3>2. inv'.pindex = b /\ inv'.to_mark_failed = b /\ inv'.was_in_chain = FALSE /\ b \in MaybeBlock
      BY <3>1 DEF NoInvalidation, MaybeBlock
    <3>3. ThreadTypes'
      BY <1>1, <1>4, <3>1, <3>2 DEF ThreadTypes
    <3>4. InvOK'
      BY <1>1, <3>1, <3>2 DEF InvOK, Invalidating
    <3> QED BY <3>3, <3>4
  <2>2. CASE CollectHeaders
    <3> DEFINE H == {c \in (index \ Chain[tip]) \ failed : ~ WorseNow(c, pprev[inv.pindex])}
    <3>1. pc = "scan" /\ pc' = "walk" /\ inv' = [inv EXCEPT !.headers = H] /\ H \subseteq index
      BY <2>2 DEF CollectHeaders
    <3> HIDE DEF H
    <3>2. inv'.pindex = inv.pindex /\ inv'.to_mark_failed = inv.to_mark_failed /\ inv'.was_in_chain = inv.was_in_chain
      BY <1>1, <3>1 DEF ThreadTypes
    <3>3. ThreadTypes'
      BY <1>1, <3>1 DEF ThreadTypes
    <3>4. InvOK'
      BY <1>1, <3>1, <3>2 DEF InvOK, Invalidating
    <3> QED BY <3>3, <3>4
  <2>3. CASE DisconnectInvalidFails
    BY <1>1, <1>4, <2>3 DEF DisconnectInvalidFails, ThreadTypes, InvOK, Invalidating
  <2>4. CASE LeaveLoop \/ CheckDuringInvalidate \/ Interrupt
    BY <1>1, <2>4 DEF LeaveLoop, CheckDuringInvalidate, Interrupt, ThreadTypes, InvOK, Invalidating, thread
  <2> QED BY <2>1, <2>2, <2>3, <2>4
<1> QED BY <1>1, <1>2, <1>3, <1>5, <1>6, ThreadStep

\* What a turn of InvalidateBlock's loop marks: the tip, blocks above it, and blocks
\* that were marked before.
LEMMA WalkMarks ==
    ASSUME IInv, DisconnectInvalid
    PROVE  /\ tip # Genesis /\ tip' = pprev[tip] /\ pprev[tip] \in Chain[tip] /\ tip \notin Chain[pprev[tip]]
           /\ \A x \in failed' : x \in failed \/ tip \in Chain[x]
           /\ failed \cup {tip} \subseteq failed'
           /\ failedValid' \subseteq index \ {Genesis} /\ failedChild' \subseteq index \ {Genesis}
           /\ Chain[pprev[tip]] \cap failed' = {}
<1> DEFINE last == inv.to_mark_failed
           Demoted == {c \in {last} \cap failedValid : pprev[c] = tip}
           Walked == {c \in inv.headers : nChainWork[c] >= nChainWork[pprev[tip]]}
           Below == {c \in Walked : Descends(c, tip)}
<1>1. /\ SetsOK /\ InvOK /\ ThreadTypes /\ Unfailed(tip) /\ pc = "walk"
      /\ inv.pindex \in Chain[tip] /\ tip' = pprev[tip]
      /\ failedValid' = MarkDisconnected(Demoted) \ Below
      /\ failedChild' = (failedChild \cup Demoted) \cup Below
  BY DEF IInv, DisconnectInvalid
<1>2. tip \in Block /\ tip \in index /\ inv.pindex # Genesis /\ inv.headers \subseteq index /\ index \subseteq Block
  BY <1>1 DEF SetsOK, InvOK, Invalidating, ThreadTypes
<1>3. tip # Genesis
  BY <1>1, <1>2, ChainGenesis
<1>4. pprev[tip] \in Chain[tip] /\ pprev[tip] \in Block /\ Chain[pprev[tip]] \subseteq Chain[tip]
  BY <1>2, <1>3, ChainBasic, Parent, ChainTransitive
<1>5. tip \notin Chain[pprev[tip]]
  <2> SUFFICES ASSUME tip \in Chain[pprev[tip]] PROVE FALSE
    OBVIOUS
  <2>1. tip # pprev[tip]
    BY <1>2, <1>3, Parent
  <2>2. nHeight[tip] < nHeight[pprev[tip]] /\ nHeight[pprev[tip]] < nHeight[tip]
    BY <1>2, <1>4, <2>1, ChainLower
  <2>3. nHeight[tip] \in Nat /\ nHeight[pprev[tip]] \in Nat
    BY <1>2, <1>4, TreeTypes
  <2> QED BY <2>2, <2>3, SMTT(40)
<1>6. \A c \in Below : c \in index /\ tip \in Chain[c] /\ c # Genesis
  BY <1>2, <1>3, ChainGenesis DEF Descends
<1>7. Demoted \subseteq failedValid
  OBVIOUS
<1>8. failedValid' = ((failedValid \cup {tip}) \ Demoted) \ Below
  BY <1>1 DEF MarkDisconnected
<1> HIDE DEF Demoted, Below, Walked
<1>9. /\ \A x \in failed' : x \in failed \/ tip \in Chain[x]
      /\ failed \cup {tip} \subseteq failed'
      /\ failedValid' \subseteq index \ {Genesis} /\ failedChild' \subseteq index \ {Genesis}
  <2>1. tip \in Chain[tip] /\ failedValid \subseteq index \ {Genesis} /\ failedChild \subseteq index \ {Genesis}
    BY <1>1, <1>2, ChainBasic DEF SetsOK
  <2> QED BY <1>1, <1>2, <1>3, <1>6, <1>7, <1>8, <2>1 DEF failed
<1>10. Chain[pprev[tip]] \cap failed' = {}
  <2> SUFFICES ASSUME NEW x \in Chain[pprev[tip]], x \in failed' PROVE FALSE
    OBVIOUS
  <2>1. x \notin failed
    BY <1>1, <1>4 DEF Unfailed
  <2>2. tip \in Chain[x]
    BY <1>9, <2>1
  <2> QED BY <1>4, <1>5, <2>2, ChainTransitive
<1> QED BY <1>1, <1>3, <1>4, <1>5, <1>9, <1>10

\* InvalidateBlock disconnects a block and marks it.
LEMMA DisconnectInvalidKeeps ==
    ASSUME IInv, DisconnectInvalid
    PROVE  IInv'
<1> DEFINE Walked == {c \in inv.headers : nChainWork[c] >= nChainWork[pprev[tip]]}
           Below == {c \in Walked : Descends(c, tip)}
<1>1. /\ UNCHANGED <<index, received, nSequenceId, counters, m_best_invalid, fixed,
                     pc, abc, pending, interrupt, calls>> /\ pc = "walk"
      /\ SetsOK /\ NumbersOK /\ ThreadTypes /\ AbcOK /\ InvOK /\ HeadersOK
      /\ Unfailed(tip) /\ Connectable(tip)
      /\ BlockDisconnected
      /\ candidates' = (candidates \ {tip}) \cup {pprev[tip]} \cup LoopCandidates(Walked \ Below)
      /\ m_best_header' \in IF Descends(m_best_header, tip)
                            THEN MoreWork(Walked \ Below, pprev[tip]) ELSE {m_best_header}
      /\ inv' = [inv EXCEPT !.to_mark_failed = tip, !.was_in_chain = TRUE,
                            !.headers = @ \ Below]
  BY DEF IInv, DisconnectInvalid
<1>2. /\ tip # Genesis /\ tip' = pprev[tip] /\ pprev[tip] \in Chain[tip]
      /\ failedValid' \subseteq index \ {Genesis} /\ failedChild' \subseteq index \ {Genesis}
      /\ Chain[pprev[tip]] \cap failed' = {}
  BY WalkMarks
<1>3. /\ tip \in Block /\ NoBlock \in MaybeBlock /\ pprev[tip] \in Block /\ pprev[tip] \in linked
      /\ Chain[pprev[tip]] \subseteq Chain[tip] /\ UNCHANGED verdict /\ tip \in index /\ pprev[tip] \in index
  <2>1. tip \in Block /\ NoBlock \in MaybeBlock /\ tip \in index /\ Chain[tip] \subseteq linked /\ linked \subseteq index /\ UNCHANGED verdict
    BY <1>1 DEF SetsOK, MaybeBlock, fixed
  <2> QED BY <1>2, <2>1, ChainTransitive
<1>4. SetsOK'
  <2>1. LoopCandidates(Walked \ Below) \subseteq linked
    BY DEF LoopCandidates, Usable
  <2> QED BY <1>1, <1>2, <1>3, <2>1 DEF SetsOK, received
<1>5. HeadersOK'
  <2>1. Walked \subseteq index
    BY <1>1 DEF ThreadTypes
  <2>2. MoreWork(Walked \ Below, pprev[tip]) \subseteq index
    BY <1>3, <2>1 DEF MoreWork
  <2> QED BY <1>1, <2>2 DEF HeadersOK
<1>6. NumbersOK'
  <2>1. heard' = [heard EXCEPT !.seen = IF @ = tip THEN pprev[tip] ELSE NoBlock]
    BY <1>1 DEF BlockDisconnected
  <2>2. heard \in [seen : MaybeBlock, told : MaybeBlock] /\ pprev[tip] \in MaybeBlock
    BY <1>1, <1>3 DEF NumbersOK, MaybeBlock
  <2>3. heard' \in [seen : MaybeBlock, told : MaybeBlock]
    BY <1>3, <2>1, <2>2
  <2> QED BY <1>1, <2>3 DEF NumbersOK, fixed, counters
<1> HIDE DEF Walked, Below
<1>7. /\ inv'.pindex = inv.pindex /\ inv'.to_mark_failed = tip /\ inv'.was_in_chain = TRUE
  BY <1>1 DEF ThreadTypes
<1>8. ThreadTypes'
  <2>1. tip \in MaybeBlock
    BY <1>3 DEF MaybeBlock
  <2> QED BY <1>1, <2>1 DEF ThreadTypes
<1>9. Unfailed(tip)' /\ Connectable(tip)'
  BY <1>1, <1>2, <1>3 DEF Unfailed, Connectable
<1>10. AbcOK'
  <2>1. abc = NoCall /\ UNCHANGED abc
    BY <1>1 DEF AbcOK
  <2> QED BY <1>1, <2>1, SMTT(40) DEF AbcOK, Holds_cs_main, NoCall
<1>11. InvOK'
  BY <1>1, <1>2, <1>3, <1>7, SMTT(40) DEF InvOK, Invalidating
<1> QED BY <1>4, <1>5, <1>6, <1>8, <1>9, <1>10, <1>11 DEF IInv

\* InvalidateBlock marks its block, or finds it on the chain again and gives up.
LEMMA MarkInvalidKeeps ==
    ASSUME IInv, MarkInvalid
    PROVE  IInv'
<1> DEFINE b == inv.to_mark_failed
           Unmarked == {c \in {inv.pindex} \ failed : ~ inv.was_in_chain}
<1>1. /\ UNCHANGED <<index, received, tip, nSequenceId, counters, fixed, abc, interrupt, calls>>
      /\ pc = "mark" /\ pc' = "idle" /\ inv' = NoInvalidation /\ pending' = TRUE
      /\ SetsOK /\ NumbersOK /\ ThreadTypes /\ AbcOK /\ InvOK /\ HeadersOK
      /\ Unfailed(tip) /\ Connectable(tip)
  BY DEF IInv, MarkInvalid
<1>2. /\ tip \in Block /\ NoBlock \in MaybeBlock /\ UNCHANGED verdict /\ tip \in index /\ b \in index /\ b \in Block /\ b # Genesis
      /\ pprev[b] \in Block /\ index \subseteq Block
  <2>1. tip \in Block /\ NoBlock \in MaybeBlock /\ UNCHANGED verdict /\ tip \in index /\ b \in index /\ b # Genesis /\ index \subseteq Block
    BY <1>1 DEF SetsOK, MaybeBlock, fixed, InvOK, Invalidating
  <2> QED BY <2>1, Parent
<1>3. ThreadTypes' /\ InvOK' /\ AbcOK'
  <2>1. ThreadTypes'
    BY <1>1, <1>2 DEF ThreadTypes, NoInvalidation
  <2>2. abc = NoCall /\ UNCHANGED abc
    BY <1>1 DEF AbcOK
  <2> QED BY <1>1, <2>1, <2>2, SMTT(40) DEF InvOK, Invalidating, AbcOK, Holds_cs_main, NoCall
<1>4. CASE b \in Chain[tip]
  <2>1. UNCHANGED <<flags, candidates, best, heard>>
    BY <1>4 DEF MarkInvalid
  <2>2. NumbersOK'
    BY <1>1, <2>1 DEF NumbersOK, fixed, counters
  <2> QED BY <1>1, <1>2, <1>3, <2>1, <2>2, ThreadStep
<1>5. CASE b \notin Chain[tip]
  <2>1. /\ candidates' = (candidates \ Unmarked) \cup MissingCandidates(Unmarked)
        /\ InvalidChainFound(b, b, index, failedValid \cup Unmarked, failedChild, m_best_header)
        /\ heard' = [heard EXCEPT !.told = ReportedTip]
    BY <1>5 DEF MarkInvalid
  <2>2. failedValid \cup Unmarked = failedValid \/ failedValid \cup Unmarked = failedValid \cup {b}
    <3>1. ~ inv.was_in_chain => b = inv.pindex
      BY <1>1 DEF InvOK, Invalidating
    <3> QED BY <3>1
  <2> HIDE DEF b, Unmarked
  <2>3. /\ HeadersOK'
        /\ failedValid' \subseteq index \ {Genesis} /\ failedChild' \subseteq index \ {Genesis}
        /\ Chain[tip] \cap failed' = {}
    <3>1. m_best_header \in index /\ m_best_invalid \in index \cup {NoBlock}
      BY <1>1 DEF HeadersOK
    <3>2. /\ b \in Block /\ b # Genesis /\ b \in index /\ index' = index
          /\ index \subseteq index /\ index \subseteq Block
      BY <1>1, <1>2
    <3> DEFINE fv == failedValid \cup Unmarked
    <3>3. InvalidChainFound(b, b, index, fv, failedChild, m_best_header)
      BY <2>1
    <3>4. fv = failedValid \/ fv = failedValid \cup {b}
      BY <2>2
    <3> HIDE DEF fv
    <3>5. /\ HeadersOK'
          /\ failedValid' \subseteq index \ {Genesis} /\ failedChild' \subseteq index \ {Genesis}
          /\ \A x \in failed' : x \in failed \/ b \in Chain[x]
      <4>1. SetsOK
        BY <1>1
      <4> QED BY <3>1, <3>2, <3>3, <3>4, <4>1, InvalidChain
    <3>6. Chain[tip] \cap failed' = {}
      <4> SUFFICES ASSUME NEW x \in Chain[tip], x \in failed' PROVE FALSE
        OBVIOUS
      <4>1. x \notin failed
        BY <1>1 DEF Unfailed
      <4>2. b \in Chain[x]
        BY <3>5, <4>1
      <4> QED BY <1>2, <1>5, <4>2, ChainTransitive
    <3> QED BY <3>5, <3>6
  <2>4. SetsOK'
    <3>1. MissingCandidates(Unmarked) \subseteq linked
      BY DEF MissingCandidates, Usable
    <3> QED BY <1>1, <2>1, <2>3, <3>1 DEF SetsOK, received
  <2>5. NumbersOK'
    <3>1. heard \in [seen : MaybeBlock, told : MaybeBlock] /\ ReportedTip \in MaybeBlock
      BY <1>1, <1>2 DEF NumbersOK, ReportedTip, MaybeBlock, b
    <3>2. heard' \in [seen : MaybeBlock, told : MaybeBlock]
      BY <2>1, <3>1
    <3> QED BY <1>1, <3>2 DEF NumbersOK, fixed, counters
  <2>6. Unfailed(tip)' /\ Connectable(tip)'
    BY <1>1, <1>2, <2>3 DEF Unfailed, Connectable
  <2> QED BY <1>3, <2>3, <2>4, <2>5, <2>6 DEF IInv
<1> QED BY <1>4, <1>5

-----------------------------------------------------------------------------
(* The calls of other threads                                              *)

\* A step that leaves the thread with m_chainstate_mutex and the tip alone, and
\* marks no block of their chains.
LEMMA OtherStep ==
    ASSUME IInv, UNCHANGED <<tip, verdict, pc, abc, inv>>, SetsOK', HeadersOK', NumbersOK',
           index \subseteq index', linked \subseteq linked',
           Chain[tip] \cap failed' = {},
           abc.mostWork # NoBlock => Chain[abc.mostWork] \cap failed' = {}
    PROVE  IInv'
<1>1. ThreadTypes /\ AbcOK /\ InvOK /\ Unfailed(tip) /\ Connectable(tip)
  BY DEF IInv
<1>2. ThreadTypes'
  BY <1>1 DEF ThreadTypes
<1>3. AbcOK'
  BY <1>1 DEF AbcOK, Holds_cs_main, Unfailed
<1>4. InvOK'
  BY <1>1 DEF InvOK, Invalidating
<1>5. Unfailed(tip)' /\ Connectable(tip)'
  BY <1>1 DEF Unfailed, Connectable
<1> QED BY <1>2, <1>3, <1>4, <1>5 DEF IInv

\* What the other lemmas use of the state
LEMMA StateFacts ==
    ASSUME SetFacts, IInv
    PROVE  /\ SetsOK /\ HeadersOK /\ NumbersOK
           /\ tip \in Block /\ Chain[tip] \subseteq linked /\ Chain[tip] \cap failed = {}
           /\ Genesis \in data
           /\ abc.mostWork # NoBlock =>
                /\ abc.mostWork \in Block /\ Chain[abc.mostWork] \subseteq linked
                /\ Chain[abc.mostWork] \cap failed = {}
<1>1. SetsOK /\ HeadersOK /\ NumbersOK /\ Unfailed(tip) /\ AbcOK
  BY DEF IInv
<1>2. tip \in Block /\ Chain[tip] \subseteq linked /\ linked \subseteq data
  BY <1>1 DEF SetsOK
<1>3. Genesis \in data
  BY <1>2, GenesisInChain
<1> QED BY <1>1, <1>2, <1>3 DEF SetsOK, AbcOK, Unfailed

\* A header that is added keeps the index a tree.
LEMMA IndexGrows ==
    ASSUME SetFacts, SetsOK, HeadersOK, NEW b \in Block, HeaderAccepted(b), index' = index \cup {b}
    PROVE  /\ index' \subseteq Block /\ Genesis \in index' /\ IsFiniteSet(index')
           /\ \A c \in index' \ {Genesis} : pprev[c] \in index'
           /\ BestHeaderWith(b) \in index' /\ m_best_header \in index'
<1>1. IsFiniteSet(index \cup {b})
  BY FiniteMore DEF SetsOK
<1>2. \A c \in index' \ {Genesis} : pprev[c] \in index'
  BY DEF SetsOK, HeaderAccepted, NewHeader
<1> QED BY <1>1, <1>2 DEF SetsOK, HeadersOK, BestHeaderWith

\* AcceptBlockHeader enters a header into the index.
LEMMA AcceptBlockHeaderKeeps ==
    ASSUME SetFacts, IInv, NEW b \in Block, AcceptBlockHeader(b)
    PROVE  IInv'
<1>1. /\ index' = index \cup {b} /\ m_best_header' = BestHeaderWith(b) /\ HeaderAccepted(b)
      /\ UNCHANGED <<flags, received, candidates, tip, nSequenceId, counters,
                     m_best_invalid, fixed, heard, pc, abc, inv, pending, interrupt, calls>>
  BY DEF AcceptBlockHeader, HeaderAccepted, thread
<1>2. /\ index' \subseteq Block /\ Genesis \in index' /\ IsFiniteSet(index')
      /\ \A c \in index' \ {Genesis} : pprev[c] \in index'
      /\ BestHeaderWith(b) \in index'
  BY <1>1, StateFacts, IndexGrows
<1>3. SetsOK'
  BY <1>1, <1>2, StateFacts DEF SetsOK, flags, received
<1>4. HeadersOK' /\ NumbersOK'
  BY <1>1, <1>2, StateFacts DEF HeadersOK, NumbersOK, fixed, counters
<1>5. UNCHANGED <<linked, failed, verdict>>
  BY <1>1 DEF received, flags, failed, fixed
<1> QED BY <1>1, <1>3, <1>4, <1>5, StateFacts, OtherStep

\* The blocks that b links form chains down to b.
LEMMA LinkableClosed ==
    ASSUME SetsOK, NEW b \in Block, b # Genesis, pprev[b] \in linked
    PROVE  /\ b \in Linkable(b) /\ Linkable(b) \subseteq unlinked \cup {b}
           /\ \A x \in Linkable(b) : Chain[x] \subseteq linked \cup Linkable(b)
<1>1. b \in Linkable(b) /\ Linkable(b) \subseteq unlinked \cup {b}
  BY DEF Linkable
<1>2. Chain[b] = Chain[pprev[b]] \cup {b} /\ Chain[pprev[b]] \subseteq linked
  BY ChainStep DEF SetsOK
<1>3. unlinked \subseteq Block
  BY DEF SetsOK
<1>4. ASSUME NEW x \in Linkable(b), NEW y \in Chain[x] PROVE y \in linked \cup Linkable(b)
  <2>1. CASE y \in Chain[b]
    BY <1>1, <1>2, <2>1
  <2>2. CASE y \notin Chain[b]
    <3>1. x # b
      BY <2>2
    <3>2. x \in unlinked /\ b \in Chain[x] /\ Chain[x] \ Chain[b] \subseteq unlinked /\ x \in Block
      BY <1>3, <3>1 DEF Linkable, Descends
    <3>3. y \in unlinked /\ b \in Chain[y] /\ Chain[y] \subseteq Chain[x]
      BY <2>2, <3>2, ChainLinear, ChainTransitive
    <3> QED BY <3>2, <3>3 DEF Linkable, Descends
  <2> QED BY <2>1, <2>2
<1> QED BY <1>1, <1>2, <1>4

\* ReceivedBlockTransactions keeps the sets and the sequence ids as they should be.
LEMMA ReceivedKeeps ==
    ASSUME SetFacts, SetsOK, NumbersOK, NEW b \in Block, b \notin data, b # Genesis, ReceivedBlockTransactions(b),
           b \in index', index \subseteq index', index' \subseteq Block, IsFiniteSet(index'),
           \A c \in index' \ {Genesis} : pprev[c] \in index',
           UNCHANGED <<failedValid, failedChild, tip>>
    PROVE  /\ SetsOK' /\ linked \subseteq linked'
           /\ nSequenceId' \in [Block -> Int] /\ nBlockSequenceId' \in Nat
<1>1. data' = data \cup {b}
  BY DEF ReceivedBlockTransactions
<1>2. CASE pprev[b] \in linked
  <2> DEFINE L == Linkable(b)
  <2>1. /\ linked' = linked \cup L /\ unlinked' = unlinked \ L
        /\ nBlockSequenceId' = nBlockSequenceId + Cardinality(L)
        /\ candidates' = candidates \cup {x \in L : ~ Worse(nSequenceId', address, x, tip)}
    BY <1>2 DEF ReceivedBlockTransactions
  <2>2. PICK ids \in SequenceIds(L) :
          nSequenceId' = [x \in Block |-> IF x \in L THEN ids[x] ELSE nSequenceId[x]]
    BY <1>2 DEF ReceivedBlockTransactions
  <2>3. b \in L /\ L \subseteq unlinked \cup {b} /\ \A x \in L : Chain[x] \subseteq linked \cup L
    BY <1>2, LinkableClosed
  <2> HIDE DEF L
  <2>4. Cardinality(L) \in Nat
    <3>1. L \subseteq index'
      BY <2>3 DEF SetsOK
    <3>2. IsFiniteSet(L)
      BY <3>1, FiniteSubset
    <3> QED BY <3>2 DEF SetFacts, FiniteSubsets
  <2>5. nBlockSequenceId \in Nat /\ nSequenceId \in [Block -> Int]
    BY DEF NumbersOK
  <2>6. nBlockSequenceId' \in Nat
    BY <2>1, <2>4, <2>5, SMTT(40)
  <2>7. ids \in [L -> nBlockSequenceId .. (nBlockSequenceId + Cardinality(L) - 1)]
    BY DEF SequenceIds
  <2>8. \A x \in L : ids[x] \in Int
    BY <2>4, <2>5, <2>7, SMTT(40)
  <2>9. nSequenceId' \in [Block -> Int]
    BY <2>2, <2>5, <2>8
  <2>10. /\ data' \subseteq index' /\ linked' \subseteq data' /\ unlinked' \subseteq data' \ linked'
         /\ candidates' \subseteq linked' /\ tip' \in linked'
    BY <1>1, <2>1, <2>3 DEF SetsOK
  <2>11. \A x \in linked' : Chain[x] \subseteq linked'
    BY <2>1, <2>3 DEF SetsOK
  <2>12. SetsOK'
    BY <2>10, <2>11 DEF SetsOK
  <2> QED BY <2>1, <2>6, <2>9, <2>12
<1>3. CASE pprev[b] \notin linked
  <2>1. /\ unlinked' = unlinked \cup (IF pprev[b] \in failed THEN {} ELSE {b})
        /\ UNCHANGED <<linked, nSequenceId, nBlockSequenceId, candidates>>
    BY <1>3 DEF ReceivedBlockTransactions
  <2>2. SetsOK'
    BY <1>1, <2>1 DEF SetsOK
  <2> QED BY <2>1, <2>2 DEF NumbersOK
<1> QED BY <1>2, <1>3

\* AcceptBlock takes the data of a block.
LEMMA AcceptBlockKeeps ==
    ASSUME SetFacts, IInv, NEW b \in Block, NEW fRequested \in BOOLEAN, AcceptBlock(b, fRequested)
    PROVE  IInv'
<1> DEFINE hdr == IF b \in index THEN m_best_header ELSE BestHeaderWith(b)
<1>1. /\ index' = index \cup {b} /\ HeaderAccepted(b)
      /\ UNCHANGED <<tip, nBlockReverseSequenceId, nLastPreciousChainwork, fixed, heard,
                     pc, abc, inv, interrupt, calls>>
  BY DEF AcceptBlock, thread
<1>2. /\ index' \subseteq Block /\ Genesis \in index' /\ IsFiniteSet(index')
      /\ \A c \in index' \ {Genesis} : pprev[c] \in index'
      /\ hdr \in index' /\ index \subseteq index' /\ b \in index'
  BY <1>1, StateFacts, IndexGrows
<1>3. /\ SetsOK /\ HeadersOK /\ NumbersOK /\ UNCHANGED verdict /\ linked \subseteq data
      /\ m_best_invalid \in index \cup {NoBlock}
  BY <1>1, StateFacts DEF fixed, SetsOK, HeadersOK
<1>4. ASSUME m_best_header' = hdr, pending' = TRUE,
             UNCHANGED <<flags, received, candidates, nSequenceId, nBlockSequenceId, m_best_invalid>>
      PROVE  IInv'
  <2>1. SetsOK'
    BY <1>1, <1>2, <1>3, <1>4 DEF SetsOK, flags, received
  <2>2. HeadersOK' /\ NumbersOK'
    BY <1>1, <1>2, <1>3, <1>4 DEF HeadersOK, NumbersOK, fixed
  <2>3. UNCHANGED <<linked, failed>>
    BY <1>4 DEF received, flags, failed
  <2> QED BY <1>1, <1>2, <1>3, <2>1, <2>2, <2>3, StateFacts, OtherStep
<1>5. ASSUME b \notin data, verdict[b] = "context", InvalidBlockFound(b, b, index', hdr),
             UNCHANGED <<received, nSequenceId, nBlockSequenceId, pending>>
      PROVE  IInv'
  <2>1. candidates' = candidates \ {b} /\ InvalidChainFound(b, b, index', failedValid \cup {b}, failedChild, hdr)
    BY <1>5 DEF InvalidBlockFound
  <2> HIDE DEF hdr
  <2>2. b # Genesis
    BY <1>5, StateFacts
  <2>3. /\ HeadersOK'
        /\ failedValid' \subseteq index' \ {Genesis} /\ failedChild' \subseteq index' \ {Genesis}
        /\ \A c \in Block : Unfailed(c) /\ b \notin Chain[c] => Chain[c] \cap failed' = {}
    BY <1>2, <1>3, <2>1, <2>2, InvalidChain, SMTT(40)
  <2>4. \A c \in Block : Chain[c] \subseteq linked /\ Chain[c] \cap failed = {} => Chain[c] \cap failed' = {}
    BY <1>3, <1>5, <2>3 DEF Unfailed
  <2>5. SetsOK'
    BY <1>1, <1>2, <1>3, <1>5, <2>1, <2>3 DEF SetsOK, received
  <2>6. NumbersOK'
    BY <1>1, <1>3, <1>5 DEF NumbersOK, fixed
  <2>7. UNCHANGED linked
    BY <1>5 DEF received
  <2> QED BY <1>1, <1>2, <1>3, <2>3, <2>4, <2>5, <2>6, <2>7, StateFacts, OtherStep
<1>6. ASSUME b \notin data, m_best_header' = hdr, ReceivedBlockTransactions(b), pending' = TRUE,
             UNCHANGED <<flags, m_best_invalid>>
      PROVE  IInv'
  <2>1. b # Genesis
    BY <1>6, StateFacts
  <2>2. UNCHANGED <<failedValid, failedChild, tip, failed>>
    BY <1>1, <1>6 DEF flags, failed
  <2> HIDE DEF hdr
  <2>3. /\ SetsOK' /\ linked \subseteq linked'
        /\ nSequenceId' \in [Block -> Int] /\ nBlockSequenceId' \in Nat
    BY <1>2, <1>3, <1>6, <2>1, <2>2, ReceivedKeeps
  <2>4. HeadersOK' /\ NumbersOK'
    BY <1>1, <1>2, <1>3, <1>6, <2>3 DEF HeadersOK, NumbersOK, fixed
  <2> QED BY <1>1, <1>2, <1>3, <2>2, <2>3, <2>4, StateFacts, OtherStep
<1> QED
  <2>1. \/ /\ m_best_header' = hdr /\ pending' = TRUE
           /\ UNCHANGED <<flags, received, candidates, nSequenceId, nBlockSequenceId, m_best_invalid>>
        \/ /\ b \notin data /\ verdict[b] = "context" /\ InvalidBlockFound(b, b, index', hdr)
           /\ UNCHANGED <<received, nSequenceId, nBlockSequenceId, pending>>
        \/ /\ b \notin data /\ m_best_header' = hdr /\ ReceivedBlockTransactions(b) /\ pending' = TRUE
           /\ UNCHANGED <<flags, m_best_invalid>>
    BY DEF AcceptBlock
  <2> QED BY <1>4, <1>5, <1>6, <2>1

\* PreciousBlock prefers a block to those received before it.
LEMMA PreciousBlockKeeps ==
    ASSUME SetFacts, IInv, NEW b \in Block, PreciousBlock(b)
    PROVE  IInv'
<1> DEFINE reverse == IF nChainWork[tip] > nLastPreciousChainwork THEN -1 ELSE nBlockReverseSequenceId
<1>1. /\ nLastPreciousChainwork' = nChainWork[tip]
      /\ calls' = [calls EXCEPT !.precious = @ + 1]
      /\ nSequenceId' = [nSequenceId EXCEPT ![b] = reverse]
      /\ nBlockReverseSequenceId' = IF reverse > MinSequenceId THEN reverse - 1 ELSE reverse
      /\ candidates' = IF b \in Usable
                       THEN PruneBlockIndexCandidates(candidates \cup {b}, nSequenceId', tip)
                       ELSE candidates \ {b}
      /\ pending' = TRUE
      /\ UNCHANGED <<index, flags, received, tip, nBlockSequenceId, best, fixed, heard,
                     pc, abc, inv, interrupt>>
  BY DEF PreciousBlock, thread
<1>2. SetsOK /\ HeadersOK /\ NumbersOK /\ UNCHANGED verdict
  BY <1>1, StateFacts DEF fixed
<1>3. reverse \in MinSequenceId .. -1
  <2>1. nBlockReverseSequenceId \in MinSequenceId .. -1 /\ MinSequenceId \in Int /\ MinSequenceId < 0
    BY <1>2, ChainstateAssumption DEF NumbersOK
  <2>2. -1 \in MinSequenceId .. -1
    BY <2>1, SMTT(40)
  <2> QED BY <2>1, <2>2
<1> HIDE DEF reverse
<1>4. nBlockReverseSequenceId' \in MinSequenceId .. -1
  <2>1. MinSequenceId \in Int
    BY ChainstateAssumption
  <2> QED BY <1>1, <1>3, <2>1, SMTT(40)
<1>5. candidates' \subseteq linked
  BY <1>1, <1>2 DEF PruneBlockIndexCandidates, Usable, SetsOK
<1>6. SetsOK'
  BY <1>1, <1>2, <1>5 DEF SetsOK, flags, received
<1>7. NumbersOK'
  <2>1. nSequenceId' \in [Block -> Int] /\ nLastPreciousChainwork' \in Nat
    <3>1. nSequenceId \in [Block -> Int] /\ reverse \in Int /\ nChainWork[tip] \in Nat
      BY <1>2, <1>3, TreeTypes, ChainstateAssumption, StateFacts, SMTT(40) DEF NumbersOK
    <3> QED BY <1>1, <3>1
  <2>2. calls' \in [invalidate : Nat, precious : Nat, reset : Nat, error : Nat, restart : Nat]
    BY <1>1, <1>2, SMTT(40) DEF NumbersOK
  <2> QED BY <1>1, <1>2, <1>4, <2>1, <2>2 DEF NumbersOK, fixed
<1>8. HeadersOK' /\ UNCHANGED <<index, linked, failed>>
  BY <1>1, <1>2 DEF HeadersOK, best, received, flags, failed
<1> QED BY <1>1, <1>2, <1>6, <1>7, <1>8, StateFacts, OtherStep

\* ResetBlockFailureFlags clears the marks of a block, its ancestors and descendants.
LEMMA ResetBlockFailureFlagsKeeps ==
    ASSUME SetFacts, IInv, NEW b \in Block, ResetBlockFailureFlags(b)
    PROVE  IInv'
<1> DEFINE Cleared == {x \in index \cap failed : Descends(x, b) \/ Descends(b, x)}
<1>1. /\ calls' = [calls EXCEPT !.reset = @ + 1]
      /\ failedValid' = failedValid \ Cleared
      /\ failedChild' = failedChild \ Cleared
      /\ candidates' = candidates \cup Reconsidered(Cleared)
      /\ m_best_invalid' = IF m_best_invalid \in Cleared THEN NoBlock ELSE m_best_invalid
      /\ m_best_header' \in RecalculateBestHeader(index, failed \ Cleared)
      /\ pending' = TRUE
      /\ UNCHANGED <<index, received, tip, nSequenceId, counters, fixed, heard, pc, abc, inv, interrupt>>
  BY DEF ResetBlockFailureFlags, thread
<1> HIDE DEF Cleared
<1>2. SetsOK /\ HeadersOK /\ NumbersOK /\ UNCHANGED verdict
  BY <1>1, StateFacts DEF fixed
<1>3. failed' \subseteq failed
  BY <1>1 DEF failed
<1>4. SetsOK'
  <2>1. Reconsidered(Cleared) \subseteq linked
    BY DEF Reconsidered
  <2> QED BY <1>1, <1>2, <2>1 DEF SetsOK, received
<1>5. HeadersOK'
  <2>1. RecalculateBestHeader(index, failed \ Cleared) \subseteq index
    BY <1>2 DEF RecalculateBestHeader, SetsOK
  <2> QED BY <1>1, <1>2, <2>1 DEF HeadersOK
<1>6. NumbersOK'
  <2>1. calls' \in [invalidate : Nat, precious : Nat, reset : Nat, error : Nat, restart : Nat]
    BY <1>1, <1>2, SMTT(40) DEF NumbersOK
  <2> QED BY <1>1, <1>2, <2>1 DEF NumbersOK, fixed, counters
<1>7. UNCHANGED <<index, linked>>
  BY <1>1 DEF received
<1> QED BY <1>1, <1>2, <1>3, <1>4, <1>5, <1>6, <1>7, StateFacts, OtherStep

\* The index is loaded again, with its marks and its candidates.
LEMMA RestartKeeps ==
    ASSUME SetFacts, IInv, Restart
    PROVE  IInv'
<1> DEFINE Linked == {b \in data : Chain[b] \subseteq data}
           FailedNow == {b \in index : Chain[b] \cap failed # {}}
           Valid == index \ FailedNow
           MostWork(S) == {b \in S : \A c \in S : nChainWork[c] <= nChainWork[b]}
<1>1. /\ interrupt' = FALSE /\ pending' = TRUE
      /\ calls' = [calls EXCEPT !.restart = @ + 1]
      /\ address' \in Addresses
      /\ nSequenceId' = [b \in Block |-> 0]
      /\ nBlockSequenceId' = 1 /\ nBlockReverseSequenceId' = -1 /\ nLastPreciousChainwork' = 0
      /\ linked' = Linked /\ unlinked' = data \ Linked
      /\ failedChild' = failedChild \cup (FailedNow \ failed)
      /\ candidates' = LoadCandidates(Linked \cap Valid, address')
      /\ m_best_header' = CHOOSE b \in Valid : \A c \in Valid : ~ Worse(nSequenceId', address', b, c)
      /\ m_best_invalid' \in IF FailedNow = {} THEN {NoBlock} ELSE MostWork(FailedNow)
      /\ heard' = [seen |-> tip, told |-> tip]
      /\ UNCHANGED <<index, failedValid, data, tip, verdict, scenario, pc, abc, inv>>
      /\ pc = "idle"
  BY DEF Restart, thread
<1>2. SetsOK /\ HeadersOK /\ NumbersOK /\ tip \in Block /\ Chain[tip] \cap failed = {} /\ data \subseteq Block
  BY StateFacts DEF SetsOK
<1>3. linked \subseteq Linked /\ \A b \in Linked : Chain[b] \subseteq Linked
  <2>1. linked \subseteq Linked
    BY <1>2 DEF SetsOK
  <2>2. ASSUME NEW b \in Linked PROVE Chain[b] \subseteq Linked
    <3>1. b \in Block /\ Chain[b] \subseteq data
      BY <1>2
    <3> QED BY <3>1, ChainTransitive
  <2> QED BY <2>1, <2>2
<1>4. Genesis \in Valid /\ Chain[tip] \cap FailedNow = {} /\ FailedNow \subseteq index \ {Genesis} /\ Valid \subseteq index
  <2>1. Genesis \in index /\ Genesis \notin failed
    BY <1>2 DEF SetsOK, failed
  <2>2. Genesis \notin FailedNow
    BY <2>1, ChainGenesis
  <2>3. ASSUME NEW x \in Chain[tip] PROVE x \notin FailedNow
    BY <1>2, ChainTransitive
  <2> QED BY <2>1, <2>2, <2>3
<1>5. m_best_header' \in Valid
  <2>1. nSequenceId' \in [Block -> Int] /\ IsFiniteSet(index) /\ index \subseteq Block
    BY <1>1, <1>2, SMTT(40) DEF SetsOK
  <2>2. IsFiniteSet(Valid) /\ Valid \in SUBSET Block /\ Valid # {}
    BY <1>4, <2>1, FiniteSubset
  <2> HIDE DEF Valid
  <2>3. \E b \in Valid : \A c \in Valid : ~ Worse(nSequenceId', address', b, c)
    BY <1>1, <2>1, <2>2, FiniteBest
  <2> QED BY <1>1, <2>3
<1>6. m_best_invalid' \in index \cup {NoBlock}
  BY <1>1
<1>7. candidates' \subseteq Linked
  BY <1>1 DEF LoadCandidates
<1> HIDE DEF Valid, FailedNow, MostWork
<1>8. Linked \subseteq data
  OBVIOUS
<1> HIDE DEF Linked
<1>9. SetsOK'
  BY <1>1, <1>2, <1>3, <1>4, <1>7, <1>8 DEF SetsOK
<1>10. HeadersOK'
  BY <1>1, <1>4, <1>5, <1>6 DEF HeadersOK
<1>11. NumbersOK'
  <2>1. /\ nSequenceId' \in [Block -> Int] /\ nBlockReverseSequenceId' \in MinSequenceId .. -1
        /\ nBlockSequenceId' \in Nat /\ nLastPreciousChainwork' \in Nat
    BY <1>1, ChainstateAssumption, SMTT(40)
  <2>2. calls' \in [invalidate : Nat, precious : Nat, reset : Nat, error : Nat, restart : Nat]
    BY <1>1, <1>2, SMTT(40) DEF NumbersOK
  <2>3. heard' \in [seen : MaybeBlock, told : MaybeBlock]
    BY <1>1, <1>2 DEF MaybeBlock
  <2> QED BY <1>1, <1>2, <2>1, <2>2, <2>3 DEF NumbersOK
<1>12. Chain[tip] \cap failed' = {}
  BY <1>1, <1>2, <1>4 DEF failed
<1>13. abc.mostWork = NoBlock
  BY <1>1, SMTT(40) DEF IInv, AbcOK, NoCall
<1> QED BY <1>1, <1>3, <1>9, <1>10, <1>11, <1>12, <1>13, OtherStep

-----------------------------------------------------------------------------
(* The active chain                                                        *)

\* The invariant holds at first.
LEMMA InitKeeps ==
    ASSUME SetFacts, Init
    PROVE  IInv
<1>1. Chain[Genesis] = {Genesis} /\ Genesis \in Block /\ NoBlock \notin Block
  BY ChainGenesis, TreeTypes
<1>2. SetsOK
  <2>1. IsFiniteSet({Genesis})
    BY DEF SetFacts, FiniteSingletons
  <2> QED BY <1>1, <2>1 DEF Init, SetsOK
<1>3. HeadersOK /\ NumbersOK
  <2>1. /\ nSequenceId \in [Block -> Int] /\ nBlockSequenceId \in Nat
        /\ nBlockReverseSequenceId \in MinSequenceId .. -1 /\ nLastPreciousChainwork \in Nat
    BY ChainstateAssumption, SMTT(40) DEF Init
  <2>2. calls \in [invalidate : Nat, precious : Nat, reset : Nat, error : Nat, restart : Nat]
    BY DEF Init
  <2>3. heard \in [seen : MaybeBlock, told : MaybeBlock] /\ HeadersOK
    BY <1>1 DEF Init, MaybeBlock, HeadersOK
  <2> QED BY <2>1, <2>2, <2>3 DEF Init, NumbersOK
<1>4. ThreadTypes
  <2>1. abc \in [mostWork : MaybeBlock, newTip : MaybeBlock, starting : MaybeBlock,
                 old : MaybeBlock, front : MaybeBlock, connected : BOOLEAN]
    BY DEF Init, NoCall, MaybeBlock
  <2>2. inv \in [pindex : MaybeBlock, to_mark_failed : MaybeBlock,
                 was_in_chain : BOOLEAN, headers : SUBSET index]
    BY DEF Init, NoInvalidation, MaybeBlock
  <2> QED BY <2>1, <2>2 DEF Init, ThreadTypes
<1>5. Unfailed(tip) /\ Connectable(tip)
  BY <1>1, ChainstateAssumption DEF Init, Unfailed, Connectable, failed
<1>6. AbcOK /\ InvOK
  BY <1>1 DEF Init, AbcOK, InvOK, NoCall, Holds_cs_main, Invalidating
<1> QED BY <1>2, <1>3, <1>4, <1>5, <1>6 DEF IInv

\* What changes nothing keeps the invariant.
LEMMA StutterKeeps ==
    ASSUME SetFacts, IInv, UNCHANGED vars
    PROVE  IInv'
<1>1. /\ UNCHANGED <<tip, verdict, pc, abc, inv, index, linked, failed>>
      /\ UNCHANGED <<flags, received, candidates, nSequenceId, counters, best, fixed, heard, pending, interrupt, calls>>
  BY DEF vars, thread, fixed, received, flags, failed
<1>2. SetsOK' /\ HeadersOK' /\ NumbersOK'
  BY <1>1, StateFacts DEF SetsOK, HeadersOK, NumbersOK, flags, received, counters, best, fixed
<1> QED BY <1>1, <1>2, StateFacts, OtherStep

\* Every step keeps the invariant.
LEMMA StepKeeps ==
    ASSUME SetFacts, IInv, [Next]_vars
    PROVE  IInv'
<1>1. CASE \E b \in Block : AcceptBlockHeader(b) \/ PreciousBlock(b) \/ ResetBlockFailureFlags(b)
  BY <1>1, AcceptBlockHeaderKeeps, PreciousBlockKeeps, ResetBlockFailureFlagsKeeps
<1>2. CASE \E b \in Block, fRequested \in BOOLEAN : AcceptBlock(b, fRequested)
  BY <1>2, AcceptBlockKeeps
<1>3. CASE ActivateBestChain \/ OuterLoop \/ LoopOrLeave \/ Release_cs_main \/ SystemError
  BY <1>3, ActivateMoves
<1>4. CASE InnerLoop \/ DisconnectTip \/ ConnectTip
  BY <1>4, InnerLoopKeeps, DisconnectTipKeeps, ConnectTipKeeps
<1>5. CASE \/ \E b \in Block : InvalidateBlock(b)
           \/ CollectHeaders \/ DisconnectInvalidFails \/ LeaveLoop \/ CheckDuringInvalidate \/ Interrupt
  BY <1>5, InvalidateMoves
<1>6. CASE DisconnectInvalid \/ MarkInvalid
  BY <1>6, DisconnectInvalidKeeps, MarkInvalidKeeps
<1>7. CASE Restart
  BY <1>7, RestartKeeps
<1>8. CASE UNCHANGED vars
  BY <1>8, StutterKeeps
<1> QED BY <1>1, <1>2, <1>3, <1>4, <1>5, <1>6, <1>7, <1>8 DEF Next, ChainstateStep

-----------------------------------------------------------------------------
(* What listeners see                                                      *)

\* Two blocks on each other's chains are one.
LEMMA ChainEqual ==
    ASSUME NEW a \in Block, NEW b \in Block, a \in Chain[b], b \in Chain[a]
    PROVE  a = b
<1> SUFFICES ASSUME a # b PROVE FALSE
  OBVIOUS
<1>1. nHeight[a] < nHeight[b] /\ nHeight[b] < nHeight[a] /\ nHeight[a] \in Nat /\ nHeight[b] \in Nat
  BY ChainLower, TreeTypes
<1> QED BY <1>1, SMTT(40)

\* Steps outside ActivateBestChainStep that leave the tip alone.
LEMMA SeenMoves ==
    ASSUME SeenOK, UNCHANGED <<tip, interrupt>>, heard'.seen = heard.seen,
           pc \notin {"disconnect", "connect", "loop"}, pc' \notin {"disconnect", "connect", "loop"}
    PROVE  SeenOK'
BY DEF SeenOK

\* A step that leaves the thread alone.
LEMMA SeenOthers ==
    ASSUME SeenOK, UNCHANGED <<tip, interrupt, pc, abc, heard>>
    PROVE  SeenOK'
BY DEF SeenOK, ForkKept

\* Disconnecting a block does not go below the fork.
LEMMA DisconnectTipSeen ==
    ASSUME SetFacts, IInv, SeenOK, DisconnectTip
    PROVE  SeenOK'
<1>1. /\ UNCHANGED <<interrupt, abc>> /\ pc = "disconnect" /\ ForkKept /\ tip \in Chain[abc.old]
      /\ tip \in Block /\ abc.old \in Block /\ abc.mostWork \in Block
      /\ ~ interrupt => heard.seen = tip
      /\ heard \in [seen : MaybeBlock, told : MaybeBlock]
  BY StateFacts DEF SeenOK, DisconnectTip, abcUnchanged, IInv, AbcOK, NumbersOK
<1>2. CASE tip # FindFork(tip, abc.mostWork)
  <2>1. tip' = pprev[tip] /\ BlockDisconnected /\ UNCHANGED pc
    BY <1>2 DEF DisconnectTip
  <2>2. tip \notin Chain[abc.mostWork]
    <3> SUFFICES ASSUME tip \in Chain[abc.mostWork] PROVE FALSE
      OBVIOUS
    <3> DEFINE f == FindFork(tip, abc.mostWork)
    <3>1. f \in Chain[tip] /\ Chain[tip] \cap Chain[abc.mostWork] = Chain[f]
      BY <1>1, Fork
    <3> HIDE DEF f
    <3>2. f \in Block /\ tip \in Chain[tip]
      BY <1>1, <3>1, ChainBasic
    <3> QED BY <1>1, <1>2, <3>1, <3>2, ChainEqual DEF f
  <2>3. tip # Genesis
    BY <1>1, <2>2, GenesisInChain
  <2>4. Chain[tip] = Chain[pprev[tip]] \cup {tip} /\ pprev[tip] \in Chain[tip] /\ pprev[tip] \in Block
    BY <1>1, <2>3, ChainStep, ChainBasic, Parent
  <2>5. ForkKept' /\ tip' \in Chain[abc.old]
    <3>1. Chain[tip] \subseteq Chain[abc.old]
      BY <1>1, ChainTransitive
    <3> QED BY <1>1, <2>1, <2>2, <2>4, <3>1 DEF ForkKept
  <2>6. ~ interrupt => heard'.seen = pprev[tip]
    BY <1>1, <2>1 DEF BlockDisconnected
  <2> QED BY <1>1, <2>1, <2>5, <2>6 DEF SeenOK
<1>3. CASE tip = FindFork(tip, abc.mostWork)
  <2>1. pc' \in {"loop", "connect"} /\ UNCHANGED <<tip, heard>>
    BY <1>3 DEF DisconnectTip
  <2>2. Chain[tip] \cap Chain[abc.old] = Chain[tip]
    BY <1>1, ChainTransitive
  <2> QED BY <1>1, <2>1, <2>2 DEF SeenOK, ForkKept
<1> QED BY <1>2, <1>3

\* Connecting a block does not move the fork.
LEMMA ConnectTipSeen ==
    ASSUME SetFacts, IInv, SeenOK, ConnectTip
    PROVE  SeenOK'
<1> DEFINE b == GetAncestor(abc.mostWork, nHeight[tip] + 1)
<1>1. /\ UNCHANGED <<interrupt, heard>> /\ pc = "connect" /\ ForkKept
      /\ tip \in Block /\ abc.old \in Block /\ abc.mostWork \in Block
      /\ tip \in Chain[abc.mostWork] /\ tip # abc.mostWork
      /\ ThreadTypes
  BY StateFacts DEF SeenOK, ConnectTip, abcUnchanged, IInv, AbcOK
<1>2. b \in Chain[abc.mostWork] \ {Genesis} /\ pprev[b] = tip /\ nHeight[b] = nHeight[tip] + 1
  BY <1>1, NextBlock
<1>3. CASE verdict[b] # "connect"
  <2>1. tip' = b /\ abc' = [abc EXCEPT !.front = Front] /\ pc' \in {"loop", "connect"}
    BY <1>3 DEF ConnectTip
  <2> HIDE DEF b
  <2>2. abc'.mostWork = abc.mostWork /\ abc'.old = abc.old
    BY <1>1, <2>1 DEF ThreadTypes
  <2>3. b \in Block /\ Chain[b] = Chain[tip] \cup {b}
    BY <1>1, <1>2, ChainStep, ChainBasic
  <2>4. b \notin Chain[tip]
    <3>1. nHeight[tip] \in Nat
      BY <1>1, TreeTypes
    <3> QED BY <1>1, <1>2, <3>1, ChainLower, SMTT(40)
  <2>5. b \notin Chain[abc.old]
    BY <1>1, <1>2, <2>4 DEF ForkKept
  <2>6. ForkKept'
    BY <1>1, <2>1, <2>2, <2>3 DEF ForkKept
  <2>7. Chain[b] \cap Chain[abc.old] = Chain[tip] \cap Chain[abc.old]
    BY <2>3, <2>5
  <2> QED BY <1>1, <2>1, <2>2, <2>6, <2>7 DEF SeenOK
<1>4. CASE verdict[b] = "connect"
  <2>1. abc' = [abc EXCEPT !.mostWork = NoBlock] /\ pc' = "loop" /\ UNCHANGED tip
    BY <1>4 DEF ConnectTip
  <2>2. abc'.old = abc.old
    BY <1>1, <2>1 DEF ThreadTypes
  <2> QED BY <1>1, <2>1, <2>2 DEF SeenOK
<1> QED BY <1>3, <1>4

\* The listeners are told of the connected blocks and have then seen the tip.
LEMMA LoopOrLeaveSeen ==
    ASSUME SetFacts, IInv, SeenOK, LoopOrLeave
    PROVE  SeenOK'
<1>1. /\ UNCHANGED <<interrupt, tip>> /\ pc = "loop" /\ pc' \in {"find", "out"}
      /\ tip \in Block /\ abc.old \in Block
      /\ ~ interrupt => heard.seen \in Block /\ Chain[tip] \cap Chain[abc.old] = Chain[heard.seen]
      /\ heard \in [seen : MaybeBlock, told : MaybeBlock]
      /\ heard' = [heard EXCEPT !.seen = IF connectTrace = {} THEN @
                                         ELSE IF @ = FindFork(tip, abc.old) THEN tip
                                         ELSE NoBlock]
  BY StateFacts DEF SeenOK, LoopOrLeave, abcUnchanged, IInv, AbcOK, NumbersOK
<1>2. heard'.seen = IF connectTrace = {} THEN heard.seen
                    ELSE IF heard.seen = FindFork(tip, abc.old) THEN tip ELSE NoBlock
  BY <1>1
<1>3. ASSUME ~ interrupt PROVE heard'.seen = tip
  <2>1. heard.seen \in Block /\ Chain[tip] \cap Chain[abc.old] = Chain[heard.seen] /\ heard.seen \in Chain[heard.seen]
    BY <1>1, <1>3, ChainBasic
  <2>2. CASE connectTrace = {}
    <3>1. Chain[tip] = Chain[heard.seen]
      BY <2>1, <2>2 DEF connectTrace
    <3>2. tip \in Chain[tip]
      BY <1>1, ChainBasic
    <3> QED BY <1>1, <1>2, <2>1, <2>2, <3>1, <3>2, ChainEqual
  <2>3. CASE connectTrace # {}
    <3> DEFINE f == FindFork(tip, abc.old)
    <3>1. f \in Chain[tip] /\ Chain[tip] \cap Chain[abc.old] = Chain[f]
      BY <1>1, Fork
    <3>2. f \in Block /\ f \in Chain[f]
      BY <1>1, <3>1, ChainBasic
    <3>3. heard.seen = f
      BY <2>1, <3>1, <3>2, ChainEqual
    <3> QED BY <1>2, <2>3, <3>3
  <2> QED BY <2>2, <2>3
<1> QED BY <1>1, <1>3 DEF SeenOK

\* Every step keeps SeenOK.
LEMMA StepSeen ==
    ASSUME SetFacts, IInv, SeenOK, [Next]_vars
    PROVE  SeenOK'
<1>0. /\ ThreadTypes /\ tip \in Block /\ heard \in [seen : MaybeBlock, told : MaybeBlock]
  BY StateFacts DEF IInv, NumbersOK
<1>1. CASE \/ \E b \in Block : AcceptBlockHeader(b) \/ PreciousBlock(b) \/ ResetBlockFailureFlags(b)
           \/ \E b \in Block, fRequested \in BOOLEAN : AcceptBlock(b, fRequested)
           \/ UNCHANGED vars
  <2>1. UNCHANGED <<tip, interrupt, pc, abc, heard>>
    BY <1>1 DEF AcceptBlockHeader, PreciousBlock, ResetBlockFailureFlags, AcceptBlock, thread, vars
  <2> QED BY <2>1, SeenOthers
<1>2. CASE \/ ActivateBestChain \/ OuterLoop \/ CollectHeaders \/ DisconnectInvalidFails \/ LeaveLoop
           \/ CheckDuringInvalidate \/ \E b \in Block : InvalidateBlock(b)
  <2>1. /\ UNCHANGED <<tip, interrupt, heard>>
        /\ pc \notin {"disconnect", "connect", "loop"} /\ pc' \notin {"disconnect", "connect", "loop"}
    BY <1>2 DEF ActivateBestChain, OuterLoop, CollectHeaders, DisconnectInvalidFails, LeaveLoop,
                CheckDuringInvalidate, InvalidateBlock, abcUnchanged
  <2> QED BY <2>1, SeenMoves
<1>3. CASE Release_cs_main \/ MarkInvalid
  <2>1. /\ UNCHANGED <<tip, interrupt>>
        /\ pc \notin {"disconnect", "connect", "loop"} /\ pc' \notin {"disconnect", "connect", "loop"}
    BY <1>3 DEF Release_cs_main, MarkInvalid, abcUnchanged
  <2>2. heard'.seen = heard.seen
    BY <1>0, <1>3 DEF Release_cs_main, MarkInvalid, abcUnchanged
  <2> QED BY <2>1, <2>2, SeenMoves
<1>4. CASE SystemError \/ Interrupt
  <2>1. interrupt' = TRUE /\ UNCHANGED tip
    BY <1>4 DEF SystemError, Interrupt
  <2>2. pc' \notin {"disconnect", "connect"} \/ UNCHANGED <<pc, abc>>
    BY <1>4 DEF SystemError, Interrupt, thread
  <2> QED BY <2>1, <2>2 DEF SeenOK, ForkKept
<1>5. CASE InnerLoop
  <2>1. pc = "find" /\ UNCHANGED <<tip, interrupt, heard>>
    BY <1>5 DEF InnerLoop
  <2>2. CASE pc' # "disconnect"
    <3>1. pc' \in {"find", "out"}
      BY <1>5, <2>2 DEF InnerLoop
    <3> QED BY <2>1, <3>1, SeenMoves
  <2>3. CASE pc' = "disconnect"
    <3>1. abc' = [abc EXCEPT !.old = tip, !.front = NoBlock]
      BY <1>5, <2>1, <2>3 DEF InnerLoop
    <3>2. abc'.old = tip
      BY <1>0, <3>1 DEF ThreadTypes
    <3>3. ForkKept' /\ tip \in Chain[tip]
      BY <1>0, <2>1, <3>2, ChainBasic DEF ForkKept
    <3> QED BY <2>1, <2>3, <3>2, <3>3 DEF SeenOK
  <2> QED BY <2>2, <2>3
<1>6. CASE DisconnectInvalid
  <2>1. pc = "walk" /\ BlockDisconnected /\ tip' = pprev[tip] /\ UNCHANGED <<pc, interrupt>>
    BY <1>6 DEF DisconnectInvalid
  <2>2. heard.seen = tip => heard'.seen = pprev[tip]
    BY <1>0, <2>1 DEF BlockDisconnected
  <2> QED BY <2>1, <2>2 DEF SeenOK
<1>7. CASE Restart
  <2>1. pc = "idle" /\ UNCHANGED <<pc, tip>> /\ heard' = [seen |-> tip, told |-> tip]
    BY <1>7 DEF Restart, thread
  <2> QED BY <2>1 DEF SeenOK
<1>8. CASE DisconnectTip \/ ConnectTip \/ LoopOrLeave
  BY <1>8, DisconnectTipSeen, ConnectTipSeen, LoopOrLeaveSeen
<1> QED BY <1>1, <1>2, <1>3, <1>4, <1>5, <1>6, <1>7, <1>8 DEF Next, ChainstateStep

\* A listener that applies BlockConnected and BlockDisconnected one after another
\* meets no block that does not fit, and is at the tip whenever cs_main is free.
ListenerSees == Unlocked /\ ~ interrupt => heard.seen = tip

-----------------------------------------------------------------------------
(* The marks of failed blocks                                              *)

\* Every step keeps the number of calls within its scenario.
LEMMA StepCalls ==
    ASSUME SetFacts, IInv, CallsOK, [Next]_vars
    PROVE  CallsOK'
<1>1. /\ calls \in [invalidate : Nat, precious : Nat, reset : Nat, error : Nat, restart : Nat]
      /\ nSequenceId \in [Block -> Int] /\ nBlockSequenceId \in Nat
      /\ scenario \in Scenarios /\ nBlockReverseSequenceId \in MinSequenceId .. -1 /\ MinSequenceId \in Int
  BY StateFacts, ChainstateAssumption DEF NumbersOK
<1>2. scenario.invalidate \in Nat /\ scenario.precious \in Nat /\ scenario.error \in Nat
  BY <1>1, ChainstateAssumption DEF Scenario
<1>3. ASSUME UNCHANGED <<calls, scenario, nBlockReverseSequenceId, nSequenceId>>, Invalidating' => Invalidating
      PROVE  CallsOK'
  BY <1>3 DEF CallsOK
<1>4. CASE \/ ActivateBestChain \/ OuterLoop \/ InnerLoop \/ DisconnectTip \/ ConnectTip
           \/ LoopOrLeave \/ Release_cs_main
  <2>1. UNCHANGED <<calls, scenario, nBlockReverseSequenceId, nSequenceId>> /\ ~ Invalidating'
    BY <1>4 DEF ActivateBestChain, OuterLoop, InnerLoop, DisconnectTip, ConnectTip, LoopOrLeave, Release_cs_main,
                abcUnchanged, counters, fixed, Invalidating
  <2> QED BY <1>3, <2>1
<1>5. CASE \/ CollectHeaders \/ DisconnectInvalid \/ LeaveLoop \/ CheckDuringInvalidate \/ MarkInvalid
           \/ Interrupt \/ UNCHANGED vars
           \/ \E b \in Block : AcceptBlockHeader(b)
  <2>1. UNCHANGED <<calls, scenario, nBlockReverseSequenceId, nSequenceId>> /\ (Invalidating' => Invalidating)
    BY <1>5 DEF CollectHeaders, DisconnectInvalid, LeaveLoop, CheckDuringInvalidate, MarkInvalid,
                Interrupt, vars, AcceptBlockHeader, counters, fixed, Invalidating, thread
  <2> QED BY <1>3, <2>1
<1>6. ASSUME NEW b \in Block, ResetBlockFailureFlags(b) PROVE CallsOK'
  <2>1. UNCHANGED <<scenario, nBlockReverseSequenceId, nSequenceId, pc>> /\ calls' = [calls EXCEPT !.reset = @ + 1]
    BY <1>6 DEF ResetBlockFailureFlags, counters, fixed, thread
  <2>2. calls'.invalidate = calls.invalidate /\ calls'.precious = calls.precious /\ calls'.error = calls.error
    BY <1>1, <2>1
  <2> QED BY <2>1, <2>2 DEF CallsOK, Invalidating
<1>7. ASSUME SystemError \/ DisconnectInvalidFails PROVE CallsOK'
  <2>1. /\ UNCHANGED <<scenario, nBlockReverseSequenceId, nSequenceId>> /\ ~ Invalidating'
        /\ calls' = [calls EXCEPT !.error = @ + 1] /\ calls.error < scenario.error
    BY <1>7 DEF SystemError, DisconnectInvalidFails, counters, fixed, Invalidating
  <2>2. calls'.invalidate = calls.invalidate /\ calls'.precious = calls.precious /\ calls'.error = calls.error + 1
    BY <1>1, <2>1
  <2>3. calls'.error <= scenario.error
    BY <1>1, <1>2, <2>1, <2>2, SMTT(40)
  <2> QED BY <2>1, <2>2, <2>3 DEF CallsOK
<1>8. ASSUME NEW b \in Block, InvalidateBlock(b) PROVE CallsOK'
  <2>1. /\ UNCHANGED <<scenario, nBlockReverseSequenceId, nSequenceId>>
        /\ calls' = [calls EXCEPT !.invalidate = @ + 1] /\ calls.invalidate < scenario.invalidate
    BY <1>8 DEF InvalidateBlock, counters, fixed
  <2>2. calls'.invalidate = calls.invalidate + 1 /\ calls'.precious = calls.precious /\ calls'.error = calls.error
    BY <1>1, <2>1
  <2>3. calls'.invalidate <= scenario.invalidate /\ calls'.invalidate > 0
    BY <1>1, <1>2, <2>1, <2>2, SMTT(40)
  <2> QED BY <2>1, <2>2, <2>3 DEF CallsOK
<1>9. ASSUME NEW b \in Block, NEW fRequested \in BOOLEAN, AcceptBlock(b, fRequested) PROVE CallsOK'
  <2>1. UNCHANGED <<scenario, nBlockReverseSequenceId, calls, pc>>
    BY <1>9 DEF AcceptBlock, fixed, thread
  <2>2. CASE UNCHANGED nSequenceId
    BY <2>1, <2>2 DEF CallsOK, Invalidating
  <2>3. CASE ~ UNCHANGED nSequenceId
    <3> DEFINE L == Linkable(b)
    <3>1. b \notin data /\ ReceivedBlockTransactions(b) /\ pprev[b] \in linked /\ index' = index \cup {b} /\ HeaderAccepted(b)
      BY <1>9, <2>3 DEF AcceptBlock, ReceivedBlockTransactions
    <3>2. PICK ids \in SequenceIds(L) :
            nSequenceId' = [x \in Block |-> IF x \in L THEN ids[x] ELSE nSequenceId[x]]
      BY <3>1 DEF ReceivedBlockTransactions
    <3> HIDE DEF L
    <3>3. ids \in [L -> nBlockSequenceId .. (nBlockSequenceId + Cardinality(L) - 1)]
      BY DEF SequenceIds
    <3>4. Cardinality(L) \in Nat
      <4>1. L \subseteq index'
        <5>1. b # Genesis
          BY <3>1, StateFacts
        <5> QED BY <3>1, <5>1, LinkableClosed, StateFacts DEF SetsOK, L
      <4>2. IsFiniteSet(index')
        BY <3>1, IndexGrows, StateFacts
      <4>3. IsFiniteSet(L)
        BY <4>1, <4>2, FiniteSubset
      <4> QED BY <4>3 DEF SetFacts, FiniteSubsets
    <3>5. \A x \in L : ids[x] \in Int /\ ids[x] >= -1
      <4> SUFFICES ASSUME NEW x \in L PROVE ids[x] \in Int /\ ids[x] >= -1
        OBVIOUS
      <4>1. ids[x] \in nBlockSequenceId .. (nBlockSequenceId + Cardinality(L) - 1)
        BY <3>3
      <4> QED BY <1>1, <3>4, <4>1, SMTT(40)
    <3>6. calls.precious <= 1 => \A x \in Block : nSequenceId'[x] >= -1
      BY <3>2, <3>5 DEF CallsOK
    <3> QED BY <2>1, <3>6 DEF CallsOK, Invalidating
  <2> QED BY <2>2, <2>3
<1>10. ASSUME NEW b \in Block, PreciousBlock(b) PROVE CallsOK'
  <2> DEFINE reverse == IF nChainWork[tip] > nLastPreciousChainwork THEN -1 ELSE nBlockReverseSequenceId
  <2>1. /\ UNCHANGED <<scenario, pc>> /\ nSequenceId' = [nSequenceId EXCEPT ![b] = reverse]
        /\ calls' = [calls EXCEPT !.precious = @ + 1] /\ calls.precious < scenario.precious
    BY <1>10 DEF PreciousBlock, fixed, thread
  <2>2. calls'.precious = calls.precious + 1 /\ calls'.invalidate = calls.invalidate /\ calls'.error = calls.error
    BY <1>1, <2>1
  <2>3. calls'.precious <= scenario.precious /\ calls'.precious # 0
    BY <1>1, <1>2, <2>1, <2>2, SMTT(40)
  <2>4. ASSUME calls'.precious <= 1 PROVE \A x \in Block : nSequenceId'[x] >= -1
    <3>1. calls.precious = 0
      BY <1>1, <2>2, <2>4, SMTT(40)
    <3>2. reverse = -1 /\ calls.precious <= 1
      BY <3>1, SMTT(40) DEF CallsOK
    <3> HIDE DEF reverse
    <3> QED BY <1>1, <2>1, <3>2, SMTT(40) DEF CallsOK
  <2> QED BY <2>1, <2>2, <2>3, <2>4 DEF CallsOK, Invalidating
<1>11. ASSUME Restart PROVE CallsOK'
  <2>1. /\ UNCHANGED <<scenario, pc>> /\ calls' = [calls EXCEPT !.restart = @ + 1]
        /\ nSequenceId' = [b \in Block |-> 0] /\ nBlockReverseSequenceId' = -1
    BY <1>11 DEF Restart, thread
  <2>2. calls'.invalidate = calls.invalidate /\ calls'.precious = calls.precious /\ calls'.error = calls.error
    BY <1>1, <2>1
  <2> QED BY <2>1, <2>2, SMTT(40) DEF CallsOK, Invalidating
<1> QED BY <1>4, <1>5, <1>6, <1>7, <1>8, <1>9, <1>10, <1>11 DEF Next, ChainstateStep

\* Steps that leave the index and the flags alone, outside InvalidateBlock.
LEMMA MarksMove ==
    ASSUME IInv, MarksOK, UNCHANGED <<index, failed>>, ~ Invalidating, pc' # "walk"
    PROVE  MarksOK'
<1>1. \A x \in index : Chain[x] \cap failed # {} => x \in failed
  BY DEF MarksOK
<1> QED BY <1>1 DEF MarksOK

\* Steps that leave the thread alone, and add no unmarked child of a failed block.
LEMMA MarksOthers ==
    ASSUME SetFacts, IInv, MarksOK, CanEnter, UNCHANGED <<failed, scenario, pc, inv>>,
           NEW b \in Block, (HeaderAccepted(b) /\ index' = index \cup {b}) \/ UNCHANGED index
    PROVE  MarksOK'
<1>1. ~ (pc = "walk" /\ scenario.quiet)
  BY DEF CanEnter, Invalidating
<1>2. ASSUME b \notin index, NewHeader(b), Chain[b] \cap failed # {}
      PROVE  ~ scenario.quiet /\ Invalidating /\ inv.was_in_chain /\ inv.to_mark_failed \in Chain[b]
  <2>1. pprev[b] \in index /\ pprev[b] \notin failed /\ b \notin failed /\ b # Genesis
    BY <1>2, StateFacts DEF NewHeader, SetsOK, failed
  <2>2. Chain[b] = Chain[pprev[b]] \cup {b}
    BY <2>1, ChainStep
  <2>3. Chain[pprev[b]] \cap failed # {}
    BY <1>2, <2>1, <2>2
  <2> QED BY <2>1, <2>2, <2>3 DEF MarksOK
<1>3. ASSUME NEW x \in index', Chain[x] \cap failed # {}
      PROVE  x \in failed \/ (~ scenario.quiet /\ Invalidating /\ inv.was_in_chain /\ inv.to_mark_failed \in Chain[x])
  <2>1. CASE x \in index
    BY <1>3, <2>1 DEF MarksOK
  <2>2. CASE x \notin index
    BY <1>2, <1>3, <2>2 DEF HeaderAccepted
  <2> QED BY <2>1, <2>2
<1> QED BY <1>1, <1>3 DEF MarksOK, Invalidating

\* InvalidChainFound(b) marks all descendants of b, also when MarksOK left some out.
LEMMA MarksFound ==
    ASSUME SetFacts, IInv, MarksOK, NEW b \in Block, b # Genesis, NEW top, NEW idx, NEW fv, NEW hdr,
           index' = idx, idx = index \/ idx = index \cup {b}, b \in idx, top \in idx, hdr \in idx,
           fv = failedValid \/ fv = failedValid \cup {b},
           InvalidChainFound(b, top, idx, fv, failedChild, hdr),
           NEW x \in idx, Chain[x] \cap failed' # {}
    PROVE  \/ x \in failed' \/ x = b
           \/ ~ scenario.quiet /\ Invalidating /\ inv.was_in_chain /\ inv.to_mark_failed \in Chain[x]
<1>1. SetsOK /\ m_best_invalid \in index \cup {NoBlock} /\ index \subseteq idx /\ idx \subseteq Block
  BY StateFacts DEF HeadersOK, SetsOK
<1>2. failed \subseteq failed' /\ \A y \in failed' : y \in failed \/ b \in Chain[y]
  BY <1>1, InvalidChain
<1>3. PICK y \in Chain[x] : y \in failed'
  OBVIOUS
<1>4. CASE b \in Chain[x]
  <2>1. failedChild' = failedChild \cup SetBlockFailureFlags(b, idx)
    BY DEF InvalidChainFound
  <2> QED BY <1>4, <2>1 DEF SetBlockFailureFlags, Descends, failed
<1>5. CASE b \notin Chain[x]
  <2>1. y \in failed
    BY <1>1, <1>2, <1>3, <1>5, ChainTransitive
  <2>2. x \in index
    BY <1>1, <1>5, ChainBasic
  <2> QED BY <1>2, <1>3, <2>1, <2>2 DEF MarksOK
<1> QED BY <1>4, <1>5

\* FindMostWorkChain marks the blocks above a failed one.
LEMMA FindMarks ==
    ASSUME SetFacts, IInv, MarksOK, InnerLoop
    PROVE  MarksOK'
<1>1. pc = "find" /\ pc' # "walk" /\ UNCHANGED <<index, failedValid>> /\ ~ Invalidating
  BY DEF InnerLoop, Invalidating
<1>2. CASE UNCHANGED failedChild
  BY <1>1, <1>2, MarksMove DEF failed
<1>3. CASE ~ UNCHANGED failedChild
  <2>1. candidates # {} /\ FindMostWorkChain
    BY <1>3 DEF InnerLoop
  <2>2. Unusable(BestCandidate) # {}
    BY <1>3, <2>1 DEF FindMostWorkChain
  <2>3. PICK test \in failed :
          /\ failedChild' = failedChild \cup (PathTo(BestCandidate) \ Chain[test])
          /\ \A x \in PathTo(BestCandidate) \ Chain[test] : x \in index \ {Genesis} /\ test \in Chain[x]
    BY <2>1, <2>2, FindDrops
  <2>4. \A x \in index : Chain[x] \cap failed # {} => x \in failed
    BY <1>1 DEF MarksOK
  <2>5. failed' = failed
    BY <1>1, <2>3, <2>4 DEF failed
  <2> QED BY <1>1, <2>5, MarksMove
<1> QED BY <1>2, <1>3

\* ResetBlockFailureFlags leaves no mark above which a block is unmarked.
LEMMA ResetMarks ==
    ASSUME SetFacts, IInv, MarksOK, NEW b \in Block, ResetBlockFailureFlags(b)
    PROVE  MarksOK'
<1> DEFINE Cleared == {x \in index \cap failed : Descends(x, b) \/ Descends(b, x)}
<1>1. /\ failedValid' = failedValid \ Cleared /\ failedChild' = failedChild \ Cleared
      /\ UNCHANGED <<index, scenario, pc, inv>> /\ CanEnter
  BY DEF ResetBlockFailureFlags, thread, fixed
<1>2. failed' = failed \ Cleared
  BY <1>1 DEF failed
<1>3. ASSUME NEW x \in index, NEW y \in Chain[x], y \in failed', x \in failed PROVE x \in failed'
  <2> SUFFICES ASSUME x \in Cleared PROVE FALSE
    BY <1>2, <1>3
  <2>1. x \in Block /\ y \in failed /\ y \notin Cleared /\ y \in index
    BY <1>2, <1>3, StateFacts DEF SetsOK, failed
  <2>2. y \notin Chain[b] /\ b \notin Chain[y]
    BY <2>1 DEF Descends
  <2>3. x \in Chain[b] \/ b \in Chain[x]
    BY DEF Descends
  <2> QED BY <1>3, <2>1, <2>2, <2>3, ChainTransitive, ChainLinear
<1>4. ~ (pc = "walk" /\ scenario.quiet)
  BY <1>1 DEF CanEnter, Invalidating
<1>5. failed' \subseteq failed
  BY <1>2
<1> HIDE DEF Cleared
<1>6. ASSUME NEW x \in index, Chain[x] \cap failed' # {}
      PROVE  x \in failed' \/ (~ scenario.quiet /\ Invalidating /\ inv.was_in_chain /\ inv.to_mark_failed \in Chain[x])
  BY <1>3, <1>5, <1>6 DEF MarksOK
<1> QED BY <1>1, <1>4, <1>6 DEF MarksOK, Invalidating

\* LoadBlockIndex marks what is above a failed block.
LEMMA RestartMarks ==
    ASSUME IInv, MarksOK, Restart
    PROVE  MarksOK'
<1> DEFINE FailedNow == {b \in index : Chain[b] \cap failed # {}}
<1>1. pc = "idle" /\ UNCHANGED <<pc, index, failedValid>> /\ failedChild' = failedChild \cup (FailedNow \ failed)
  BY DEF Restart, thread
<1>2. FailedNow \subseteq failed
  BY <1>1 DEF MarksOK, Invalidating
<1> HIDE DEF FailedNow
<1>3. failed' = failed
  BY <1>1, <1>2 DEF failed
<1> QED BY <1>1, <1>3, MarksMove DEF Invalidating

\* A turn of InvalidateBlock's loop marks the collected headers above the tip.
LEMMA WalkBelow ==
    ASSUME IInv, DisconnectInvalid
    PROVE  /\ inv' = [inv EXCEPT !.to_mark_failed = tip, !.was_in_chain = TRUE,
                       !.headers = @ \ {c \in inv.headers : nChainWork[c] >= nChainWork[pprev[tip]] /\ tip \in Chain[c]}]
           /\ \A c \in inv.headers : nChainWork[c] >= nChainWork[pprev[tip]] /\ tip \in Chain[c] => c \in failed'
<1> DEFINE Demoted == {c \in {inv.to_mark_failed} \cap failedValid : pprev[c] = tip}
           Walked == {c \in inv.headers : nChainWork[c] >= nChainWork[pprev[tip]]}
           Below == {c \in Walked : Descends(c, tip)}
<1>1. /\ inv' = [inv EXCEPT !.to_mark_failed = tip, !.was_in_chain = TRUE, !.headers = @ \ Below]
      /\ failedChild' = (failedChild \cup Demoted) \cup Below
  BY DEF DisconnectInvalid
<1>2. Below = {c \in inv.headers : nChainWork[c] >= nChainWork[pprev[tip]] /\ tip \in Chain[c]}
  BY DEF Descends
<1> HIDE DEF Demoted, Walked, Below
<1> QED BY <1>1, <1>2 DEF failed

\* InvalidateBlock marks what it disconnects, and the headers it collected above it.
LEMMA DisconnectInvalidMarks ==
    ASSUME IInv, MarksOK, DisconnectInvalid
    PROVE  MarksOK'
<1> DEFINE B == {c \in inv.headers : nChainWork[c] >= nChainWork[pprev[tip]] /\ tip \in Chain[c]}
<1>1. /\ UNCHANGED <<index, nSequenceId, address, scenario, pc>> /\ pc = "walk" /\ inv.pindex \in Chain[tip]
      /\ SetsOK /\ ThreadTypes /\ InvOK /\ NumbersOK
  BY DEF IInv, DisconnectInvalid, fixed
<1>2. /\ tip # Genesis /\ tip' = pprev[tip] /\ pprev[tip] \in Chain[tip] /\ tip \notin Chain[pprev[tip]]
      /\ \A x \in failed' : x \in failed \/ tip \in Chain[x]
      /\ failed \subseteq failed' /\ tip \in failed'
  BY WalkMarks
<1>3. inv' = [inv EXCEPT !.to_mark_failed = tip, !.was_in_chain = TRUE, !.headers = @ \ B] /\ B \subseteq failed'
  BY WalkBelow
<1>4. /\ tip \in Block /\ index \subseteq Block /\ inv.pindex \in Block /\ inv.pindex # Genesis /\ pprev[tip] \in Block
      /\ pprev[inv.pindex] \in Block
  <2>1. tip \in Block /\ index \subseteq Block /\ inv.pindex \in Block /\ inv.pindex # Genesis
    BY <1>1 DEF SetsOK, InvOK, Invalidating
  <2> QED BY <1>2, <2>1, Parent
<1>5. Chain[tip] = Chain[pprev[tip]] \cup {tip}
  BY <1>2, <1>4, ChainStep
<1>6. inv'.to_mark_failed = tip /\ inv'.was_in_chain = TRUE /\ inv'.headers = inv.headers \ B /\ inv'.pindex = inv.pindex
  <2> HIDE DEF B
  <2> QED BY <1>1, <1>3 DEF ThreadTypes
<1>7. \A c \in B : nChainWork[c] >= nChainWork[pprev[tip]] /\ tip \in Chain[c]
  OBVIOUS
<1>8. \A c \in inv.headers : nChainWork[c] >= nChainWork[pprev[tip]] /\ tip \in Chain[c] => c \in B
  OBVIOUS
<1> HIDE DEF B
<1>9. ASSUME scenario.quiet, NEW c \in index, tip \in Chain[c], c # tip PROVE c \in failed'
  <2>1. c \in Block /\ c \notin Chain[tip]
    BY <1>4, <1>9, ChainEqual
  <2>2. nChainWork[tip] < nChainWork[c] /\ nChainWork[pprev[tip]] < nChainWork[tip]
    BY <1>2, <1>4, <1>9, <2>1, ChainLower, Parent
  <2>3. nChainWork[pprev[inv.pindex]] < nChainWork[inv.pindex] /\ (inv.pindex # tip => nChainWork[inv.pindex] < nChainWork[tip])
    BY <1>1, <1>4, ChainLower, Parent
  <2>4. nChainWork[c] \in Nat /\ nChainWork[tip] \in Nat /\ nChainWork[pprev[tip]] \in Nat
        /\ nChainWork[pprev[inv.pindex]] \in Nat /\ nChainWork[inv.pindex] \in Nat
    BY <1>4, <2>1, TreeTypes
  <2>5. nChainWork[pprev[inv.pindex]] < nChainWork[c] /\ nChainWork[c] >= nChainWork[pprev[tip]]
    BY <2>2, <2>3, <2>4, SMTT(40)
  <2>6. ~ WorseNow(c, pprev[inv.pindex])
    BY <2>4, <2>5, SMTT(40) DEF WorseNow, Worse
  <2>7. c \in failed \/ c \in inv.headers
    BY <1>1, <1>9, <2>1, <2>6 DEF MarksOK, HeadersCollected
  <2> QED BY <1>2, <1>3, <1>8, <1>9, <2>5, <2>7
<1>10. scenario.quiet => HeadersCollected'
  <2> SUFFICES ASSUME scenario.quiet, NEW c \in index, c \notin Chain[pprev[tip]], c \notin failed',
                      ~ WorseNow(c, pprev[inv.pindex])
               PROVE  c \in inv.headers \ B
    BY <1>1, <1>2, <1>6 DEF HeadersCollected, WorseNow
  <2>1. c \notin failed /\ c # tip /\ c \notin B
    BY <1>2, <1>3
  <2>2. c \notin Chain[tip]
    BY <1>5, <2>1
  <2>3. c \in inv.headers
    BY <1>1, <2>1, <2>2 DEF MarksOK, HeadersCollected
  <2> QED BY <2>1, <2>3
<1>11. ASSUME NEW x \in index, NEW y \in Chain[x], y \in failed'
       PROVE  x \in failed' \/ (~ scenario.quiet /\ tip \in Chain[x])
  <2>1. x \in Block
    BY <1>4
  <2>2. CASE tip \in Chain[x]
    BY <1>2, <1>9, <2>2
  <2>3. CASE tip \notin Chain[x]
    <3>1. y \in failed
      BY <1>2, <1>11, <2>1, <2>3, ChainTransitive
    <3>2. inv.was_in_chain /\ inv.to_mark_failed \in Chain[x] => tip \in Chain[x]
      <4>1. inv.to_mark_failed # Genesis /\ (inv.was_in_chain => tip = pprev[inv.to_mark_failed])
        BY <1>1 DEF InvOK, Invalidating
      <4> QED BY <2>1, <4>1, ChainBasic
    <3> QED BY <1>2, <1>11, <2>3, <3>1, <3>2 DEF MarksOK
  <2> QED BY <2>2, <2>3
<1> QED BY <1>1, <1>6, <1>10, <1>11 DEF MarksOK, Invalidating

\* InvalidateBlock marks the blocks above its block.
LEMMA MarkInvalidMarks ==
    ASSUME SetFacts, IInv, IInv', MarksOK, MarkInvalid
    PROVE  MarksOK'
<1> DEFINE b == inv.to_mark_failed
           Unmarked == {c \in {inv.pindex} \ failed : ~ inv.was_in_chain}
<1>1. /\ UNCHANGED <<index, tip>> /\ pc = "mark" /\ pc' = "idle"
      /\ SetsOK /\ InvOK /\ HeadersOK
  BY DEF IInv, MarkInvalid
<1>2. b \in index /\ b \in Block /\ b # Genesis /\ tip \in Block /\ index \subseteq Block
  BY <1>1 DEF SetsOK, InvOK, Invalidating
<1>3. inv.was_in_chain => tip = pprev[b]
  BY <1>1 DEF InvOK, Invalidating
<1>4. ~ inv.was_in_chain => b = inv.pindex
  BY <1>1 DEF InvOK, Invalidating
<1>5. CASE b \in Chain[tip]
  <2>1. UNCHANGED failed
    BY <1>5 DEF MarkInvalid, flags, failed
  <2>2. ~ inv.was_in_chain
    <3> SUFFICES ASSUME inv.was_in_chain PROVE FALSE
      OBVIOUS
    <3>1. tip = pprev[b] /\ tip \in Chain[b] /\ tip # b
      BY <1>2, <1>3, ChainBasic, Parent
    <3> QED BY <1>2, <1>5, <3>1, ChainEqual
  <2> QED BY <1>1, <2>1, <2>2 DEF MarksOK
<1>6. CASE b \notin Chain[tip]
  <2>1. InvalidChainFound(b, b, index, failedValid \cup Unmarked, failedChild, m_best_header)
    BY <1>6 DEF MarkInvalid
  <2>2. failedValid \cup Unmarked = failedValid \/ failedValid \cup Unmarked = failedValid \cup {b}
    BY <1>4
  <2>3. ~ inv.was_in_chain => b \in failed \/ b \in Unmarked
    BY <1>4
  <2>4. failed \subseteq failed' /\ (~ inv.was_in_chain => b \in failed')
    <3> HIDE DEF b, Unmarked
    <3>1. /\ failed \subseteq failed'
          /\ failedValid \cup Unmarked = failedValid \cup {b} => b \in failed'
      BY <1>1, <1>2, <2>1, <2>2, InvalidChain DEF HeadersOK
    <3> QED BY <2>2, <2>3, <3>1 DEF failed
  <2>5. ASSUME NEW x \in index, Chain[x] \cap failed' # {} PROVE x \in failed'
    <3>1. \/ x \in failed' \/ x = b
          \/ inv.was_in_chain /\ b \in Chain[x]
      <4> HIDE DEF Unmarked
      <4> QED BY <1>1, <1>2, <2>1, <2>2, <2>5, MarksFound DEF HeadersOK
    <3>2. CASE x = b
      <4>1. CASE inv.was_in_chain
        <5>1. Chain[b] = Chain[tip] \cup {b}
          BY <1>2, <1>3, <4>1, ChainStep
        <5>2. Chain[tip] \cap failed' = {}
          BY <1>1 DEF IInv, Unfailed
        <5> QED BY <2>5, <3>2, <5>1, <5>2
      <4>2. CASE ~ inv.was_in_chain
        BY <2>4, <3>2, <4>2
      <4> QED BY <4>1, <4>2
    <3>3. CASE x # b /\ b \in Chain[x]
      <4>1. failedChild' = failedChild \cup SetBlockFailureFlags(b, index)
        BY <2>1 DEF InvalidChainFound
      <4> QED BY <3>3, <4>1 DEF SetBlockFailureFlags, Descends, failed
    <3> QED BY <3>1, <3>2, <3>3
  <2> QED BY <1>1, <2>5 DEF MarksOK
<1> QED BY <1>5, <1>6

\* Every step keeps MarksOK.
LEMMA StepMarks ==
    ASSUME SetFacts, NoCutShort, IInv, IInv', CallsOK, MarksOK, [Next]_vars
    PROVE  MarksOK'
<1>1. ASSUME NEW b \in Block, NEW fRequested \in BOOLEAN, AcceptBlock(b, fRequested) PROVE MarksOK'
  <2> DEFINE hdr == IF b \in index THEN m_best_header ELSE BestHeaderWith(b)
  <2>1. CanEnter /\ HeaderAccepted(b) /\ index' = index \cup {b} /\ UNCHANGED <<scenario, pc, inv>>
    BY <1>1 DEF AcceptBlock, fixed, thread
  <2>2. CASE UNCHANGED flags
    <3>1. UNCHANGED failed
      BY <2>2 DEF flags, failed
    <3> QED BY <2>1, <3>1, MarksOthers
  <2>3. CASE ~ UNCHANGED flags
    <3>1. b \notin data /\ InvalidBlockFound(b, b, index', hdr)
      BY <1>1, <2>3 DEF AcceptBlock
    <3>2. hdr \in index' /\ b # Genesis
      BY <2>1, <3>1, StateFacts, IndexGrows
    <3> HIDE DEF hdr
    <3>3. InvalidChainFound(b, b, index', failedValid \cup {b}, failedChild, hdr)
      BY <3>1 DEF InvalidBlockFound
    <3>4. b \in failed'
      <4>1. SetsOK /\ m_best_invalid \in index \cup {NoBlock} /\ index' \subseteq Block
        BY <2>1, StateFacts DEF SetsOK, HeadersOK
      <4> QED BY <2>1, <3>2, <3>3, <4>1, InvalidChain, SMTT(40)
    <3>5. ASSUME NEW x \in index', Chain[x] \cap failed' # {}
          PROVE  x \in failed' \/ (~ scenario.quiet /\ Invalidating /\ inv.was_in_chain /\ inv.to_mark_failed \in Chain[x])
      BY <2>1, <3>2, <3>3, <3>4, <3>5, MarksFound
    <3>6. ~ (pc = "walk" /\ scenario.quiet)
      BY <2>1 DEF CanEnter, Invalidating
    <3> QED BY <2>1, <3>5, <3>6 DEF MarksOK, Invalidating
  <2> QED BY <2>2, <2>3
<1>2. ASSUME NEW b \in Block, AcceptBlockHeader(b) PROVE MarksOK'
  <2>1. CanEnter /\ HeaderAccepted(b) /\ index' = index \cup {b} /\ UNCHANGED <<scenario, pc, inv, failed>>
    BY <1>2 DEF AcceptBlockHeader, HeaderAccepted, fixed, thread, flags, failed
  <2> QED BY <2>1, MarksOthers
<1>3. ASSUME NEW b \in Block, PreciousBlock(b) PROVE MarksOK'
  <2>1. CanEnter /\ UNCHANGED <<scenario, pc, inv, failed, index>>
    BY <1>3 DEF PreciousBlock, fixed, thread, flags, failed
  <2> QED BY <2>1, MarksOthers
<1>4. ASSUME NEW b \in Block, ResetBlockFailureFlags(b) PROVE MarksOK'
  BY <1>4, ResetMarks
<1>5. CASE \/ ActivateBestChain \/ OuterLoop \/ DisconnectTip \/ LoopOrLeave \/ Release_cs_main \/ SystemError
           \/ \E b \in Block : InvalidateBlock(b)
  <2>1. UNCHANGED <<index, failed>> /\ ~ Invalidating /\ pc' # "walk"
    BY <1>5 DEF ActivateBestChain, OuterLoop, DisconnectTip, LoopOrLeave, Release_cs_main, SystemError, InvalidateBlock,
                abcUnchanged, flags, failed, Invalidating
  <2> QED BY <2>1, MarksMove
<1>6. CASE InnerLoop
  BY <1>6, FindMarks
<1>7. CASE ConnectTip
  <2> DEFINE b == GetAncestor(abc.mostWork, nHeight[tip] + 1)
  <2>1. pc = "connect" /\ ~ Invalidating /\ pc' # "walk" /\ UNCHANGED index
    BY <1>7 DEF ConnectTip, abcUnchanged, Invalidating
  <2>2. CASE UNCHANGED flags
    <3>1. UNCHANGED failed
      BY <2>2 DEF flags, failed
    <3> QED BY <2>1, <3>1, MarksMove
  <2>3. CASE ~ UNCHANGED flags
    <3>1. InvalidBlockFound(b, Front, index, m_best_header)
      BY <1>7, <2>3 DEF ConnectTip
    <3>2. tip \in Block /\ abc.mostWork \in linked /\ tip \in Chain[abc.mostWork] /\ tip # abc.mostWork
      BY <2>1, StateFacts DEF IInv, AbcOK
    <3>3. b \in Chain[abc.mostWork] /\ b # Genesis /\ Chain[abc.mostWork] \subseteq index /\ index \subseteq Block
      BY <3>2, NextBlock, StateFacts DEF SetsOK
    <3>4. Front \in index /\ m_best_header \in index /\ m_best_invalid \in index \cup {NoBlock} /\ SetsOK
      BY <2>1, FrontIs, StateFacts DEF HeadersOK
    <3> HIDE DEF b
    <3>5. InvalidChainFound(b, Front, index, failedValid \cup {b}, failedChild, m_best_header)
      BY <3>1 DEF InvalidBlockFound
    <3>6. b \in failed'
      BY <2>1, <3>3, <3>4, <3>5, InvalidChain
    <3>7. ASSUME NEW x \in index, Chain[x] \cap failed' # {} PROVE x \in failed'
      BY <2>1, <3>3, <3>4, <3>5, <3>6, <3>7, MarksFound, SMTT(40)
    <3> QED BY <2>1, <3>7 DEF MarksOK
  <2> QED BY <2>2, <2>3
<1>8. CASE CollectHeaders
  <2> DEFINE H == {c \in (index \ Chain[tip]) \ failed : ~ WorseNow(c, pprev[inv.pindex])}
  <2>1. /\ pc = "scan" /\ pc' = "walk" /\ inv' = [inv EXCEPT !.headers = H]
        /\ UNCHANGED <<index, tip, failed, nSequenceId, address, scenario>> /\ ThreadTypes
    BY <1>8 DEF CollectHeaders, fixed, flags, failed, IInv
  <2>2. /\ inv'.pindex = inv.pindex /\ inv'.to_mark_failed = inv.to_mark_failed
        /\ inv'.was_in_chain = inv.was_in_chain /\ inv'.headers = H
    <3> HIDE DEF H
    <3> QED BY <2>1 DEF ThreadTypes
  <2>3. HeadersCollected'
    BY <2>1, <2>2 DEF HeadersCollected, WorseNow
  <2> QED BY <2>1, <2>2, <2>3 DEF MarksOK, Invalidating
<1>9. CASE DisconnectInvalid
  BY <1>9, DisconnectInvalidMarks
<1>10. CASE DisconnectInvalidFails
  <2>1. /\ pc = "walk" /\ pc' = "idle" /\ UNCHANGED <<index, failed>> /\ calls.error < scenario.error
    BY <1>10 DEF DisconnectInvalidFails, flags, failed
  <2>2. scenario.quiet
    <3>1. calls.invalidate > 0 /\ calls.invalidate <= scenario.invalidate
      BY <2>1 DEF CallsOK, Invalidating
    <3>2. /\ calls.invalidate \in Nat /\ calls.error \in Nat /\ scenario \in Scenarios
          /\ scenario.invalidate \in Nat /\ scenario.error \in Nat
      BY StateFacts, ChainstateAssumption DEF NumbersOK, Scenario
    <3>3. scenario.invalidate # 0 /\ scenario.error # 0
      BY <2>1, <3>1, <3>2, SMTT(40)
    <3> QED BY <3>2, <3>3 DEF NoCutShort
  <2> QED BY <2>1, <2>2 DEF MarksOK
<1>11. CASE LeaveLoop \/ CheckDuringInvalidate
  <2>1. /\ Invalidating /\ Invalidating' /\ pc' # "walk" /\ UNCHANGED <<index, failed, scenario, inv>>
    BY <1>11 DEF LeaveLoop, CheckDuringInvalidate, flags, failed, fixed, Invalidating
  <2> QED BY <2>1 DEF MarksOK
<1>12. CASE MarkInvalid
  BY <1>12, MarkInvalidMarks
<1>13. CASE Interrupt \/ UNCHANGED vars
  <2>1. UNCHANGED <<index, failed, scenario, inv, pc, tip, nSequenceId, address>>
    BY <1>13 DEF Interrupt, vars, thread, fixed, flags, failed
  <2> QED BY <2>1 DEF MarksOK, Invalidating, HeadersCollected, WorseNow
<1>14. CASE Restart
  BY <1>14, RestartMarks
<1> QED BY <1>1, <1>2, <1>3, <1>4, <1>5, <1>6, <1>7, <1>8, <1>9, <1>10, <1>11, <1>12, <1>13, <1>14 DEF Next, ChainstateStep

-----------------------------------------------------------------------------
(* Forward progress                                                        *)

\* CBlockIndexWorkComparator orders the blocks, and a block after its ancestors.
LEMMA NowOrder ==
    ASSUME NumbersOK
    PROVE  /\ \A a \in Block : ~ WorseNow(a, a)
           /\ \A a, b \in Block : WorseNow(a, b) => ~ WorseNow(b, a)
           /\ \A a, b, c \in Block : ~ WorseNow(a, b) /\ ~ WorseNow(b, c) => ~ WorseNow(a, c)
           /\ \A b \in Block : \A a \in Chain[b] : ~ WorseNow(b, a) /\ (~ WorseNow(a, b) => a = b)
<1>1. nSequenceId \in [Block -> Int] /\ address \in Addresses
  BY DEF NumbersOK
<1>2. \A a \in Block : ~ WorseNow(a, a)
  BY <1>1, Order DEF WorseNow
<1>3. \A a, b \in Block : WorseNow(a, b) => ~ WorseNow(b, a)
  BY <1>1, Order DEF WorseNow
<1>4. \A a, b, c \in Block : ~ WorseNow(a, b) /\ ~ WorseNow(b, c) => ~ WorseNow(a, c)
  BY <1>1, OrderTransitive DEF WorseNow
<1>5. ASSUME NEW b \in Block, NEW a \in Chain[b] PROVE ~ WorseNow(b, a) /\ (~ WorseNow(a, b) => a = b)
  <2>1. CASE a = b
    BY <1>2, <2>1
  <2>2. CASE a # b
    <3>1. a \in Block /\ nChainWork[a] < nChainWork[b]
      BY <2>2, ChainBasic, ChainLower
    <3>2. WorseNow(a, b)
      BY <1>1, <3>1, Order DEF WorseNow
    <3> QED BY <1>3, <3>1, <3>2
  <2> QED BY <2>1, <2>2
<1> QED BY <1>2, <1>3, <1>4, <1>5

\* A base stays one while only failed blocks leave the candidates.
LEMMA BaseKept ==
    ASSUME SetFacts, IInv, NEW t \in Block, Base(t), UNCHANGED <<linked, nSequenceId, address, verdict>>,
           failed \subseteq failed', Chain[t] \cap failed' = {},
           \A x \in candidates : x \in candidates' \/ x \in failed',
           ~ WorseNow(t, tip')
    PROVE  Base(t)'
<1>1. t \in linked' /\ Unfailed(t)' /\ Connectable(t)' /\ ~ WorseNow(t, tip)'
  BY DEF Base, Unfailed, Connectable, WorseNow
<1>2. Complete(t)'
  <2> SUFFICES ASSUME NEW x \in linked, Chain[x] \cap failed' = {}, ~ WorseNow(x, t) PROVE x \in candidates'
    BY DEF Complete, Unfailed, WorseNow
  <2>1. Unfailed(x)
    BY DEF Unfailed
  <2>2. x \in candidates
    BY <2>1 DEF Base, Complete
  <2>3. x \in Chain[x]
    BY ChainBasic, StateFacts DEF SetsOK
  <2> QED BY <2>2, <2>3
<1> QED BY <1>1, <1>2 DEF Base

\* The tip is a base when all that is no worse is a candidate.
LEMMA TipBase ==
    ASSUME IInv', NEW t \in Block, t = tip',
           \A x \in linked' : Chain[x] \cap failed' = {} /\ ~ WorseNow(x, t)' => x \in candidates'
    PROVE  Base(t)'
<1>1. t \in linked' /\ Unfailed(t)' /\ Connectable(t)'
  BY DEF IInv, SetsOK, Unfailed, Connectable
<1>2. ~ WorseNow(t, tip)'
  <2>1. nSequenceId' \in [Block -> Int] /\ address' \in Addresses
    BY DEF IInv, NumbersOK
  <2> QED BY <2>1, Order DEF WorseNow
<1>3. Complete(t)'
  BY DEF Complete, Unfailed
<1> QED BY <1>1, <1>2, <1>3 DEF Base

\* A base is a candidate.
LEMMA BaseIsCandidate ==
    ASSUME SetFacts, IInv, NEW t \in Block, Base(t)
    PROVE  t \in candidates
<1>1. ~ WorseNow(t, t)
  BY NowOrder, StateFacts
<1> QED BY <1>1 DEF Base, Complete

\* Steps that leave the blocks alone and give up cs_main, or do not take it.
LEMMA ProgressFree ==
    ASSUME SetFacts, IInv, ProgressOK, UNCHANGED <<linked, failed, candidates, nSequenceId, address, verdict, tip>>,
           Unlocked', Holds_cs_main \/ (Invalidating /\ ~ scenario.quiet => ~ inv.was_in_chain)
                        \/ (Invalidating' /\ ~ scenario'.quiet /\ inv'.was_in_chain)
    PROVE  ProgressOK'
<1>1. ASSUME NEW t \in Block, Base(t) PROVE Base(t)'
  BY <1>1, BaseKept DEF Base, Unfailed
<1>2. ~ Holds_cs_main' /\ pc' # "out"
  BY DEF Unlocked, Holds_cs_main
<1> QED BY <1>1, <1>2 DEF ProgressOK, Unlocked

\* Steps of other threads
LEMMA ProgressOthers ==
    ASSUME ProgressOK, CanEnter, UNCHANGED <<scenario, pc, inv>>,
           \A t \in Block : Base(t) => \E u \in Block : Base(u)'
    PROVE  ProgressOK'
<1>1. Unlocked /\ Unlocked' /\ ~ Holds_cs_main' /\ pc' # "out" /\ (Invalidating' <=> Invalidating)
  BY DEF CanEnter, Unlocked, Holds_cs_main, Invalidating
<1> QED BY <1>1 DEF ProgressOK

\* The outer loop of ActivateBestChain begins a round.
LEMMA OuterLoopProgress ==
    ASSUME SetFacts, IInv, ProgressOK, OuterLoop
    PROVE  ProgressOK'
<1>1. /\ pc = "while" /\ UNCHANGED <<linked, failed, candidates, nSequenceId, address, verdict, tip, scenario, inv>>
      /\ ThreadTypes /\ NumbersOK /\ tip \in Block /\ AbcOK
  BY StateFacts DEF OuterLoop, abcUnchanged, received, flags, failed, fixed, IInv
<1>2. ~ Holds_cs_main /\ Unlocked /\ ~ Invalidating
  BY <1>1 DEF Unlocked, Holds_cs_main, Invalidating
<1>3. CASE LeaveOuterLoop
  <2>1. Unlocked'
    BY <1>3 DEF OuterLoop, Unlocked, Holds_cs_main
  <2> QED BY <1>1, <1>2, <2>1, ProgressFree
<1>4. CASE ~ LeaveOuterLoop
  <2>1. pc' = "find" /\ abc' = [abc EXCEPT !.starting = tip, !.connected = FALSE]
    BY <1>4 DEF OuterLoop
  <2>2. abc'.starting = tip /\ abc'.mostWork = abc.mostWork
    BY <1>1, <2>1 DEF ThreadTypes
  <2>3. PICK t \in Block : Base(t)
    BY <1>2 DEF ProgressOK
  <2>4. Base(t)' /\ ~ WorseNow(t, tip)
    <3>1. ~ WorseNow(t, tip) /\ Chain[t] \cap failed = {}
      BY <2>3 DEF Base, Unfailed
    <3> QED BY <1>1, <2>3, <3>1, BaseKept
  <2>5. abc.mostWork # NoBlock => ~ WorseNow(abc.mostWork, tip)
    <3> SUFFICES ASSUME abc.mostWork # NoBlock PROVE ~ WorseNow(abc.mostWork, tip)
      OBVIOUS
    <3>1. tip \in Chain[abc.mostWork] /\ abc.mostWork \in Block
      BY <1>1, StateFacts DEF AbcOK
    <3> QED BY <1>1, <3>1, NowOrder
  <2>6. /\ ~ WorseNow(t, abc.starting)'
        /\ abc'.mostWork # NoBlock => ~ WorseNow(abc.mostWork, abc.starting)'
    BY <1>1, <2>2, <2>4, <2>5 DEF WorseNow
  <2>7. ~ Unlocked' /\ pc' # "out"
    BY <2>1 DEF Unlocked, Holds_cs_main
  <2> QED BY <2>4, <2>6, <2>7 DEF ProgressOK
<1> QED BY <1>3, <1>4

\* Steps within a section of cs_main
LEMMA ProgressHeld ==
    ASSUME ProgressOK, Holds_cs_main, Holds_cs_main', UNCHANGED <<nSequenceId, address>>,
           abc'.starting = abc.starting,
           \A t \in Block : Base(t) /\ ~ WorseNow(t, abc.starting) =>
               \E u \in Block : Base(u)' /\ ~ WorseNow(u, abc.starting),
           abc'.mostWork # NoBlock => ~ WorseNow(abc'.mostWork, abc.starting),
           pc' = "out" => ~ WorseNow(tip', abc.starting)
    PROVE  ProgressOK'
<1>1. \E u \in Block : Base(u)' /\ ~ WorseNow(u, abc.starting)
  BY DEF ProgressOK
<1>2. PICK u \in Block : Base(u)' /\ ~ WorseNow(u, abc.starting)
  BY <1>1
<1>3. ~ WorseNow(u, abc.starting)'
  BY <1>2 DEF WorseNow
<1>4. /\ abc'.mostWork # NoBlock => ~ WorseNow(abc.mostWork, abc.starting)'
      /\ pc' = "out" => ~ WorseNow(tip, abc.starting)'
  BY DEF WorseNow
<1> QED BY <1>2, <1>3, <1>4 DEF ProgressOK, Unlocked

\* The inner loop of ActivateBestChain finds a better chain, or there is none.
LEMMA InnerLoopProgress ==
    ASSUME SetFacts, IInv, ProgressOK, InnerLoop
    PROVE  ProgressOK'
<1>1. /\ UNCHANGED <<linked, failedValid, nSequenceId, address, verdict, tip>>
      /\ pc = "find" /\ Holds_cs_main /\ pc' \in {"find", "out", "disconnect"} /\ Holds_cs_main'
      /\ ThreadTypes /\ NumbersOK /\ tip \in Block /\ AbcOK /\ abc.starting \in Block
  BY StateFacts DEF InnerLoop, fixed, IInv, Holds_cs_main, AbcOK
<1>2. PICK t \in Block : Base(t) /\ ~ WorseNow(t, abc.starting)
  BY <1>1 DEF ProgressOK
<1>3. t \in candidates
  BY <1>2, BaseIsCandidate
<1>4. abc.mostWork # NoBlock => ~ WorseNow(abc.mostWork, abc.starting)
  BY <1>1 DEF ProgressOK
<1>5. ASSUME UNCHANGED <<failed, candidates>>, NEW u \in Block, Base(u) PROVE Base(u)'
  BY <1>1, <1>5, BaseKept DEF Base, Unfailed
<1>6. ASSUME pc' = "out" PROVE ProgressOK'
  <2>1. abc.mostWork = tip /\ UNCHANGED <<failedChild, candidates, abc>>
    BY <1>1, <1>3, <1>6 DEF InnerLoop
  <2>2. UNCHANGED failed /\ abc.mostWork # NoBlock
    BY <1>1, <2>1, TreeTypes DEF failed
  <2> QED BY <1>1, <1>4, <1>5, <2>1, <2>2, ProgressHeld
<1>7. ASSUME pc' = "disconnect" PROVE ProgressOK'
  <2>1. UNCHANGED <<failedChild, candidates>> /\ abc' = [abc EXCEPT !.old = tip, !.front = NoBlock]
    BY <1>1, <1>7 DEF InnerLoop
  <2>2. UNCHANGED failed /\ abc'.starting = abc.starting /\ abc'.mostWork = abc.mostWork
    BY <1>1, <2>1 DEF failed, ThreadTypes
  <2> QED BY <1>1, <1>4, <1>5, <1>7, <2>1, <2>2, ProgressHeld
<1>8. ASSUME pc' = "find" PROVE ProgressOK'
  <2>1. FindMostWorkChain /\ candidates # {} /\ abc.mostWork = NoBlock
    BY <1>1, <1>8 DEF InnerLoop
  <2>2. CASE Unusable(BestCandidate) = {}
    <3> DEFINE new == BestCandidate
    <3>1. abc' = [abc EXCEPT !.mostWork = new] /\ UNCHANGED <<failedChild, candidates>>
      BY <2>1, <2>2 DEF FindMostWorkChain
    <3>2. new \in Block /\ ~ WorseNow(new, t)
      BY <1>3, <2>1, BestCandidateIs, StateFacts DEF SetsOK
    <3> HIDE DEF new
    <3>3. abc'.mostWork = new /\ abc'.starting = abc.starting /\ UNCHANGED failed
      BY <1>1, <3>1 DEF ThreadTypes, failed
    <3>4. ~ WorseNow(new, abc.starting)
      BY <1>1, <1>2, <3>2, NowOrder
    <3> QED BY <1>1, <1>5, <1>8, <3>1, <3>3, <3>4, ProgressHeld
  <2>3. CASE Unusable(BestCandidate) # {}
    <3> DEFINE new == BestCandidate
    <3>1. PICK test \in Chain[new] \cap failed :
             /\ candidates' = candidates \ Dropped(new, test)
             /\ failedChild' = failedChild \cup (PathTo(new) \ Chain[test])
             /\ \A x \in PathTo(new) \ Chain[test] : test \in Chain[x]
             /\ UNCHANGED abc
      BY <2>1, <2>3, FindDrops
    <3> HIDE DEF new
    <3>2. failed' = failed \cup (PathTo(new) \ Chain[test])
      BY <1>1, <3>1 DEF failed
    <3>3. \A x \in candidates : x \in candidates' \/ x \in failed'
      BY <3>1, <3>2 DEF Dropped
    <3>4. ASSUME NEW u \in Block, Base(u) PROVE Base(u)'
      <4>1. Chain[u] \cap failed = {} /\ ~ WorseNow(u, tip)
        BY <3>4 DEF Base, Unfailed
      <4>2. Chain[u] \cap failed' = {}
        <5> SUFFICES ASSUME NEW x \in Chain[u], x \in failed' PROVE FALSE
          OBVIOUS
        <5>1. test \in Chain[x]
          BY <3>1, <3>2, <4>1
        <5> QED BY <3>1, <4>1, <5>1, ChainTransitive
      <4> QED BY <1>1, <3>2, <3>3, <3>4, <4>1, <4>2, BaseKept
    <3> QED BY <1>1, <1>8, <2>1, <3>1, <3>4, ProgressHeld
  <2> QED BY <2>2, <2>3
<1> QED BY <1>1, <1>6, <1>7, <1>8

\* ActivateBestChainStep goes down towards the fork.
LEMMA DisconnectTipProgress ==
    ASSUME SetFacts, IInv, ProgressOK, DisconnectTip
    PROVE  ProgressOK'
<1>1. /\ UNCHANGED <<linked, failed, candidates, nSequenceId, address, verdict, abc>>
      /\ pc = "disconnect" /\ Holds_cs_main /\ pc' \in {"disconnect", "connect", "loop"} /\ Holds_cs_main'
      /\ NumbersOK /\ tip \in Block /\ AbcOK /\ abc.mostWork \in Block
  BY StateFacts DEF DisconnectTip, fixed, IInv, Holds_cs_main, AbcOK, abcUnchanged, received, flags, failed
<1>2. tip' = tip \/ (tip' = pprev[tip] /\ tip # Genesis)
  <2>1. CASE tip # FindFork(tip, abc.mostWork)
    <3>1. tip # Genesis
      BY <1>1, <2>1, Fork, ChainGenesis
    <3> QED BY <2>1, <3>1 DEF DisconnectTip
  <2>2. CASE tip = FindFork(tip, abc.mostWork)
    BY <2>2 DEF DisconnectTip
  <2> QED BY <2>1, <2>2
<1>3. ~ WorseNow(tip, tip') /\ tip' \in Block
  BY <1>1, <1>2, NowOrder, ChainBasic
<1>4. ASSUME NEW u \in Block, Base(u) PROVE Base(u)'
  <2>1. Chain[u] \cap failed = {} /\ ~ WorseNow(u, tip)
    BY <1>4 DEF Base, Unfailed
  <2>2. ~ WorseNow(u, tip')
    BY <1>1, <1>3, <2>1, NowOrder
  <2> QED BY <1>1, <1>4, <2>1, <2>2, BaseKept
<1>5. abc.mostWork # NoBlock => ~ WorseNow(abc.mostWork, abc.starting)
  BY <1>1 DEF ProgressOK
<1> QED BY <1>1, <1>4, <1>5, ProgressHeld

\* ActivateBestChainStep goes up towards the most-work block.
LEMMA ConnectTipProgress ==
    ASSUME SetFacts, IInv, IInv', ProgressOK, ConnectTip
    PROVE  ProgressOK'
<1> DEFINE b == GetAncestor(abc.mostWork, nHeight[tip] + 1)
<1>1. /\ UNCHANGED <<index, linked, nSequenceId, address, verdict>>
      /\ pc = "connect" /\ Holds_cs_main /\ pc' \in {"connect", "loop"} /\ Holds_cs_main'
      /\ ThreadTypes /\ NumbersOK /\ SetsOK /\ HeadersOK /\ AbcOK
      /\ tip \in Block /\ tip \in Chain[abc.mostWork] /\ tip # abc.mostWork /\ abc.starting \in Block
      /\ abc.mostWork \in Block /\ Chain[abc.mostWork] \subseteq linked /\ linked \subseteq index /\ index \subseteq Block
  BY StateFacts DEF ConnectTip, fixed, IInv, Holds_cs_main, AbcOK, abcUnchanged, received, SetsOK
<1>2. abc.mostWork # NoBlock => ~ WorseNow(abc.mostWork, abc.starting)
  BY <1>1 DEF ProgressOK
<1>3. b \in Chain[abc.mostWork] /\ b # Genesis /\ b \in Block /\ b \in index
  BY <1>1, NextBlock
<1>4. CASE verdict[b] # "connect"
  <2>1. /\ tip' = b /\ candidates' = PruneBlockIndexCandidates(candidates, nSequenceId, b)
        /\ abc' = [abc EXCEPT !.front = Front] /\ UNCHANGED failed
    BY <1>4 DEF ConnectTip, flags, failed
  <2> HIDE DEF b
  <2>2. abc'.starting = abc.starting /\ abc'.mostWork = abc.mostWork
    BY <1>1, <2>1 DEF ThreadTypes
  <2>3. \A x : x \in candidates' <=> x \in candidates /\ ~ WorseNow(x, b)
    BY <2>1 DEF PruneBlockIndexCandidates, WorseNow
  <2>4. ASSUME NEW t \in Block, Base(t), ~ WorseNow(t, abc.starting)
        PROVE  \E u \in Block : Base(u)' /\ ~ WorseNow(u, abc.starting)
    <3>1. \A x \in linked : Chain[x] \cap failed = {} /\ ~ WorseNow(x, t) => x \in candidates
      BY <2>4 DEF Base, Complete, Unfailed
    <3>2. linked \subseteq Block
      BY <1>1
    <3>3. CASE WorseNow(t, b)
      <4>1. ~ WorseNow(b, t)
        BY <1>1, <1>3, <3>3, NowOrder
      <4>2. ~ WorseNow(b, abc.starting)
        BY <1>1, <1>3, <2>4, <4>1, NowOrder
      <4>3. PICK c \in Block : c = b
        BY <1>3
      <4>4. ASSUME NEW x \in linked', Chain[x] \cap failed' = {}, ~ WorseNow(x, c)' PROVE x \in candidates'
        <5>1. x \in linked /\ Chain[x] \cap failed = {} /\ ~ WorseNow(x, b)
          BY <1>1, <2>1, <4>3, <4>4 DEF WorseNow
        <5>2. ~ WorseNow(x, t)
          BY <1>1, <1>3, <3>2, <4>1, <5>1, NowOrder
        <5> QED BY <2>3, <3>1, <5>1, <5>2
      <4>5. Base(c)'
        BY <2>1, <4>3, <4>4, TipBase
      <4> QED BY <4>2, <4>3, <4>5
    <3>4. CASE ~ WorseNow(t, b)
      <4>1. t \in linked' /\ Unfailed(t)' /\ Connectable(t)' /\ ~ WorseNow(t, tip)'
        BY <1>1, <2>1, <2>4, <3>4 DEF Base, Unfailed, Connectable, WorseNow
      <4>2. ASSUME NEW x \in linked, Chain[x] \cap failed = {}, ~ WorseNow(x, t) PROVE x \in candidates'
        BY <1>1, <1>3, <2>3, <3>1, <3>2, <3>4, <4>2, NowOrder
      <4>3. Complete(t)'
        BY <1>1, <2>1, <4>2 DEF Complete, Unfailed, WorseNow
      <4> QED BY <2>4, <4>1, <4>3 DEF Base
    <3> QED BY <3>3, <3>4
  <2> QED BY <1>1, <1>2, <2>2, <2>4, ProgressHeld
<1>5. CASE verdict[b] = "connect"
  <2>1. /\ InvalidBlockFound(b, Front, index, m_best_header)
        /\ abc' = [abc EXCEPT !.mostWork = NoBlock] /\ pc' = "loop" /\ UNCHANGED tip
    BY <1>5 DEF ConnectTip
  <2> HIDE DEF b
  <2>2. candidates' = candidates \ {b} /\ InvalidChainFound(b, Front, index, failedValid \cup {b}, failedChild, m_best_header)
    BY <2>1 DEF InvalidBlockFound
  <2>3. abc'.starting = abc.starting /\ abc'.mostWork = NoBlock
    BY <1>1, <2>1 DEF ThreadTypes
  <2>4. /\ failed \subseteq failed' /\ b \in failed'
        /\ \A c \in Block : Unfailed(c) /\ b \notin Chain[c] => Chain[c] \cap failed' = {}
    <3>1. m_best_header \in index /\ m_best_invalid \in index \cup {NoBlock} /\ Front \in index
      BY <1>1, FrontIs DEF HeadersOK
    <3> QED BY <1>1, <1>3, <2>2, <3>1, InvalidChain, SMTT(40)
  <2>5. ASSUME NEW t \in Block, Base(t) PROVE Base(t)'
    <3>1. b \notin Chain[t] /\ Unfailed(t) /\ ~ WorseNow(t, tip)
      BY <1>5, <2>5 DEF Base, Connectable
    <3> QED BY <1>1, <2>1, <2>2, <2>4, <2>5, <3>1, BaseKept
  <2> QED BY <1>1, <2>1, <2>3, <2>5, ProgressHeld
<1> QED BY <1>4, <1>5

\* Blocks that become linked are candidates unless they are worse than the tip.
LEMMA ReceivedBase ==
    ASSUME SetFacts, IInv, IInv', NEW t \in Block, Base(t), NEW b \in Block, b \notin data, b # Genesis, pprev[b] \in linked,
           ReceivedBlockTransactions(b), UNCHANGED <<failed, address, verdict, tip>>
    PROVE  Base(t)'
<1> DEFINE L == Linkable(b)
<1>1. /\ linked' = linked \cup L
      /\ candidates' = candidates \cup {x \in L : ~ Worse(nSequenceId', address, x, tip)}
  BY DEF ReceivedBlockTransactions
<1>2. PICK ids \in SequenceIds(L) :
        nSequenceId' = [x \in Block |-> IF x \in L THEN ids[x] ELSE nSequenceId[x]]
  BY DEF ReceivedBlockTransactions
<1>3. /\ SetsOK /\ NumbersOK /\ tip \in linked /\ t \in linked /\ linked \subseteq Block
      /\ nSequenceId' \in [Block -> Int] /\ address \in Addresses
  BY StateFacts DEF SetsOK, Base, IInv, NumbersOK
<1>4. L \cap linked = {} /\ L \subseteq Block
  <2>1. L \subseteq unlinked \cup {b}
    BY <1>3, LinkableClosed
  <2> HIDE DEF L
  <2> QED BY <1>3, <2>1 DEF SetsOK
<1> HIDE DEF L
<1>5. \A x \in linked : nSequenceId'[x] = nSequenceId[x]
  BY <1>2, <1>3, <1>4
<1>6. \A x, y \in linked : WorseNow(x, y)' <=> WorseNow(x, y)
  BY <1>5 DEF WorseNow, Worse
<1>7. t \in linked' /\ Unfailed(t)' /\ Connectable(t)'
  BY <1>1 DEF Base, Unfailed, Connectable
<1>8. ~ Worse(nSequenceId', address, t, tip)
  BY <1>3, <1>6 DEF Base, WorseNow
<1>9. ASSUME NEW x \in linked', Chain[x] \cap failed = {}, ~ WorseNow(x, t)' PROVE x \in candidates'
  <2>1. CASE x \in linked
    BY <1>1, <1>3, <1>6, <1>9, <2>1 DEF Base, Complete, Unfailed
  <2>2. CASE x \in L
    <3>1. ~ Worse(nSequenceId', address, x, t)
      BY <1>9 DEF WorseNow
    <3>2. ~ Worse(nSequenceId', address, x, tip)
      BY <1>3, <1>4, <1>8, <2>2, <3>1, OrderTransitive
    <3> QED BY <1>1, <2>2, <3>2
  <2> QED BY <1>1, <2>1, <2>2
<1>10. Complete(t)'
  BY <1>9 DEF Complete, Unfailed
<1> QED BY <1>7, <1>8, <1>10 DEF Base, WorseNow

\* AcceptBlock makes candidates of the blocks that it links.
LEMMA AcceptBlockProgress ==
    ASSUME SetFacts, IInv, IInv', ProgressOK, NEW b \in Block, NEW fRequested \in BOOLEAN, AcceptBlock(b, fRequested)
    PROVE  ProgressOK'
<1> DEFINE hdr == IF b \in index THEN m_best_header ELSE BestHeaderWith(b)
<1>1. /\ CanEnter /\ index' = index \cup {b} /\ HeaderAccepted(b)
      /\ UNCHANGED <<tip, address, verdict, scenario, pc, inv>>
  BY DEF AcceptBlock, fixed, thread
<1>2. /\ SetsOK /\ HeadersOK /\ linked \subseteq data /\ Genesis \in data /\ hdr \in index' /\ index' \subseteq Block
      /\ b \in index' /\ index \subseteq index'
  BY <1>1, StateFacts, IndexGrows DEF SetsOK
<1>3. ASSUME UNCHANGED <<linked, failed, candidates, nSequenceId>>, NEW t \in Block, Base(t) PROVE Base(t)'
  BY <1>1, <1>3, BaseKept DEF Base, Unfailed
<1>4. ASSUME NEW t \in Block, Base(t) PROVE Base(t)'
  <2>1. CASE UNCHANGED <<flags, received, candidates, nSequenceId>>
    BY <1>3, <1>4, <2>1 DEF flags, received, failed
  <2>2. CASE b \notin data /\ InvalidBlockFound(b, b, index', hdr) /\ UNCHANGED <<received, nSequenceId>>
    <3>1. candidates' = candidates \ {b} /\ InvalidChainFound(b, b, index', failedValid \cup {b}, failedChild, hdr)
      BY <2>2 DEF InvalidBlockFound
    <3> HIDE DEF hdr
    <3>2. m_best_invalid \in index \cup {NoBlock} /\ b # Genesis
      BY <1>2, <2>2 DEF HeadersOK
    <3>3. /\ failed \subseteq failed' /\ b \in failed'
          /\ \A c \in Block : Unfailed(c) /\ b \notin Chain[c] => Chain[c] \cap failed' = {}
      BY <1>2, <3>1, <3>2, InvalidChain
    <3>4. Chain[t] \subseteq linked /\ Unfailed(t) /\ ~ WorseNow(t, tip)
      BY <1>2, <1>4 DEF Base, SetsOK
    <3>5. UNCHANGED <<linked, nSequenceId>>
      BY <2>2 DEF received
    <3> QED BY <1>1, <1>2, <1>4, <2>2, <3>1, <3>3, <3>4, <3>5, BaseKept
  <2>3. CASE b \notin data /\ ReceivedBlockTransactions(b) /\ UNCHANGED flags
    <3>1. UNCHANGED failed /\ b # Genesis
      BY <1>2, <2>3 DEF flags, failed
    <3>2. CASE pprev[b] \in linked
      BY <1>1, <1>4, <2>3, <3>1, <3>2, ReceivedBase
    <3>3. CASE pprev[b] \notin linked
      BY <1>3, <1>4, <2>3, <3>1, <3>3 DEF ReceivedBlockTransactions
    <3> QED BY <3>2, <3>3
  <2> QED BY <2>1, <2>2, <2>3 DEF AcceptBlock
<1> QED BY <1>1, <1>4, ProgressOthers

\* The first two calls of PreciousBlock make the block no worse.
LEMMA PreciousImproves ==
    ASSUME SetFacts, Considered, IInv, CallsOK, NEW b \in Block, PreciousBlock(b)
    PROVE  /\ nSequenceId' \in [Block -> Int] /\ nSequenceId'[b] <= nSequenceId[b]
           /\ \A x \in Block : x # b => nSequenceId'[x] = nSequenceId[x]
<1> DEFINE reverse == IF nChainWork[tip] > nLastPreciousChainwork THEN -1 ELSE nBlockReverseSequenceId
<1>1. nSequenceId' = [nSequenceId EXCEPT ![b] = reverse] /\ calls.precious < scenario.precious
  BY DEF PreciousBlock
<1>2. /\ nSequenceId \in [Block -> Int] /\ nBlockReverseSequenceId \in MinSequenceId .. -1 /\ MinSequenceId \in Int
      /\ calls.precious \in Nat /\ scenario \in Scenarios
  BY StateFacts, ChainstateAssumption DEF NumbersOK
<1>3. scenario.precious \in Nat /\ scenario.precious <= 2
  BY <1>2, ChainstateAssumption DEF Considered, Scenario
<1>4. calls.precious <= 1
  BY <1>1, <1>2, <1>3, SMTT(40)
<1>5. reverse \in Int /\ reverse <= -1
  BY <1>2, SMTT(40)
<1> HIDE DEF reverse
<1>6. nSequenceId[b] >= -1 /\ nSequenceId[b] \in Int
  BY <1>2, <1>4 DEF CallsOK
<1>7. nSequenceId'[b] = reverse
  BY <1>1, <1>2
<1>8. nSequenceId'[b] <= nSequenceId[b]
  BY <1>5, <1>6, <1>7, SMTT(40)
<1> QED BY <1>1, <1>2, <1>5, <1>8

\* PreciousBlock makes a candidate of its block.
LEMMA PreciousBlockProgress ==
    ASSUME SetFacts, Considered, IInv, IInv', CallsOK, ProgressOK, NEW b \in Block, PreciousBlock(b)
    PROVE  ProgressOK'
<1>1. /\ CanEnter /\ UNCHANGED <<linked, failed, tip, address, verdict, scenario, pc, inv>>
      /\ candidates' = IF b \in Usable
                       THEN PruneBlockIndexCandidates(candidates \cup {b}, nSequenceId', tip)
                       ELSE candidates \ {b}
  BY DEF PreciousBlock, fixed, thread, received, flags, failed
<1>2. /\ nSequenceId' \in [Block -> Int] /\ nSequenceId'[b] <= nSequenceId[b]
      /\ \A x \in Block : x # b => nSequenceId'[x] = nSequenceId[x]
  BY PreciousImproves
<1>3. /\ address \in Addresses /\ nSequenceId \in [Block -> Int] /\ NumbersOK
      /\ tip \in Block /\ tip \in linked /\ linked \subseteq Block /\ linked \subseteq data
  BY StateFacts DEF NumbersOK, SetsOK
<1> DEFINE W(x, y) == Worse(nSequenceId', address, x, y)
<1>4. \A x, y \in Block : x # b /\ y # b => (W(x, y) <=> WorseNow(x, y))
  BY <1>2 DEF WorseNow, Worse
<1>5. \A x \in Block : x # b /\ ~ W(x, b) => ~ WorseNow(x, b)
  <2> SUFFICES ASSUME NEW x \in Block, x # b, WorseNow(x, b) PROVE W(x, b)
    OBVIOUS
  <2>1. /\ nSequenceId'[b] \in Int /\ nSequenceId[b] \in Int /\ nSequenceId[x] \in Int /\ nSequenceId'[x] = nSequenceId[x]
        /\ nChainWork[x] \in Nat /\ nChainWork[b] \in Nat /\ address[x] \in Nat /\ address[b] \in Nat
    BY <1>2, <1>3, TreeTypes, ChainstateAssumption
  <2> QED BY <1>2, <2>1, SMTT(40) DEF WorseNow, Worse
<1>6. \A x \in Block : x # b /\ ~ WorseNow(b, x) => ~ W(b, x)
  <2> SUFFICES ASSUME NEW x \in Block, x # b, ~ WorseNow(b, x) PROVE ~ W(b, x)
    OBVIOUS
  <2>1. /\ nSequenceId'[b] \in Int /\ nSequenceId[b] \in Int /\ nSequenceId[x] \in Int /\ nSequenceId'[x] = nSequenceId[x]
        /\ nChainWork[x] \in Nat /\ nChainWork[b] \in Nat /\ address[x] \in Nat /\ address[b] \in Nat
    BY <1>2, <1>3, TreeTypes, ChainstateAssumption
  <2> QED BY <1>2, <2>1, SMTT(40) DEF WorseNow, Worse
<1>7. \A x, y, z \in Block : ~ W(x, y) /\ ~ W(y, z) => ~ W(x, z)
  BY <1>2, <1>3, OrderTransitive
<1>8. \A x, y \in Block : ~ W(x, x) /\ (W(x, y) => ~ W(y, x))
  BY <1>2, <1>3, Order
<1>9. \A x \in linked : x \notin failed /\ (x = b \/ x \in candidates) /\ ~ W(x, tip) => x \in candidates'
  BY <1>1, <1>3 DEF Usable, PruneBlockIndexCandidates
<1>10. \A x, y \in Block : W(x, y) <=> WorseNow(x, y)'
  BY <1>1 DEF WorseNow
<1> HIDE DEF W
<1>11. ASSUME NEW t \in Block, Base(t) PROVE \E u \in Block : Base(u)'
  <2>1. t \in linked /\ Unfailed(t) /\ Connectable(t) /\ ~ WorseNow(t, tip)
    BY <1>11 DEF Base
  <2>2. \A x \in linked : Unfailed(x) /\ ~ WorseNow(x, t) => x \in candidates
    BY <1>11 DEF Base, Complete
  <2>3. \A x \in linked : Unfailed(x) => x \notin failed
    BY <1>3, ChainBasic DEF Unfailed
  <2>4. CASE ~ W(t, tip)
    <3>1. ASSUME NEW x \in linked, Unfailed(x), ~ W(x, t) PROVE x \in candidates'
      <4>1. ~ W(x, tip)
        BY <1>3, <1>7, <2>4, <3>1
      <4>2. x = b \/ x \in candidates
        BY <1>3, <1>4, <1>5, <2>2, <3>1
      <4> QED BY <1>9, <2>3, <3>1, <4>1, <4>2
    <3>2. Complete(t)'
      BY <1>1, <1>3, <1>10, <3>1 DEF Complete, Unfailed
    <3>3. Base(t)'
      BY <1>1, <1>3, <1>10, <2>1, <2>4, <3>2 DEF Base, Unfailed, Connectable
    <3> QED BY <3>3
  <2>5. CASE W(t, tip)
    <3>1. tip = b /\ t # b
      BY <1>3, <1>4, <1>6, <1>8, <2>1, <2>5
    <3>2. ~ W(tip, t)
      BY <1>3, <1>8, <2>5
    <3>3. ASSUME NEW x \in linked', Chain[x] \cap failed' = {}, ~ WorseNow(x, b)' PROVE x \in candidates'
      <4>1. x \in linked /\ Unfailed(x) /\ ~ W(x, tip) /\ x \in Block
        BY <1>1, <1>3, <1>10, <3>1, <3>3 DEF Unfailed
      <4>2. ~ W(x, t)
        BY <1>3, <1>7, <3>2, <4>1
      <4>3. x = b \/ x \in candidates
        BY <1>4, <2>2, <3>1, <4>1, <4>2
      <4> QED BY <1>9, <2>3, <4>1, <4>3
    <3>4. Base(b)'
      BY <1>1, <3>1, <3>3, TipBase
    <3> QED BY <3>4
  <2> QED BY <2>4, <2>5
<1> QED BY <1>1, <1>11, ProgressOthers

\* Where cs_main is free, a base is all that is asked for.
LEMMA BaseSuffices ==
    ASSUME NEW t \in Block, Base(t)', Unlocked'
    PROVE  ProgressOK'
<1>1. ~ Holds_cs_main' /\ pc' # "out"
  BY DEF Unlocked, Holds_cs_main
<1> QED BY <1>1 DEF ProgressOK

\* The blocks that ResetBlockFailureFlags clears are candidates if they are better than the tip.
LEMMA ResetProgress ==
    ASSUME SetFacts, IInv, IInv', MarksOK, ProgressOK, NEW b \in Block, ResetBlockFailureFlags(b)
    PROVE  ProgressOK'
<1> DEFINE Cleared == {x \in index \cap failed : Descends(x, b) \/ Descends(b, x)}
<1>1. /\ failedValid' = failedValid \ Cleared /\ failedChild' = failedChild \ Cleared
      /\ candidates' = candidates \cup Reconsidered(Cleared)
      /\ UNCHANGED <<index, linked, tip, nSequenceId, address, verdict, scenario, pc, inv>> /\ CanEnter
  BY DEF ResetBlockFailureFlags, thread, fixed, received
<1> HIDE DEF Cleared
<1>2. failed' = failed \ Cleared
  BY <1>1 DEF failed
<1>3. /\ NumbersOK /\ tip \in Block /\ tip \notin failed /\ linked \subseteq data /\ linked \subseteq index
      /\ linked \subseteq Block
  BY StateFacts, ChainBasic DEF SetsOK
<1>4. CASE Invalidating /\ ~ scenario.quiet /\ inv.was_in_chain
  <2>1. Invalidating' /\ ~ scenario'.quiet /\ inv'.was_in_chain /\ ~ Holds_cs_main' /\ pc' # "out"
    BY <1>1, <1>4 DEF Invalidating, Holds_cs_main
  <2> QED BY <2>1 DEF ProgressOK
<1>5. CASE ~ (Invalidating /\ ~ scenario.quiet /\ inv.was_in_chain)
  <2>1. \A x \in index : Chain[x] \cap failed # {} => x \in failed
    BY <1>5 DEF MarksOK
  <2>2. ASSUME NEW t \in Block, Base(t) PROVE Base(t)'
    <3>1. t \in linked' /\ Unfailed(t)' /\ Connectable(t)' /\ ~ WorseNow(t, tip)'
      BY <1>1, <1>2, <2>2 DEF Base, Unfailed, Connectable, WorseNow
    <3>2. ASSUME NEW x \in linked, Chain[x] \cap failed' = {}, ~ WorseNow(x, t) PROVE x \in candidates'
      <4>1. CASE Unfailed(x)
        BY <1>1, <2>2, <3>2, <4>1 DEF Base, Complete
      <4>2. CASE ~ Unfailed(x)
        <5>1. x \in failed /\ x \in Block /\ x \notin failed'
          BY <1>3, <2>1, <3>2, <4>2, ChainBasic DEF Unfailed
        <5>2. x \in Cleared /\ x # tip
          BY <1>2, <1>3, <5>1
        <5>3. ~ WorseNow(x, tip)
          BY <1>3, <2>2, <3>2, <5>1, NowOrder DEF Base
        <5>4. WorseNow(tip, x)
          BY <1>3, <5>1, <5>2, <5>3, Order DEF WorseNow, NumbersOK
        <5> QED BY <1>1, <1>3, <5>2, <5>4 DEF Reconsidered
      <4> QED BY <4>1, <4>2
    <3>3. Complete(t)'
      BY <1>1, <3>2 DEF Complete, Unfailed, WorseNow
    <3> QED BY <3>1, <3>3 DEF Base
  <2> QED BY <1>1, <2>2, ProgressOthers
<1> QED BY <1>4, <1>5

\* InvalidateBlock's loop leaves the new tip with all that is no worse, unless blocks
\* come in meanwhile.
LEMMA DisconnectInvalidProgress ==
    ASSUME SetFacts, IInv, IInv', MarksOK, ProgressOK, DisconnectInvalid
    PROVE  ProgressOK'
<1> DEFINE w == tip
           Walked == {c \in inv.headers : nChainWork[c] >= nChainWork[pprev[w]]}
           Below == {c \in Walked : Descends(c, w)}
<1>1. /\ UNCHANGED <<index, linked, data, nSequenceId, address, verdict, scenario, pc>> /\ pc = "walk"
      /\ inv.pindex \in Chain[tip]
      /\ candidates' = (candidates \ {w}) \cup {pprev[w]} \cup LoopCandidates(Walked \ Below)
      /\ inv' = [inv EXCEPT !.to_mark_failed = w, !.was_in_chain = TRUE, !.headers = @ \ Below]
  BY DEF DisconnectInvalid, fixed, received
<1>2. /\ tip # Genesis /\ tip' = pprev[tip] /\ pprev[tip] \in Chain[tip] /\ tip \notin Chain[pprev[tip]]
      /\ failed \subseteq failed' /\ tip \in failed'
  BY WalkMarks
<1>3. \A c \in inv.headers : nChainWork[c] >= nChainWork[pprev[tip]] /\ tip \notin Chain[c] => c \in Walked \ Below
  BY DEF Descends
<1> HIDE DEF Walked, Below
<1>4. inv'.was_in_chain /\ Invalidating' /\ ~ Holds_cs_main' /\ pc' # "out" /\ Unlocked'
  <2>1. ThreadTypes
    BY DEF IInv
  <2> QED BY <1>1, <2>1 DEF ThreadTypes, Invalidating, Holds_cs_main, Unlocked
<1>5. CASE ~ scenario.quiet
  BY <1>1, <1>4, <1>5 DEF ProgressOK
<1>6. CASE scenario.quiet
  <2>1. /\ NumbersOK /\ tip \in Block /\ linked \subseteq data /\ linked \subseteq index /\ linked \subseteq Block
        /\ pprev[tip] \in Block /\ inv.pindex \in Block /\ inv.pindex # Genesis /\ pprev[inv.pindex] \in Block
    <3>1. /\ NumbersOK /\ tip \in Block /\ linked \subseteq data /\ linked \subseteq index /\ linked \subseteq Block
          /\ InvOK /\ index \subseteq Block
      BY StateFacts DEF SetsOK, IInv
    <3>2. inv.pindex \in Block /\ inv.pindex # Genesis
      BY <1>1, <3>1 DEF InvOK, Invalidating
    <3> QED BY <1>2, <3>1, <3>2, Parent
  <2>2. Chain[tip] = Chain[pprev[tip]] \cup {tip}
    BY <1>2, <2>1, ChainStep
  <2>3. pprev[inv.pindex] \in Chain[pprev[tip]]
    <3>1. CASE inv.pindex = tip
      BY <2>1, <3>1, ChainBasic
    <3>2. CASE inv.pindex # tip
      BY <1>1, <2>1, <2>2, <3>2, ChainBasic
    <3> QED BY <3>1, <3>2
  <2>4. PICK t \in Block : t = pprev[tip]
    BY <2>1
  <2>5. ASSUME NEW x \in linked', Chain[x] \cap failed' = {}, ~ WorseNow(x, t)' PROVE x \in candidates'
    <3>1. x \in linked /\ x \in Block /\ ~ WorseNow(x, t) /\ x \in index
      BY <1>1, <2>1, <2>5 DEF WorseNow
    <3>2. x \in Chain[x] /\ x \notin failed' /\ tip \notin Chain[x] /\ x \notin failed /\ x # tip
      BY <1>2, <2>5, <3>1, ChainBasic
    <3>3. CASE x \in Chain[tip]
      <4>1. x \in Chain[t]
        BY <2>2, <2>4, <3>2, <3>3
      <4>2. x = t
        BY <2>1, <3>1, <4>1, NowOrder
      <4> QED BY <1>1, <2>4, <4>2
    <3>4. CASE x \notin Chain[tip]
      <4>1. ~ WorseNow(t, pprev[inv.pindex])
        BY <2>1, <2>3, <2>4, NowOrder
      <4>2. ~ WorseNow(x, pprev[inv.pindex])
        BY <2>1, <3>1, <4>1, NowOrder, SMTT(40)
      <4>3. x \in inv.headers
        BY <1>1, <1>6, <3>1, <3>2, <3>4, <4>2 DEF MarksOK, HeadersCollected
      <4>4. nChainWork[x] >= nChainWork[t]
        <5>1. nChainWork[t] <= nChainWork[x]
          BY <2>1, <3>1, Order DEF WorseNow, NumbersOK
        <5> QED BY <3>1, <5>1, TreeTypes
      <4>5. x \in Walked \ Below
        BY <1>3, <2>4, <3>2, <4>3, <4>4
      <4> QED BY <1>1, <2>1, <2>4, <3>1, <3>2, <4>5 DEF LoopCandidates, Usable
    <3> QED BY <3>3, <3>4
  <2>6. Base(t)'
    BY <1>2, <2>4, <2>5, TipBase
  <2> QED BY <1>4, <2>6, BaseSuffices
<1> QED BY <1>5, <1>6

\* InvalidateBlock makes candidates again of what is no worse than the tip.
LEMMA MarkInvalidProgress ==
    ASSUME SetFacts, IInv, IInv', ProgressOK, MarkInvalid
    PROVE  ProgressOK'
<1> DEFINE b == inv.to_mark_failed
           Unmarked == {c \in {inv.pindex} \ failed : ~ inv.was_in_chain}
<1>1. /\ UNCHANGED <<index, linked, data, tip, nSequenceId, address, verdict>> /\ pc = "mark" /\ pc' = "idle"
      /\ SetsOK /\ InvOK /\ tip \in Block /\ linked \subseteq Block /\ linked \subseteq data
  BY StateFacts DEF IInv, MarkInvalid, received, fixed, SetsOK
<1>2. Unlocked' /\ Unlocked /\ Invalidating
  BY <1>1 DEF Unlocked, Holds_cs_main, Invalidating
<1>3. CASE b \in Chain[tip]
  <2>1. UNCHANGED <<failed, candidates>>
    BY <1>3 DEF MarkInvalid, flags, failed
  <2>2. ~ inv.was_in_chain
    <3> SUFFICES ASSUME inv.was_in_chain PROVE FALSE
      OBVIOUS
    <3>1. b \in Block /\ b # Genesis /\ tip = pprev[b]
      BY <1>1, <1>2 DEF InvOK, SetsOK
    <3>2. tip \in Chain[b] /\ tip # b
      BY <3>1, ChainBasic, Parent
    <3> QED BY <1>1, <1>3, <3>1, <3>2, ChainEqual
  <2> QED BY <1>1, <1>2, <2>1, <2>2, ProgressFree
<1>4. CASE b \notin Chain[tip]
  <2>1. /\ candidates' = (candidates \ Unmarked) \cup MissingCandidates(Unmarked)
        /\ InvalidChainFound(b, b, index, failedValid \cup Unmarked, failedChild, m_best_header)
    BY <1>4 DEF MarkInvalid
  <2> HIDE DEF Unmarked, b
  <2>2. failed \subseteq failed' /\ Unmarked \subseteq failed'
    BY <2>1 DEF InvalidChainFound, failed
  <2>3. PICK t \in Block : t = tip
    BY <1>1
  <2>4. ASSUME NEW x \in linked', Chain[x] \cap failed' = {}, ~ WorseNow(x, t)' PROVE x \in candidates'
    <3>1. x \in linked /\ ~ WorseNow(x, tip) /\ x \in data
      BY <1>1, <2>3, <2>4 DEF WorseNow
    <3>2. x \notin failed' /\ x \notin failed /\ x \notin Unmarked
      BY <1>1, <2>2, <2>4, <3>1, ChainBasic
    <3> QED BY <2>1, <3>1, <3>2 DEF MissingCandidates, Usable
  <2>5. Base(t)'
    BY <1>1, <2>3, <2>4, TipBase
  <2> QED BY <1>2, <2>5, BaseSuffices
<1> QED BY <1>3, <1>4

\* LoadBlockIndex makes the candidates anew.
LEMMA RestartProgress ==
    ASSUME SetFacts, IInv, IInv', Restart
    PROVE  ProgressOK'
<1> DEFINE Linked == {b \in data : Chain[b] \subseteq data}
           FailedNow == {b \in index : Chain[b] \cap failed # {}}
<1>1. /\ nSequenceId' = [c \in Block |-> 0] /\ linked' = Linked
      /\ failedChild' = failedChild \cup (FailedNow \ failed)
      /\ candidates' = LoadCandidates(Linked \cap (index \ FailedNow), address')
      /\ UNCHANGED <<index, failedValid, tip, pc>> /\ pc = "idle"
  BY DEF Restart, thread
<1>2. /\ tip \in Block /\ failed' = failed \cup FailedNow /\ \A c \in FailedNow : c \in index /\ Chain[c] \cap failed # {}
      /\ data \subseteq index
  BY <1>1, StateFacts DEF failed, SetsOK
<1>3. Linked \subseteq index
  BY <1>2
<1> HIDE DEF Linked, FailedNow
<1>4. PICK t \in Block : t = tip
  BY <1>2
<1>5. ASSUME NEW x \in linked', Chain[x] \cap failed' = {}, ~ WorseNow(x, t)' PROVE x \in candidates'
  <2>1. ~ Worse([c \in Block |-> 0], address', x, tip)
    BY <1>1, <1>4, <1>5 DEF WorseNow
  <2>2. x \notin FailedNow /\ x \in index /\ x \in Linked
    BY <1>1, <1>2, <1>3, <1>5
  <2> QED BY <1>1, <2>1, <2>2 DEF LoadCandidates
<1>6. Base(t)'
  BY <1>1, <1>4, <1>5, TipBase
<1>7. Unlocked'
  BY <1>1 DEF Unlocked, Holds_cs_main
<1> QED BY <1>6, <1>7, BaseSuffices

\* ActivateBestChain goes around again, or returns.
LEMMA LoopOrLeaveProgress ==
    ASSUME SetFacts, IInv, ProgressOK, LoopOrLeave
    PROVE  ProgressOK'
<1>1. /\ pc = "loop" /\ pc' = IF TipTooBad THEN "find" ELSE "out"
      /\ UNCHANGED <<linked, failed, candidates, tip, nSequenceId, address, verdict>>
      /\ abc' = [abc EXCEPT !.connected = TRUE, !.newTip = tip, !.old = NoBlock, !.front = NoBlock]
      /\ ThreadTypes
  BY DEF LoopOrLeave, abcUnchanged, received, flags, failed, fixed, IInv
<1>2. abc'.starting = abc.starting /\ abc'.mostWork = abc.mostWork
  BY <1>1 DEF ThreadTypes
<1>3. Holds_cs_main /\ Holds_cs_main'
  BY <1>1 DEF Holds_cs_main
<1>4. ASSUME NEW t \in Block, Base(t) PROVE Base(t)'
  BY <1>1, <1>4, BaseKept DEF Base, Unfailed
<1>5. abc.mostWork # NoBlock => ~ WorseNow(abc.mostWork, abc.starting)
  BY <1>3 DEF ProgressOK
<1>6. pc' = "out" => ~ WorseNow(tip', abc.starting)
  BY <1>1 DEF TipTooBad
<1> QED BY <1>1, <1>2, <1>3, <1>4, <1>5, <1>6, ProgressHeld

\* Every step of the considered scenarios keeps ProgressOK.
LEMMA StepProgress ==
    ASSUME SetFacts, Considered, IInv, IInv', CallsOK, MarksOK, ProgressOK, [Next]_vars
    PROVE  ProgressOK'
<1>1. ASSUME NEW b \in Block, AcceptBlockHeader(b) PROVE ProgressOK'
  <2>1. /\ CanEnter
        /\ UNCHANGED <<linked, failed, candidates, tip, nSequenceId, address, verdict, scenario, pc, inv>>
    BY <1>1 DEF AcceptBlockHeader, received, flags, failed, fixed, thread
  <2>2. ASSUME NEW t \in Block, Base(t) PROVE Base(t)'
    BY <2>1, <2>2, BaseKept DEF Base, Unfailed
  <2> QED BY <2>1, <2>2, ProgressOthers
<1>2. CASE ActivateBestChain \/ \E b \in Block : InvalidateBlock(b)
  <2>1. /\ pc = "idle" /\ pc' \in {"while", "scan"}
        /\ UNCHANGED <<linked, failed, candidates, tip, nSequenceId, address, verdict>>
    BY <1>2 DEF ActivateBestChain, InvalidateBlock, abcUnchanged, received, flags, failed, fixed
  <2>2. Unlocked' /\ ~ Invalidating
    BY <2>1 DEF Unlocked, Holds_cs_main, Invalidating
  <2> QED BY <2>1, <2>2, ProgressFree
<1>3. CASE Release_cs_main \/ SystemError
  <2>1. /\ pc \in {"out", "disconnect", "connect"} /\ pc' \in {"while", "idle"}
        /\ UNCHANGED <<linked, failed, candidates, tip, nSequenceId, address, verdict>>
    BY <1>3 DEF Release_cs_main, SystemError, abcUnchanged, received, flags, failed, fixed
  <2>2. Unlocked' /\ Holds_cs_main
    BY <2>1 DEF Unlocked, Holds_cs_main
  <2> QED BY <2>1, <2>2, ProgressFree
<1>4. CASE CollectHeaders \/ LeaveLoop \/ CheckDuringInvalidate
  <2>1. /\ Invalidating' /\ Unlocked'
        /\ UNCHANGED <<linked, failed, candidates, tip, nSequenceId, address, verdict, scenario>>
    BY <1>4 DEF CollectHeaders, LeaveLoop, CheckDuringInvalidate, Invalidating, Unlocked, Holds_cs_main,
                received, flags, failed, fixed
  <2>2. inv'.was_in_chain = inv.was_in_chain
    <3>1. CASE CollectHeaders
      <4> DEFINE H == {c \in (index \ Chain[tip]) \ failed : ~ WorseNow(c, pprev[inv.pindex])}
      <4>1. inv' = [inv EXCEPT !.headers = H] /\ ThreadTypes
        BY <3>1 DEF CollectHeaders, IInv
      <4> HIDE DEF H
      <4> QED BY <4>1 DEF ThreadTypes
    <3>2. CASE LeaveLoop \/ CheckDuringInvalidate
      BY <3>2 DEF LeaveLoop, CheckDuringInvalidate
    <3> QED BY <1>4, <3>1, <3>2
  <2> QED BY <2>1, <2>2, ProgressFree
<1>5. CASE DisconnectInvalidFails
  <2>1. /\ pc = "walk" /\ pc' = "idle" /\ calls.error < scenario.error
        /\ UNCHANGED <<linked, failed, candidates, tip, nSequenceId, address, verdict>>
    BY <1>5 DEF DisconnectInvalidFails, received, flags, failed, fixed
  <2>2. scenario.quiet
    <3>1. calls.invalidate > 0 /\ calls.invalidate <= scenario.invalidate
      BY <2>1 DEF CallsOK, Invalidating
    <3>2. /\ calls.invalidate \in Nat /\ calls.error \in Nat /\ scenario \in Scenarios
          /\ scenario.invalidate \in Nat /\ scenario.error \in Nat
      BY StateFacts, ChainstateAssumption DEF NumbersOK, Scenario
    <3>3. scenario.invalidate # 0 /\ scenario.error # 0
      BY <2>1, <3>1, <3>2, SMTT(40)
    <3> QED BY <3>2, <3>3 DEF Considered, NoCutShort
  <2>3. Unlocked'
    BY <2>1 DEF Unlocked, Holds_cs_main
  <2> QED BY <2>1, <2>2, <2>3, ProgressFree
<1>6. CASE Interrupt \/ UNCHANGED vars
  <2>1. UNCHANGED <<linked, failed, candidates, tip, nSequenceId, address, verdict, scenario, pc, abc, inv>>
    BY <1>6 DEF Interrupt, vars, received, flags, failed, fixed, thread
  <2>2. ASSUME NEW t \in Block, Base(t) PROVE Base(t)'
    BY <2>1, <2>2, BaseKept DEF Base, Unfailed
  <2>3. \A x, y : WorseNow(x, y) <=> Worse(nSequenceId', address', x, y)
    BY <2>1 DEF WorseNow
  <2> QED BY <2>1, <2>2 DEF ProgressOK, Unlocked, Holds_cs_main, Invalidating, WorseNow
<1>7. Considered => NoCutShort
  BY DEF Considered
<1> QED BY <1>1, <1>2, <1>3, <1>4, <1>5, <1>6, AcceptBlockProgress, PreciousBlockProgress, ResetProgress,
           OuterLoopProgress, InnerLoopProgress, DisconnectTipProgress, ConnectTipProgress, LoopOrLeaveProgress,
           DisconnectInvalidProgress, MarkInvalidProgress, RestartProgress DEF Next, ChainstateStep

\* What holds in all states of the considered scenarios
LEMMA InitProgress ==
    ASSUME SetFacts, Init
    PROVE  CallsOK /\ MarksOK /\ ProgressOK
<1>1. IInv
  BY InitKeeps
<1>2. /\ linked = {Genesis} /\ candidates = {Genesis} /\ tip = Genesis /\ pc = "idle" /\ failed = {}
      /\ ~ Holds_cs_main /\ ~ Invalidating /\ Genesis \in Block /\ address \in Addresses /\ scenario \in Scenarios
  BY BlockTreeAssumption DEF Init, failed, Holds_cs_main, Invalidating
<1>3. CallsOK
  <2>1. scenario.invalidate \in Nat /\ scenario.precious \in Nat /\ scenario.error \in Nat
    BY <1>2, ChainstateAssumption DEF Scenario
  <2>2. \A b \in Block : nSequenceId[b] >= -1
    <3>1. nSequenceId = [b \in Block |-> IF b = Genesis THEN 1 ELSE 0]
      BY DEF Init
    <3>2. \A b \in Block : nSequenceId[b] = 0 \/ nSequenceId[b] = 1
      BY <3>1
    <3>3. 0 >= -1 /\ 1 >= -1
      BY SMTT(40)
    <3> QED BY <3>2, <3>3
  <2>3. /\ calls.invalidate = 0 /\ calls.precious = 0 /\ calls.error = 0 /\ nBlockReverseSequenceId = -1
    BY DEF Init
  <2> QED BY <1>2, <2>1, <2>2, <2>3, SMTT(40) DEF CallsOK
<1>4. MarksOK
  BY <1>2 DEF MarksOK
<1>5. Base(Genesis)
  <2>1. Unfailed(tip) /\ Connectable(tip) /\ NumbersOK
    BY <1>1 DEF IInv
  <2>2. ~ WorseNow(Genesis, Genesis)
    BY <1>2, <2>1, NowOrder
  <2> QED BY <1>2, <2>1, <2>2 DEF Base, Complete
<1>6. ProgressOK
  BY <1>2, <1>5 DEF ProgressOK
<1> QED BY <1>3, <1>4, <1>6

-----------------------------------------------------------------------------
(* What blockTip says                                                      *)

\* Steps of other threads, and those that set m_interrupt
LEMMA ToldOthers ==
    ASSUME ToldOK, UNCHANGED <<tip, pc, abc, inv, heard>>, interrupt \/ calls.error # 0 => interrupt' \/ calls'.error # 0
    PROVE  ToldOK'
  BY DEF ToldOK, Holds_cs_main, Invalidating

\* Release_cs_main leaves blockTip unsent only if the tip is where it was.
LEMMA ReleaseTold ==
    ASSUME SetFacts, IInv, ProgressOK, ToldOK, Release_cs_main
    PROVE  ToldOK'
<1>1. /\ pc = "out" /\ UNCHANGED <<tip, interrupt, calls>> /\ tip \in Block /\ NumbersOK
      /\ abc.starting \in Block /\ heard \in [seen : MaybeBlock, told : MaybeBlock] /\ pc' \in {"idle", "while"}
  BY StateFacts DEF Release_cs_main, abcUnchanged, IInv, AbcOK, Holds_cs_main, NumbersOK
<1>2. ASSUME ~ interrupt, calls.error = 0 PROVE heard'.told = tip
  <2>1. heard.told = abc.starting
    BY <1>1, <1>2 DEF ToldOK, Holds_cs_main
  <2>2. CASE ~ abc.connected
    BY <1>1, <2>1, <2>2 DEF ToldOK, Release_cs_main
  <2>3. CASE abc.connected
    <3>1. abc.newTip = tip
      BY <1>1, <2>3 DEF ToldOK
    <3>2. heard' = [heard EXCEPT !.told = IF FindFork(tip, abc.starting) = abc.newTip THEN @ ELSE abc.newTip]
      BY <2>3 DEF Release_cs_main
    <3>3. heard'.told = IF FindFork(tip, abc.starting) = tip THEN heard.told ELSE tip
      BY <1>1, <3>1, <3>2
    <3>4. ASSUME FindFork(tip, abc.starting) = tip PROVE tip = abc.starting
      <4>1. tip \in Chain[abc.starting]
        BY <1>1, <3>4, Fork
      <4>2. ~ WorseNow(tip, abc.starting)
        BY <1>1 DEF ProgressOK
      <4> QED BY <1>1, <4>1, <4>2, NowOrder
    <3> QED BY <2>1, <3>3, <3>4
  <2> QED BY <2>2, <2>3
<1> QED BY <1>1, <1>2 DEF ToldOK, Holds_cs_main, Invalidating

\* Every step keeps ToldOK.
LEMMA StepTold ==
    ASSUME SetFacts, IInv, ProgressOK, ToldOK, [Next]_vars
    PROVE  ToldOK'
<1>0. /\ ThreadTypes /\ tip \in Block /\ heard \in [seen : MaybeBlock, told : MaybeBlock]
      /\ calls \in [invalidate : Nat, precious : Nat, reset : Nat, error : Nat, restart : Nat]
  BY StateFacts DEF IInv, NumbersOK
<1>1. CASE \/ \E b \in Block : AcceptBlockHeader(b) \/ PreciousBlock(b) \/ ResetBlockFailureFlags(b)
           \/ \E b \in Block, fRequested \in BOOLEAN : AcceptBlock(b, fRequested)
           \/ Interrupt \/ UNCHANGED vars
  <2>1. UNCHANGED <<tip, pc, abc, inv, heard>>
    BY <1>1 DEF AcceptBlockHeader, PreciousBlock, ResetBlockFailureFlags, AcceptBlock, Interrupt, thread, vars
  <2>2. /\ \/ UNCHANGED calls \/ calls' = [calls EXCEPT !.precious = @ + 1]
           \/ calls' = [calls EXCEPT !.reset = @ + 1]
        /\ UNCHANGED interrupt \/ interrupt' = TRUE
    BY <1>1 DEF AcceptBlockHeader, PreciousBlock, ResetBlockFailureFlags, AcceptBlock, Interrupt, vars
  <2>3. calls'.error = calls.error
    BY <1>0, <2>2
  <2> QED BY <2>1, <2>2, <2>3, ToldOthers, SMTT(40)
<1>2. CASE ActivateBestChain
  <2>1. pc = "idle" /\ pc' = "while" /\ UNCHANGED <<tip, interrupt, calls, heard>>
    BY <1>2 DEF ActivateBestChain, abcUnchanged
  <2> QED BY <2>1 DEF ToldOK, Holds_cs_main, Invalidating
<1>3. CASE OuterLoop
  <2>1. pc = "while" /\ UNCHANGED <<tip, interrupt, calls, heard>>
    BY <1>3 DEF OuterLoop, abcUnchanged
  <2>2. CASE LeaveOuterLoop
    <3>1. pc' = "idle"
      BY <1>3, <2>2 DEF OuterLoop
    <3> QED BY <2>1, <3>1 DEF ToldOK, Holds_cs_main, Invalidating
  <2>3. CASE ~ LeaveOuterLoop
    <3>1. pc' = "find" /\ abc' = [abc EXCEPT !.starting = tip, !.connected = FALSE]
      BY <1>3, <2>3 DEF OuterLoop
    <3>2. abc'.starting = tip /\ abc'.connected = FALSE
      BY <1>0, <3>1 DEF ThreadTypes
    <3> QED BY <2>1, <3>1, <3>2 DEF ToldOK, Holds_cs_main, Invalidating
  <2> QED BY <2>2, <2>3
<1>4. CASE InnerLoop
  <2>1. /\ pc = "find" /\ pc' \in {"find", "out", "disconnect"} /\ UNCHANGED <<tip, interrupt, calls, heard>>
        /\ \/ UNCHANGED abc
           \/ abc' = [abc EXCEPT !.mostWork = BestCandidate]
           \/ abc' = [abc EXCEPT !.old = tip, !.front = NoBlock]
    BY <1>4 DEF InnerLoop, FindMostWorkChain
  <2>2. abc'.starting = abc.starting /\ abc'.connected = abc.connected /\ abc'.newTip = abc.newTip
    BY <1>0, <2>1 DEF ThreadTypes
  <2> QED BY <2>1, <2>2 DEF ToldOK, Holds_cs_main, Invalidating
<1>5. CASE DisconnectTip
  <2>1. pc = "disconnect" /\ pc' \in {"disconnect", "connect", "loop"} /\ UNCHANGED <<interrupt, calls, abc>>
    BY <1>5 DEF DisconnectTip, abcUnchanged
  <2>2. heard'.told = heard.told
    BY <1>0, <1>5 DEF DisconnectTip, BlockDisconnected
  <2> QED BY <2>1, <2>2 DEF ToldOK, Holds_cs_main, Invalidating
<1>6. CASE ConnectTip
  <2>1. /\ pc = "connect" /\ pc' \in {"connect", "loop"} /\ UNCHANGED <<interrupt, calls, heard>>
        /\ abc' = [abc EXCEPT !.front = Front] \/ abc' = [abc EXCEPT !.mostWork = NoBlock]
    BY <1>6 DEF ConnectTip, abcUnchanged
  <2>2. abc'.starting = abc.starting
    BY <1>0, <2>1 DEF ThreadTypes
  <2> QED BY <2>1, <2>2 DEF ToldOK, Holds_cs_main, Invalidating
<1>7. CASE LoopOrLeave
  <2>1. /\ pc = "loop" /\ pc' \in {"find", "out"} /\ UNCHANGED <<tip, interrupt, calls>>
        /\ abc' = [abc EXCEPT !.connected = TRUE, !.newTip = tip, !.old = NoBlock, !.front = NoBlock]
    BY <1>7 DEF LoopOrLeave, abcUnchanged
  <2>2. heard'.told = heard.told
    BY <1>0, <1>7 DEF LoopOrLeave
  <2>3. abc'.starting = abc.starting /\ abc'.connected = TRUE /\ abc'.newTip = tip
    BY <1>0, <2>1 DEF ThreadTypes
  <2> QED BY <2>1, <2>2, <2>3 DEF ToldOK, Holds_cs_main, Invalidating
<1>8. CASE Release_cs_main
  BY <1>8, ReleaseTold
<1>9. CASE SystemError \/ DisconnectInvalidFails
  <2>1. pc' = "idle" /\ calls' = [calls EXCEPT !.error = @ + 1]
    BY <1>9 DEF SystemError, DisconnectInvalidFails
  <2>2. calls'.error # 0
    BY <1>0, <2>1, SMTT(40)
  <2> QED BY <2>1, <2>2 DEF ToldOK
<1>10. CASE \E b \in Block : InvalidateBlock(b)
  <2>1. pc = "idle" /\ pc' = "scan" /\ UNCHANGED <<tip, interrupt, heard>> /\ calls'.error = calls.error
    BY <1>0, <1>10 DEF InvalidateBlock
  <2> QED BY <2>1 DEF ToldOK, Holds_cs_main, Invalidating
<1>11. CASE CollectHeaders \/ LeaveLoop \/ CheckDuringInvalidate
  <2>1. pc \in {"scan", "walk", "check"} /\ pc' \in {"walk", "check", "mark"} /\ UNCHANGED <<tip, interrupt, heard, calls>>
    BY <1>11 DEF CollectHeaders, LeaveLoop, CheckDuringInvalidate
  <2>2. inv'.was_in_chain = inv.was_in_chain
    <3>1. CASE CollectHeaders
      <4> DEFINE H == {c \in (index \ Chain[tip]) \ failed : ~ WorseNow(c, pprev[inv.pindex])}
      <4>1. inv' = [inv EXCEPT !.headers = H]
        BY <3>1 DEF CollectHeaders
      <4> HIDE DEF H
      <4> QED BY <1>0, <4>1 DEF ThreadTypes
    <3>2. CASE LeaveLoop \/ CheckDuringInvalidate
      BY <3>2 DEF LeaveLoop, CheckDuringInvalidate
    <3> QED BY <1>11, <3>1, <3>2
  <2> QED BY <2>1, <2>2 DEF ToldOK, Holds_cs_main, Invalidating
<1>12. CASE DisconnectInvalid
  <2>1. pc = "walk" /\ pc' = "walk"
    BY <1>12 DEF DisconnectInvalid
  <2>2. inv' = [inv EXCEPT !.to_mark_failed = tip, !.was_in_chain = TRUE,
                 !.headers = @ \ {c \in inv.headers : nChainWork[c] >= nChainWork[pprev[tip]] /\ tip \in Chain[c]}]
    BY <1>12, WalkBelow
  <2>3. inv'.was_in_chain = TRUE
    <3> DEFINE B == {c \in inv.headers : nChainWork[c] >= nChainWork[pprev[tip]] /\ tip \in Chain[c]}
    <3>1. inv' = [inv EXCEPT !.to_mark_failed = tip, !.was_in_chain = TRUE, !.headers = @ \ B]
      BY <2>2
    <3> HIDE DEF B
    <3> QED BY <1>0, <3>1 DEF ThreadTypes
  <2> QED BY <2>1, <2>3 DEF ToldOK, Holds_cs_main, Invalidating
<1>13. CASE MarkInvalid
  <2>1. pc = "mark" /\ pc' = "idle" /\ UNCHANGED <<tip, interrupt, calls>> /\ Invalidating
    BY <1>13 DEF MarkInvalid, Invalidating
  <2>2. /\ inv.to_mark_failed \in Block /\ inv.to_mark_failed # Genesis
        /\ inv.was_in_chain => tip = pprev[inv.to_mark_failed]
    BY <2>1, StateFacts DEF IInv, InvOK, SetsOK
  <2>3. inv.to_mark_failed \in Chain[tip] => ~ inv.was_in_chain /\ UNCHANGED heard
    <3>1. inv.was_in_chain => tip \in Chain[inv.to_mark_failed] /\ tip # inv.to_mark_failed
      BY <2>2, ChainBasic, Parent
    <3> QED BY <1>0, <1>13, <2>2, <3>1, ChainEqual DEF MarkInvalid
  <2>4. inv.to_mark_failed \notin Chain[tip] =>
          heard'.told = IF inv.was_in_chain THEN tip ELSE heard.told
    BY <1>0, <1>13, <2>2 DEF MarkInvalid, ReportedTip
  <2> QED BY <2>1, <2>3, <2>4 DEF ToldOK, Holds_cs_main, Invalidating
<1>14. CASE Restart
  <2>1. pc = "idle" /\ UNCHANGED <<pc, tip>> /\ heard' = [seen |-> tip, told |-> tip]
    BY <1>14 DEF Restart, thread
  <2> QED BY <2>1 DEF ToldOK, Holds_cs_main, Invalidating
<1> QED BY <1>1, <1>2, <1>3, <1>4, <1>5, <1>6, <1>7, <1>8, <1>9, <1>10, <1>11, <1>12, <1>13, <1>14 DEF Next, ChainstateStep

-----------------------------------------------------------------------------
(* The theorems                                                            *)

INSTANCE FiniteSetTheorems

\* The libraries have what is used of them.
LEMMA SetFactsHold == SetFacts
<1>1. LeastNumbers
  <2> DEFINE Less == OpToRel(<, Nat)
  <2>1. \A x, y \in Nat : <<y, x>> \in Less <=> y < x
    BY DEF OpToRel
  <2>2. IsWellFoundedOn(Less, Nat)
    BY NatLessThanWellFounded
  <2> HIDE DEF Less
  <2>3. ASSUME NEW S \in SUBSET Nat, S # {} PROVE \E x \in S : \A y \in S : x <= y
    <3>1. PICK x \in S : \A y \in S : ~ (<<y, x>> \in Less)
      BY <2>2, <2>3, WFMin
    <3>2. ASSUME NEW y \in S PROVE x <= y
      <4>1. x \in Nat /\ y \in Nat /\ ~ (y < x)
        BY <2>1, <3>1
      <4> QED BY <4>1, SMTT(40)
    <3> QED BY <3>2
  <2> QED BY <2>3 DEF LeastNumbers
<1>2. FiniteSubsets
  BY FS_CardinalityType, FS_Subset DEF FiniteSubsets
<1>3. FiniteEmpty /\ FiniteSingletons
  BY FS_EmptySet, FS_Singleton DEF FiniteEmpty, FiniteSingletons
<1>4. FiniteAdd /\ FiniteRemove
  BY FS_AddElement, FS_RemoveElement DEF FiniteAdd, FiniteRemove
<1>5. FiniteUnions /\ FiniteUNION
  BY FS_Union, FS_UNION DEF FiniteUnions, FiniteUNION
<1>6. FiniteProducts /\ FiniteIntervals
  BY FS_Product, FS_Interval DEF FiniteProducts, FiniteIntervals
<1>7. FiniteImages
  <2> SUFFICES ASSUME NEW S, NEW T, NEW f \in [S -> T], IsFiniteSet(S),
                      \A y \in T : \E x \in S : f[x] = y
               PROVE  /\ IsFiniteSet(T)
                      /\ (\A x, y \in S : f[x] = f[y] => x = y) => Cardinality(T) = Cardinality(S)
    BY DEF FiniteImages
  <2>1. f \in Surjection(S, T)
    BY DEF Surjection
  <2>2. (\A x, y \in S : f[x] = f[y] => x = y) => f \in Injection(S, T)
    BY DEF Injection, IsInjective
  <2> QED BY <2>1, <2>2, FS_Surjection
<1> QED BY <1>1, <1>2, <1>3, <1>4, <1>5, <1>6, <1>7 DEF SetFacts

\* The index is a tree in which every linked block has a linked chain, and the chain
\* of the tip and of the block ActivateBestChain is connecting hold no failed block.
THEOREM StateIsConsistent == Spec => []IInv
<1>1. Init => IInv
  BY InitKeeps, SetFactsHold
<1>2. IInv /\ [Next]_vars => IInv'
  BY StepKeeps, SetFactsHold
<1> QED BY <1>1, <1>2, PTL DEF Spec

\* FindMostWorkChain, ConnectTip and InvalidateBlock keep failed blocks off the active
\* chain, and the mostWork that ActivateBestChain keeps while it does not hold cs_main
\* stays usable, whatever arrives and however calls interleave.
THEOREM ActiveChainStaysValid == Spec => []ActiveChainValid
<1>1. IInv => ActiveChainValid
  <2> SUFFICES ASSUME IInv PROVE ActiveChainValid
    OBVIOUS
  <2>1. linked \subseteq data
    BY StateFacts, SetFactsHold DEF SetsOK
  <2> QED BY <2>1, StateFacts, SetFactsHold DEF ActiveChainValid
<1> QED BY <1>1, StateIsConsistent, PTL

\* The members keep their types, and the index the parent of every header.
THEOREM TypesAreKept == Spec => []TypeOK
<1>1. IInv => TypeOK
  BY DEF IInv, SetsOK, HeadersOK, NumbersOK, ThreadTypes, TypeOK
<1> QED BY <1>1, StateIsConsistent, PTL

\* This half of ListenerFollows needs no assumption on the calls.
THEOREM ListenersSeeTheTip == Spec => []ListenerSees
<1>1. Init => SeenOK
  BY SMTT(40) DEF Init, SeenOK
<1>2. IInv /\ SeenOK /\ [Next]_vars => SeenOK'
  BY StepSeen, SetFactsHold
<1>3. SeenOK => ListenerSees
  BY DEF SeenOK, ListenerSees, Unlocked, Holds_cs_main
<1> QED BY <1>1, <1>2, <1>3, StateIsConsistent, PTL DEF Spec

\* The invariant for ForwardProgress and for ListenerFollows
LEMMA ProgressIsKept == Considered => (Spec => [](IInv /\ CallsOK /\ MarksOK /\ ProgressOK))
<1> SUFFICES ASSUME Considered PROVE Spec => [](IInv /\ CallsOK /\ MarksOK /\ ProgressOK)
  OBVIOUS
<1>1. Init => IInv /\ CallsOK /\ MarksOK /\ ProgressOK
  BY InitKeeps, InitProgress, SetFactsHold
<1>2. IInv /\ CallsOK /\ MarksOK /\ ProgressOK /\ [Next]_vars => (IInv /\ CallsOK /\ MarksOK /\ ProgressOK)'
  <2> SUFFICES ASSUME IInv, CallsOK, MarksOK, ProgressOK, [Next]_vars
               PROVE  (IInv /\ CallsOK /\ MarksOK /\ ProgressOK)'
    OBVIOUS
  <2>1. IInv'
    BY StepKeeps, SetFactsHold
  <2>2. CallsOK'
    BY StepCalls, SetFactsHold
  <2>3. MarksOK'
    BY <2>1, StepMarks, SetFactsHold DEF Considered
  <2>4. ProgressOK'
    BY <2>1, StepProgress, SetFactsHold
  <2> QED BY <2>1, <2>2, <2>3, <2>4
<1> QED BY <1>1, <1>2, PTL DEF Spec

\* ActivateBestChain never gives up cs_main with a worse tip than it took it with, in the
\* scenarios considered: the loop around ActivateBestChainStep goes on until the
\* invalid blocks it meets have led it back to a chain that is no worse.
THEOREM ProgressIsMade == Considered => (Spec => []ForwardProgress)
<1>1. ProgressOK => ForwardProgress
  BY DEF ProgressOK, ForwardProgress
<1> QED BY <1>1, ProgressIsKept, PTL

\* Listeners follow the tip, in the scenarios considered: with every step of
\* ActivateBestChain and InvalidateBlock those of BlockConnected and BlockDisconnected,
\* and after the calls have returned those of blockTip.
THEOREM ListenersFollow == Considered => (Spec => []ListenerFollows)
<1> SUFFICES ASSUME Considered PROVE Spec => []ListenerFollows
  OBVIOUS
<1>1. Init => ToldOK
  BY SMTT(40) DEF Init, ToldOK, Holds_cs_main, Invalidating
<1>2. IInv /\ ProgressOK /\ ToldOK /\ [Next]_vars => ToldOK'
  BY StepTold, SetFactsHold
<1>3. ToldOK /\ ListenerSees => ListenerFollows
  BY DEF ToldOK, ListenerSees, ListenerFollows
<1>4. Spec => [](IInv /\ CallsOK /\ MarksOK /\ ProgressOK)
  BY ProgressIsKept
<1> QED BY <1>1, <1>2, <1>3, <1>4, ListenersSeeTheTip, PTL DEF Spec
=============================================================================
