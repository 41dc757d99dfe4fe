--------------------------- MODULE RecoveryProofs ---------------------------
(***************************************************************************)
(* For every tree of blocks and every set of outputs: what a flush leaves  *)
(* of the coins database when it is interrupted, however often, is what    *)
(* ReplayBlocks needs; flush, crash and replay implement DurableChain; and *)
(* the block index database never refers to a block that a power failure   *)
(* would lose.                                                             *)
(*                                                                         *)
(* The theorems on coins are for a coins database that refuses no write.   *)
(***************************************************************************)
EXTENDS Recovery, FiniteSetFacts, TLAPS

Flushing == {"enter", "files", "index", "unlink", "coins", "batch"}

\* Each coin is the one of a or the one of b.
Between(c, a, b) == \A o \in Outpoint : c[o] \in {UtxoOf(a)[o], UtxoOf(b)[o]}

\* A state of the coins database: the coins of one block, or of two
DatabaseOK(d) ==
    IF d.heads = <<>> THEN d.coins = UtxoOf(d.best)
                      ELSE d.best = NoBlock /\ Between(d.coins, d.heads[1], d.heads[2])

\* The undo record of a block restores the coins that it spends.
UndoOK ==
    \A b \in Block \ {Genesis} : "undo" \in files[b] =>
        \A o \in vin[b] : undo[b][o] = Utxo[pprev[b]][o]

\* Outside S the cache is what the database is.
CleanBut(S) == \A o \in Outpoint \ S : coins[o] = coinsDB.coins[o]

\* The types, by group, with what they depend on: an entry of the index is a header
\* at least.
IndexTyped ==
    /\ status \in [Block -> SUBSET Flag] /\ indexDB \in [Block -> SUBSET Flag]
    /\ \A b \in Block : status[b] # {} => "header" \in status[b]
    /\ \A b \in Block : indexDB[b] # {} => "header" \in indexDB[b]
    /\ dirtyIndex \in SUBSET {b \in Block : "header" \in status[b]}

FilesTyped ==
    /\ files \in [Block -> SUBSET Flag] /\ synced \in [Block -> SUBSET Flag]
    /\ \A b \in Block : synced[b] \subseteq files[b]
    /\ nFile \in [Block -> 0..MaxFile] /\ lastFile \in 0..MaxFile
    /\ cursor \in [file_num : 0..MaxFile, undo_height : {nHeight[b] : b \in Block}]
    /\ undo \in [Block -> Coins]

CoinsTyped ==
    /\ coins \in Coins /\ best \in MaybeBlock /\ dirtyCoins \in SUBSET Outpoint
    /\ coinsDB \in CoinsDB /\ survivor \in CoinsDB
    /\ batch \in SUBSET Outpoint /\ at \in MaybeBlock

FlowTyped ==
    /\ tip \in MaybeBlock
    /\ pc \in Running \cup Starting \cup {"down", "failed"}
    /\ job \in [mode : Mode, then : MaybeBlock, erase : BOOLEAN]
    /\ toPrune \in SUBSET (0..MaxFile)
    /\ crashes \in 0..MaxCrash

\* What a place in the code takes for granted
Places ==
    /\ pc \in {"batch", "rewrite"} => best \in Block
    /\ pc \in {"rollback", "forward"} => at \in Block
    /\ pc \in {"rollback", "forward", "rewrite"} => coinsDB.heads # <<>>
    /\ pc = "forward" => at \in Chain[New]
    /\ pc = "load" => coinsDB.heads = <<>>

Typed == IndexTyped /\ FilesTyped /\ CoinsTyped /\ FlowTyped /\ Places

\* The cache and the database, by where the thread is
CoinsOK ==
    /\ DatabaseOK(coinsDB) /\ DatabaseOK(survivor)
    /\ pc \in Running => coins = UtxoOf(best)
    /\ pc = "run" => tip = best
    /\ pc \in Flushing /\ job.mode # "ALWAYS" => job.then = best
    /\ pc \in Running \ {"batch"} => coinsDB.heads = <<>> /\ CleanBut(dirtyCoins)
    /\ pc \in {"batch", "rewrite"} =>
           /\ coins = UtxoOf(best) /\ CleanBut(batch)
           /\ coinsDB.heads # <<>> => coinsDB.heads[1] = best
    /\ pc \notin Running => Committed(survivor) = Committed(coinsDB)
    /\ pc = "replay" => coins = coinsDB.coins /\ dirtyCoins = {}
    /\ pc \in {"rollback", "forward"} => Between(coins, at, New) /\ CleanBut(dirtyCoins)

\* The block files.  Empty of blocks: the index in memory finds no block in the file.
\* Forgotten: the index in memory has pruned the block, the database not yet.
HoldsNone(f) == \A c \in Block : "data" \in status[c] => nFile[c] # f

Forgotten(b) == "data" \in indexDB[b] /\ "data" \notin status[b]

\* A block that the index in memory knows of can be read, and is synced unless its file
\* is the one being written.
Readable(b) ==
    /\ "data" \in files[b]
    /\ "data" \in synced[b] \/ nFile[b] = cursor.file_num

\* A forgotten block: its file has no other, and the entry is still to be written, or
\* the write has failed and the file stays.
Pending(b) ==
    /\ HoldsNone(nFile[b])
    /\ b \in dirtyIndex \/ (nFile[b] \notin toPrune /\ (job.mode = "ALWAYS" \/ pc = "fatal"))

FilesOK ==
    /\ IndexRefersToBlocks
    /\ pc # "down" => \A b \in Block : "data" \in status[b] => Readable(b)
    /\ pc = "index" => \A b \in Block : "data" \in status[b] => "data" \in synced[b]
    /\ pc \in Starting \cup {"run"} \/ (pc = "enter" /\ job.mode # "ALWAYS") =>
           \A b \in Block : ~ Forgotten(b)
    /\ pc \in Flushing \cup {"fatal"} => \A b \in Block : Forgotten(b) => Pending(b)
    /\ pc \in {"unlink", "coins", "batch"} => dirtyIndex = {}
    /\ pc \in {"files", "index", "unlink"} => \A f \in toPrune : HoldsNone(f)
    /\ pc \notin {"files", "index", "unlink"} => toPrune = {}

-----------------------------------------------------------------------------
(* Lemmas on the tree of blocks                                            *)

\* Where a proof names no prover, it is Zenon, which is given enough time.
USE ZenonT(40)

\* A set of numbers that is not empty has a least element.
LEMMA LeastElement ==
    ASSUME SetFacts, NEW S \in SUBSET Nat, S # {}
    PROVE  \E x \in S : \A y \in S : x <= y
BY DEF SetFacts, LeastNumbers

\* The parent of a block that is not the genesis block.
LEMMA Parent ==
    ASSUME NEW b \in Block, b # Genesis
    PROVE  /\ pprev[b] \in Block /\ pprev[b] # b
           /\ nHeight[b] = nHeight[pprev[b]] + 1 /\ nChainWork[b] > nChainWork[pprev[b]]
<1>1. pprev[b] \in Block /\ nHeight[b] = nHeight[pprev[b]] + 1 /\ nChainWork[b] > nChainWork[pprev[b]]
  BY BlockTreeAssumption
<1>2. nHeight[b] \in Nat /\ nHeight[pprev[b]] \in Nat
  BY <1>1, BlockTreeAssumption
<1>3. pprev[b] # b
  <2> SUFFICES ASSUME pprev[b] = b PROVE FALSE
    OBVIOUS
  <2>1. nHeight[b] = nHeight[b] + 1
    BY <1>1
  <2> QED BY <1>2, <2>1, SMTT(40)
<1> QED BY <1>1, <1>3

\* The types of the tree
LEMMA TreeTypes ==
    /\ Genesis \in Block /\ NoBlock \notin Block
    /\ \A b \in Block : nHeight[b] \in Nat /\ nChainWork[b] \in Nat
BY BlockTreeAssumption

\* The chain of a block holds the block and, with a block, its parent.
LEMMA ChainBasic ==
    ASSUME NEW b \in Block
    PROVE  /\ Chain[b] \subseteq Block /\ b \in Chain[b]
           /\ \A c \in Chain[b] : c # Genesis => pprev[c] \in Chain[b]
<1>1. Chain[b] = {a \in Block : \A S \in SUBSET Block : b \in S /\ HasParents(S) => a \in S}
  BY DEF Chain
<1>2. ASSUME NEW c \in Chain[b], c # Genesis PROVE pprev[c] \in Chain[b]
  <2>1. pprev[c] \in Block
    BY <1>1, <1>2, Parent
  <2>2. ASSUME NEW S \in SUBSET Block, b \in S, HasParents(S) PROVE pprev[c] \in S
    <3>1. c \in S
      BY <1>1, <2>2
    <3> QED BY <1>2, <2>2, <3>1 DEF HasParents
  <2> QED BY <1>1, <2>1, <2>2
<1> QED BY <1>1, <1>2

\* It is the least such set.
LEMMA ChainLeast ==
    ASSUME NEW b \in Block, NEW S \in SUBSET Block, b \in S,
           \A c \in S : c # Genesis => pprev[c] \in S
    PROVE  Chain[b] \subseteq S
<1>1. HasParents(S)
  BY DEF HasParents
<1> QED BY <1>1 DEF Chain

\* The chains of the blocks of a chain are part of it.
LEMMA ChainTransitive ==
    ASSUME NEW b \in Block, NEW a \in Chain[b]
    PROVE  a \in Block /\ Chain[a] \subseteq Chain[b]
<1>1. a \in Block /\ Chain[b] \in SUBSET Block /\ \A c \in Chain[b] : c # Genesis => pprev[c] \in Chain[b]
  BY ChainBasic
<1> QED BY <1>1, ChainLeast

\* The chain of a block is that of its parent and the block.
LEMMA ChainStep ==
    ASSUME NEW b \in Block, b # Genesis
    PROVE  Chain[b] = Chain[pprev[b]] \cup {b}
<1>1. pprev[b] \in Block
  BY Parent
<1>2. /\ Chain[pprev[b]] \subseteq Block /\ pprev[b] \in Chain[pprev[b]]
      /\ \A c \in Chain[pprev[b]] : c # Genesis => pprev[c] \in Chain[pprev[b]]
  BY <1>1, ChainBasic
<1> DEFINE S == Chain[pprev[b]] \cup {b}
<1>3. S \in SUBSET Block /\ b \in S /\ \A c \in S : c # Genesis => pprev[c] \in S
  BY <1>2
<1>4. Chain[b] \subseteq S
  <2> HIDE DEF S
  <2> QED BY <1>3, ChainLeast
<1>5. b \in Chain[b] /\ pprev[b] \in Chain[b]
  BY ChainBasic
<1>6. Chain[pprev[b]] \subseteq Chain[b]
  BY <1>5, ChainTransitive
<1> QED BY <1>4, <1>5, <1>6

\* The other blocks of a chain are lower and have less work.
LEMMA ChainLower ==
    ASSUME NEW b \in Block, NEW a \in Chain[b], a # b
    PROVE  nHeight[a] < nHeight[b] /\ nChainWork[a] < nChainWork[b]
<1> DEFINE S == {b} \cup {c \in Block : nHeight[c] < nHeight[b] /\ nChainWork[c] < nChainWork[b]}
<1>1. S \in SUBSET Block /\ b \in S
  OBVIOUS
<1>2. ASSUME NEW c \in S, c # Genesis PROVE pprev[c] \in S
  <2>1. c \in Block /\ pprev[c] \in Block
    BY <1>2, Parent
  <2>2. /\ nHeight[c] \in Nat /\ nHeight[b] \in Nat /\ nHeight[pprev[c]] \in Nat
        /\ nChainWork[c] \in Nat /\ nChainWork[b] \in Nat /\ nChainWork[pprev[c]] \in Nat
    BY <2>1, TreeTypes
  <2>3. nHeight[c] = nHeight[pprev[c]] + 1 /\ nChainWork[c] > nChainWork[pprev[c]]
    BY <1>2, <2>1, Parent
  <2>4. nHeight[c] <= nHeight[b] /\ nChainWork[c] <= nChainWork[b]
    BY <2>2, SMTT(40)
  <2>5. nHeight[pprev[c]] < nHeight[b] /\ nChainWork[pprev[c]] < nChainWork[b]
    BY <2>2, <2>3, <2>4, SMTT(40)
  <2> QED BY <2>1, <2>5
<1>3. Chain[b] \subseteq S
  <2> HIDE DEF S
  <2> QED BY <1>1, <1>2, ChainLeast
<1> QED BY <1>3

\* Of two blocks of a chain, one is in the chain of the other.
LEMMA ChainLinear ==
    ASSUME NEW b \in Block, NEW a \in Chain[b], NEW c \in Chain[b]
    PROVE  a \in Chain[c] \/ c \in Chain[a]
<1> DEFINE S == {d \in Chain[b] : a \in Chain[d] \/ d \in Chain[a]}
<1>1. Chain[b] \subseteq Block /\ b \in Chain[b] /\ \A d \in Chain[b] : d # Genesis => pprev[d] \in Chain[b]
  BY ChainBasic
<1>2. S \in SUBSET Block /\ b \in S
  BY <1>1
<1>3. ASSUME NEW d \in S, d # Genesis PROVE pprev[d] \in S
  <2>1. d \in Block /\ a \in Block /\ pprev[d] \in Chain[b]
    BY <1>1, <1>3
  <2>2. CASE d \in Chain[a]
    BY <1>3, <2>1, <2>2, ChainBasic
  <2>3. CASE a \in Chain[d] /\ a # d
    <3>1. a \in Chain[pprev[d]]
      BY <1>3, <2>1, <2>3, ChainStep, SMTT(40)
    <3> QED BY <2>1, <3>1
  <2>4. CASE a = d
    BY <1>3, <2>1, <2>4, ChainBasic
  <2> QED BY <2>2, <2>3, <2>4
<1>4. Chain[b] \subseteq S
  <2> HIDE DEF S
  <2> QED BY <1>2, <1>3, ChainLeast
<1> QED BY <1>4

\* Two blocks of a chain at the same height are the same.
LEMMA ChainHeights ==
    ASSUME NEW b \in Block, NEW a \in Chain[b], NEW c \in Chain[b], nHeight[a] = nHeight[c]
    PROVE  a = c
<1> SUFFICES ASSUME a # c PROVE FALSE
  OBVIOUS
<1>1. a \in Block /\ c \in Block /\ nHeight[a] \in Nat /\ nHeight[c] \in Nat
  BY ChainBasic, TreeTypes
<1>2. a \in Chain[c] \/ c \in Chain[a]
  BY ChainLinear
<1>3. nHeight[a] < nHeight[c] \/ nHeight[c] < nHeight[a]
  BY <1>1, <1>2, ChainLower
<1> QED BY <1>1, <1>3, SMTT(40)

\* A chain has a block at every height up to the top.
LEMMA Ancestor ==
    ASSUME SetFacts, NEW b \in Block, NEW h \in Nat, h <= nHeight[b]
    PROVE  GetAncestor(b, h) \in Chain[b] /\ nHeight[GetAncestor(b, h)] = h
<1> DEFINE C == {c \in Chain[b] : nHeight[c] >= h}
           H == {nHeight[c] : c \in C}
<1>1. Chain[b] \subseteq Block /\ b \in Chain[b] /\ \A d \in Chain[b] : d # Genesis => pprev[d] \in Chain[b]
  BY ChainBasic
<1>2. b \in C /\ C \subseteq Block /\ \A c \in C : nHeight[c] \in Nat
  BY <1>1, TreeTypes
<1>3. H \in SUBSET Nat /\ H # {}
  BY <1>2
<1>4. PICK n \in H : \A m \in H : n <= m
  <2> HIDE DEF H
  <2> QED BY <1>3, LeastElement
<1>5. PICK c \in C : n = nHeight[c]
  OBVIOUS
<1>6. c \in Chain[b] /\ c \in Block /\ nHeight[c] >= h /\ nHeight[c] \in Nat
  BY <1>1, TreeTypes
<1>7. nHeight[c] = h
  <2> SUFFICES ASSUME nHeight[c] > h PROVE FALSE
    BY <1>6, SMTT(40)
  <2>1. c # Genesis
    <3> SUFFICES ASSUME c = Genesis PROVE FALSE
      OBVIOUS
    <3>1. nHeight[c] = 0
      BY BlockTreeAssumption
    <3> QED BY <3>1, SMTT(40)
  <2>2. pprev[c] \in Chain[b] /\ nHeight[c] = nHeight[pprev[c]] + 1 /\ nHeight[pprev[c]] \in Nat
    BY <1>1, <1>6, <2>1, Parent, TreeTypes
  <2>3. nHeight[pprev[c]] >= h
    BY <1>6, <2>2, SMTT(40)
  <2>4. nHeight[pprev[c]] \in H
    BY <2>2, <2>3
  <2>5. nHeight[c] <= nHeight[pprev[c]]
    BY <1>4, <1>5, <2>4
  <2> QED BY <1>6, <2>2, <2>5, SMTT(40)
<1>8. \E a \in Chain[b] : nHeight[a] = h
  BY <1>6, <1>7
<1> HIDE DEF C, H
<1> QED BY <1>8 DEF GetAncestor

\* Every chain begins with the genesis block.
LEMMA GenesisInChain ==
    ASSUME SetFacts, NEW b \in Block
    PROVE  Genesis \in Chain[b]
<1>1. PICK a \in Chain[b] : nHeight[a] = 0
  <2>1. nHeight[b] \in Nat /\ 0 \in Nat /\ 0 <= nHeight[b]
    BY TreeTypes, SMTT(40)
  <2> QED BY <2>1, Ancestor
<1>2. a \in Block
  BY ChainBasic
<1>3. a = Genesis
  <2> SUFFICES ASSUME a # Genesis PROVE FALSE
    OBVIOUS
  <2>1. nHeight[a] = nHeight[pprev[a]] + 1 /\ nHeight[pprev[a]] \in Nat
    BY <1>2, Parent, TreeTypes
  <2> QED BY <1>1, <2>1, SMTT(40)
<1> QED BY <1>3

\* The block ReplayBlocks reads next is a child of the last, on the way to New.
LEMMA NextBlock ==
    ASSUME SetFacts, NEW t \in Block, NEW m \in Block, t \in Chain[m], t # m
    PROVE  /\ GetAncestor(m, nHeight[t] + 1) \in Chain[m] \ {Genesis}
           /\ pprev[GetAncestor(m, nHeight[t] + 1)] = t
           /\ nHeight[GetAncestor(m, nHeight[t] + 1)] = nHeight[t] + 1
<1> DEFINE b == GetAncestor(m, nHeight[t] + 1)
<1>1. nHeight[t] \in Nat /\ nHeight[m] \in Nat /\ nHeight[t] < nHeight[m]
  BY TreeTypes, ChainLower
<1>2. nHeight[t] + 1 \in Nat /\ nHeight[t] + 1 <= nHeight[m]
  BY <1>1, SMTT(40)
<1>3. b \in Chain[m] /\ nHeight[b] = nHeight[t] + 1
  BY <1>2, Ancestor
<1> HIDE DEF b
<1>4. b \in Block /\ b # Genesis
  BY <1>1, <1>3, ChainBasic, BlockTreeAssumption, SMTT(40)
<1>5. pprev[b] \in Chain[m] /\ nHeight[b] = nHeight[pprev[b]] + 1 /\ pprev[b] \in Block
  BY <1>3, <1>4, ChainBasic, Parent
<1>6. nHeight[pprev[b]] = nHeight[t]
  BY <1>1, <1>3, <1>5, TreeTypes, SMTT(40)
<1>7. pprev[b] = t
  BY <1>5, <1>6, ChainHeights
<1> QED BY <1>3, <1>4, <1>7 DEF b

-----------------------------------------------------------------------------
(* The types                                                               *)

\* The types of the constants
LEMMA CoinTypes ==
    /\ Spent \notin Block /\ Empty \in Coins
    /\ \A b \in Block : /\ vin[b] \subseteq Outpoint /\ vout[b] \subseteq Outpoint
                        /\ Touched(b) \subseteq Outpoint /\ Utxo[b] \in Coins
    /\ \A b \in Block, c \in Coins : RollforwardBlock(b, c) \in Coins
    /\ 0 \in {nHeight[b] : b \in Block} /\ MaxFile \in Nat /\ MaxCrash \in Nat
<1>1. /\ Spent \notin Block /\ vin \in [Block -> SUBSET Outpoint] /\ vout \in [Block -> SUBSET Outpoint]
      /\ Utxo \in [Block -> Coins] /\ MaxFile \in Nat /\ MaxCrash \in Nat
  BY RecoveryAssumption DEF Coins
<1>2. Genesis \in Block /\ nHeight[Genesis] = 0
  BY BlockTreeAssumption
<1>3. \A b \in Block : vin[b] \subseteq Outpoint /\ vout[b] \subseteq Outpoint /\ Utxo[b] \in Coins
  BY <1>1
<1>4. \A b \in Block : Touched(b) \subseteq Outpoint
  BY <1>3 DEF Touched
<1>5. \A b \in Block, c \in Coins : RollforwardBlock(b, c) \in Coins
  BY DEF RollforwardBlock, Coins
<1>6. Empty \in Coins
  BY DEF Empty, Coins
<1> QED BY <1>1, <1>2, <1>3, <1>4, <1>5, <1>6

\* What DisconnectBlock makes of a set of coins is one.
LEMMA DisconnectTypes ==
    ASSUME FilesTyped, NEW b \in Block, NEW c \in Coins
    PROVE  DisconnectBlock(b, c) \in Coins
<1>1. undo[b] \in Coins
  BY DEF FilesTyped
<1> QED BY <1>1 DEF DisconnectBlock, Coins

\* FileCommit adds to what is synced, and only what is in the file.
LEMMA CommitTypes ==
    ASSUME FilesTyped, NEW f, NEW kinds, NEW fs \in [Block -> SUBSET Flag]
    PROVE  /\ Commit(f, kinds, fs) \in [Block -> SUBSET Flag]
           /\ \A b \in Block : /\ synced[b] \subseteq Commit(f, kinds, fs)[b]
                               /\ Commit(f, kinds, fs)[b] \subseteq synced[b] \cup fs[b]
<1>1. \A b \in Block : synced[b] \in SUBSET Flag /\ fs[b] \in SUBSET Flag
  BY DEF FilesTyped
<1> QED BY <1>1 DEF Commit

\* The tip from which an interrupted flush began
LEMMA OldTipTypes ==
    ASSUME CoinsTyped
    PROVE  /\ OldTip \in MaybeBlock
           /\ coinsDB.coins \in Coins /\ coinsDB.best \in MaybeBlock
           /\ coinsDB.heads # <<>> => New \in Block /\ coinsDB.heads[2] \in MaybeBlock
           /\ \A S \in SUBSET Outpoint : Written(S) \in Coins
<1>1. coinsDB \in CoinsDB /\ coins \in Coins
  BY DEF CoinsTyped
<1>2. coinsDB.coins \in Coins /\ coinsDB.best \in MaybeBlock /\ coinsDB.heads \in {<<>>} \cup (Block \X MaybeBlock)
  BY <1>1 DEF CoinsDB
<1>3. coinsDB.heads # <<>> => New \in Block /\ coinsDB.heads[2] \in MaybeBlock
  BY <1>2 DEF New
<1>4. OldTip \in MaybeBlock
  BY <1>2, <1>3 DEF OldTip
<1>5. \A S \in SUBSET Outpoint : Written(S) \in Coins
  BY <1>1, <1>2 DEF Written, Coins
<1> QED BY <1>2, <1>3, <1>4, <1>5

\* A block goes into a blk file.
LEMMA FindNextBlockPosTypes ==
    ASSUME FilesTyped, NEW b \in Block, FindNextBlockPos(b), files' = [files EXCEPT ![b] = {"data"}]
    PROVE  /\ nFile' \in [Block -> 0..MaxFile]
           /\ cursor' \in [file_num : 0..MaxFile, undo_height : {nHeight[c] : c \in Block}]
           /\ synced' \in [Block -> SUBSET Flag] /\ \A c \in Block : synced'[c] \subseteq files'[c]
<1>1. /\ cursor.file_num \in 0..MaxFile /\ MaxFile \in Nat /\ 0 \in {nHeight[c] : c \in Block}
      /\ nFile \in [Block -> 0..MaxFile] /\ files \in [Block -> SUBSET Flag]
      /\ synced \in [Block -> SUBSET Flag] /\ \A c \in Block : synced[c] \subseteq files[c]
  BY CoinTypes DEF FilesTyped
<1>2. \A c \in Block : c # b => files'[c] = files[c]
  BY <1>1
<1>3. CASE Cardinality(InFile(cursor.file_num)) < FileSize
  <2>1. nFile' = [nFile EXCEPT ![b] = cursor.file_num] /\ synced' = [synced EXCEPT ![b] = {}] /\ cursor' = cursor
    BY <1>3 DEF FindNextBlockPos
  <2>2. synced' \in [Block -> SUBSET Flag] /\ synced'[b] = {} /\ \A c \in Block : c # b => synced'[c] = synced[c]
    BY <1>1, <2>1
  <2>3. \A c \in Block : synced'[c] \subseteq files'[c]
    BY <1>1, <1>2, <2>2
  <2>4. nFile' \in [Block -> 0..MaxFile]
    BY <1>1, <2>1
  <2> QED BY <2>1, <2>2, <2>3, <2>4 DEF FilesTyped
<1>4. CASE ~ (Cardinality(InFile(cursor.file_num)) < FileSize)
  <2> DEFINE k == {"data"} \cup (IF nHeightLast(cursor.file_num) = cursor.undo_height THEN {"undo"} ELSE {})
             C == Commit(cursor.file_num, k, files)
  <2>1. /\ nFile' = [nFile EXCEPT ![b] = cursor.file_num + 1] /\ cursor.file_num < MaxFile
        /\ synced' = [C EXCEPT ![b] = {}]
        /\ cursor' = [file_num |-> cursor.file_num + 1, undo_height |-> 0]
    BY <1>4 DEF FindNextBlockPos, FlushBlockFile
  <2>2. C \in [Block -> SUBSET Flag] /\ \A c \in Block : C[c] \subseteq synced[c] \cup files[c]
    BY <1>1, CommitTypes
  <2> HIDE DEF C
  <2>3. synced' \in [Block -> SUBSET Flag] /\ synced'[b] = {} /\ \A c \in Block : c # b => synced'[c] = C[c]
    BY <2>1, <2>2
  <2>4. \A c \in Block : synced'[c] \subseteq files'[c]
    BY <1>1, <1>2, <2>2, <2>3
  <2>5. cursor.file_num + 1 \in 0..MaxFile
    BY <1>1, <2>1, SMTT(40)
  <2>6. nFile' \in [Block -> 0..MaxFile]
    BY <1>1, <2>1, <2>5
  <2> QED BY <1>1, <2>1, <2>3, <2>4, <2>5, <2>6
<1> QED BY <1>3, <1>4

\* An undo record goes into a rev file.
LEMMA WriteBlockUndoTypes ==
    ASSUME IndexTyped, FilesTyped, coins \in Coins, NEW b \in Block, "data" \in status[b],
           WriteBlockUndo(b), UNCHANGED <<nFile, indexDB, lastFile>>
    PROVE  IndexTyped' /\ FilesTyped'
<1>1. CASE b = Genesis \/ "undo" \in status[b]
  <2>1. UNCHANGED <<undo, files, status, dirtyIndex, synced, cursor>>
    BY <1>1 DEF WriteBlockUndo
  <2>2. IndexTyped'
    BY <2>1 DEF IndexTyped
  <2>3. FilesTyped'
    BY <2>1 DEF FilesTyped
  <2> QED BY <2>2, <2>3
<1>2. CASE ~ (b = Genesis \/ "undo" \in status[b])
  <2> DEFINE r == [o \in Outpoint |-> IF o \in vin[b] THEN coins[o] ELSE Spent]
             C == Commit(nFile[b], {"undo"}, files')
  <2>1. /\ undo' = [undo EXCEPT ![b] = r]
        /\ files' = [files EXCEPT ![b] = @ \cup {"undo"}]
        /\ status' = [status EXCEPT ![b] = @ \cup {"undo"}]
        /\ dirtyIndex' = dirtyIndex \cup {b}
        /\ synced' = C \/ synced' = [synced EXCEPT ![b] = @ \ {"undo"}]
        /\ cursor' = cursor \/ cursor' = [cursor EXCEPT !.undo_height = nHeight[b]]
    BY <1>2 DEF WriteBlockUndo, UndoWritten
  <2>2. /\ files \in [Block -> SUBSET Flag] /\ synced \in [Block -> SUBSET Flag]
        /\ \A c \in Block : synced[c] \subseteq files[c]
        /\ undo \in [Block -> Coins]
        /\ cursor \in [file_num : 0..MaxFile, undo_height : {nHeight[c] : c \in Block}]
    BY DEF FilesTyped
  <2>3. files' \in [Block -> SUBSET Flag] /\ \A c \in Block : files[c] \subseteq files'[c]
    BY <2>1, <2>2 DEF Flag
  <2>4. synced' \in [Block -> SUBSET Flag] /\ \A c \in Block : synced'[c] \subseteq files'[c]
    <3>1. CASE synced' = C
      <4>1. C \in [Block -> SUBSET Flag] /\ \A c \in Block : C[c] \subseteq synced[c] \cup files'[c]
        BY <2>3, CommitTypes
      <4> HIDE DEF C
      <4> QED BY <2>2, <2>3, <3>1, <4>1
    <3>2. CASE synced' = [synced EXCEPT ![b] = @ \ {"undo"}]
      <4>1. \A c \in Block : synced'[c] \subseteq synced[c] /\ synced'[c] \in SUBSET Flag
        BY <2>2, <3>2
      <4>2. synced' \in [Block -> SUBSET Flag]
        BY <2>2, <3>2
      <4> QED BY <2>2, <2>3, <4>1, <4>2
    <3> QED BY <2>1, <3>1, <3>2
  <2>5. cursor' \in [file_num : 0..MaxFile, undo_height : {nHeight[c] : c \in Block}]
    BY <2>1, <2>2
  <2>6. undo' \in [Block -> Coins]
    <3>1. r \in Coins
      BY DEF Coins
    <3> HIDE DEF r
    <3> QED BY <2>1, <2>2, <3>1
  <2>7. FilesTyped'
    BY <2>3, <2>4, <2>5, <2>6 DEF FilesTyped
  <2>8. status \in [Block -> SUBSET Flag] /\ "header" \in status[b]
    BY DEF IndexTyped
  <2>9. /\ status' \in [Block -> SUBSET Flag] /\ "header" \in status'[b]
        /\ \A c \in Block : c # b => status'[c] = status[c]
    BY <2>1, <2>8 DEF Flag
  <2>10. IndexTyped'
    BY <2>1, <2>8, <2>9 DEF IndexTyped
  <2> QED BY <2>7, <2>10
<1> QED BY <1>1, <1>2

\* The chain of New has the blocks that ReplayBlocks reads.
LEMMA ReplayTypes ==
    ASSUME SetFacts, CoinsTyped, Places, pc \in {"rollback", "forward"}
    PROVE  /\ New \in Block /\ at \in Block
           /\ pc = "rollback" /\ at \notin Chain[New] => at # Genesis /\ pprev[at] \in Block
           /\ pc = "forward" /\ at # New =>
                /\ GetAncestor(New, nHeight[at] + 1) \in Chain[New]
                /\ GetAncestor(New, nHeight[at] + 1) \in Block \ {Genesis}
                /\ pprev[GetAncestor(New, nHeight[at] + 1)] = at
<1>1. New \in Block /\ at \in Block
  BY OldTipTypes DEF Places
<1>2. Genesis \in Chain[New] /\ Chain[New] \subseteq Block
  BY <1>1, GenesisInChain, ChainBasic
<1>3. ASSUME at \notin Chain[New] PROVE at # Genesis /\ pprev[at] \in Block
  BY <1>1, <1>2, <1>3, Parent
<1>4. ASSUME pc = "forward", at # New
      PROVE  /\ GetAncestor(New, nHeight[at] + 1) \in Chain[New]
             /\ GetAncestor(New, nHeight[at] + 1) \in Block \ {Genesis}
             /\ pprev[GetAncestor(New, nHeight[at] + 1)] = at
  <2>1. at \in Chain[New]
    BY <1>4 DEF Places
  <2> QED BY <1>1, <1>2, <1>4, <2>1, NextBlock
<1> QED BY <1>1, <1>3, <1>4

\* The types are kept while the node runs and is not in a flush.
LEMMA RunTypes ==
    ASSUME Typed, \/ \E b \in Block : AcceptBlock(b) \/ ConnectTip(b)
                  \/ DisconnectTip \/ DisconnectTipFails \/ CallFlushStateToDisk
    PROVE  Typed'
<1>0. IndexTyped /\ FilesTyped /\ CoinsTyped /\ FlowTyped /\ Places
  BY DEF Typed
<1>1. ASSUME NEW b \in Block, AcceptBlock(b) PROVE Typed'
  <2>1. FindNextBlockPos(b) /\ files' = [files EXCEPT ![b] = {"data"}]
    BY <1>1 DEF AcceptBlock
  <2>2. FilesTyped'
    <3>1. files' \in [Block -> SUBSET Flag]
      BY <1>0, <2>1 DEF FilesTyped, Flag
    <3>2. UNCHANGED <<undo, lastFile>>
      BY <1>1 DEF AcceptBlock
    <3> QED BY <1>0, <2>1, <3>1, <3>2, FindNextBlockPosTypes DEF FilesTyped
  <2>3. IndexTyped'
    <3>1. status \in [Block -> SUBSET Flag]
      BY <1>0 DEF IndexTyped
    <3>2. /\ status' = [status EXCEPT ![b] = @ \cup {"header", "data"}]
          /\ dirtyIndex' = dirtyIndex \cup {b} /\ indexDB' = indexDB
      BY <1>1 DEF AcceptBlock
    <3>3. /\ status' \in [Block -> SUBSET Flag] /\ "header" \in status'[b]
          /\ \A c \in Block : c # b => status'[c] = status[c]
      BY <3>1, <3>2 DEF Flag
    <3> QED BY <1>0, <3>2, <3>3 DEF IndexTyped
  <2>4. CoinsTyped'
    BY <1>0, <1>1 DEF AcceptBlock, CoinsTyped, cache
  <2>5. FlowTyped'
    BY <1>0, <1>1 DEF AcceptBlock, CallFlush, FlowTyped, Running, Mode
  <2>6. Places'
    BY <1>1 DEF AcceptBlock, CallFlush, Places
  <2> QED BY <2>2, <2>3, <2>4, <2>5, <2>6 DEF Typed
<1>2. ASSUME NEW b \in Block, ConnectTip(b) PROVE Typed'
  <2>1. /\ WriteBlockUndo(b) /\ "data" \in status[b] /\ UNCHANGED <<nFile, indexDB, lastFile>>
        /\ coins' = RollforwardBlock(b, coins) /\ best' = b /\ dirtyCoins' = dirtyCoins \cup Touched(b)
        /\ pc' = "enter" /\ job' = [mode |-> "IF_NEEDED", then |-> b, erase |-> FALSE]
        /\ UNCHANGED <<tip, coinsDB, survivor, toPrune, batch, at, crashes>>
    BY <1>2 DEF ConnectTip, CallFlush
  <2>2. IndexTyped' /\ FilesTyped'
    BY <1>0, <2>1, WriteBlockUndoTypes DEF CoinsTyped
  <2>3. CoinsTyped'
    BY <1>0, <2>1, CoinTypes DEF CoinsTyped, MaybeBlock
  <2>4. FlowTyped'
    BY <1>0, <2>1 DEF FlowTyped, Running, Mode, MaybeBlock
  <2>5. Places'
    BY <2>1 DEF Places
  <2> QED BY <2>2, <2>3, <2>4, <2>5 DEF Typed
<1>3. ASSUME DisconnectTip PROVE Typed'
  <2>1. /\ UNCHANGED <<status, dirtyIndex, cursor, tip, undo, files, synced, nFile, indexDB, lastFile>>
        /\ UNCHANGED <<coinsDB, survivor, toPrune, batch, at, crashes>>
        /\ tip \notin {NoBlock, Genesis}
        /\ coins' = DisconnectBlock(tip, coins) /\ best' = pprev[tip]
        /\ dirtyCoins' = dirtyCoins \cup Touched(tip)
        /\ pc' = "enter" /\ job' = [mode |-> "IF_NEEDED", then |-> pprev[tip], erase |-> FALSE]
    BY <1>3 DEF DisconnectTip, CallFlush, mem, disk
  <2>2. tip \in Block /\ pprev[tip] \in Block
    BY <1>0, <2>1, Parent DEF FlowTyped, MaybeBlock
  <2>3. IndexTyped'
    BY <1>0, <2>1 DEF IndexTyped
  <2>4. FilesTyped'
    BY <1>0, <2>1 DEF FilesTyped
  <2>5. CoinsTyped'
    <3>1. DisconnectBlock(tip, coins) \in Coins
      BY <1>0, <2>2, DisconnectTypes DEF CoinsTyped
    <3> QED BY <1>0, <2>1, <2>2, <3>1, CoinTypes DEF CoinsTyped, MaybeBlock
  <2>6. FlowTyped'
    BY <1>0, <2>1, <2>2 DEF FlowTyped, Running, Mode, MaybeBlock
  <2>7. Places'
    BY <2>1 DEF Places
  <2> QED BY <2>3, <2>4, <2>5, <2>6, <2>7 DEF Typed
<1>4. ASSUME DisconnectTipFails \/ CallFlushStateToDisk PROVE Typed'
  <2>1. /\ UNCHANGED <<status, dirtyIndex, cursor, tip, undo, files, synced, nFile, indexDB, lastFile>>
        /\ UNCHANGED <<coins, best, dirtyCoins, coinsDB, survivor, toPrune, batch, at, crashes>>
    BY <1>4 DEF DisconnectTipFails, CallFlushStateToDisk, mem, cache, disk, flow
  <2>2. /\ pc' = "fatal" \/ pc' = "enter"
        /\ \/ job' = job \/ job' = [mode |-> "PERIODIC", then |-> tip, erase |-> FALSE]
           \/ job' = [mode |-> "ALWAYS", then |-> tip, erase |-> FALSE]
    BY <1>4 DEF DisconnectTipFails, CallFlushStateToDisk, flow, CallFlush
  <2>3. IndexTyped'
    BY <1>0, <2>1 DEF IndexTyped
  <2>4. FilesTyped'
    BY <1>0, <2>1 DEF FilesTyped
  <2>5. CoinsTyped'
    BY <1>0, <2>1 DEF CoinsTyped
  <2>6. FlowTyped'
    <3>1. tip \in MaybeBlock /\ job \in [mode : Mode, then : MaybeBlock, erase : BOOLEAN]
      BY <1>0 DEF FlowTyped
    <3>2. /\ [mode |-> "PERIODIC", then |-> tip, erase |-> FALSE] \in [mode : Mode, then : MaybeBlock, erase : BOOLEAN]
          /\ [mode |-> "ALWAYS", then |-> tip, erase |-> FALSE] \in [mode : Mode, then : MaybeBlock, erase : BOOLEAN]
      BY <3>1 DEF Mode
    <3>3. job' \in [mode : Mode, then : MaybeBlock, erase : BOOLEAN]
      BY <2>2, <3>1, <3>2
    <3> QED BY <1>0, <2>1, <2>2, <3>3 DEF FlowTyped, Running
  <2>7. Places'
    BY <2>2 DEF Places
  <2> QED BY <2>3, <2>4, <2>5, <2>6, <2>7 DEF Typed
<1> QED BY <1>1, <1>2, <1>3, <1>4

\* Return and FatalError
LEMMA ReturnTypes ==
    ASSUME FlowTyped, Return, UNCHANGED <<toPrune, crashes>> \/ (toPrune' = {} /\ UNCHANGED crashes)
    PROVE  FlowTyped' /\ pc' \in {"run", "stop"}
<1>1. job.then \in MaybeBlock
  BY DEF FlowTyped
<1>2. tip' = job.then /\ job' = NoJob /\ pc' \in {"run", "stop"}
  BY DEF Return
<1>3. NoJob \in [mode : Mode, then : MaybeBlock, erase : BOOLEAN]
  BY DEF NoJob, Mode, MaybeBlock
<1>4. toPrune' \in SUBSET (0..MaxFile) /\ crashes' \in 0..MaxCrash
  BY DEF FlowTyped
<1> QED BY <1>1, <1>2, <1>3, <1>4 DEF FlowTyped, Running

\* FatalError leaves the types as they are.
LEMMA FatalTypes ==
    ASSUME FlowTyped, Fatal
    PROVE  /\ FlowTyped' /\ pc' \in {"fatal", "stop"}
           /\ UNCHANGED <<tip, cursor, nFile, survivor, at, crashes>> /\ batch' = {} /\ toPrune' = {}
<1>1. /\ tip' = tip /\ job' = NoJob /\ pc' \in {"fatal", "stop"} /\ toPrune' = {} /\ crashes' = crashes
      /\ UNCHANGED <<tip, cursor, nFile, survivor, at, crashes>> /\ batch' = {}
  BY DEF Fatal
<1>2. NoJob \in [mode : Mode, then : MaybeBlock, erase : BOOLEAN]
  BY DEF NoJob, Mode, MaybeBlock
<1> QED BY <1>1, <1>2 DEF FlowTyped, Running

\* The files to prune are among those that FindFilesToPrune finds.
LEMMA FilesToPruneFound ==
    ASSUME NEW P \in {{}} \cup FilesToPrune
    PROVE  P = {} \/ \E h : P \subseteq FindFilesToPrune(h)
<1>1. CASE P \in FilesToPrune
  <2> DEFINE H == {nHeight[b] : b \in IF PruneMode THEN Block ELSE {}} \ {0}
  <2>1. P \in {{f \in FindFilesToPrune(h) : f <= k} : h \in H, k \in 0..MaxFile}
    BY <1>1, SMTT(40) DEF FilesToPrune
  <2> HIDE DEF H
  <2>2. \E h \in H, k \in 0..MaxFile : P = {f \in FindFilesToPrune(h) : f <= k}
    BY <2>1, SMTT(40)
  <2> QED BY <2>2
<1> QED BY <1>1

\* The files to prune are blk files.
LEMMA FilesToPruneTypes ==
    ASSUME FilesTyped, NEW P \in {{}} \cup FilesToPrune
    PROVE  P \in SUBSET (0..MaxFile) /\ \A f \in P : f < cursor.file_num
<1>1. cursor.file_num \in 0..MaxFile /\ MaxFile \in Nat
  BY CoinTypes DEF FilesTyped
<1>2. \A h : FindFilesToPrune(h) \subseteq 0..(cursor.file_num - 1)
  BY DEF FindFilesToPrune
<1>3. P = {} \/ \E h : P \subseteq FindFilesToPrune(h)
  BY FilesToPruneFound
<1>4. P \subseteq 0..(cursor.file_num - 1)
  BY <1>2, <1>3
<1> QED BY <1>1, <1>4, SMTT(40)

\* The types are kept by the first part of FlushStateToDisk.
LEMMA EnterFlushTypes ==
    ASSUME Typed, EnterFlush
    PROVE  Typed'
<1>0. IndexTyped /\ FilesTyped /\ CoinsTyped /\ FlowTyped /\ Places
  BY DEF Typed
<1>1. PICK P \in {{}} \cup FilesToPrune : /\ PruneBlockFiles(P) /\ toPrune' = P
         /\ \/ pc' = "files" /\ UNCHANGED tip /\ \E e \in BOOLEAN : job' = [job EXCEPT !.erase = e]
            \/ Return
  <2>1. \A m, n : EmptyCache(m, n) \subseteq BOOLEAN
    BY DEF EmptyCache
  <2>2. PICK P \in {{}} \cup FilesToPrune,
             need \in IF job.mode \in {"IF_NEEDED", "PERIODIC"} THEN BOOLEAN ELSE {FALSE} :
         /\ PruneBlockFiles(P)
         /\ toPrune' = P
         /\ IF need \/ P # {} \/ job.mode = "ALWAYS"
            THEN /\ pc' = "files"
                 /\ \E e \in EmptyCache(job.mode, need) : job' = [job EXCEPT !.erase = e]
                 /\ UNCHANGED tip
            ELSE Return
    BY DEF EnterFlush
  <2> QED BY <2>1, <2>2
<1>2. UNCHANGED <<cursor, coins, best, dirtyCoins, undo, files, synced, nFile, indexDB, lastFile, coinsDB,
                  survivor, batch, at, crashes>>
  BY DEF EnterFlush, cache, disk
<1>3. IndexTyped'
  <2> DEFINE pruned == UNION {InFile(f) : f \in P}
  <2>1. /\ status' = [b \in Block |-> IF b \in pruned THEN {"header"} ELSE status[b]]
        /\ dirtyIndex' = dirtyIndex \cup pruned
    BY <1>1 DEF PruneBlockFiles
  <2>2. pruned \subseteq Block
    BY DEF InFile
  <2> HIDE DEF pruned
  <2>3. status' \in [Block -> SUBSET Flag]
    BY <1>0, <2>1 DEF IndexTyped, Flag
  <2>4. \A b \in Block : "header" \in status[b] \/ b \in pruned => "header" \in status'[b]
    BY <2>1
  <2>5. \A b \in Block : status'[b] # {} => "header" \in status'[b]
    BY <1>0, <2>1 DEF IndexTyped
  <2>6. dirtyIndex' \in SUBSET {b \in Block : "header" \in status'[b]}
    BY <1>0, <2>1, <2>2, <2>4 DEF IndexTyped
  <2> QED BY <1>0, <1>2, <2>3, <2>5, <2>6 DEF IndexTyped
<1>4. FilesTyped'
  BY <1>0, <1>2 DEF FilesTyped
<1>5. CoinsTyped'
  BY <1>0, <1>2 DEF CoinsTyped
<1>6. toPrune' \in SUBSET (0..MaxFile)
  BY <1>0, <1>1, FilesToPruneTypes
<1>7. CASE Return
  <2>1. FlowTyped' /\ pc' \in {"run", "stop"}
    <3>1. tip' = job.then /\ job' = NoJob /\ pc' \in {"run", "stop"}
      BY <1>7 DEF Return
    <3>2. NoJob \in [mode : Mode, then : MaybeBlock, erase : BOOLEAN]
      BY DEF NoJob, Mode, MaybeBlock
    <3> QED BY <1>0, <1>2, <1>6, <3>1, <3>2 DEF FlowTyped, Running
  <2>2. Places'
    BY <2>1 DEF Places
  <2> QED BY <1>3, <1>4, <1>5, <2>1, <2>2 DEF Typed
<1>8. CASE pc' = "files" /\ UNCHANGED tip /\ \E e \in BOOLEAN : job' = [job EXCEPT !.erase = e]
  <2>1. job' \in [mode : Mode, then : MaybeBlock, erase : BOOLEAN]
    BY <1>0, <1>8 DEF FlowTyped
  <2>2. FlowTyped'
    BY <1>0, <1>2, <1>6, <1>8, <2>1 DEF FlowTyped, Running
  <2>3. Places'
    BY <1>8 DEF Places
  <2> QED BY <1>3, <1>4, <1>5, <2>2, <2>3 DEF Typed
<1> QED BY <1>1, <1>7, <1>8

\* The types are kept by the writes of the block files and the block index.
LEMMA IndexWriteTypes ==
    ASSUME Typed, \/ FlushChainstateBlockFile \/ WriteBlockIndexDB \/ WriteBlockIndexDBFails
                  \/ UnlinkPrunedFiles
    PROVE  Typed'
<1>0. IndexTyped /\ FilesTyped /\ CoinsTyped /\ FlowTyped /\ Places
  BY DEF Typed
<1>1. ASSUME FlushChainstateBlockFile PROVE Typed'
  <2>1. /\ UNCHANGED <<status, dirtyIndex, indexDB, undo, files, nFile, lastFile, cursor>>
        /\ UNCHANGED <<coins, best, dirtyCoins, coinsDB, survivor, batch, at, tip, job, toPrune, crashes>>
        /\ pc' = "index" /\ synced' = Commit(cursor.file_num, {"data", "undo"}, files)
    BY <1>1 DEF FlushChainstateBlockFile, Synced, mem, cache, flow
  <2>2. IndexTyped'
    BY <1>0, <2>1 DEF IndexTyped
  <2>3. FilesTyped'
    <3>1. files \in [Block -> SUBSET Flag]
      BY <1>0 DEF FilesTyped
    <3>2. synced' \in [Block -> SUBSET Flag] /\ \A b \in Block : synced'[b] \subseteq synced[b] \cup files[b]
      BY <1>0, <2>1, <3>1, CommitTypes
    <3> QED BY <1>0, <2>1, <3>2 DEF FilesTyped
  <2>4. CoinsTyped'
    BY <1>0, <2>1 DEF CoinsTyped
  <2>5. FlowTyped'
    BY <1>0, <2>1 DEF FlowTyped, Running
  <2>6. Places'
    BY <2>1 DEF Places
  <2> QED BY <2>2, <2>3, <2>4, <2>5, <2>6 DEF Typed
<1>2. ASSUME WriteBlockIndexDB PROVE Typed'
  <2>1. /\ UNCHANGED <<status, undo, files, synced, nFile, cursor>>
        /\ UNCHANGED <<coins, best, dirtyCoins, coinsDB, survivor, batch, at, tip, job, toPrune, crashes>>
        /\ pc' = "unlink" /\ lastFile' = cursor.file_num /\ dirtyIndex' = {}
        /\ indexDB' = [b \in Block |-> IF b \in dirtyIndex THEN status[b] ELSE indexDB[b]]
    BY <1>2 DEF WriteBlockIndexDB, IndexEntries, cache, flow
  <2>2. IndexTyped'
    <3>1. indexDB' \in [Block -> SUBSET Flag] /\ \A b \in Block : indexDB'[b] \in {status[b], indexDB[b]}
      BY <1>0, <2>1 DEF IndexTyped
    <3>2. \A b \in Block : indexDB'[b] # {} => "header" \in indexDB'[b]
      BY <1>0, <3>1 DEF IndexTyped
    <3> QED BY <1>0, <2>1, <3>1, <3>2 DEF IndexTyped
  <2>3. FilesTyped'
    BY <1>0, <2>1 DEF FilesTyped
  <2>4. CoinsTyped'
    BY <1>0, <2>1 DEF CoinsTyped
  <2>5. FlowTyped'
    BY <1>0, <2>1 DEF FlowTyped, Running
  <2>6. Places'
    BY <2>1 DEF Places
  <2> QED BY <2>2, <2>3, <2>4, <2>5, <2>6 DEF Typed
<1>3. ASSUME WriteBlockIndexDBFails PROVE Typed'
  <2>1. /\ UNCHANGED <<status, undo, files, synced, indexDB, lastFile, coins, best, dirtyCoins, coinsDB>>
        /\ dirtyIndex' = {} /\ Fatal
    BY <1>3 DEF WriteBlockIndexDBFails, cache
  <2>2. /\ FlowTyped' /\ pc' \in {"fatal", "stop"}
        /\ UNCHANGED <<tip, cursor, nFile, survivor, at, crashes>> /\ batch' = {}
    BY <1>0, <2>1, FatalTypes
  <2>3. IndexTyped'
    BY <1>0, <2>1 DEF IndexTyped
  <2>4. FilesTyped'
    BY <1>0, <2>1, <2>2 DEF FilesTyped
  <2>5. CoinsTyped'
    BY <1>0, <2>1, <2>2 DEF CoinsTyped
  <2>6. Places'
    BY <2>2 DEF Places
  <2> QED BY <2>2, <2>3, <2>4, <2>5, <2>6 DEF Typed
<1>4. ASSUME UnlinkPrunedFiles PROVE Typed'
  <2>1. /\ UNCHANGED <<status, dirtyIndex, cursor, tip, undo, nFile, indexDB, lastFile, crashes, job>>
        /\ UNCHANGED <<coins, best, dirtyCoins, coinsDB, survivor, batch, at>>
    BY <1>4 DEF UnlinkPrunedFiles, mem, cache
  <2>2. /\ pc' \in {"coins", "unlink"} /\ toPrune' \subseteq toPrune
        /\ \/ UNCHANGED <<files, synced>>
           \/ \E f \in toPrune : /\ files' = [b \in Block |-> IF nFile[b] = f THEN {} ELSE files[b]]
                                 /\ synced' = [b \in Block |-> IF nFile[b] = f THEN {} ELSE synced[b]]
    BY <1>4 DEF UnlinkPrunedFiles
  <2>3. IndexTyped'
    BY <1>0, <2>1 DEF IndexTyped
  <2>4. FilesTyped'
    <3>1. CASE UNCHANGED <<files, synced>>
      BY <1>0, <2>1, <3>1 DEF FilesTyped
    <3>2. ASSUME NEW f \in toPrune, files' = [b \in Block |-> IF nFile[b] = f THEN {} ELSE files[b]],
                 synced' = [b \in Block |-> IF nFile[b] = f THEN {} ELSE synced[b]]
          PROVE  FilesTyped'
      <4>1. files' \in [Block -> SUBSET Flag] /\ synced' \in [Block -> SUBSET Flag]
        BY <1>0, <3>2 DEF FilesTyped
      <4>2. \A b \in Block : synced'[b] \subseteq files'[b]
        BY <1>0, <3>2 DEF FilesTyped
      <4> QED BY <1>0, <2>1, <4>1, <4>2 DEF FilesTyped
    <3> QED BY <2>2, <3>1, <3>2
  <2>5. CoinsTyped'
    BY <1>0, <2>1 DEF CoinsTyped
  <2>6. FlowTyped'
    BY <1>0, <2>1, <2>2 DEF FlowTyped, Running
  <2>7. Places'
    BY <2>2 DEF Places
  <2> QED BY <2>3, <2>4, <2>5, <2>6, <2>7 DEF Typed
<1> QED BY <1>1, <1>2, <1>3, <1>4

\* The types are kept by the write of the coins.
LEMMA CoinWriteTypes ==
    ASSUME Typed, \/ WriteCoins \/ DiskSpaceTooLow \/ WritePartialBatch \/ WriteLastBatch
                  \/ WriteBatchFails
    PROVE  Typed'
<1>0. IndexTyped /\ FilesTyped /\ CoinsTyped /\ FlowTyped /\ Places
  BY DEF Typed
<1>1. ASSUME WriteCoins PROVE Typed'
  <2>1. /\ UNCHANGED <<status, dirtyIndex, cursor, undo, files, synced, nFile, indexDB, lastFile>>
        /\ UNCHANGED <<coins, best, dirtyCoins, coinsDB, survivor, toPrune, at, crashes>>
        /\ \/ Return /\ batch' = batch
           \/ pc' = "batch" /\ batch' = dirtyCoins /\ UNCHANGED <<tip, job>> /\ best # NoBlock
    BY <1>1 DEF WriteCoins, cache, disk
  <2>2. IndexTyped'
    BY <1>0, <2>1 DEF IndexTyped
  <2>3. FilesTyped'
    BY <1>0, <2>1 DEF FilesTyped
  <2>4. CoinsTyped'
    BY <1>0, <2>1 DEF CoinsTyped
  <2>5. FlowTyped' /\ Places'
    <3>1. CASE Return
      <4>1. FlowTyped' /\ pc' \in {"run", "stop"}
        BY <1>0, <2>1, <3>1, ReturnTypes
      <4> QED BY <4>1 DEF Places
    <3>2. CASE pc' = "batch" /\ UNCHANGED <<tip, job>> /\ best # NoBlock
      <4>1. FlowTyped'
        BY <1>0, <2>1, <3>2 DEF FlowTyped, Running
      <4>2. best' \in Block
        BY <1>0, <2>1, <3>2 DEF CoinsTyped, MaybeBlock
      <4> QED BY <3>2, <4>1, <4>2 DEF Places
    <3> QED BY <2>1, <3>1, <3>2
  <2> QED BY <2>2, <2>3, <2>4, <2>5 DEF Typed
<1>2. ASSUME DiskSpaceTooLow PROVE Typed'
  <2>1. /\ UNCHANGED <<status, dirtyIndex, undo, files, synced, indexDB, lastFile, coins, best, dirtyCoins, coinsDB>>
        /\ Fatal
    BY <1>2 DEF DiskSpaceTooLow, cache
  <2>2. /\ FlowTyped' /\ pc' \in {"fatal", "stop"}
        /\ UNCHANGED <<tip, cursor, nFile, survivor, at, crashes>> /\ batch' = {}
    BY <1>0, <2>1, FatalTypes
  <2>3. IndexTyped'
    BY <1>0, <2>1 DEF IndexTyped
  <2>4. FilesTyped'
    BY <1>0, <2>1, <2>2 DEF FilesTyped
  <2>5. CoinsTyped'
    BY <1>0, <2>1, <2>2 DEF CoinsTyped
  <2>6. Places'
    BY <2>2 DEF Places
  <2> QED BY <2>2, <2>3, <2>4, <2>5, <2>6 DEF Typed
<1>3. ASSUME WritePartialBatch PROVE Typed'
  <2>1. /\ UNCHANGED <<status, dirtyIndex, cursor, tip, undo, files, synced, nFile, indexDB, lastFile>>
        /\ UNCHANGED <<coins, best, pc, job, toPrune, at, crashes>> /\ pc \in {"batch", "rewrite"}
    BY <1>3 DEF WritePartialBatch, mem
  <2>2. PICK S \in SUBSET batch :
          /\ PutCoins([coins |-> Written(S), best |-> NoBlock, heads |-> <<best, OldTip>>])
          /\ batch' = batch \ S /\ dirtyCoins' = UnflaggedBy(S)
    BY <1>3 DEF WritePartialBatch
  <2> DEFINE d == [coins |-> Written(S), best |-> NoBlock, heads |-> <<best, OldTip>>]
  <2>3. batch \in SUBSET Outpoint /\ best \in Block /\ dirtyCoins \in SUBSET Outpoint
    BY <1>0, <2>1 DEF CoinsTyped, Places
  <2>4. Written(S) \in Coins /\ OldTip \in MaybeBlock
    BY <1>0, <2>3, OldTipTypes
  <2>5. d \in CoinsDB /\ d.heads # <<>>
    BY <2>3, <2>4 DEF CoinsDB, MaybeBlock
  <2>6. coinsDB' = d /\ survivor' \in {survivor, coinsDB, d}
    BY <2>2 DEF PutCoins
  <2> HIDE DEF d
  <2>7. coinsDB' \in CoinsDB /\ survivor' \in CoinsDB
    BY <1>0, <2>5, <2>6 DEF CoinsTyped
  <2>8. batch' \in SUBSET Outpoint /\ dirtyCoins' \in SUBSET Outpoint
    BY <2>2, <2>3 DEF UnflaggedBy
  <2>9. CoinsTyped'
    BY <1>0, <2>1, <2>7, <2>8 DEF CoinsTyped
  <2>10. IndexTyped'
    BY <1>0, <2>1 DEF IndexTyped
  <2>11. FilesTyped'
    BY <1>0, <2>1 DEF FilesTyped
  <2>12. FlowTyped'
    BY <1>0, <2>1 DEF FlowTyped
  <2>13. Places'
    BY <2>1, <2>3, <2>5, <2>6 DEF Places
  <2> QED BY <2>9, <2>10, <2>11, <2>12, <2>13 DEF Typed
<1>4. ASSUME WriteLastBatch PROVE Typed'
  <2>1. /\ UNCHANGED <<status, dirtyIndex, cursor, undo, files, synced, nFile, indexDB, lastFile>>
        /\ UNCHANGED <<coins, best, toPrune, at, crashes>> /\ pc \in {"batch", "rewrite"}
        /\ batch' = {} /\ dirtyCoins' = {}
        /\ PutCoins([coins |-> Written(batch), best |-> best, heads |-> <<>>])
        /\ Return \/ (pc' = "load" /\ UNCHANGED <<tip, job>>)
    BY <1>4 DEF WriteLastBatch
  <2> DEFINE d == [coins |-> Written(batch), best |-> best, heads |-> <<>>]
  <2>2. batch \in SUBSET Outpoint /\ best \in MaybeBlock
    BY <1>0 DEF CoinsTyped
  <2>3. Written(batch) \in Coins
    BY <1>0, <2>2, OldTipTypes
  <2>4. d \in CoinsDB /\ d.heads = <<>>
    BY <2>2, <2>3 DEF CoinsDB
  <2>5. coinsDB' = d /\ survivor' \in {survivor, coinsDB, d}
    BY <2>1 DEF PutCoins
  <2> HIDE DEF d
  <2>6. coinsDB' \in CoinsDB /\ survivor' \in CoinsDB
    BY <1>0, <2>4, <2>5 DEF CoinsTyped
  <2>7. CoinsTyped'
    BY <1>0, <2>1, <2>6 DEF CoinsTyped
  <2>8. IndexTyped'
    BY <1>0, <2>1 DEF IndexTyped
  <2>9. FilesTyped'
    BY <1>0, <2>1 DEF FilesTyped
  <2>10. FlowTyped' /\ pc' \in {"run", "stop", "load"}
    <3>1. CASE Return
      BY <1>0, <2>1, <3>1, ReturnTypes
    <3>2. CASE pc' = "load" /\ UNCHANGED <<tip, job>>
      BY <1>0, <2>1, <3>2 DEF FlowTyped, Starting
    <3> QED BY <2>1, <3>1, <3>2
  <2>11. Places'
    BY <2>4, <2>5, <2>10 DEF Places
  <2> QED BY <2>7, <2>8, <2>9, <2>10, <2>11 DEF Typed
<1>5. ASSUME WriteBatchFails PROVE Typed'
  <2>1. /\ UNCHANGED <<status, dirtyIndex, best, undo, files, synced, indexDB, lastFile, coinsDB>>
        /\ Fatal
        /\ \E S \in SUBSET batch :
             /\ dirtyCoins' = UnflaggedBy(S)
             /\ coins' = [o \in Outpoint |-> IF coins[o] = Spent /\ o \in S /\ ~job.erase
                                             THEN coinsDB.coins[o] ELSE coins[o]]
    BY <1>5 DEF WriteBatchFails
  <2>2. /\ FlowTyped' /\ pc' \in {"fatal", "stop"}
        /\ UNCHANGED <<tip, cursor, nFile, survivor, at, crashes>> /\ batch' = {}
    BY <1>0, <2>1, FatalTypes
  <2>3. IndexTyped'
    BY <1>0, <2>1 DEF IndexTyped
  <2>4. FilesTyped'
    BY <1>0, <2>1, <2>2 DEF FilesTyped
  <2>5. coins' \in Coins
    <3>1. coins \in Coins /\ coinsDB.coins \in Coins
      BY <1>0, OldTipTypes DEF CoinsTyped
    <3> QED BY <2>1, <3>1 DEF Coins
  <2>6. dirtyCoins' \in SUBSET Outpoint
    BY <1>0, <2>1 DEF CoinsTyped, UnflaggedBy
  <2>7. CoinsTyped'
    BY <1>0, <2>1, <2>2, <2>5, <2>6 DEF CoinsTyped
  <2>8. Places'
    BY <2>2 DEF Places
  <2> QED BY <2>2, <2>3, <2>4, <2>7, <2>8 DEF Typed
<1> QED BY <1>1, <1>2, <1>3, <1>4, <1>5

\* The types are kept when the process ends.
LEMMA StopTypes ==
    ASSUME Typed, Shutdown \/ Crash
    PROVE  Typed'
<1>0. IndexTyped /\ FilesTyped /\ CoinsTyped /\ FlowTyped /\ Places
  BY DEF Typed
<1>1. LoseMemory /\ UNCHANGED <<undo, synced, indexDB, lastFile>>
  BY DEF Shutdown, Crash
<1>2. /\ crashes' \in 0..MaxCrash /\ coinsDB' \in {coinsDB, survivor}
      /\ files' = files \/ files' = synced
  <2>1. CASE Shutdown
    BY <1>0, <2>1 DEF Shutdown, FlowTyped
  <2>2. CASE Crash
    <3>1. crashes' = crashes + 1 /\ crashes < MaxCrash
      BY <2>2 DEF Crash
    <3>2. crashes \in 0..MaxCrash /\ MaxCrash \in Nat
      BY <1>0, CoinTypes DEF FlowTyped
    <3>3. crashes' \in 0..MaxCrash
      BY <3>1, <3>2, SMTT(40)
    <3> QED BY <2>2, <3>3 DEF Crash
  <2> QED BY <2>1, <2>2
<1>3. /\ status' = [b \in Block |-> {}] /\ dirtyIndex' = {} /\ tip' = NoBlock
      /\ nFile' = [b \in Block |-> IF "data" \in indexDB[b] THEN nFile[b] ELSE 0]
      /\ cursor' = FirstFile /\ coins' = Empty /\ best' = NoBlock /\ dirtyCoins' = {}
      /\ job' = NoJob /\ toPrune' = {} /\ batch' = {} /\ at' = NoBlock
      /\ survivor' = coinsDB' /\ pc' = "down"
  BY <1>1 DEF LoseMemory
<1>4. IndexTyped'
  <2>1. status' \in [Block -> SUBSET Flag] /\ \A b \in Block : status'[b] = {}
    BY <1>3
  <2> QED BY <1>0, <1>1, <1>3, <2>1 DEF IndexTyped
<1>5. FilesTyped'
  <2>1. nFile' \in [Block -> 0..MaxFile]
    <3>1. nFile \in [Block -> 0..MaxFile] /\ 0 \in 0..MaxFile
      BY <1>0, CoinTypes, SMTT(40) DEF FilesTyped
    <3> QED BY <1>3, <3>1
  <2>2. cursor' \in [file_num : 0..MaxFile, undo_height : {nHeight[b] : b \in Block}]
    <3>1. 0 \in 0..MaxFile /\ 0 \in {nHeight[b] : b \in Block}
      BY CoinTypes, SMTT(40)
    <3> QED BY <1>3, <3>1 DEF FirstFile
  <2>3. /\ files' \in [Block -> SUBSET Flag] /\ synced' \in [Block -> SUBSET Flag]
        /\ \A b \in Block : synced'[b] \subseteq files'[b]
    BY <1>0, <1>1, <1>2 DEF FilesTyped
  <2> QED BY <1>0, <1>1, <2>1, <2>2, <2>3 DEF FilesTyped
<1>6. CoinsTyped'
  <2>1. coinsDB' \in CoinsDB
    BY <1>0, <1>2 DEF CoinsTyped
  <2> QED BY <1>3, <2>1, CoinTypes DEF CoinsTyped, MaybeBlock
<1>7. FlowTyped'
  <2>1. NoJob \in [mode : Mode, then : MaybeBlock, erase : BOOLEAN]
    BY DEF NoJob, Mode, MaybeBlock
  <2> QED BY <1>2, <1>3, <2>1 DEF FlowTyped, MaybeBlock
<1>8. Places'
  BY <1>3 DEF Places
<1> QED BY <1>4, <1>5, <1>6, <1>7, <1>8 DEF Typed

\* The types are kept by LoadBlockIndex.
LEMMA LoadBlockIndexTypes ==
    ASSUME Typed, LoadBlockIndex
    PROVE  Typed'
<1> DEFINE pruned == {b \in Block : indexDB[b] = {"header"}}
           new == indexDB[Genesis] = {}
<1>0. IndexTyped /\ FilesTyped /\ CoinsTyped /\ FlowTyped /\ Places
  BY DEF Typed
<1>1. /\ tip' = NoBlock /\ coins' = coinsDB.coins /\ best' = coinsDB.best /\ dirtyCoins' = {}
      /\ status' = IF new THEN [indexDB EXCEPT ![Genesis] = {"header", "data"}] ELSE indexDB
      /\ dirtyIndex' = IF new THEN {Genesis} ELSE {}
      /\ files' = [b \in Block |-> IF b \in pruned THEN {}
                                   ELSE IF b = Genesis /\ new THEN {"data"} ELSE files[b]]
      /\ synced' = [b \in Block |-> IF b \in pruned \/ (b = Genesis /\ new) THEN {} ELSE synced[b]]
      /\ nFile' = IF new THEN [nFile EXCEPT ![Genesis] = lastFile] ELSE nFile
      /\ cursor' = [file_num |-> lastFile, undo_height |-> 0]
      /\ pc' \in {"replay", "failed"}
      /\ UNCHANGED <<undo, indexDB, lastFile, coinsDB, survivor, flow>>
  BY DEF LoadBlockIndex
<1>2. UNCHANGED <<job, toPrune, batch, at, crashes>>
  BY <1>1 DEF flow
<1> HIDE DEF pruned
<1>3. IndexTyped'
  <2>1. indexDB \in [Block -> SUBSET Flag] /\ Genesis \in Block
    BY <1>0, TreeTypes DEF IndexTyped
  <2>2. CASE new
    <3>1. /\ status' \in [Block -> SUBSET Flag] /\ "header" \in status'[Genesis]
          /\ \A b \in Block : b # Genesis => status'[b] = indexDB[b]
      BY <1>1, <2>1, <2>2 DEF Flag
    <3> QED BY <1>0, <1>1, <2>1, <2>2, <3>1 DEF IndexTyped
  <2>3. CASE ~ new
    BY <1>0, <1>1, <2>3 DEF IndexTyped
  <2> QED BY <2>2, <2>3
<1>4. FilesTyped'
  <2>1. /\ files \in [Block -> SUBSET Flag] /\ synced \in [Block -> SUBSET Flag]
        /\ nFile \in [Block -> 0..MaxFile] /\ lastFile \in 0..MaxFile
        /\ 0 \in {nHeight[b] : b \in Block}
    BY <1>0, CoinTypes DEF FilesTyped
  <2>2. files' \in [Block -> SUBSET Flag]
    BY <1>1, <2>1 DEF Flag
  <2>3. synced' \in [Block -> SUBSET Flag]
    BY <1>1, <2>1
  <2>4. \A b \in Block : synced'[b] \subseteq files'[b]
    <3> SUFFICES ASSUME NEW b \in Block PROVE synced'[b] \subseteq files'[b]
      OBVIOUS
    <3>1. /\ synced'[b] = IF b \in pruned \/ (b = Genesis /\ new) THEN {} ELSE synced[b]
          /\ files'[b] = IF b \in pruned THEN {} ELSE IF b = Genesis /\ new THEN {"data"} ELSE files[b]
      BY <1>1
    <3>2. synced[b] \subseteq files[b]
      BY <1>0 DEF FilesTyped
    <3> QED BY <3>1, <3>2
  <2>5. nFile' \in [Block -> 0..MaxFile]
    BY <1>1, <2>1
  <2>6. cursor' \in [file_num : 0..MaxFile, undo_height : {nHeight[b] : b \in Block}]
    BY <1>1, <2>1
  <2> QED BY <1>0, <1>1, <2>2, <2>3, <2>4, <2>5, <2>6 DEF FilesTyped
<1>5. CoinsTyped'
  <2>1. coins' \in Coins /\ best' \in MaybeBlock
    BY <1>0, <1>1, OldTipTypes
  <2> QED BY <1>0, <1>1, <1>2, <2>1 DEF CoinsTyped
<1>6. FlowTyped'
  BY <1>0, <1>1, <1>2 DEF FlowTyped, Starting, MaybeBlock
<1>7. Places'
  BY <1>1 DEF Places
<1> QED BY <1>3, <1>4, <1>5, <1>6, <1>7 DEF Typed

\* The types are kept by ReplayBlocks and LoadChainTip.
LEMMA ReplayBlocksTypes ==
    ASSUME SetFacts, Typed, ReplayBlocks \/ RollbackBlock \/ ReplayForward \/ LoadChainTip
    PROVE  Typed'
<1>0. IndexTyped /\ FilesTyped /\ CoinsTyped /\ FlowTyped /\ Places
  BY DEF Typed
<1>1. /\ UNCHANGED <<status, dirtyIndex, cursor, undo, files, synced, nFile, indexDB, lastFile>>
      /\ UNCHANGED <<coinsDB, survivor, job, toPrune, crashes>>
  BY DEF ReplayBlocks, RollbackBlock, ReplayForward, LoadChainTip, mem, disk
<1>2. IndexTyped'
  BY <1>0, <1>1 DEF IndexTyped
<1>3. FilesTyped'
  BY <1>0, <1>1 DEF FilesTyped
<1>4. New' = New
  BY <1>1 DEF New
<1>5. ASSUME ReplayBlocks PROVE CoinsTyped' /\ FlowTyped' /\ Places'
  <2>1. /\ UNCHANGED <<tip, coins, best, dirtyCoins, batch>>
        /\ \/ pc' = "load" /\ at' = at /\ coinsDB.heads = <<>>
           \/ pc' = "failed" /\ at' = at
           \/ /\ pc' = "rollback" /\ coinsDB.heads # <<>>
              /\ at' = (IF coinsDB.heads[2] = NoBlock THEN Genesis ELSE coinsDB.heads[2])
    BY <1>5 DEF ReplayBlocks, mem, cache
  <2>2. at' \in MaybeBlock /\ (pc' = "rollback" => at' \in Block)
    <3>1. /\ coinsDB.heads # <<>> => coinsDB.heads[2] \in MaybeBlock
          /\ Genesis \in Block /\ at \in MaybeBlock
      BY <1>0, OldTipTypes, TreeTypes DEF CoinsTyped
    <3> QED BY <2>1, <3>1 DEF MaybeBlock
  <2>3. CoinsTyped'
    BY <1>0, <1>1, <2>1, <2>2 DEF CoinsTyped
  <2>4. FlowTyped'
    BY <1>0, <1>1, <2>1 DEF FlowTyped, Starting
  <2>5. Places'
    BY <1>1, <2>1, <2>2 DEF Places
  <2> QED BY <2>3, <2>4, <2>5
<1>6. ASSUME RollbackBlock PROVE CoinsTyped' /\ FlowTyped' /\ Places'
  <2>1. /\ UNCHANGED <<tip, best, batch>> /\ pc = "rollback"
        /\ \/ pc' = "forward" /\ at \in Chain[New] /\ UNCHANGED <<coins, dirtyCoins, at>>
           \/ /\ pc' = "rollback" /\ at \notin Chain[New] /\ coins' = DisconnectBlock(at, coins)
              /\ at' = pprev[at] /\ dirtyCoins' = dirtyCoins \cup Touched(at)
           \/ pc' = "failed" /\ UNCHANGED <<coins, dirtyCoins, at>>
    BY <1>6 DEF RollbackBlock, Rollback, mem
  <2>2. /\ at \in Block /\ coinsDB.heads # <<>>
        /\ at \notin Chain[New] => pprev[at] \in Block
    BY <1>0, <2>1, ReplayTypes DEF Places
  <2>3. DisconnectBlock(at, coins) \in Coins /\ Touched(at) \subseteq Outpoint
    BY <1>0, <2>2, DisconnectTypes, CoinTypes DEF CoinsTyped
  <2>4. coins' \in Coins /\ dirtyCoins' \in SUBSET Outpoint /\ at' \in Block
    BY <1>0, <2>1, <2>2, <2>3 DEF CoinsTyped
  <2>5. CoinsTyped'
    BY <1>0, <1>1, <2>1, <2>4 DEF CoinsTyped, MaybeBlock
  <2>6. FlowTyped'
    BY <1>0, <1>1, <2>1 DEF FlowTyped, Starting
  <2>7. Places'
    BY <1>1, <1>4, <2>1, <2>2, <2>4 DEF Places
  <2> QED BY <2>5, <2>6, <2>7
<1>7. ASSUME ReplayForward PROVE CoinsTyped' /\ FlowTyped' /\ Places'
  <2> DEFINE b == GetAncestor(New, nHeight[at] + 1)
  <2>1. /\ tip' = tip /\ pc = "forward"
        /\ \/ /\ at = New /\ best' = New /\ batch' = dirtyCoins /\ pc' = "rewrite"
              /\ UNCHANGED <<coins, dirtyCoins, at>>
           \/ /\ at # New /\ coins' = RollforwardBlock(b, coins) /\ dirtyCoins' = dirtyCoins \cup Touched(b)
              /\ at' = b /\ UNCHANGED <<best, batch, pc>>
           \/ pc' = "failed" /\ UNCHANGED <<coins, dirtyCoins, at, best, batch>>
    BY <1>7 DEF ReplayForward, mem
  <2>2. /\ New \in Block /\ at \in Block /\ coinsDB.heads # <<>>
        /\ at # New => b \in Chain[New] /\ b \in Block
    BY <1>0, <2>1, ReplayTypes DEF Places
  <2> HIDE DEF b
  <2>3. at # New => RollforwardBlock(b, coins) \in Coins /\ Touched(b) \subseteq Outpoint
    BY <1>0, <2>2, CoinTypes DEF CoinsTyped
  <2>4. /\ coins' \in Coins /\ dirtyCoins' \in SUBSET Outpoint /\ at' \in Block
        /\ best' \in MaybeBlock /\ batch' \in SUBSET Outpoint
    BY <1>0, <2>1, <2>2, <2>3 DEF CoinsTyped, MaybeBlock
  <2>5. CoinsTyped'
    BY <1>0, <1>1, <2>4 DEF CoinsTyped, MaybeBlock
  <2>6. FlowTyped'
    BY <1>0, <1>1, <2>1 DEF FlowTyped, Starting
  <2>7. pc' = "forward" => at' \in Chain[New]
    BY <1>0, <2>1, <2>2
  <2>8. pc' = "rewrite" => best' \in Block
    BY <2>1, <2>2
  <2>9. pc' \in {"forward", "rewrite", "failed"}
    BY <2>1
  <2>10. Places'
    BY <1>1, <1>4, <2>2, <2>4, <2>7, <2>8, <2>9 DEF Places
  <2> QED BY <2>5, <2>6, <2>10
<1>8. ASSUME LoadChainTip PROVE CoinsTyped' /\ FlowTyped' /\ Places'
  <2>1. /\ coins' = coinsDB.coins /\ best' = coinsDB.best /\ dirtyCoins' = {} /\ at' = NoBlock /\ batch' = batch
        /\ tip' = coinsDB.best \/ tip' = tip
        /\ pc' \in {"run", "failed"}
    BY <1>8 DEF LoadChainTip
  <2>2. coinsDB.coins \in Coins /\ coinsDB.best \in MaybeBlock
    BY <1>0, OldTipTypes
  <2>3. CoinsTyped'
    BY <1>0, <1>1, <2>1, <2>2 DEF CoinsTyped, MaybeBlock
  <2>4. FlowTyped'
    BY <1>0, <1>1, <2>1, <2>2 DEF FlowTyped, Running
  <2>5. Places'
    BY <2>1 DEF Places
  <2> QED BY <2>3, <2>4, <2>5
<1> QED BY <1>2, <1>3, <1>5, <1>6, <1>7, <1>8 DEF Typed

\* What the initial state is
LEMMA InitTypes ==
    ASSUME Init
    PROVE  Typed
<1>1. /\ status = [b \in Block |-> {}] /\ indexDB = status /\ files = status /\ synced = status
      /\ undo = [b \in Block |-> Empty] /\ nFile = [b \in Block |-> 0] /\ cursor = FirstFile /\ lastFile = 0
      /\ dirtyIndex = {} /\ dirtyCoins = {} /\ toPrune = {} /\ batch = {}
      /\ coins = Empty /\ best = NoBlock /\ tip = NoBlock /\ at = NoBlock
      /\ coinsDB = [coins |-> Empty, best |-> NoBlock, heads |-> <<>>]
      /\ survivor = coinsDB /\ pc = "down" /\ job = NoJob /\ crashes = 0
  BY DEF Init
<1>2. 0 \in 0..MaxFile /\ 0 \in 0..MaxCrash /\ 0 \in {nHeight[b] : b \in Block} /\ Empty \in Coins
  BY CoinTypes, SMTT(40)
<1>3. status \in [Block -> SUBSET Flag] /\ \A b \in Block : status[b] = {}
  BY <1>1
<1>4. IndexTyped
  BY <1>1, <1>3 DEF IndexTyped
<1>5. FilesTyped
  <2>1. cursor \in [file_num : 0..MaxFile, undo_height : {nHeight[b] : b \in Block}]
    BY <1>1, <1>2 DEF FirstFile
  <2> QED BY <1>1, <1>2, <1>3, <2>1 DEF FilesTyped
<1>6. coinsDB \in CoinsDB
  BY <1>1, <1>2 DEF CoinsDB, MaybeBlock
<1>7. CoinsTyped
  BY <1>1, <1>2, <1>6 DEF CoinsTyped, MaybeBlock
<1>8. FlowTyped
  BY <1>1, <1>2 DEF FlowTyped, NoJob, Mode, MaybeBlock
<1>9. Places
  BY <1>1 DEF Places
<1> QED BY <1>4, <1>5, <1>7, <1>8, <1>9 DEF Typed

\* Every step keeps the types.
LEMMA StepTypes ==
    ASSUME SetFacts, Typed, [Next]_vars
    PROVE  Typed'
<1>1. CASE UNCHANGED vars
  <2>1. /\ UNCHANGED <<status, dirtyIndex, indexDB, undo, files, synced, nFile, lastFile, cursor>>
        /\ UNCHANGED <<coins, best, dirtyCoins, coinsDB, survivor, batch, at, tip, pc, job, toPrune, crashes>>
    BY <1>1 DEF vars, mem, cache, disk, flow
  <2>2. IndexTyped' /\ FilesTyped'
    BY <2>1 DEF Typed, IndexTyped, FilesTyped
  <2>3. CoinsTyped' /\ FlowTyped'
    BY <2>1 DEF Typed, CoinsTyped, FlowTyped
  <2>4. Places'
    BY <2>1 DEF Typed, Places, New
  <2> QED BY <2>2, <2>3, <2>4 DEF Typed
<1>2. CASE Next
  <2>1. \/ \E b \in Block : AcceptBlock(b) \/ ConnectTip(b)
        \/ DisconnectTip \/ DisconnectTipFails \/ CallFlushStateToDisk
        \/ FlushStep \/ Crash \/ Start
    BY <1>2 DEF Next
  <2>2. CASE FlushStep
    BY <2>2, EnterFlushTypes, IndexWriteTypes, CoinWriteTypes, StopTypes DEF FlushStep
  <2>3. CASE Start
    BY <2>3, LoadBlockIndexTypes, ReplayBlocksTypes DEF Start
  <2> QED BY <2>1, <2>2, <2>3, RunTypes, StopTypes
<1> QED BY <1>1, <1>2

-----------------------------------------------------------------------------
(* The coins                                                               *)

\* What a block does to the UTXO set of its parent
LEMMA UtxoStep ==
    ASSUME NEW b \in Block \ {Genesis}, NEW o \in Outpoint
    PROVE  /\ o \in vout[b] => Utxo[b][o] = b /\ Utxo[pprev[b]][o] = Spent /\ o \notin vin[b]
           /\ o \in vin[b] => Utxo[b][o] = Spent
           /\ o \notin Touched(b) => Utxo[b][o] = Utxo[pprev[b]][o]
<1>1. /\ \A p \in vin[b] : Utxo[pprev[b]][p] # Spent
      /\ \A p \in vout[b] : Utxo[pprev[b]][p] = Spent
      /\ Utxo[b] = RollforwardBlock(b, Utxo[pprev[b]])
  BY RecoveryAssumption
<1>2. Utxo[b][o] = IF o \in vout[b] THEN b ELSE IF o \in vin[b] THEN Spent ELSE Utxo[pprev[b]][o]
  BY <1>1 DEF RollforwardBlock
<1> QED BY <1>1, <1>2 DEF Touched

\* A block on the UTXO set of its parent, or of no block, makes its own.
LEMMA Rollforward ==
    ASSUME NEW b \in Block
    PROVE  RollforwardBlock(b, UtxoOf(pprev[b])) = UtxoOf(b)
<1>1. b # NoBlock /\ UtxoOf(b) = Utxo[b]
  BY TreeTypes DEF UtxoOf
<1>2. CASE b = Genesis
  <2>1. pprev[b] = NoBlock /\ Utxo[b] = Empty /\ vin[b] = {} /\ vout[b] = {}
    BY <1>2, BlockTreeAssumption, RecoveryAssumption DEF Touched
  <2> QED BY <1>1, <2>1 DEF RollforwardBlock, UtxoOf, Empty
<1>3. CASE b # Genesis
  <2>1. Utxo[b] = RollforwardBlock(b, Utxo[pprev[b]])
    BY <1>3, RecoveryAssumption
  <2>2. UtxoOf(pprev[b]) = Utxo[pprev[b]]
    BY <1>3, Parent, TreeTypes DEF UtxoOf
  <2> QED BY <1>1, <2>1, <2>2
<1> QED BY <1>2, <1>3

\* ReplayBlocks rolls forward: coins between the parent and new come between the
\* block and new.
LEMMA RollforwardBetween ==
    ASSUME NEW b \in Block \ {Genesis}, NEW n \in Block, NEW c \in Coins, Between(c, pprev[b], n)
    PROVE  Between(RollforwardBlock(b, c), b, n)
<1>1. UtxoOf(pprev[b]) = Utxo[pprev[b]] /\ UtxoOf(b) = Utxo[b] /\ UtxoOf(n) = Utxo[n]
  BY Parent, TreeTypes DEF UtxoOf
<1> SUFFICES ASSUME NEW o \in Outpoint
             PROVE  RollforwardBlock(b, c)[o] \in {Utxo[b][o], Utxo[n][o]}
  BY <1>1 DEF Between
<1>2. c[o] \in {Utxo[pprev[b]][o], Utxo[n][o]}
  BY <1>1 DEF Between
<1>3. RollforwardBlock(b, c)[o] = IF o \in vout[b] THEN b ELSE IF o \in vin[b] THEN Spent ELSE c[o]
  BY DEF RollforwardBlock
<1>4. /\ o \in vout[b] => Utxo[b][o] = b
      /\ o \in vin[b] => Utxo[b][o] = Spent
      /\ o \notin Touched(b) => Utxo[b][o] = Utxo[pprev[b]][o]
  BY UtxoStep
<1> QED BY <1>2, <1>3, <1>4 DEF Touched

\* DisconnectBlock, with the right undo record, restores what the block touches.
LEMMA Disconnected ==
    ASSUME UndoOK, NEW b \in Block \ {Genesis}, "undo" \in files[b], NEW c, NEW o \in Outpoint
    PROVE  /\ o \in Touched(b) => DisconnectBlock(b, c)[o] = Utxo[pprev[b]][o]
           /\ o \notin Touched(b) => DisconnectBlock(b, c)[o] = c[o] /\ Utxo[b][o] = Utxo[pprev[b]][o]
<1>1. o \in vin[b] => undo[b][o] = Utxo[pprev[b]][o]
  BY DEF UndoOK
<1>2. /\ o \in vout[b] => Utxo[pprev[b]][o] = Spent
      /\ o \notin Touched(b) => Utxo[b][o] = Utxo[pprev[b]][o]
  BY UtxoStep
<1>3. DisconnectBlock(b, c)[o] = IF o \in vin[b] THEN undo[b][o] ELSE IF o \in vout[b] THEN Spent ELSE c[o]
  BY DEF DisconnectBlock
<1> QED BY <1>1, <1>2, <1>3 DEF Touched

\* DisconnectTip: the UTXO set of the block becomes that of its parent.
LEMMA DisconnectBack ==
    ASSUME UndoOK, FilesTyped, NEW b \in Block \ {Genesis}, "undo" \in files[b]
    PROVE  DisconnectBlock(b, UtxoOf(b)) = UtxoOf(pprev[b])
<1>1. UtxoOf(pprev[b]) = Utxo[pprev[b]] /\ UtxoOf(b) = Utxo[b] /\ pprev[b] \in Block
  BY Parent, TreeTypes DEF UtxoOf
<1>2. Utxo[b] \in Coins /\ Utxo[pprev[b]] \in Coins
  BY <1>1, CoinTypes
<1>3. DisconnectBlock(b, Utxo[b]) \in Coins
  BY <1>2, DisconnectTypes
<1>4. \A o \in Outpoint : DisconnectBlock(b, Utxo[b])[o] = Utxo[pprev[b]][o]
  BY Disconnected, SMTT(40)
<1> QED BY <1>1, <1>2, <1>3, <1>4, SMTT(40) DEF Coins

\* ReplayBlocks rolls back: coins between the block and new come between its
\* parent and new.
LEMMA DisconnectBetween ==
    ASSUME UndoOK, NEW b \in Block \ {Genesis}, "undo" \in files[b], NEW n \in Block, NEW c \in Coins,
           Between(c, b, n)
    PROVE  Between(DisconnectBlock(b, c), pprev[b], n)
<1>1. UtxoOf(pprev[b]) = Utxo[pprev[b]] /\ UtxoOf(b) = Utxo[b] /\ UtxoOf(n) = Utxo[n]
  BY Parent, TreeTypes DEF UtxoOf
<1> SUFFICES ASSUME NEW o \in Outpoint
             PROVE  DisconnectBlock(b, c)[o] \in {Utxo[pprev[b]][o], Utxo[n][o]}
  BY <1>1 DEF Between
<1>2. c[o] \in {Utxo[b][o], Utxo[n][o]}
  BY <1>1 DEF Between
<1> QED BY <1>2, Disconnected, SMTT(40)

\* A step that is outside BatchWrite before and after, and moves nothing
LEMMA CoinsKept ==
    ASSUME CoinsOK, pc \in Running \ {"batch"}, pc' \in Running \ {"batch"},
           UNCHANGED <<coins, best, dirtyCoins, coinsDB, survivor>>,
           pc' = "run" => tip' = best,
           pc' \in Flushing /\ job'.mode # "ALWAYS" => job'.then = best
    PROVE  CoinsOK'
<1>1. DatabaseOK(coinsDB') /\ DatabaseOK(survivor')
  BY DEF CoinsOK
<1>2. coins' = UtxoOf(best') /\ coinsDB'.heads = <<>>
  BY DEF CoinsOK
<1>3. CleanBut(dirtyCoins)'
  BY DEF CoinsOK, CleanBut
<1>4. pc' \in Running /\ pc' \notin {"batch", "rewrite", "replay", "rollback", "forward"}
  BY DEF Running
<1> QED BY <1>1, <1>2, <1>3, <1>4 DEF CoinsOK

\* A running node moves from the UTXO set of a block to that of a neighbour.
LEMMA RunCoins ==
    ASSUME Typed, UndoOK, CoinsOK,
           \/ \E b \in Block : AcceptBlock(b) \/ ConnectTip(b)
           \/ DisconnectTip \/ DisconnectTipFails \/ CallFlushStateToDisk
    PROVE  UndoOK' /\ CoinsOK'
<1>0. IndexTyped /\ FilesTyped /\ CoinsTyped /\ FlowTyped /\ Places
  BY DEF Typed
<1>1. ASSUME NEW b \in Block, AcceptBlock(b) PROVE UndoOK' /\ CoinsOK'
  <2>1. /\ UNCHANGED <<tip, coins, best, dirtyCoins, coinsDB, survivor, undo>>
        /\ files' = [files EXCEPT ![b] = {"data"}] /\ pc = "run" /\ pc' = "enter"
        /\ job' = [mode |-> "NONE", then |-> tip, erase |-> FALSE]
    BY <1>1 DEF AcceptBlock, CallFlush, cache
  <2>2. tip = best
    BY <2>1 DEF CoinsOK
  <2>3. CoinsOK'
    BY <2>1, <2>2, CoinsKept DEF Running
  <2>4. \A c \in Block : "undo" \in files'[c] => "undo" \in files[c]
    BY <1>0, <2>1 DEF FilesTyped
  <2> QED BY <2>1, <2>3, <2>4 DEF UndoOK
<1>2. ASSUME NEW b \in Block, ConnectTip(b) PROVE UndoOK' /\ CoinsOK'
  <2>1. /\ WriteBlockUndo(b) /\ pprev[b] = tip /\ pc = "run"
        /\ coins' = RollforwardBlock(b, coins) /\ best' = b /\ dirtyCoins' = dirtyCoins \cup Touched(b)
        /\ pc' = "enter" /\ job' = [mode |-> "IF_NEEDED", then |-> b, erase |-> FALSE]
        /\ UNCHANGED <<coinsDB, survivor>>
    BY <1>2 DEF ConnectTip, CallFlush
  <2>2. tip = best /\ coins = UtxoOf(pprev[b]) /\ coinsDB.heads = <<>> /\ CleanBut(dirtyCoins)
    BY <2>1 DEF CoinsOK, Running
  <2>3. coins' = UtxoOf(b)
    BY <2>1, <2>2, Rollforward
  <2>4. CleanBut(dirtyCoins)'
    <3> SUFFICES ASSUME NEW o \in Outpoint, o \notin dirtyCoins' PROVE coins'[o] = coinsDB'.coins[o]
      BY DEF CleanBut
    <3>1. o \notin dirtyCoins /\ o \notin Touched(b)
      BY <2>1
    <3>2. coins'[o] = coins[o]
      BY <2>1, <3>1 DEF RollforwardBlock, Touched
    <3> QED BY <2>1, <2>2, <3>1, <3>2 DEF CleanBut
  <2>5. CoinsOK'
    <3>1. DatabaseOK(coinsDB') /\ DatabaseOK(survivor')
      BY <2>1 DEF CoinsOK
    <3> QED BY <2>1, <2>2, <2>3, <2>4, <3>1 DEF CoinsOK, Running
  <2>6. UndoOK'
    <3>1. CASE b = Genesis \/ "undo" \in status[b]
      <4>1. UNCHANGED <<undo, files>>
        BY <2>1, <3>1 DEF WriteBlockUndo
      <4> QED BY <4>1 DEF UndoOK
    <3>2. CASE ~ (b = Genesis \/ "undo" \in status[b])
      <4> DEFINE r == [o \in Outpoint |-> IF o \in vin[b] THEN coins[o] ELSE Spent]
      <4>1. undo' = [undo EXCEPT ![b] = r] /\ files' = [files EXCEPT ![b] = @ \cup {"undo"}]
        BY <2>1, <3>2 DEF WriteBlockUndo, UndoWritten
      <4>2. \A o \in vin[b] : r[o] = Utxo[pprev[b]][o]
        <5>1. vin[b] \subseteq Outpoint /\ pprev[b] \in Block /\ pprev[b] # NoBlock
          BY <3>2, CoinTypes, Parent, TreeTypes
        <5>2. coins = Utxo[pprev[b]]
          BY <2>2, <5>1 DEF UtxoOf
        <5> QED BY <5>1, <5>2
      <4> HIDE DEF r
      <4>3. /\ undo'[b] = r /\ \A c \in Block : c # b => undo'[c] = undo[c]
            /\ \A c \in Block : c # b => files'[c] = files[c]
        BY <1>0, <4>1 DEF FilesTyped
      <4> QED BY <4>2, <4>3, SMTT(40) DEF UndoOK
    <3> QED BY <3>1, <3>2
  <2> QED BY <2>5, <2>6
<1>3. ASSUME DisconnectTip PROVE UndoOK' /\ CoinsOK'
  <2>1. /\ UNCHANGED <<undo, files, coinsDB, survivor>> /\ tip \notin {NoBlock, Genesis}
        /\ {"data", "undo"} \subseteq status[tip] \cap files[tip] /\ pc = "run"
        /\ coins' = DisconnectBlock(tip, coins) /\ best' = pprev[tip]
        /\ dirtyCoins' = dirtyCoins \cup Touched(tip)
        /\ pc' = "enter" /\ job' = [mode |-> "IF_NEEDED", then |-> pprev[tip], erase |-> FALSE]
    BY <1>3 DEF DisconnectTip, CallFlush, disk
  <2>2. tip \in Block \ {Genesis} /\ "undo" \in files[tip]
    BY <1>0, <2>1 DEF FlowTyped, MaybeBlock
  <2>3. coins = UtxoOf(tip) /\ coinsDB.heads = <<>> /\ CleanBut(dirtyCoins)
    BY <2>1 DEF CoinsOK, Running
  <2>4. coins' = UtxoOf(pprev[tip])
    BY <1>0, <2>1, <2>2, <2>3, DisconnectBack
  <2>5. CleanBut(dirtyCoins)'
    <3> SUFFICES ASSUME NEW o \in Outpoint, o \notin dirtyCoins' PROVE coins'[o] = coinsDB'.coins[o]
      BY DEF CleanBut
    <3>1. o \notin dirtyCoins /\ o \notin Touched(tip)
      BY <2>1
    <3>2. coins'[o] = coins[o]
      BY <2>1, <2>2, <3>1, Disconnected, SMTT(40)
    <3> QED BY <2>1, <2>3, <3>1, <3>2 DEF CleanBut
  <2>6. CoinsOK'
    <3>1. DatabaseOK(coinsDB') /\ DatabaseOK(survivor')
      BY <2>1 DEF CoinsOK
    <3> QED BY <2>1, <2>3, <2>4, <2>5, <3>1 DEF CoinsOK, Running
  <2> QED BY <2>1, <2>6 DEF UndoOK
<1>4. ASSUME DisconnectTipFails \/ CallFlushStateToDisk PROVE UndoOK' /\ CoinsOK'
  <2>1. /\ UNCHANGED <<tip, undo, files, coins, best, dirtyCoins, coinsDB, survivor>>
        /\ pc \in {"run", "fatal"}
        /\ \/ pc' = "fatal"
           \/ pc' = "enter" /\ pc = "run" /\ job' = [mode |-> "PERIODIC", then |-> tip, erase |-> FALSE]
           \/ pc' = "enter" /\ job' = [mode |-> "ALWAYS", then |-> tip, erase |-> FALSE]
    BY <1>4 DEF DisconnectTipFails, CallFlushStateToDisk, CallFlush, mem, cache, disk
  <2>2. pc = "run" => tip = best
    BY DEF CoinsOK
  <2>3. CoinsOK'
    BY <2>1, <2>2, CoinsKept, SMTT(40) DEF Running, Flushing
  <2> QED BY <2>1, <2>3 DEF UndoOK
<1> QED BY <1>1, <1>2, <1>3, <1>4

\* The steps of a flush before BatchWrite
LEMMA FlushCoins ==
    ASSUME Typed, UndoOK, CoinsOK,
           \/ EnterFlush \/ FlushChainstateBlockFile \/ WriteBlockIndexDB \/ WriteBlockIndexDBFails
           \/ UnlinkPrunedFiles \/ WriteCoins \/ DiskSpaceTooLow
    PROVE  UndoOK' /\ CoinsOK'
<1>1. UNCHANGED <<undo, coins, best, dirtyCoins, coinsDB, survivor>> /\ pc \in Flushing \ {"batch"}
  BY DEF EnterFlush, FlushChainstateBlockFile, WriteBlockIndexDB, WriteBlockIndexDBFails,
         UnlinkPrunedFiles, WriteCoins, DiskSpaceTooLow, Fatal, cache, disk, Flushing
<1>2. \A b \in Block : "undo" \in files'[b] => "undo" \in files[b]
  <2>1. CASE UnlinkPrunedFiles
    BY <2>1 DEF UnlinkPrunedFiles
  <2>2. CASE ~ UnlinkPrunedFiles
    <3>1. files' = files
      BY <2>2 DEF EnterFlush, FlushChainstateBlockFile, WriteBlockIndexDB, WriteBlockIndexDBFails,
                  WriteCoins, DiskSpaceTooLow, disk
    <3> QED BY <3>1
  <2> QED BY <2>1, <2>2
<1>3. UndoOK'
  BY <1>1, <1>2 DEF UndoOK
<1>4. job.mode # "ALWAYS" => job.then = best
  BY <1>1 DEF CoinsOK
<1>5. ASSUME Return PROVE CoinsOK'
  <2>1. pc' \in {"run", "stop"} /\ (pc' = "run" => tip' = best)
    BY <1>4, <1>5 DEF Return
  <2> QED BY <1>1, <2>1, CoinsKept DEF Flushing, Running
<1>6. ASSUME Fatal PROVE CoinsOK'
  <2>1. pc' \in {"fatal", "stop"}
    BY <1>6 DEF Fatal
  <2> QED BY <1>1, <2>1, CoinsKept DEF Flushing, Running
<1>7. ASSUME pc' \in Flushing \ {"batch"}, job'.mode = job.mode, job'.then = job.then PROVE CoinsOK'
  BY <1>1, <1>4, <1>7, CoinsKept DEF Flushing, Running
<1>8. ASSUME EnterFlush PROVE CoinsOK'
  <2>1. \/ pc' = "files" /\ \E e : job' = [job EXCEPT !.erase = e]
        \/ Return
    BY <1>8 DEF EnterFlush
  <2>2. CASE pc' = "files" /\ \E e : job' = [job EXCEPT !.erase = e]
    <3>1. job'.mode = job.mode /\ job'.then = job.then
      BY <2>2 DEF Typed, FlowTyped
    <3> QED BY <1>7, <2>2, <3>1 DEF Flushing
  <2> QED BY <1>5, <2>1, <2>2
<1>9. ASSUME FlushChainstateBlockFile \/ WriteBlockIndexDB \/ UnlinkPrunedFiles PROVE CoinsOK'
  <2>1. pc' \in {"index", "unlink", "coins"} /\ job' = job
    BY <1>9 DEF FlushChainstateBlockFile, WriteBlockIndexDB, UnlinkPrunedFiles, flow
  <2> QED BY <1>7, <2>1 DEF Flushing
<1>10. ASSUME WriteBlockIndexDBFails \/ DiskSpaceTooLow PROVE CoinsOK'
  BY <1>6, <1>10 DEF WriteBlockIndexDBFails, DiskSpaceTooLow
<1>11. ASSUME WriteCoins PROVE CoinsOK'
  <2>1. Return \/ (pc' = "batch" /\ batch' = dirtyCoins /\ job' = job)
    BY <1>11 DEF WriteCoins
  <2>2. CASE pc' = "batch" /\ batch' = dirtyCoins /\ job' = job
    <3>1. DatabaseOK(coinsDB') /\ DatabaseOK(survivor')
      BY <1>1 DEF CoinsOK
    <3>2. coins' = UtxoOf(best') /\ coinsDB'.heads = <<>> /\ CleanBut(dirtyCoins)
      BY <1>1 DEF CoinsOK, Running, Flushing
    <3>3. CleanBut(batch)'
      BY <1>1, <2>2, <3>2 DEF CleanBut
    <3> QED BY <1>1, <1>4, <2>2, <3>1, <3>2, <3>3 DEF CoinsOK, Running
  <2> QED BY <1>5, <2>1, <2>2
<1> QED BY <1>3, <1>8, <1>9, <1>10, <1>11

\* An unfinished batch leaves the database between the old tip and the new.
LEMMA WritePartialBatchCoins ==
    ASSUME Typed, UndoOK, CoinsOK, WritePartialBatch
    PROVE  UndoOK' /\ CoinsOK'
<1>0. CoinsTyped /\ Places
  BY DEF Typed
<1>1. /\ UNCHANGED <<tip, undo, files, coins, best, pc, job>> /\ pc \in {"batch", "rewrite"}
  BY DEF WritePartialBatch, mem
<1>2. PICK S \in SUBSET batch :
        /\ PutCoins([coins |-> Written(S), best |-> NoBlock, heads |-> <<best, OldTip>>])
        /\ batch' = batch \ S /\ dirtyCoins' = UnflaggedBy(S)
  BY DEF WritePartialBatch
<1> DEFINE d == [coins |-> Written(S), best |-> NoBlock, heads |-> <<best, OldTip>>]
<1>3. coinsDB' = d /\ survivor' \in {survivor, coinsDB, d}
  BY <1>2 DEF PutCoins
<1>4. /\ coins = UtxoOf(best) /\ CleanBut(batch) /\ DatabaseOK(coinsDB) /\ DatabaseOK(survivor)
      /\ coinsDB.heads # <<>> => coinsDB.heads[1] = best
  BY <1>1 DEF CoinsOK
<1>5. d.heads # <<>> /\ d.heads[1] = best /\ d.heads[2] = OldTip /\ d.best = NoBlock /\ d.coins = Written(S)
  OBVIOUS
<1> HIDE DEF d
<1>6. Between(Written(S), best, OldTip)
  <2> SUFFICES ASSUME NEW o \in Outpoint PROVE Written(S)[o] \in {UtxoOf(best)[o], UtxoOf(OldTip)[o]}
    BY DEF Between
  <2>1. Written(S)[o] = IF o \in S THEN coins[o] ELSE coinsDB.coins[o]
    BY DEF Written
  <2>2. coinsDB.coins[o] \in {UtxoOf(best)[o], UtxoOf(OldTip)[o]}
    <3>1. CASE coinsDB.heads = <<>>
      BY <1>4, <3>1 DEF DatabaseOK, OldTip
    <3>2. CASE coinsDB.heads # <<>>
      <4>1. coinsDB.best = NoBlock /\ Between(coinsDB.coins, best, coinsDB.heads[2])
        BY <1>4, <3>2 DEF DatabaseOK
      <4> QED BY <3>2, <4>1 DEF OldTip, Between
    <3> QED BY <3>1, <3>2
  <2> QED BY <1>4, <2>1, <2>2
<1>7. DatabaseOK(d)
  BY <1>5, <1>6 DEF DatabaseOK
<1>8. DatabaseOK(coinsDB') /\ DatabaseOK(survivor')
  BY <1>3, <1>4, <1>7
<1>9. CleanBut(batch)'
  <2> SUFFICES ASSUME NEW o \in Outpoint, o \notin batch' PROVE coins'[o] = coinsDB'.coins[o]
    BY DEF CleanBut
  <2>1. Written(S)[o] = IF o \in S THEN coins[o] ELSE coinsDB.coins[o]
    BY DEF Written
  <2>2. o \in S \/ coins[o] = coinsDB.coins[o]
    BY <1>2, <1>4 DEF CleanBut
  <2> QED BY <1>1, <1>3, <1>5, <2>1, <2>2
<1>10. coins' = UtxoOf(best') /\ coinsDB'.heads[1] = best'
  BY <1>1, <1>3, <1>4, <1>5
<1>11. pc = "rewrite" => Committed(survivor') = Committed(coinsDB')
  <2> SUFFICES ASSUME pc = "rewrite" PROVE Committed(survivor') = Committed(coinsDB')
    OBVIOUS
  <2>1. Committed(survivor) = Committed(coinsDB) /\ coinsDB.heads # <<>>
    BY <1>0 DEF CoinsOK, Places, Running
  <2>2. Committed(coinsDB) = best /\ Committed(d) = best
    BY <1>4, <1>5, <2>1 DEF Committed
  <2> QED BY <1>3, <2>1, <2>2
<1>12. pc \in Flushing /\ job.mode # "ALWAYS" => job.then = best
  BY DEF CoinsOK
<1>13. CoinsOK'
  BY <1>1, <1>8, <1>9, <1>10, <1>11, <1>12 DEF CoinsOK, Running
<1> QED BY <1>1, <1>13 DEF UndoOK

\* The last batch leaves the database with the coins of the tip, and says so.
LEMMA WriteLastBatchCoins ==
    ASSUME Typed, UndoOK, CoinsOK, WriteLastBatch
    PROVE  UndoOK' /\ CoinsOK'
<1>0. CoinsTyped /\ Places
  BY DEF Typed
<1>1. /\ UNCHANGED <<undo, files, coins, best>> /\ pc \in {"batch", "rewrite"} /\ dirtyCoins' = {}
      /\ PutCoins([coins |-> Written(batch), best |-> best, heads |-> <<>>])
      /\ IF pc = "batch" THEN Return ELSE pc' = "load"
  BY DEF WriteLastBatch
<1> DEFINE d == [coins |-> Written(batch), best |-> best, heads |-> <<>>]
<1>2. coinsDB' = d /\ survivor' \in {survivor, coinsDB, d}
  BY <1>1 DEF PutCoins
<1>3. /\ coins = UtxoOf(best) /\ CleanBut(batch) /\ DatabaseOK(coinsDB) /\ DatabaseOK(survivor)
      /\ coinsDB.heads # <<>> => coinsDB.heads[1] = best
  BY <1>1 DEF CoinsOK
<1>4. d.heads = <<>> /\ d.best = best /\ d.coins = Written(batch)
  OBVIOUS
<1> HIDE DEF d
<1>5. Written(batch) = coins
  <2>1. coins \in Coins /\ batch \in SUBSET Outpoint
    BY <1>0 DEF CoinsTyped
  <2>2. Written(batch) \in Coins
    BY <1>0, <2>1, OldTipTypes
  <2>3. \A o \in Outpoint : Written(batch)[o] = coins[o]
    BY <1>3 DEF Written, CleanBut
  <2> QED BY <2>1, <2>2, <2>3, SMTT(40) DEF Coins
<1>6. DatabaseOK(d)
  BY <1>3, <1>4, <1>5 DEF DatabaseOK
<1>7. DatabaseOK(coinsDB') /\ DatabaseOK(survivor')
  BY <1>2, <1>3, <1>6
<1>8. CleanBut(dirtyCoins)' /\ coins' = UtxoOf(best') /\ coinsDB'.heads = <<>>
  BY <1>1, <1>2, <1>3, <1>4, <1>5 DEF CleanBut
<1>9. CASE pc = "batch"
  <2>1. job.mode # "ALWAYS" => job.then = best
    BY <1>9 DEF CoinsOK, Flushing
  <2>2. pc' \in {"run", "stop"} /\ (pc' = "run" => tip' = best')
    BY <1>1, <1>9, <2>1 DEF Return
  <2>3. CoinsOK'
    BY <1>7, <1>8, <2>2 DEF CoinsOK, Running, Flushing
  <2> QED BY <1>1, <2>3 DEF UndoOK
<1>10. CASE pc = "rewrite"
  <2>1. Committed(survivor) = Committed(coinsDB) /\ coinsDB.heads # <<>>
    BY <1>0, <1>10 DEF CoinsOK, Places, Running
  <2>2. Committed(coinsDB) = best /\ Committed(d) = best
    BY <1>3, <1>4, <2>1 DEF Committed
  <2>3. Committed(survivor') = Committed(coinsDB') /\ pc' = "load"
    BY <1>1, <1>2, <1>10, <2>1, <2>2
  <2>4. CoinsOK'
    BY <1>7, <1>8, <2>3 DEF CoinsOK, Running, Flushing
  <2> QED BY <1>1, <2>4 DEF UndoOK
<1> QED BY <1>1, <1>9, <1>10

\* The process ends: what is left of the coins is the database, or what a power
\* failure brings back.
LEMMA StopCoins ==
    ASSUME Typed, UndoOK, CoinsOK, Shutdown \/ Crash
    PROVE  UndoOK' /\ CoinsOK'
<1>1. LoseMemory /\ undo' = undo /\ coinsDB' \in {coinsDB, survivor} /\ (files' = files \/ files' = synced)
  BY DEF Shutdown, Crash
<1>2. pc' = "down" /\ survivor' = coinsDB'
  BY <1>1 DEF LoseMemory
<1>3. DatabaseOK(coinsDB') /\ DatabaseOK(survivor')
  BY <1>1, <1>2 DEF CoinsOK
<1>4. CoinsOK'
  BY <1>2, <1>3 DEF CoinsOK, Running, Flushing
<1>5. \A b \in Block : "undo" \in files'[b] => "undo" \in files[b]
  BY <1>1 DEF Typed, FilesTyped
<1> QED BY <1>1, <1>4, <1>5 DEF UndoOK

\* A start: the coins that ReplayBlocks works on stay between the block it has
\* come to and the new tip.
LEMMA StartCoins ==
    ASSUME SetFacts, Typed, UndoOK, CoinsOK, Start
    PROVE  UndoOK' /\ CoinsOK'
<1>0. IndexTyped /\ FilesTyped /\ CoinsTyped /\ FlowTyped /\ Places
  BY DEF Typed
<1>1. UNCHANGED <<undo, coinsDB, survivor>>
  BY DEF Start, LoadBlockIndex, ReplayBlocks, RollbackBlock, ReplayForward, LoadChainTip, disk
<1>2. /\ DatabaseOK(coinsDB) /\ DatabaseOK(survivor)
      /\ DatabaseOK(coinsDB') /\ DatabaseOK(survivor') /\ New' = New
  BY <1>1 DEF CoinsOK, New
<1>3. pc \in Starting \cup {"down"} /\ Committed(survivor') = Committed(coinsDB')
  BY <1>1 DEF Start, LoadBlockIndex, ReplayBlocks, RollbackBlock, ReplayForward, LoadChainTip,
              CoinsOK, Starting, Running
<1>4. ASSUME LoadBlockIndex PROVE UndoOK' /\ CoinsOK'
  <2>1. coins' = coinsDB.coins /\ dirtyCoins' = {} /\ pc' \in {"replay", "failed"}
    BY <1>4 DEF LoadBlockIndex
  <2>2. CoinsOK'
    BY <1>1, <1>2, <1>3, <2>1 DEF CoinsOK, Running, Flushing
  <2>3. \A b \in Block \ {Genesis} : files'[b] = {} \/ files'[b] = files[b]
    BY <1>4 DEF LoadBlockIndex
  <2> QED BY <1>1, <2>2, <2>3 DEF UndoOK
<1>5. ASSUME ReplayBlocks PROVE UndoOK' /\ CoinsOK'
  <2>1. /\ UNCHANGED <<files, coins, dirtyCoins>> /\ pc = "replay"
        /\ \/ pc' = "load" \/ pc' = "failed"
           \/ /\ pc' = "rollback" /\ coinsDB.heads # <<>>
              /\ at' = (IF coinsDB.heads[2] = NoBlock THEN Genesis ELSE coinsDB.heads[2])
    BY <1>5 DEF ReplayBlocks, cache, disk
  <2>2. coins = coinsDB.coins /\ dirtyCoins = {}
    BY <2>1 DEF CoinsOK
  <2>3. CASE pc' = "rollback"
    <3>1. coinsDB.heads # <<>> /\ at' = (IF coinsDB.heads[2] = NoBlock THEN Genesis ELSE coinsDB.heads[2])
      BY <2>1, <2>3
    <3>2. UtxoOf(at') = UtxoOf(coinsDB.heads[2])
      BY <3>1, TreeTypes, RecoveryAssumption DEF UtxoOf
    <3>3. Between(coinsDB.coins, New, coinsDB.heads[2])
      BY <1>2, <3>1 DEF DatabaseOK, New
    <3>4. Between(coins', at', New')
      BY <1>2, <2>1, <2>2, <3>2, <3>3 DEF Between
    <3>5. CleanBut(dirtyCoins)'
      BY <1>1, <2>1, <2>2 DEF CleanBut
    <3>6. CoinsOK'
      BY <1>2, <1>3, <2>3, <3>4, <3>5 DEF CoinsOK, Running, Flushing
    <3> QED BY <1>1, <2>1, <3>6 DEF UndoOK
  <2>4. CASE pc' \in {"load", "failed"}
    <3>1. CoinsOK'
      BY <1>2, <1>3, <2>4 DEF CoinsOK, Running, Flushing
    <3> QED BY <1>1, <2>1, <3>1 DEF UndoOK
  <2> QED BY <2>1, <2>3, <2>4
<1>6. ASSUME RollbackBlock PROVE UndoOK' /\ CoinsOK'
  <2>1. /\ files' = files /\ pc = "rollback"
        /\ \/ pc' = "forward" /\ UNCHANGED <<coins, dirtyCoins, at>>
           \/ /\ pc' = "rollback" /\ at \notin Chain[New] /\ coins' = DisconnectBlock(at, coins)
              /\ {"data", "undo"} \subseteq status[at] \cap files[at]
              /\ at' = pprev[at] /\ dirtyCoins' = dirtyCoins \cup Touched(at)
           \/ pc' = "failed"
    BY <1>6 DEF RollbackBlock, Rollback, disk
  <2>2. Between(coins, at, New) /\ CleanBut(dirtyCoins)
    BY <2>1 DEF CoinsOK
  <2>3. New \in Block /\ at \in Block /\ (at \notin Chain[New] => at # Genesis) /\ coins \in Coins
    BY <1>0, <2>1, ReplayTypes DEF CoinsTyped
  <2>4. CASE pc' = "forward" /\ UNCHANGED <<coins, dirtyCoins, at>>
    <3>1. Between(coins', at', New') /\ CleanBut(dirtyCoins)'
      BY <1>1, <1>2, <2>2, <2>4 DEF CleanBut
    <3>2. CoinsOK'
      BY <1>2, <1>3, <2>4, <3>1 DEF CoinsOK, Running, Flushing
    <3> QED BY <1>1, <2>1, <3>2 DEF UndoOK
  <2>5. CASE /\ pc' = "rollback" /\ at \notin Chain[New] /\ coins' = DisconnectBlock(at, coins)
             /\ {"data", "undo"} \subseteq status[at] \cap files[at]
             /\ at' = pprev[at] /\ dirtyCoins' = dirtyCoins \cup Touched(at)
    <3>1. "undo" \in files[at] /\ at \in Block \ {Genesis}
      BY <2>3, <2>5
    <3>2. Between(coins', at', New')
      <4>1. Between(DisconnectBlock(at, coins), pprev[at], New)
        BY <2>2, <2>3, <3>1, DisconnectBetween
      <4> QED BY <1>2, <2>5, <4>1
    <3>3. CleanBut(dirtyCoins)'
      <4> SUFFICES ASSUME NEW o \in Outpoint, o \notin dirtyCoins' PROVE coins'[o] = coinsDB'.coins[o]
        BY DEF CleanBut
      <4>1. o \notin dirtyCoins /\ o \notin Touched(at)
        BY <2>5
      <4>2. coins'[o] = coins[o]
        BY <2>5, <3>1, <4>1, Disconnected, SMTT(40)
      <4> QED BY <1>1, <2>2, <4>1, <4>2 DEF CleanBut
    <3>4. CoinsOK'
      BY <1>2, <1>3, <2>5, <3>2, <3>3 DEF CoinsOK, Running, Flushing
    <3> QED BY <1>1, <2>1, <3>4 DEF UndoOK
  <2>6. CASE pc' = "failed"
    <3>1. CoinsOK'
      BY <1>2, <1>3, <2>6 DEF CoinsOK, Running, Flushing
    <3> QED BY <1>1, <2>1, <3>1 DEF UndoOK
  <2> QED BY <2>1, <2>4, <2>5, <2>6
<1>7. ASSUME ReplayForward PROVE UndoOK' /\ CoinsOK'
  <2> DEFINE b == GetAncestor(New, nHeight[at] + 1)
  <2>1. /\ files' = files /\ pc = "forward"
        /\ \/ /\ at = New /\ best' = New /\ batch' = dirtyCoins /\ pc' = "rewrite"
              /\ UNCHANGED <<coins, dirtyCoins, at>>
           \/ /\ at # New /\ coins' = RollforwardBlock(b, coins) /\ dirtyCoins' = dirtyCoins \cup Touched(b)
              /\ at' = b /\ pc' = pc
           \/ pc' = "failed"
    BY <1>7 DEF ReplayForward, disk
  <2>2. Between(coins, at, New) /\ CleanBut(dirtyCoins)
    BY <2>1 DEF CoinsOK
  <2>3. /\ New \in Block /\ at \in Block /\ coins \in Coins
        /\ at # New => b \in Block \ {Genesis} /\ pprev[b] = at
    BY <1>0, <2>1, ReplayTypes DEF CoinsTyped
  <2> HIDE DEF b
  <2>4. CASE /\ at = New /\ best' = New /\ batch' = dirtyCoins /\ pc' = "rewrite"
             /\ UNCHANGED <<coins, dirtyCoins, at>>
    <3>1. coins = UtxoOf(New)
      <4>1. UtxoOf(New) \in Coins /\ \A o \in Outpoint : coins[o] = UtxoOf(New)[o]
        BY <2>2, <2>3, <2>4, CoinTypes, TreeTypes DEF UtxoOf, Between
      <4> QED BY <2>3, <4>1, SMTT(40) DEF Coins
    <3>2. coins' = UtxoOf(best') /\ CleanBut(batch)' /\ coinsDB'.heads[1] = best'
      BY <1>1, <2>2, <2>4, <3>1 DEF CleanBut, New
    <3>3. CoinsOK'
      BY <1>2, <1>3, <2>4, <3>2 DEF CoinsOK, Running, Flushing
    <3> QED BY <1>1, <2>1, <3>3 DEF UndoOK
  <2>5. CASE /\ at # New /\ coins' = RollforwardBlock(b, coins) /\ dirtyCoins' = dirtyCoins \cup Touched(b)
             /\ at' = b /\ pc' = pc
    <3>1. b \in Block \ {Genesis} /\ pprev[b] = at
      BY <2>3, <2>5
    <3>2. Between(coins', at', New')
      <4>1. Between(RollforwardBlock(b, coins), b, New)
        BY <2>2, <2>3, <3>1, RollforwardBetween
      <4> QED BY <1>2, <2>5, <4>1
    <3>3. CleanBut(dirtyCoins)'
      <4> SUFFICES ASSUME NEW o \in Outpoint, o \notin dirtyCoins' PROVE coins'[o] = coinsDB'.coins[o]
        BY DEF CleanBut
      <4>1. o \notin dirtyCoins /\ o \notin Touched(b)
        BY <2>5
      <4>2. coins'[o] = coins[o]
        BY <2>5, <4>1 DEF RollforwardBlock, Touched
      <4> QED BY <1>1, <2>2, <4>1, <4>2 DEF CleanBut
    <3>4. CoinsOK'
      BY <1>2, <1>3, <2>1, <2>5, <3>2, <3>3 DEF CoinsOK, Running, Flushing
    <3> QED BY <1>1, <2>1, <3>4 DEF UndoOK
  <2>6. CASE pc' = "failed"
    <3>1. CoinsOK'
      BY <1>2, <1>3, <2>6 DEF CoinsOK, Running, Flushing
    <3> QED BY <1>1, <2>1, <3>1 DEF UndoOK
  <2> QED BY <2>1, <2>4, <2>5, <2>6
<1>8. ASSUME LoadChainTip PROVE UndoOK' /\ CoinsOK'
  <2>1. /\ coins' = coinsDB.coins /\ best' = coinsDB.best /\ dirtyCoins' = {} /\ files' = files
        /\ pc' \in {"run", "failed"} /\ (pc' = "run" => tip' = coinsDB.best) /\ pc = "load"
    BY <1>8 DEF LoadChainTip, disk
  <2>2. coinsDB.heads = <<>> /\ coinsDB.coins = UtxoOf(coinsDB.best)
    BY <1>0, <1>2, <2>1 DEF Places, DatabaseOK
  <2>3. coins' = UtxoOf(best') /\ CleanBut(dirtyCoins)' /\ coinsDB'.heads = <<>>
    BY <1>1, <2>1, <2>2 DEF CleanBut
  <2>4. CoinsOK'
    BY <1>2, <1>3, <2>1, <2>3 DEF CoinsOK, Running, Flushing
  <2> QED BY <1>1, <2>1, <2>4 DEF UndoOK
<1> QED BY <1>4, <1>5, <1>6, <1>7, <1>8 DEF Start

\* The inductive invariant of the coins
CoinInv == Typed /\ UndoOK /\ CoinsOK

\* It holds in the beginning.
LEMMA InitCoins ==
    ASSUME Init
    PROVE  CoinInv
<1>1. /\ files = [b \in Block |-> {}] /\ pc = "down" /\ survivor = coinsDB
      /\ coinsDB = [coins |-> Empty, best |-> NoBlock, heads |-> <<>>]
  BY DEF Init
<1>2. UndoOK
  BY <1>1 DEF UndoOK
<1>3. DatabaseOK(coinsDB)
  BY <1>1 DEF DatabaseOK, UtxoOf
<1>4. CoinsOK
  BY <1>1, <1>3 DEF CoinsOK, Running, Flushing
<1> QED BY <1>2, <1>4, InitTypes DEF CoinInv

\* Every step keeps it.
LEMMA StepCoins ==
    ASSUME SetFacts, "coins" \notin Faults, CoinInv, [Next]_vars
    PROVE  CoinInv'
<1>0. Typed /\ UndoOK /\ CoinsOK
  BY DEF CoinInv
<1>1. Typed'
  BY <1>0, StepTypes
<1>2. CASE UNCHANGED vars
  <2>1. UNCHANGED <<undo, files, coins, best, dirtyCoins, coinsDB, survivor, batch, at, tip, pc, job>>
    BY <1>2 DEF vars, mem, cache, disk, flow
  <2>2. UndoOK'
    BY <1>0, <2>1 DEF UndoOK
  <2>3. CoinsOK'
    BY <1>0, <2>1 DEF CoinsOK, CleanBut, New
  <2> QED BY <1>1, <2>2, <2>3 DEF CoinInv
<1>3. CASE Next
  <2>1. ~ WriteBatchFails
    BY DEF WriteBatchFails
  <2>2. CASE FlushStep
    <3>1. UndoOK' /\ CoinsOK'
      BY <1>0, <2>1, <2>2, FlushCoins, WritePartialBatchCoins, WriteLastBatchCoins, StopCoins DEF FlushStep
    <3> QED BY <1>1, <3>1 DEF CoinInv
  <2>3. CASE Crash \/ Start
    BY <1>0, <1>1, <2>3, StopCoins, StartCoins DEF CoinInv
  <2>4. CASE ~ (FlushStep \/ Crash \/ Start)
    <3>1. UndoOK' /\ CoinsOK'
      BY <1>0, <1>3, <2>4, RunCoins DEF Next
    <3> QED BY <1>1, <3>1 DEF CoinInv
  <2> QED BY <2>2, <2>3, <2>4
<1> QED BY <1>2, <1>3

\* The invariant gives the properties.
LEMMA CoinFacts ==
    ASSUME CoinInv
    PROVE  TypeOK /\ OldOrNewCoin /\ MarkedConsistent
<1>0. IndexTyped /\ FilesTyped /\ CoinsTyped /\ FlowTyped /\ UndoOK /\ CoinsOK
  BY DEF CoinInv, Typed
<1>1. ASSUME NEW b \in Block, "undo" \in files[b], NEW o \in vin[b] PROVE undo[b][o] \in Block
  <2>1. b # Genesis
    BY <1>1, RecoveryAssumption DEF Touched
  <2>2. undo[b][o] = Utxo[pprev[b]][o] /\ Utxo[pprev[b]][o] # Spent
    BY <1>0, <1>1, <2>1, RecoveryAssumption DEF UndoOK
  <2>3. Utxo[pprev[b]] \in Coins /\ o \in Outpoint
    BY <1>1, <2>1, Parent, CoinTypes
  <2> QED BY <2>2, <2>3 DEF Coins
<1>2. TypeOK
  BY <1>0, <1>1 DEF TypeOK, IndexTyped, FilesTyped, CoinsTyped, FlowTyped
<1>3. DatabaseOK(coinsDB) /\ DatabaseOK(survivor)
  BY <1>0 DEF CoinsOK
<1>4. OldOrNewCoin
  <2>1. ASSUME NEW d \in {coinsDB, survivor}, d.heads # <<>>, NEW o \in Outpoint
        PROVE  d.coins[o] \in {UtxoOf(d.heads[1])[o], UtxoOf(d.heads[2])[o]}
    BY <1>3, <2>1 DEF DatabaseOK, Between
  <2>2. pc \in {"batch", "rewrite"} /\ coinsDB.heads # <<>> => coinsDB.heads[1] = best
    BY <1>0 DEF CoinsOK
  <2> QED BY <1>2, <2>1, <2>2 DEF OldOrNewCoin
<1>5. MarkedConsistent
  BY <1>3 DEF MarkedConsistent, DatabaseOK
<1> QED BY <1>2, <1>4, <1>5

-----------------------------------------------------------------------------
(* Recovery implements DurableChain                                        *)

\* The blocks a later start may find
LEMMA Durables ==
    /\ {Committed(d) : d \in {coinsDB, survivor}} = {Committed(coinsDB), Committed(survivor)}
    /\ {Committed(d) : d \in {coinsDB', survivor'}} = {Committed(coinsDB'), Committed(survivor')}
OBVIOUS

\* A step of which DurableChain sees nothing
LEMMA Invisible ==
    ASSUME pc' \in Running <=> pc \in Running,
           pc \in Running => UNCHANGED <<best, coins>>,
           {Committed(coinsDB'), Committed(survivor')} = {Committed(coinsDB), Committed(survivor)}
    PROVE  UNCHANGED DC!vars
<1>1. (pc' \in Running) = (pc \in Running)
  BY SMTT(40)
<1>2. {Committed(d) : d \in {coinsDB', survivor'}} = {Committed(d) : d \in {coinsDB, survivor}}
  BY Durables
<1>3. (IF pc' \in Running THEN best' ELSE NoBlock) = IF pc \in Running THEN best ELSE NoBlock
  OBVIOUS
<1>4. (IF pc' \in Running THEN coins' ELSE Empty) = IF pc \in Running THEN coins ELSE Empty
  OBVIOUS
<1> QED BY <1>1, <1>2, <1>3, <1>4 DEF DC!vars

\* ConnectTip and DisconnectTip move; nothing else that a running node does outside
\* BatchWrite is visible.
LEMMA RunRefines ==
    ASSUME Typed, CoinsOK, CoinsOK',
           \/ \E b \in Block : AcceptBlock(b) \/ ConnectTip(b)
           \/ DisconnectTip \/ DisconnectTipFails \/ CallFlushStateToDisk
           \/ EnterFlush \/ FlushChainstateBlockFile \/ WriteBlockIndexDB \/ WriteBlockIndexDBFails
           \/ UnlinkPrunedFiles \/ WriteCoins \/ DiskSpaceTooLow
    PROVE  [DC!Next]_(DC!vars)
<1>1. ASSUME pc = "run", pc' = "enter", UNCHANGED <<coinsDB, survivor>>, best' \in Block,
             pprev[best'] = best \/ (best \in Block /\ pprev[best] = best')
      PROVE  DC!Next
  <2>1. coins' = UtxoOf(best')
    BY <1>1 DEF CoinsOK, Running
  <2>2. pc \in Running /\ pc' \in Running
    BY <1>1 DEF Running
  <2>3. DC!UtxoOf(best') = UtxoOf(best')
    BY DEF DC!UtxoOf, UtxoOf
  <2>4. DC!Move
    BY <1>1, <2>1, <2>2, <2>3 DEF DC!Move
  <2> QED BY <2>4 DEF DC!Next
<1>2. pc = "run" => tip = best
  BY DEF CoinsOK
<1>3. CASE \E b \in Block : ConnectTip(b)
  <2>1. PICK b \in Block : ConnectTip(b)
    BY <1>3
  <2>2. /\ pprev[b] = tip /\ pc = "run" /\ best' = b /\ pc' = "enter" /\ UNCHANGED <<coinsDB, survivor>>
    BY <2>1 DEF ConnectTip, CallFlush
  <2> QED BY <1>1, <1>2, <2>2
<1>4. CASE DisconnectTip
  <2>1. /\ tip \notin {NoBlock, Genesis} /\ pc = "run" /\ best' = pprev[tip] /\ pc' = "enter"
        /\ UNCHANGED <<coinsDB, survivor>>
    BY <1>4 DEF DisconnectTip, CallFlush, disk
  <2>2. tip \in Block /\ pprev[tip] \in Block
    BY <2>1, Parent DEF Typed, FlowTyped, MaybeBlock
  <2> QED BY <1>1, <1>2, <2>1, <2>2
<1>5. ASSUME pc \in Running, pc' \in Running, UNCHANGED <<best, coins, coinsDB, survivor>>
      PROVE  UNCHANGED DC!vars
  BY <1>5, Invisible
<1>6. CASE (\E b \in Block : AcceptBlock(b)) \/ DisconnectTipFails \/ CallFlushStateToDisk
  <2>1. pc \in Running /\ pc' \in Running /\ UNCHANGED <<best, coins, coinsDB, survivor>>
    BY <1>6 DEF AcceptBlock, DisconnectTipFails, CallFlushStateToDisk, CallFlush, cache, disk, Running
  <2> QED BY <1>5, <2>1
<1>7. CASE \/ EnterFlush \/ FlushChainstateBlockFile \/ WriteBlockIndexDB \/ WriteBlockIndexDBFails
           \/ UnlinkPrunedFiles \/ WriteCoins \/ DiskSpaceTooLow
  <2>1. UNCHANGED <<coins, best, coinsDB, survivor>> /\ pc \in Flushing
    BY <1>7 DEF EnterFlush, FlushChainstateBlockFile, WriteBlockIndexDB, WriteBlockIndexDBFails,
                UnlinkPrunedFiles, WriteCoins, DiskSpaceTooLow, Fatal, cache, disk, Flushing
  <2>2. pc' \in {"files", "index", "unlink", "coins", "batch", "run", "stop", "fatal"}
    <3>1. Return => pc' \in {"run", "stop"}
      BY DEF Return
    <3>2. Fatal => pc' \in {"fatal", "stop"}
      BY DEF Fatal
    <3>3. EnterFlush => pc' = "files" \/ Return
      BY DEF EnterFlush
    <3>4. FlushChainstateBlockFile \/ WriteBlockIndexDB \/ UnlinkPrunedFiles
            => pc' \in {"index", "unlink", "coins"}
      BY DEF FlushChainstateBlockFile, WriteBlockIndexDB, UnlinkPrunedFiles
    <3>5. WriteCoins => pc' = "batch" \/ Return
      BY DEF WriteCoins
    <3>6. WriteBlockIndexDBFails \/ DiskSpaceTooLow => Fatal
      BY DEF WriteBlockIndexDBFails, DiskSpaceTooLow
    <3> QED BY <1>7, <3>1, <3>2, <3>3, <3>4, <3>5, <3>6
  <2>3. pc \in Running /\ pc' \in Running
    BY <2>1, <2>2 DEF Running, Flushing
  <2> QED BY <1>5, <2>1, <2>3
<1> QED BY <1>3, <1>4, <1>6, <1>7

\* Each batch of a flush writes the block in memory; those of a replay write what was
\* committed already.
LEMMA BatchRefines ==
    ASSUME Typed, CoinsOK, CoinsOK', WritePartialBatch \/ WriteLastBatch
    PROVE  [DC!Next]_(DC!vars)
<1>1. PICK d : /\ coinsDB' = d /\ survivor' \in {survivor, coinsDB, d} /\ Committed(d) = best
  <2>1. CASE WritePartialBatch
    <3>1. PICK S \in SUBSET batch :
            PutCoins([coins |-> Written(S), best |-> NoBlock, heads |-> <<best, OldTip>>])
      BY <2>1 DEF WritePartialBatch
    <3> DEFINE d == [coins |-> Written(S), best |-> NoBlock, heads |-> <<best, OldTip>>]
    <3>2. coinsDB' = d /\ survivor' \in {survivor, coinsDB, d}
      BY <3>1 DEF PutCoins
    <3>3. Committed(d) = best
      BY DEF Committed
    <3> QED BY <3>2, <3>3
  <2>2. CASE WriteLastBatch
    <3> DEFINE d == [coins |-> Written(batch), best |-> best, heads |-> <<>>]
    <3>1. coinsDB' = d /\ survivor' \in {survivor, coinsDB, d}
      BY <2>2 DEF WriteLastBatch, PutCoins
    <3>2. Committed(d) = best
      BY DEF Committed
    <3> QED BY <3>1, <3>2
  <2> QED BY <2>1, <2>2
<1>2. UNCHANGED <<best, coins>> /\ pc \in {"batch", "rewrite"}
  BY DEF WritePartialBatch, WriteLastBatch
<1>3. CASE pc = "batch"
  <2>1. pc' \in {"batch", "run", "stop"}
    BY <1>3 DEF WritePartialBatch, WriteLastBatch, Return
  <2>2. pc \in Running /\ pc' \in Running
    BY <1>3, <2>1 DEF Running
  <2> DEFINE old == {Committed(coinsDB), Committed(survivor)}
             D == IF survivor' = d THEN {} ELSE {Committed(survivor')}
  <2>3. D \in SUBSET old /\ {Committed(coinsDB'), Committed(survivor')} = D \cup {best}
    BY <1>1
  <2>4. {Committed(e) : e \in {coinsDB', survivor'}} \in
          {E \cup {best} : E \in SUBSET {Committed(e) : e \in {coinsDB, survivor}}}
    BY <2>3, Durables
  <2>5. DC!Write
    BY <1>2, <2>2, <2>4 DEF DC!Write
  <2> QED BY <2>5 DEF DC!Next
<1>4. CASE pc = "rewrite"
  <2>1. pc' \in {"rewrite", "load"}
    BY <1>4 DEF WritePartialBatch, WriteLastBatch
  <2>2. pc \notin Running /\ pc' \notin Running
    BY <1>4, <2>1 DEF Running
  <2>3. Committed(survivor) = Committed(coinsDB) /\ Committed(survivor') = Committed(coinsDB')
    BY <2>2 DEF CoinsOK
  <2>4. coinsDB.heads # <<>> /\ coinsDB.heads[1] = best
    BY <1>4 DEF Typed, Places, CoinsOK
  <2>5. Committed(coinsDB) = best
    BY <2>4 DEF Committed
  <2> QED BY <1>1, <2>2, <2>3, <2>5, Invisible
<1> QED BY <1>2, <1>3, <1>4

\* The end of the process, and a start that has found the block it goes on from
LEMMA StopStartRefines ==
    ASSUME Typed, CoinsOK, CoinsOK', Shutdown \/ Crash \/ Start
    PROVE  [DC!Next]_(DC!vars)
<1>1. CASE Shutdown \/ Crash
  <2>1. coinsDB' \in {coinsDB, survivor} /\ survivor' = coinsDB' /\ pc' = "down"
    BY <1>1 DEF Shutdown, Crash, LoseMemory
  <2>2. /\ pc' \notin Running
        /\ {Committed(coinsDB'), Committed(survivor')} = {Committed(coinsDB')}
        /\ Committed(coinsDB') \in {Committed(coinsDB), Committed(survivor)}
    BY <2>1 DEF Running
  <2>3. CASE pc \in Running
    <3>1. {Committed(d) : d \in {coinsDB', survivor'}}
            \in (SUBSET {Committed(d) : d \in {coinsDB, survivor}}) \ {{}}
      <4>1. \A x, S : x \in S => {x} \in SUBSET S /\ {x} # {}
        OBVIOUS
      <4>2. \A x, S : x \in S => {x} \in (SUBSET S) \ {{}}
        BY <4>1
      <4> QED BY <2>2, <4>2, Durables
    <3>2. DC!Stop
      BY <2>2, <2>3, <3>1, SMTT(40) DEF DC!Stop
    <3> QED BY <3>2 DEF DC!Next
  <2>4. CASE pc \notin Running
    <3>1. Committed(survivor) = Committed(coinsDB)
      BY <2>4 DEF CoinsOK
    <3> QED BY <2>2, <2>4, <3>1, Invisible
  <2> QED BY <2>3, <2>4
<1>2. CASE Start
  <2>1. UNCHANGED <<coinsDB, survivor>> /\ pc \in Starting \cup {"down"}
    BY <1>2 DEF Start, LoadBlockIndex, ReplayBlocks, RollbackBlock, ReplayForward, LoadChainTip,
                disk, Starting
  <2>2. pc \notin Running
    BY <2>1 DEF Running, Starting
  <2>3. CASE pc' \notin Running
    BY <2>1, <2>2, <2>3, Invisible
  <2>4. CASE pc' \in Running
    <3>1. LoadChainTip /\ pc = "load"
      <4>1. ~ LoadBlockIndex
        <5>1. LoadBlockIndex => pc' \in {"replay", "failed"}
          BY DEF LoadBlockIndex
        <5> QED BY <2>4, <5>1 DEF Running
      <4>2. ~ ReplayBlocks
        <5>1. ReplayBlocks => pc' \in {"load", "rollback", "failed"}
          BY DEF ReplayBlocks
        <5> QED BY <2>4, <5>1 DEF Running
      <4>3. ~ RollbackBlock /\ ~ ReplayForward
        <5>1. RollbackBlock => pc' \in {"forward", "rollback", "failed"}
          BY DEF RollbackBlock
        <5>2. ReplayForward => pc' \in {"forward", "rewrite", "failed"}
          BY DEF ReplayForward
        <5> QED BY <2>4, <5>1, <5>2 DEF Running
      <4>4. LoadChainTip
        BY <1>2, <4>1, <4>2, <4>3 DEF Start
      <4> QED BY <4>4 DEF LoadChainTip
    <3>2. best' = coinsDB.best /\ coins' = UtxoOf(best')
      BY <2>4, <3>1 DEF LoadChainTip, CoinsOK
    <3>3. Committed(coinsDB) = coinsDB.best /\ Committed(survivor) = Committed(coinsDB)
      BY <2>2, <3>1 DEF Typed, Places, CoinsOK, Committed
    <3>4. /\ {Committed(d) : d \in {coinsDB', survivor'}} = {best'}
          /\ best' \in {Committed(d) : d \in {coinsDB, survivor}}
      BY <2>1, <3>2, <3>3, Durables
    <3>5. DC!UtxoOf(best') = UtxoOf(best')
      BY DEF DC!UtxoOf, UtxoOf
    <3>6. DC!Start
      BY <2>2, <2>4, <3>2, <3>4, <3>5 DEF DC!Start
    <3> QED BY <3>6 DEF DC!Next
  <2> QED BY <2>3, <2>4
<1> QED BY <1>1, <1>2

\* The initial state is one of DurableChain's.
LEMMA InitRefines ==
    ASSUME Init
    PROVE  DC!Init
<1>1. /\ pc = "down" /\ survivor = coinsDB
      /\ coinsDB = [coins |-> Empty, best |-> NoBlock, heads |-> <<>>]
  BY DEF Init
<1>2. Committed(coinsDB) = NoBlock /\ Committed(survivor) = NoBlock /\ pc \notin Running
  BY <1>1 DEF Committed, Running
<1>3. {Committed(d) : d \in {coinsDB, survivor}} = {NoBlock}
  BY <1>2
<1> QED BY <1>2, <1>3, SMTT(40) DEF DC!Init

-----------------------------------------------------------------------------
(* The block index and the block files                                     *)

\* Steps that touch neither the index nor the files, by where they lead
LEMMA FilesKept ==
    ASSUME FilesOK, UNCHANGED <<status, dirtyIndex, files, synced, nFile, cursor, indexDB, toPrune>>,
           pc # "down", pc' \notin {"index", "down"},
           pc' \in Starting \cup {"run"} \/ (pc' = "enter" /\ job'.mode # "ALWAYS") =>
               \A b \in Block : ~ Forgotten(b),
           pc' \in Flushing \cup {"fatal"} =>
               \A b \in Block : Forgotten(b) =>
                   /\ HoldsNone(nFile[b])
                   /\ b \in dirtyIndex \/ (nFile[b] \notin toPrune /\ (job'.mode = "ALWAYS" \/ pc' = "fatal")),
           pc' \in {"unlink", "coins", "batch"} => dirtyIndex = {},
           pc' \in {"files", "unlink"} => \A f \in toPrune : HoldsNone(f),
           pc' \notin {"files", "index", "unlink"} => toPrune = {}
    PROVE  FilesOK'
<1>1. /\ IndexRefersToBlocks' <=> IndexRefersToBlocks
      /\ \A b : Forgotten(b)' <=> Forgotten(b)
      /\ \A b : Readable(b)' <=> Readable(b)
      /\ \A f : HoldsNone(f)' <=> HoldsNone(f)
  BY DEF IndexRefersToBlocks, Forgotten, Readable, HoldsNone
<1>2. \A b \in Block : Pending(b)' <=>
         /\ HoldsNone(nFile[b])
         /\ b \in dirtyIndex \/ (nFile[b] \notin toPrune /\ (job'.mode = "ALWAYS" \/ pc' = "fatal"))
  BY <1>1 DEF Pending, HoldsNone
<1> QED BY <1>1, <1>2 DEF FilesOK

\* A block is written to the file of the cursor; a file that is left is synced.
LEMMA AcceptBlockFiles ==
    ASSUME Typed, FilesOK, NEW b \in Block, AcceptBlock(b)
    PROVE  FilesOK'
<1>1. /\ pc = "run" /\ pc' = "enter" /\ "data" \notin status[b] /\ FindNextBlockPos(b)
      /\ files' = [files EXCEPT ![b] = {"data"}]
      /\ status' = [status EXCEPT ![b] = @ \cup {"header", "data"}]
      /\ UNCHANGED <<indexDB, toPrune>>
  BY DEF AcceptBlock, CallFlush
<1>2. /\ \A c \in Block : ~ Forgotten(c)
      /\ \A c \in Block : "data" \in status[c] => Readable(c)
      /\ toPrune = {} /\ IndexRefersToBlocks
  BY <1>1 DEF FilesOK
<1>3. /\ status \in [Block -> SUBSET Flag] /\ files \in [Block -> SUBSET Flag]
      /\ synced \in [Block -> SUBSET Flag] /\ nFile \in [Block -> 0..MaxFile]
  BY DEF Typed, IndexTyped, FilesTyped
<1>4. /\ nFile'[b] = cursor'.file_num
      /\ \A c \in Block \ {b} : /\ nFile'[c] = nFile[c]
                                /\ "data" \in synced[c] => "data" \in synced'[c]
                                /\ "data" \in files[c] /\ nFile[c] = cursor.file_num =>
                                     "data" \in synced'[c] \/ nFile'[c] = cursor'.file_num
  <2>1. CASE Cardinality(InFile(cursor.file_num)) < FileSize
    <3>1. /\ nFile' = [nFile EXCEPT ![b] = cursor.file_num]
          /\ synced' = [synced EXCEPT ![b] = {}] /\ cursor' = cursor
      BY <1>1, <2>1 DEF FindNextBlockPos
    <3> QED BY <1>3, <3>1
  <2>2. CASE ~ (Cardinality(InFile(cursor.file_num)) < FileSize)
    <3> DEFINE undone == nHeightLast(cursor.file_num) = cursor.undo_height
    <3>1. /\ nFile' = [nFile EXCEPT ![b] = cursor.file_num + 1]
          /\ cursor' = [file_num |-> cursor.file_num + 1, undo_height |-> 0]
          /\ synced' = [FlushBlockFile(cursor.file_num, undone) EXCEPT ![b] = {}]
      BY <1>1, <2>2 DEF FindNextBlockPos
    <3>2. \A c \in Block :
             /\ "data" \in synced[c] => "data" \in FlushBlockFile(cursor.file_num, undone)[c]
             /\ "data" \in files[c] /\ nFile[c] = cursor.file_num =>
                  "data" \in FlushBlockFile(cursor.file_num, undone)[c]
      BY DEF FlushBlockFile, Commit
    <3>3. \A c \in Block \ {b} : synced'[c] = FlushBlockFile(cursor.file_num, undone)[c]
      BY <3>1 DEF FlushBlockFile, Commit
    <3> HIDE DEF undone
    <3> QED BY <1>3, <3>1, <3>2, <3>3
  <2> QED BY <2>1, <2>2
<1>5. /\ "data" \in status'[b] /\ "data" \in files'[b]
      /\ \A c \in Block \ {b} : status'[c] = status[c] /\ files'[c] = files[c]
  BY <1>1, <1>3
<1>6. IndexRefersToBlocks'
  BY <1>1, <1>2, <1>4 DEF IndexRefersToBlocks, Forgotten
<1>7. \A c \in Block : "data" \in status'[c] => Readable(c)'
  BY <1>2, <1>4, <1>5 DEF Readable
<1>8. \A c \in Block : ~ Forgotten(c)'
  BY <1>1, <1>2, <1>5 DEF Forgotten
<1> QED BY <1>1, <1>2, <1>6, <1>7, <1>8 DEF FilesOK, Starting

\* An undo record changes nothing of the blocks.
LEMMA ConnectTipFiles ==
    ASSUME Typed, FilesOK, NEW b \in Block, ConnectTip(b)
    PROVE  FilesOK'
<1>1. /\ pc = "run" /\ pc' = "enter" /\ WriteBlockUndo(b)
      /\ UNCHANGED <<nFile, indexDB, toPrune>>
  BY DEF ConnectTip, CallFlush
<1>2. /\ \A c \in Block : ~ Forgotten(c)
      /\ \A c \in Block : "data" \in status[c] => Readable(c)
      /\ toPrune = {} /\ IndexRefersToBlocks
  BY <1>1 DEF FilesOK
<1>3. /\ status \in [Block -> SUBSET Flag] /\ files \in [Block -> SUBSET Flag]
      /\ synced \in [Block -> SUBSET Flag]
      /\ cursor \in [file_num : 0..MaxFile, undo_height : {nHeight[c] : c \in Block}]
  BY DEF Typed, IndexTyped, FilesTyped
<1>4. /\ \A c \in Block : /\ "data" \in status'[c] <=> "data" \in status[c]
                          /\ "data" \in files[c] => "data" \in files'[c]
                          /\ "data" \in synced[c] => "data" \in synced'[c]
      /\ cursor'.file_num = cursor.file_num
  <2>1. CASE UNCHANGED <<undo, files, status, dirtyIndex, synced, cursor>>
    BY <2>1
  <2>2. CASE UndoWritten(b, coins)
    <3>1. /\ files' = [files EXCEPT ![b] = @ \cup {"undo"}]
          /\ status' = [status EXCEPT ![b] = @ \cup {"undo"}]
          /\ \/ synced' = Commit(nFile[b], {"undo"}, files')
             \/ synced' = [synced EXCEPT ![b] = @ \ {"undo"}]
          /\ cursor' = cursor \/ cursor' = [cursor EXCEPT !.undo_height = nHeight[b]]
      BY <2>2 DEF UndoWritten
    <3>2. cursor'.file_num = cursor.file_num
      BY <1>3, <3>1
    <3>3. \A c \in Block : /\ "data" \in status'[c] <=> "data" \in status[c]
                           /\ "data" \in files[c] => "data" \in files'[c]
      BY <1>3, <3>1
    <3>4. \A c \in Block : "data" \in synced[c] => "data" \in synced'[c]
      <4>1. CASE synced' = Commit(nFile[b], {"undo"}, files')
        BY <4>1 DEF Commit
      <4>2. CASE synced' = [synced EXCEPT ![b] = @ \ {"undo"}]
        BY <1>3, <4>2
      <4> QED BY <3>1, <4>1, <4>2
    <3> QED BY <3>2, <3>3, <3>4
  <2> QED BY <1>1, <2>1, <2>2 DEF WriteBlockUndo
<1>5. IndexRefersToBlocks'
  BY <1>1, <1>2, <1>4 DEF IndexRefersToBlocks
<1>6. \A c \in Block : "data" \in status'[c] => Readable(c)'
  BY <1>1, <1>2, <1>4 DEF Readable
<1>7. \A c \in Block : ~ Forgotten(c)'
  BY <1>1, <1>2, <1>4 DEF Forgotten
<1> QED BY <1>1, <1>2, <1>5, <1>6, <1>7 DEF FilesOK, Starting

\* The other steps of a running node, to which the files are as they were
LEMMA RunFiles ==
    ASSUME FilesOK, DisconnectTip \/ DisconnectTipFails \/ CallFlushStateToDisk
    PROVE  FilesOK'
<1>1. UNCHANGED <<status, dirtyIndex, files, synced, nFile, cursor, indexDB, toPrune>>
  BY DEF DisconnectTip, DisconnectTipFails, CallFlushStateToDisk, mem, disk, flow
<1>2. \/ pc = "run" /\ pc' \in {"enter", "fatal"}
      \/ pc = "fatal" /\ pc' = "enter" /\ job'.mode = "ALWAYS"
  BY SMTT(40) DEF DisconnectTip, DisconnectTipFails, CallFlushStateToDisk, CallFlush
<1>3. toPrune = {}
  BY <1>2 DEF FilesOK
<1>4. CASE pc = "run"
  <2>1. \A b \in Block : ~ Forgotten(b)
    BY <1>4 DEF FilesOK
  <2> QED BY <1>1, <1>2, <1>3, <1>4, <2>1, FilesKept
<1>5. CASE pc = "fatal"
  <2>1. pc' = "enter" /\ job'.mode = "ALWAYS"
    BY <1>2, <1>5
  <2>2. \A b \in Block : Forgotten(b) => HoldsNone(nFile[b])
    BY <1>5 DEF FilesOK, Pending
  <2> QED BY <1>1, <1>3, <1>5, <2>1, <2>2, FilesKept DEF Starting
<1> QED BY <1>2, <1>4, <1>5

\* The files to prune have blocks, before.
LEMMA FilesToPruneHold ==
    ASSUME NEW P \in {{}} \cup FilesToPrune, NEW f \in P
    PROVE  ~ HoldsNone(f)
<1>1. PICK h : P \subseteq FindFilesToPrune(h)
  BY FilesToPruneFound
<1>2. f \in FindFilesToPrune(h)
  BY <1>1
<1>3. InFile(f) # {}
  BY <1>2 DEF FindFilesToPrune
<1> QED BY <1>3 DEF InFile, HoldsNone

\* Pruning: the index in memory forgets the blocks, and their entries are dirty.
LEMMA EnterFlushFiles ==
    ASSUME Typed, FilesOK, EnterFlush
    PROVE  FilesOK'
<1>1. PICK P \in {{}} \cup FilesToPrune, need \in BOOLEAN :
         /\ PruneBlockFiles(P) /\ toPrune' = P
         /\ IF need \/ P # {} \/ job.mode = "ALWAYS"
            THEN /\ pc' = "files"
                 /\ \E e \in EmptyCache(job.mode, need) : job' = [job EXCEPT !.erase = e]
                 /\ UNCHANGED tip
            ELSE Return
  BY DEF EnterFlush
<1>2. pc = "enter" /\ UNCHANGED <<cursor, files, synced, nFile, indexDB>>
  BY DEF EnterFlush, disk
<1>3. /\ \A b \in Block : "data" \in status[b] => Readable(b)
      /\ \A b \in Block : Forgotten(b) => Pending(b)
      /\ IndexRefersToBlocks
      /\ job.mode # "ALWAYS" => \A b \in Block : ~ Forgotten(b)
      /\ toPrune = {}
  BY <1>2 DEF FilesOK, Flushing
<1>4. \A f \in P : ~ HoldsNone(f)
  BY FilesToPruneHold
<1>5. /\ \A b \in Block : "data" \in status'[b] <=> "data" \in status[b] /\ nFile[b] \notin P
      /\ \A b \in Block : "data" \in status[b] /\ nFile[b] \in P => b \in dirtyIndex'
      /\ \A b \in Block : b \in dirtyIndex => b \in dirtyIndex'
  <2> DEFINE pruned == UNION {InFile(f) : f \in P}
  <2>1. /\ status' = [b \in Block |-> IF b \in pruned THEN {"header"} ELSE status[b]]
        /\ dirtyIndex' = dirtyIndex \cup pruned
    BY <1>1 DEF PruneBlockFiles
  <2>2. \A b \in Block : b \in pruned <=> "data" \in status[b] /\ nFile[b] \in P
    BY SMTT(40) DEF InFile
  <2> HIDE DEF pruned
  <2> QED BY <2>1, <2>2
<1>6. IndexRefersToBlocks'
  BY <1>2, <1>3 DEF IndexRefersToBlocks
<1>7. \A b \in Block : "data" \in status'[b] => Readable(b)'
  BY <1>2, <1>3, <1>5 DEF Readable
<1>8. \A f \in P : HoldsNone(f)'
  BY <1>2, <1>5 DEF HoldsNone
<1>9. \A f : HoldsNone(f) => HoldsNone(f)'
  BY <1>2, <1>5 DEF HoldsNone
<1>10. CASE need \/ P # {} \/ job.mode = "ALWAYS"
  <2>1. pc' = "files" /\ job'.mode = job.mode
    <3>1. PICK e : job' = [job EXCEPT !.erase = e]
      BY <1>1, <1>10
    <3>2. job \in [mode : Mode, then : MaybeBlock, erase : BOOLEAN]
      BY DEF Typed, FlowTyped
    <3> QED BY <1>1, <1>10, <3>1, <3>2
  <2>2. ASSUME NEW b \in Block, Forgotten(b)' PROVE Pending(b)'
    <3>1. CASE Forgotten(b)
      <4>1. HoldsNone(nFile[b]) /\ (b \in dirtyIndex \/ job.mode = "ALWAYS")
        BY <1>2, <1>3, <3>1 DEF Pending
      <4>2. nFile[b] \notin P
        BY <1>4, <4>1
      <4>3. HoldsNone(nFile[b])' /\ nFile'[b] = nFile[b]
        BY <1>2, <1>9, <4>1 DEF HoldsNone
      <4> QED BY <1>1, <1>5, <2>1, <4>1, <4>2, <4>3 DEF Pending, HoldsNone
    <3>2. CASE ~ Forgotten(b)
      <4>1. "data" \in status[b] /\ nFile[b] \in P
        BY <1>2, <1>5, <2>2, <3>2 DEF Forgotten
      <4> QED BY <1>2, <1>5, <1>8, <4>1 DEF Pending, HoldsNone
    <3> QED BY <3>1, <3>2
  <2> QED BY <1>1, <1>6, <1>7, <1>8, <2>1, <2>2 DEF FilesOK, Starting
<1>11. CASE ~ (need \/ P # {} \/ job.mode = "ALWAYS")
  <2>1. pc' = "run" /\ toPrune' = {} /\ job.mode # "ALWAYS"
    BY <1>1, <1>11 DEF Return
  <2>2. \A b \in Block : ~ Forgotten(b)'
    BY <1>2, <1>3, <1>5, <1>11, <2>1 DEF Forgotten
  <2> QED BY <1>6, <1>7, <2>1, <2>2 DEF FilesOK, Flushing
<1> QED BY <1>10, <1>11

\* The files are synced, then the index is written, then the files are unlinked.
LEMMA IndexWriteFiles ==
    ASSUME Typed, FilesOK, \/ FlushChainstateBlockFile \/ WriteBlockIndexDB
                           \/ UnlinkPrunedFiles
    PROVE  FilesOK'
<1>0. /\ status \in [Block -> SUBSET Flag] /\ files \in [Block -> SUBSET Flag]
      /\ synced \in [Block -> SUBSET Flag] /\ indexDB \in [Block -> SUBSET Flag]
  BY DEF Typed, IndexTyped, FilesTyped
<1>1. CASE FlushChainstateBlockFile
  <2>1. /\ pc = "files" /\ pc' = "index" /\ synced' = Commit(cursor.file_num, {"data", "undo"}, files)
        /\ UNCHANGED <<status, dirtyIndex, cursor, files, nFile, indexDB, job, toPrune>>
    BY <1>1 DEF FlushChainstateBlockFile, Synced, mem, flow
  <2>2. /\ \A b \in Block : "data" \in status[b] => Readable(b)
        /\ \A b \in Block : Forgotten(b) => Pending(b)
        /\ \A f \in toPrune : HoldsNone(f)
        /\ IndexRefersToBlocks
    BY <2>1 DEF FilesOK, Flushing
  <2>3. \A b \in Block : /\ "data" \in synced[b] => "data" \in synced'[b]
                         /\ "data" \in files[b] /\ nFile[b] = cursor.file_num => "data" \in synced'[b]
    BY <2>1 DEF Commit
  <2>4. \A b \in Block : "data" \in status'[b] => "data" \in synced'[b] /\ Readable(b)'
    BY <2>1, <2>2, <2>3 DEF Readable
  <2>5. IndexRefersToBlocks' /\ \A f \in toPrune' : HoldsNone(f)'
    BY <2>1, <2>2, <2>3 DEF IndexRefersToBlocks, HoldsNone
  <2>6. \A b \in Block : Forgotten(b)' => Pending(b)'
    BY <2>1, <2>2 DEF Forgotten, Pending, HoldsNone
  <2> QED BY <2>1, <2>4, <2>5, <2>6 DEF FilesOK, Starting
<1>2. CASE WriteBlockIndexDB
  <2>1. /\ pc = "index" /\ pc' = "unlink" /\ dirtyIndex' = {}
        /\ indexDB' = [b \in Block |-> IF b \in dirtyIndex THEN status[b] ELSE indexDB[b]]
        /\ UNCHANGED <<status, cursor, files, synced, nFile, job, toPrune>>
    BY <1>2 DEF WriteBlockIndexDB, IndexEntries, flow
  <2>2. /\ \A b \in Block : "data" \in status[b] => Readable(b) /\ "data" \in synced[b]
        /\ \A b \in Block : Forgotten(b) => Pending(b)
        /\ \A f \in toPrune : HoldsNone(f)
        /\ IndexRefersToBlocks
    BY <2>1 DEF FilesOK, Flushing
  <2>3. \A b \in Block : indexDB'[b] = IF b \in dirtyIndex THEN status[b] ELSE indexDB[b]
    BY <2>1
  <2>4. IndexRefersToBlocks'
    BY <2>1, <2>2, <2>3 DEF IndexRefersToBlocks
  <2>5. /\ \A b \in Block : "data" \in status'[b] => Readable(b)'
        /\ \A f \in toPrune' : HoldsNone(f)'
    BY <2>1, <2>2 DEF Readable, HoldsNone
  <2>6. ASSUME NEW b \in Block, Forgotten(b)' PROVE Pending(b)'
    <3>1. b \notin dirtyIndex /\ Forgotten(b)
      BY <2>1, <2>3, <2>6 DEF Forgotten
    <3>2. HoldsNone(nFile[b]) /\ nFile[b] \notin toPrune /\ job.mode = "ALWAYS"
      BY <2>1, <2>2, <3>1 DEF Pending
    <3> QED BY <2>1, <3>2 DEF Pending, HoldsNone
  <2> QED BY <2>1, <2>4, <2>5, <2>6 DEF FilesOK, Starting
<1>3. CASE UnlinkPrunedFiles
  <2>0. /\ pc = "unlink" /\ UNCHANGED <<status, dirtyIndex, cursor, nFile, indexDB, job>>
    BY <1>3 DEF UnlinkPrunedFiles, mem
  <2>1. /\ \A b \in Block : "data" \in status[b] => Readable(b)
        /\ \A b \in Block : Forgotten(b) => Pending(b)
        /\ \A f \in toPrune : HoldsNone(f)
        /\ IndexRefersToBlocks /\ dirtyIndex = {}
    BY <2>0 DEF FilesOK, Flushing
  <2>2. CASE toPrune = {}
    <3>1. pc' = "coins" /\ UNCHANGED <<files, synced, toPrune>>
      BY <1>3, <2>2 DEF UnlinkPrunedFiles
    <3>2. \A b \in Block : Forgotten(b) =>
             /\ HoldsNone(nFile[b])
             /\ b \in dirtyIndex \/ (nFile[b] \notin toPrune /\ (job'.mode = "ALWAYS" \/ pc' = "fatal"))
      BY <2>0, <2>1 DEF Pending
    <3> QED BY <2>0, <2>1, <2>2, <3>1, <3>2, FilesKept DEF Starting
  <2>3. CASE toPrune # {}
    <3>1. PICK f \in toPrune :
             /\ files' = [b \in Block |-> IF nFile[b] = f THEN {} ELSE files[b]]
             /\ synced' = [b \in Block |-> IF nFile[b] = f THEN {} ELSE synced[b]]
             /\ toPrune' = toPrune \ {f} /\ pc' = pc
      BY <1>3, <2>3 DEF UnlinkPrunedFiles
    <3>2. \A b \in Block : nFile[b] # f => files'[b] = files[b] /\ synced'[b] = synced[b]
      BY <3>1
    <3>3. \A b \in Block : "data" \in status[b] => nFile[b] # f
      BY <2>1 DEF HoldsNone
    <3>4. \A b \in Block : Forgotten(b) => nFile[b] # f
      BY <2>0, <2>1, <3>1 DEF Pending
    <3>5. IndexRefersToBlocks'
      BY <2>0, <2>1, <3>2, <3>3, <3>4 DEF IndexRefersToBlocks, Forgotten
    <3>6. \A b \in Block : "data" \in status'[b] => Readable(b)'
      BY <2>0, <2>1, <3>2, <3>3 DEF Readable
    <3>7. \A b \in Block : Forgotten(b)' => Pending(b)'
      BY <2>0, <2>1, <3>1 DEF Forgotten, Pending, HoldsNone
    <3>8. \A g \in toPrune' : HoldsNone(g)'
      BY <2>0, <2>1, <3>1 DEF HoldsNone
    <3> QED BY <2>0, <2>1, <3>1, <3>5, <3>6, <3>7, <3>8 DEF FilesOK, Starting
  <2> QED BY <2>2, <2>3
<1> QED BY <1>1, <1>2, <1>3

\* A write fails: what was forgotten stays so, and its files stay.
LEMMA FatalFiles ==
    ASSUME FilesOK, WriteBlockIndexDBFails \/ DiskSpaceTooLow \/ WriteBatchFails
    PROVE  FilesOK'
<1>1. /\ pc \in Flushing /\ pc' \in {"fatal", "stop"} /\ toPrune' = {}
      /\ UNCHANGED <<status, files, synced, indexDB, cursor, nFile>>
  BY DEF WriteBlockIndexDBFails, DiskSpaceTooLow, WriteBatchFails, Fatal, Flushing
<1>2. /\ \A b \in Block : "data" \in status[b] => Readable(b)
      /\ \A b \in Block : Forgotten(b) => Pending(b)
      /\ IndexRefersToBlocks
  BY <1>1 DEF FilesOK, Flushing
<1>3. IndexRefersToBlocks' /\ \A b \in Block : "data" \in status'[b] => Readable(b)'
  BY <1>1, <1>2 DEF IndexRefersToBlocks, Readable
<1>4. ASSUME NEW b \in Block, Forgotten(b)', pc' = "fatal" PROVE Pending(b)'
  <2>1. HoldsNone(nFile[b])
    BY <1>1, <1>2, <1>4 DEF Forgotten, Pending
  <2> QED BY <1>1, <1>4, <2>1 DEF Pending, HoldsNone
<1> QED BY <1>1, <1>3, <1>4 DEF FilesOK, Starting, Flushing

\* The coins are written, and FlushStateToDisk returns to a node that has forgotten
\* nothing, or to its end.
LEMMA CoinWriteFiles ==
    ASSUME FilesOK, WriteCoins \/ WritePartialBatch \/ WriteLastBatch
    PROVE  FilesOK'
<1>1. UNCHANGED <<status, dirtyIndex, files, synced, nFile, cursor, indexDB, toPrune>>
  BY DEF WriteCoins, WritePartialBatch, WriteLastBatch, mem, disk
<1>2. \/ pc \in {"coins", "batch"} /\ pc' = "run" /\ job.mode # "ALWAYS"
      \/ pc \in {"coins", "batch"} /\ pc' = "stop"
      \/ pc \in {"coins", "batch"} /\ pc' = "batch" /\ job' = job
      \/ pc = "rewrite" /\ pc' \in {"rewrite", "load"}
  BY DEF WriteCoins, WritePartialBatch, WriteLastBatch, Return
<1>3. CASE pc \in {"coins", "batch"}
  <2>1. /\ toPrune = {} /\ dirtyIndex = {}
        /\ \A b \in Block : Forgotten(b) => HoldsNone(nFile[b]) /\ job.mode = "ALWAYS"
    BY <1>3 DEF FilesOK, Pending, Flushing
  <2> QED BY <1>1, <1>2, <1>3, <2>1, FilesKept DEF Starting, Flushing
<1>4. CASE pc = "rewrite"
  <2>1. toPrune = {} /\ \A b \in Block : ~ Forgotten(b)
    BY <1>4 DEF FilesOK, Starting
  <2> QED BY <1>1, <1>2, <1>4, <2>1, FilesKept DEF Starting, Flushing
<1> QED BY <1>2, <1>3, <1>4

\* The next start finds what the database refers to.
LEMMA StopStartFiles ==
    ASSUME Typed, FilesOK, Shutdown \/ Crash \/ Start
    PROVE  FilesOK'
<1>1. CASE Shutdown \/ Crash
  <2>1. pc' = "down" /\ toPrune' = {} /\ UNCHANGED <<indexDB, synced>>
    BY <1>1 DEF Shutdown, Crash, LoseMemory
  <2>2. IndexRefersToBlocks'
    BY <2>1 DEF FilesOK, IndexRefersToBlocks
  <2> QED BY <2>1, <2>2 DEF FilesOK, Starting, Flushing
<1>2. CASE LoadBlockIndex
  <2> DEFINE pruned == {b \in Block : indexDB[b] = {"header"}}
             new == indexDB[Genesis] = {}
  <2>1. /\ pc = "down" /\ pc' \in {"replay", "failed"} /\ UNCHANGED <<indexDB, toPrune>>
        /\ status' = IF new THEN [indexDB EXCEPT ![Genesis] = {"header", "data"}] ELSE indexDB
        /\ files' = [b \in Block |->
                       IF b \in pruned THEN {}
                       ELSE IF b = Genesis /\ new THEN {"data"} ELSE files[b]]
        /\ synced' = [b \in Block |-> IF b \in pruned \/ (b = Genesis /\ new) THEN {}
                                       ELSE synced[b]]
        /\ nFile' = IF new THEN [nFile EXCEPT ![Genesis] = lastFile] ELSE nFile
        /\ cursor' = [file_num |-> lastFile, undo_height |-> 0]
    BY <1>2 DEF LoadBlockIndex, flow
  <2>2. /\ indexDB \in [Block -> SUBSET Flag] /\ nFile \in [Block -> 0..MaxFile]
        /\ \A b \in Block : synced[b] \subseteq files[b]
        /\ Genesis \in Block
    BY TreeTypes DEF Typed, IndexTyped, FilesTyped
  <2>3. IndexRefersToBlocks /\ toPrune = {}
    BY <2>1 DEF FilesOK
  <2>4. \A b \in Block : "data" \in indexDB[b] =>
           /\ files'[b] = files[b] /\ synced'[b] = synced[b]
           /\ "data" \in synced[b] /\ "data" \in files[b]
    BY <2>1, <2>2, <2>3 DEF IndexRefersToBlocks
  <2>5. \A b \in Block : /\ "data" \in indexDB[b] => "data" \in status'[b]
                         /\ "data" \in status'[b] => "data" \in indexDB[b] \/ (b = Genesis /\ new)
    BY <2>1, <2>2
  <2>6. new => "data" \in files'[Genesis] /\ nFile'[Genesis] = cursor'.file_num
    BY <2>1, <2>2
  <2> HIDE DEF new, pruned
  <2>7. IndexRefersToBlocks'
    BY <2>1, <2>4 DEF IndexRefersToBlocks
  <2>8. \A b \in Block : "data" \in status'[b] => Readable(b)'
    BY <2>4, <2>5, <2>6 DEF Readable
  <2>9. \A b \in Block : ~ Forgotten(b)'
    BY <2>1, <2>5 DEF Forgotten
  <2> QED BY <2>1, <2>3, <2>7, <2>8, <2>9 DEF FilesOK, Flushing
<1>3. CASE ReplayBlocks \/ RollbackBlock \/ ReplayForward \/ LoadChainTip
  <2>1. /\ UNCHANGED <<status, dirtyIndex, files, synced, nFile, cursor, indexDB, toPrune>>
        /\ pc \in Starting /\ pc' \in Starting \cup {"run", "failed"}
    BY <1>3 DEF ReplayBlocks, RollbackBlock, ReplayForward, LoadChainTip, mem, disk, Starting
  <2>2. toPrune = {} /\ \A b \in Block : ~ Forgotten(b)
    BY <2>1 DEF FilesOK, Starting
  <2> QED BY <2>1, <2>2, FilesKept DEF Starting, Flushing
<1> QED BY <1>1, <1>2, <1>3 DEF Start

\* Every step
LEMMA StepFiles ==
    ASSUME Typed, FilesOK, [Next]_vars
    PROVE  FilesOK'
<1>1. CASE UNCHANGED vars
  BY <1>1 DEF vars, mem, disk, flow, FilesOK, IndexRefersToBlocks, Readable, Forgotten, Pending, HoldsNone
<1>2. CASE Next
  <2>1. CASE \E b \in Block : AcceptBlock(b) \/ ConnectTip(b)
    BY <2>1, AcceptBlockFiles, ConnectTipFiles
  <2>2. CASE FlushStep
    BY <2>2, EnterFlushFiles, IndexWriteFiles, FatalFiles, CoinWriteFiles, StopStartFiles DEF FlushStep
  <2> QED BY <1>2, <2>1, <2>2, RunFiles, StopStartFiles DEF Next
<1> QED BY <1>1, <1>2

-----------------------------------------------------------------------------
(* The theorems                                                            *)

INSTANCE FiniteSetTheorems

\* The libraries have what is used of them.
LEMMA SetFactsHold == SetFacts
<1>1. LeastNumbers
  <2> DEFINE Less == OpToRel(<, Nat)
  <2>1. \A x, y \in Nat : <<y, x>> \in Less <=> y < x
    BY DEF OpToRel
  <2>2. IsWellFoundedOn(Less, Nat)
    BY NatLessThanWellFounded
  <2> HIDE DEF Less
  <2>3. ASSUME NEW S \in SUBSET Nat, S # {} PROVE \E x \in S : \A y \in S : x <= y
    <3>1. PICK x \in S : \A y \in S : ~ (<<y, x>> \in Less)
      BY <2>2, <2>3, WFMin
    <3>2. ASSUME NEW y \in S PROVE x <= y
      <4>1. x \in Nat /\ y \in Nat /\ ~ (y < x)
        BY <2>1, <3>1
      <4> QED BY <4>1, SMTT(40)
    <3> QED BY <3>2
  <2> QED BY <2>3 DEF LeastNumbers
<1>2. FiniteSubsets
  BY FS_CardinalityType, FS_Subset DEF FiniteSubsets
<1>3. FiniteEmpty /\ FiniteSingletons
  BY FS_EmptySet, FS_Singleton DEF FiniteEmpty, FiniteSingletons
<1>4. FiniteAdd /\ FiniteRemove
  BY FS_AddElement, FS_RemoveElement DEF FiniteAdd, FiniteRemove
<1>5. FiniteUnions /\ FiniteUNION
  BY FS_Union, FS_UNION DEF FiniteUnions, FiniteUNION
<1>6. FiniteProducts /\ FiniteIntervals
  BY FS_Product, FS_Interval DEF FiniteProducts, FiniteIntervals
<1>7. FiniteImages
  <2> SUFFICES ASSUME NEW S, NEW T, NEW f \in [S -> T], IsFiniteSet(S),
                      \A y \in T : \E x \in S : f[x] = y
               PROVE  /\ IsFiniteSet(T)
                      /\ (\A x, y \in S : f[x] = f[y] => x = y) => Cardinality(T) = Cardinality(S)
    BY DEF FiniteImages
  <2>1. f \in Surjection(S, T)
    BY DEF Surjection
  <2>2. (\A x, y \in S : f[x] = f[y] => x = y) => f \in Injection(S, T)
    BY DEF Injection, IsInjective
  <2> QED BY <2>1, <2>2, FS_Surjection
<1> QED BY <1>1, <1>2, <1>3, <1>4, <1>5, <1>6, <1>7 DEF SetFacts

\* What an interrupted BatchWrite leaves, and what a power failure brings back of it,
\* is the old or the new coin for every output, however often flushes and replays
\* are interrupted; the types hold.  For a database that refuses no write.
THEOREM FlushLeavesOldOrNew == "coins" \notin Faults => (Spec => []OldOrNewCoin)
<1> SUFFICES ASSUME "coins" \notin Faults PROVE Spec => []OldOrNewCoin
  OBVIOUS
<1>1. Init => CoinInv
  BY InitCoins
<1>2. CoinInv /\ [Next]_vars => CoinInv'
  BY StepCoins, SetFactsHold
<1>3. CoinInv => OldOrNewCoin
  BY CoinFacts
<1> QED BY <1>1, <1>2, <1>3, PTL DEF Spec

\* When the coins database has a DB_BEST_BLOCK and no DB_HEAD_BLOCKS, its coins are
\* the UTXO set of that block.  For a database that refuses no write.
THEOREM BestBlockIsTrue == "coins" \notin Faults => (Spec => []MarkedConsistent)
<1> SUFFICES ASSUME "coins" \notin Faults PROVE Spec => []MarkedConsistent
  OBVIOUS
<1>1. Init => CoinInv
  BY InitCoins
<1>2. CoinInv /\ [Next]_vars => CoinInv'
  BY StepCoins, SetFactsHold
<1>3. CoinInv => MarkedConsistent
  BY CoinFacts
<1> QED BY <1>1, <1>2, <1>3, PTL DEF Spec

\* Flush, crash and replay implement DurableChain: the UTXO set in memory is that of
\* one block, and a start finds that of a block at which the state was written.
\* For a coins database that refuses no write.
THEOREM RecoveryIsDurable == "coins" \notin Faults => (Spec => ImplementsDurableChain)
<1> SUFFICES ASSUME "coins" \notin Faults PROVE Spec => ImplementsDurableChain
  OBVIOUS
<1>1. Init => CoinInv /\ DC!Init
  BY InitCoins, InitRefines
<1>2. CoinInv /\ [Next]_vars => CoinInv'
  BY StepCoins, SetFactsHold
<1>3. CoinInv /\ CoinInv' /\ [Next]_vars => [DC!Next]_(DC!vars)
  <2> SUFFICES ASSUME CoinInv, CoinInv', [Next]_vars PROVE [DC!Next]_(DC!vars)
    OBVIOUS
  <2>0. Typed /\ CoinsOK /\ CoinsOK'
    BY DEF CoinInv
  <2>1. CASE UNCHANGED vars
    <3>1. UNCHANGED <<best, coins, coinsDB, survivor, pc>>
      BY <2>1 DEF vars, cache, disk
    <3> QED BY <3>1, Invisible
  <2>2. CASE Next
    <3>1. ~ WriteBatchFails
      BY DEF WriteBatchFails
    <3>2. CASE FlushStep
      BY <2>0, <3>1, <3>2, RunRefines, BatchRefines, StopStartRefines DEF FlushStep
    <3>3. CASE Crash \/ Start
      BY <2>0, <3>3, StopStartRefines
    <3>4. CASE ~ (FlushStep \/ Crash \/ Start)
      BY <2>0, <2>2, <3>4, RunRefines DEF Next
    <3> QED BY <3>2, <3>3, <3>4
  <2> QED BY <2>1, <2>2
<1> QED BY <1>1, <1>2, <1>3, PTL DEF Spec, ImplementsDurableChain, DC!Spec

\* The block index database refers to no block that a power failure would lose
\* (FlushStateToDisk, FindNextBlockPos, PruneOneBlockFile, UnlinkPrunedFiles): a file is
\* synced before the index is written or when the next one is begun, and unlinked after
\* the index has forgotten it, also when the write of the index or of the coins fails in
\* between and the node flushes once more.
THEOREM IndexIsDurable == Spec => []IndexRefersToBlocks
<1>1. Init => Typed /\ FilesOK
  <2> SUFFICES ASSUME Init PROVE Typed /\ FilesOK
    OBVIOUS
  <2>1. pc = "down" /\ toPrune = {} /\ \A b \in Block : indexDB[b] = {}
    BY DEF Init
  <2> QED BY <2>1, InitTypes DEF FilesOK, IndexRefersToBlocks, Starting, Flushing
<1>2. Typed /\ FilesOK /\ [Next]_vars => (Typed /\ FilesOK)'
  BY StepTypes, StepFiles, SetFactsHold
<1>3. Typed /\ FilesOK => IndexRefersToBlocks
  BY DEF FilesOK
<1> QED BY <1>1, <1>2, <1>3, PTL DEF Spec
=============================================================================
