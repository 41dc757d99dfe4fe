------------------------------ MODULE Recovery ------------------------------
(***************************************************************************)
(* How the node writes its state and finds it again (validation.cpp,       *)
(* txdb.cpp, node/blockstorage.cpp, node/chainstate.cpp).  Block and undo  *)
(* files, the block index database and the coins database are written one  *)
(* after the other, the coins in several batches, and the node may die     *)
(* between any two writes; the next start replays blocks until the coins   *)
(* database is the UTXO set of one block again.                            *)
(*                                                                         *)
(* cs_main is held from the entry of FlushStateToDisk to its return, and   *)
(* during the start, so that only a crash can come between their steps.    *)
(* The tip moves to any neighbour for which there is data: Chainstate says *)
(* which.  A coin is the block that created it.  A block file is full when *)
(* it holds FileSize blocks.  The coins cache is what CoinsCache shows it  *)
(* to be: a map and the set of its dirty entries.                          *)
(***************************************************************************)
EXTENDS BlockTree, FiniteSetsExt

CONSTANTS
    Outpoint,
    Spent,              \* no unspent output
    vin,                \* the outputs of earlier blocks that a block spends
    vout,               \* the outputs that a block leaves unspent
    Utxo,               \* the UTXO set of the chain that ends in a block
    MIN_BLOCKS_TO_KEEP,
    FileSize,           \* how many blocks fit into a blk file
    MaxFile,            \* bound: the last blk file
    PruneMode,          \* m_prune_mode
    Faults,             \* which database writes may fail: "index", "coins"
    PowerFailure,       \* whether a crash may lose what has not been synced
    MaxCrash            \* bound: crashes

Empty == [o \in Outpoint |-> Spent]

\* What the block does to the outputs it touches.
RollforwardBlock(b, c) ==
    [o \in Outpoint |-> IF o \in vout[b] THEN b
                        ELSE IF o \in vin[b] THEN Spent ELSE c[o]]

Touched(b) == vin[b] \cup vout[b]

\* Each block spends outputs that are there and creates outputs that are not;
\* Utxo follows from that.
ASSUME RecoveryAssumption ==
    /\ Spent \notin Block
    /\ vin \in [Block -> SUBSET Outpoint] /\ vout \in [Block -> SUBSET Outpoint]
    /\ Utxo \in [Block -> [Outpoint -> Block \cup {Spent}]]
    /\ Touched(Genesis) = {} /\ Utxo[Genesis] = Empty
    /\ \A b \in Block \ {Genesis} :
         /\ \A o \in vin[b] : Utxo[pprev[b]][o] # Spent
         /\ \A o \in vout[b] : Utxo[pprev[b]][o] = Spent
         /\ Utxo[b] = RollforwardBlock(b, Utxo[pprev[b]])
    /\ MIN_BLOCKS_TO_KEEP \in Nat /\ FileSize \in Nat \ {0}
    /\ MaxFile \in Nat /\ MaxCrash \in Nat
    /\ PruneMode \in BOOLEAN /\ PowerFailure \in BOOLEAN /\ Faults \subseteq {"index", "coins"}

VARIABLES
    status,         \* m_block_index: absent, or the BLOCK_HAVE_ flags of an entry
    dirtyIndex,     \* m_dirty_blockindex
    undo,           \* the contents of the undo record of a block
    files,          \* the records in the blk and rev files
    synced,         \* those of them that a power failure would leave
    nFile,          \* the number of the blk and of the rev file of a block
    cursor,         \* m_blockfile_cursors[NORMAL]: file_num and undo_height
    indexDB,        \* the block index database
    lastFile,       \* its DB_LAST_BLOCK
    coins,          \* CoinsTip(), or the cache of ReplayBlocks
    best,           \* its best block
    dirtyCoins,     \* its DIRTY entries
    coinsDB,        \* the coins database
    survivor,       \* its state that a power failure would bring back
    tip,            \* m_chain.Tip()
    pc,             \* where the thread with cs_main is
    job,            \* the locals of FlushStateToDisk and its caller
    toPrune,        \* setFilesToPrune, not yet unlinked
    batch,          \* the entries that BatchWrite has still to write
    at,             \* the block up to which ReplayBlocks has come
    crashes

mem == <<status, dirtyIndex, cursor, tip>>
cache == <<coins, best, dirtyCoins>>
disk == <<undo, files, synced, nFile, indexDB, lastFile, coinsDB, survivor>>
flow == <<job, toPrune, batch, at, crashes>>
vars == <<mem, cache, disk, pc, flow>>

Flag == {"header", "data", "undo"}
FirstFile == [file_num |-> 0, undo_height |-> 0]
MaybeBlock == Block \cup {NoBlock}
Coins == [Outpoint -> Block \cup {Spent}]
Mode == {"NONE", "IF_NEEDED", "PERIODIC", "ALWAYS"}

UtxoOf(b) == IF b = NoBlock THEN Empty ELSE Utxo[b]

Running == {"run", "enter", "files", "index", "unlink", "coins", "batch", "fatal",
            "stop"}
Starting == {"replay", "rollback", "forward", "rewrite", "load"}

NoJob == [mode |-> "NONE", then |-> NoBlock, erase |-> FALSE]

Init ==
    /\ status = [b \in Block |-> {}] /\ indexDB = status
    /\ files = status /\ synced = status
    /\ undo = [b \in Block |-> Empty]
    /\ nFile = [b \in Block |-> 0] /\ cursor = FirstFile /\ lastFile = 0
    /\ dirtyIndex = {} /\ dirtyCoins = {} /\ toPrune = {} /\ batch = {}
    /\ coins = Empty /\ best = NoBlock /\ tip = NoBlock /\ at = NoBlock
    /\ coinsDB = [coins |-> Empty, best |-> NoBlock, heads |-> <<>>]
    /\ survivor = coinsDB
    /\ pc = "down" /\ job = NoJob /\ crashes = 0

-----------------------------------------------------------------------------
(* A running node.                                                          *)

\* FlushStateToDisk(mode) is called; after it m_chain's tip becomes then.
CallFlush(mode, then) ==
    /\ pc' = "enter"
    /\ job' = [mode |-> mode, then |-> then, erase |-> FALSE]

InFile(f) == {b \in Block : "data" \in status[b] /\ nFile[b] = f}

\* CBlockFileInfo: the greatest height in the file
nHeightLast(f) == Max({0} \cup {nHeight[b] : b \in InFile(f)})

\* What is synced after FileCommit of the blk or the rev file f, or of both
Commit(f, kinds, fs) ==
    [b \in Block |-> IF nFile[b] = f THEN synced[b] \cup (fs[b] \cap kinds) ELSE synced[b]]

\* Mutant: the file that is left is not synced.
FlushBlockFile_Not(f, finalize_undo) == synced

\* FlushBlockFile when a file is full: the rev file only if no undo record is
\* still to come.
FlushBlockFile(f, finalize_undo) ==
    Commit(f, {"data"} \cup (IF finalize_undo THEN {"undo"} ELSE {}), files)

\* FindNextBlockPos: the block goes into the file of the cursor, or the next.
FindNextBlockPos(b) ==
    LET last == cursor.file_num
    IN  IF Cardinality(InFile(last)) < FileSize
        THEN /\ nFile' = [nFile EXCEPT ![b] = last]
             /\ synced' = [synced EXCEPT ![b] = {}]
             /\ UNCHANGED cursor
        ELSE /\ last < MaxFile
             /\ nFile' = [nFile EXCEPT ![b] = last + 1]
             /\ cursor' = [file_num |-> last + 1, undo_height |-> 0]
             /\ synced' = [FlushBlockFile(last, nHeightLast(last) = cursor.undo_height)
                             EXCEPT ![b] = {}]

\* A requested block arrives on a known header; it is written to a blk file.
AcceptBlock(b) ==
    /\ pc = "run"
    /\ b # Genesis
    /\ "header" \in status[pprev[b]]
    /\ "data" \notin status[b]
    /\ FindNextBlockPos(b)
    /\ files' = [files EXCEPT ![b] = {"data"}]
    /\ status' = [status EXCEPT ![b] = @ \cup {"header", "data"}]
    /\ dirtyIndex' = dirtyIndex \cup {b}
    /\ CallFlush("NONE", tip)
    /\ UNCHANGED <<tip, cache, undo, indexDB, lastFile, coinsDB, survivor,
                   toPrune, batch, at, crashes>>

\* Mutant: the rev file of a full file is left to the next flush.
RevFileComplete_Never(b) == FALSE

\* The undo record of b is taken to be the last one of a file that is full.
RevFileComplete(b) == nFile[b] < cursor.file_num /\ nHeight[b] = nHeightLast(nFile[b])

\* The undo record goes into the rev file of the block's file, which is synced
\* at once if it is complete.
UndoWritten(b, record) ==
    LET f == nFile[b]
    IN  /\ undo' = [undo EXCEPT ![b] = [o \in Outpoint |-> IF o \in vin[b] THEN record[o] ELSE Spent]]
        /\ files' = [files EXCEPT ![b] = @ \cup {"undo"}]
        /\ status' = [status EXCEPT ![b] = @ \cup {"undo"}]
        /\ dirtyIndex' = dirtyIndex \cup {b}
        /\ synced' = IF RevFileComplete(b)
                     THEN Commit(f, {"undo"}, files')
                     ELSE [synced EXCEPT ![b] = @ \ {"undo"}]
        /\ cursor' = IF f = cursor.file_num /\ nHeight[b] > cursor.undo_height
                     THEN [cursor EXCEPT !.undo_height = nHeight[b]] ELSE cursor

\* The undo data is the coins that the block spends.
WriteBlockUndo(b) ==
    IF b = Genesis \/ "undo" \in status[b]
    THEN UNCHANGED <<undo, files, status, dirtyIndex, synced, cursor>>
    ELSE UndoWritten(b, coins)

\* The coins are those of the new block before m_chain is.
ConnectTip(b) ==
    /\ pc = "run"
    /\ pprev[b] = tip
    /\ "data" \in status[b] \cap files[b]
    /\ WriteBlockUndo(b)
    /\ coins' = RollforwardBlock(b, coins)
    /\ best' = b
    /\ dirtyCoins' = dirtyCoins \cup Touched(b)
    /\ CallFlush("IF_NEEDED", b)
    /\ UNCHANGED <<tip, nFile, indexDB, lastFile, coinsDB, survivor, toPrune, batch,
                   at, crashes>>

\* The outputs of the block go and what it spent comes back.
DisconnectBlock(b, c) ==
    [o \in Outpoint |-> IF o \in vin[b] THEN undo[b][o]
                        ELSE IF o \in vout[b] THEN Spent ELSE c[o]]

DisconnectTip ==
    /\ pc = "run"
    /\ tip \notin {NoBlock, Genesis}
    /\ {"data", "undo"} \subseteq status[tip] \cap files[tip]
    /\ coins' = DisconnectBlock(tip, coins)
    /\ best' = pprev[tip]
    /\ dirtyCoins' = dirtyCoins \cup Touched(tip)
    /\ CallFlush("IF_NEEDED", pprev[tip])
    /\ UNCHANGED <<mem, disk, toPrune, batch, at, crashes>>

\* ReadBlock or ReadBlockUndo fails in DisconnectTip: ActivateBestChainStep ends in
\* FatalError (InvalidateBlock would just return).
DisconnectTipFails ==
    /\ pc = "run"
    /\ tip \notin {NoBlock, Genesis}
    /\ ~ ({"data", "undo"} \subseteq status[tip] \cap files[tip])
    /\ pc' = "fatal"
    /\ UNCHANGED <<mem, cache, disk, flow>>

\* At the end of ActivateBestChain, and when the chainstate manager is destroyed,
\* also after a fatal error.
CallFlushStateToDisk ==
    /\ \/ pc = "run" /\ CallFlush("PERIODIC", tip)
       \/ pc \in {"run", "fatal"} /\ CallFlush("ALWAYS", tip)
    /\ UNCHANGED <<mem, cache, disk, toPrune, batch, at, crashes>>

-----------------------------------------------------------------------------
(* FlushStateToDisk                                                         *)

\* The caller goes on: it moves m_chain, or ends the process.
Return ==
    /\ tip' = job.then
    /\ pc' = IF job.mode = "ALWAYS" THEN "stop" ELSE "run"
    /\ job' = NoJob

\* FatalError: m_chain stays where it is; only the shutdown is left to do.
Fatal ==
    /\ pc' = IF job.mode = "ALWAYS" THEN "stop" ELSE "fatal"
    /\ job' = NoJob /\ toPrune' = {} /\ batch' = {}
    /\ UNCHANGED <<tip, cursor, nFile, survivor, at, crashes>>

\* The files before the last with blocks up to height only, and those at least
\* MIN_BLOCKS_TO_KEEP below the tip.
FindFilesToPrune(height) ==
    {f \in 0..(cursor.file_num - 1) :
        /\ tip # NoBlock
        /\ InFile(f) # {}
        /\ nHeightLast(f) <= height
        /\ nHeightLast(f) <= Max({0, nHeight[tip] - MIN_BLOCKS_TO_KEEP})}

\* Pruning by hand takes all of them, automatic pruning the first ones, until
\* enough space is free.
FilesToPrune ==
    {{f \in FindFilesToPrune(h) : f <= k} :
        h \in {nHeight[b] : b \in IF PruneMode THEN Block ELSE {}} \ {0}, k \in 0..MaxFile}

\* PruneOneBlockFile for each of the files
PruneBlockFiles(P) ==
    LET pruned == UNION {InFile(f) : f \in P}
    IN  /\ status' = [b \in Block |-> IF b \in pruned THEN {"header"} ELSE status[b]]
        /\ dirtyIndex' = dirtyIndex \cup pruned

\* empty_cache, where need says that the size of the cache or the time call for
\* a write: an IF_NEEDED write is only for a cache that is over its limit.
EmptyCache(mode, need) ==
    CASE mode = "ALWAYS" \/ (mode = "IF_NEEDED" /\ need) -> {TRUE}
      [] mode = "PERIODIC" /\ need -> BOOLEAN
      [] OTHER -> {FALSE}

\* Choose what to prune, and whether to write.
EnterFlush ==
    /\ pc = "enter"
    /\ \E P \in {{}} \cup FilesToPrune,
          need \in IF job.mode \in {"IF_NEEDED", "PERIODIC"} THEN BOOLEAN ELSE {FALSE} :
         /\ PruneBlockFiles(P)
         /\ toPrune' = P
         /\ IF need \/ P # {} \/ job.mode = "ALWAYS"
            THEN /\ pc' = "files"
                 /\ \E e \in EmptyCache(job.mode, need) : job' = [job EXCEPT !.erase = e]
                 /\ UNCHANGED tip
            ELSE Return
    /\ UNCHANGED <<cursor, cache, disk, batch, at, crashes>>

\* FlushBlockFile for the blk and the rev file of the cursor
Synced == Commit(cursor.file_num, {"data", "undo"}, files)

FlushChainstateBlockFile ==
    /\ pc = "files"
    /\ synced' = Synced
    /\ pc' = "index"
    /\ UNCHANGED <<mem, cache, undo, files, nFile, indexDB, lastFile, coinsDB, survivor, flow>>

\* Mutant: the index waits when it is only the cache that calls for a write.
IndexEntries_Lazy == IF job.mode = "IF_NEEDED" THEN {} ELSE dirtyIndex

\* vBlocks
IndexEntries == dirtyIndex

\* The dirty set is emptied first, then the batch is written.
WriteBlockIndexDB ==
    /\ pc = "index"
    /\ indexDB' = [b \in Block |-> IF b \in IndexEntries THEN status[b] ELSE indexDB[b]]
    /\ lastFile' = cursor.file_num
    /\ dirtyIndex' = {}
    /\ pc' = "unlink"
    /\ UNCHANGED <<status, cursor, tip, cache, undo, files, synced, nFile, coinsDB,
                   survivor, flow>>

WriteBlockIndexDBFails ==
    /\ pc = "index"
    /\ "index" \in Faults
    /\ dirtyIndex' = {}
    /\ Fatal
    /\ UNCHANGED <<status, cache, undo, files, synced, indexDB, lastFile, coinsDB>>

UnlinkPrunedFiles ==
    /\ pc = "unlink"
    /\ IF toPrune = {}
       THEN pc' = "coins" /\ UNCHANGED <<files, synced, toPrune>>
       ELSE \E f \in toPrune :
              /\ files' = [b \in Block |-> IF nFile[b] = f THEN {} ELSE files[b]]
              /\ synced' = [b \in Block |-> IF nFile[b] = f THEN {} ELSE synced[b]]
              /\ toPrune' = toPrune \ {f}
              /\ UNCHANGED pc
    /\ UNCHANGED <<mem, cache, undo, nFile, indexDB, lastFile, coinsDB, survivor, job,
                   batch, at, crashes>>

\* CoinsTip().Flush() or Sync(), unless nothing has been connected yet.
WriteCoins ==
    /\ pc = "coins"
    /\ IF best = NoBlock
       THEN Return /\ UNCHANGED batch
       ELSE pc' = "batch" /\ batch' = dirtyCoins /\ UNCHANGED <<tip, job>>
    /\ UNCHANGED <<status, dirtyIndex, cursor, cache, disk, toPrune, at, crashes>>

\* CheckDiskSpace fails before the block files or before the coins are written.
DiskSpaceTooLow ==
    /\ pc \in {"files", "coins"}
    /\ Fatal
    /\ UNCHANGED <<status, dirtyIndex, cache, undo, files, synced, indexDB, lastFile, coinsDB>>

-----------------------------------------------------------------------------
(* CCoinsViewDB::BatchWrite                                                 *)

\* Mutant: a flush that goes on after a replay forgets where the first began.
OldTip_Best == coinsDB.best

OldTip == IF coinsDB.best = NoBlock /\ coinsDB.heads # <<>>
          THEN coinsDB.heads[2] ELSE coinsDB.best

\* Mutant: spent coins are not erased.
Written_Unspent(S) ==
    [o \in Outpoint |-> IF o \in S /\ coins[o] # Spent THEN coins[o] ELSE coinsDB.coins[o]]

Written(S) == [o \in Outpoint |-> IF o \in S THEN coins[o] ELSE coinsDB.coins[o]]

\* Sync takes the flags of the entries away as it goes, Flush in the end.
UnflaggedBy(S) == IF job.erase THEN dirtyCoins ELSE dirtyCoins \ S

\* The write is not synced: any earlier state may be the one that survives.
PutCoins(d) ==
    /\ coinsDB' = d
    /\ survivor' \in IF PowerFailure THEN {survivor, coinsDB, d} ELSE {d}

\* A batch has become too large: the database is between two blocks.
WritePartialBatch ==
    /\ pc \in {"batch", "rewrite"}
    /\ \E S \in (SUBSET batch) \ {{}} :
         /\ PutCoins([coins |-> Written(S), best |-> NoBlock, heads |-> <<best, OldTip>>])
         /\ batch' = batch \ S
         /\ dirtyCoins' = UnflaggedBy(S)
    /\ UNCHANGED <<mem, coins, best, undo, files, synced, nFile, indexDB, lastFile, pc,
                   job, toPrune, at, crashes>>

WriteLastBatch ==
    /\ pc \in {"batch", "rewrite"}
    /\ PutCoins([coins |-> Written(batch), best |-> best, heads |-> <<>>])
    /\ batch' = {}
    /\ dirtyCoins' = {}
    /\ IF pc = "batch" THEN Return ELSE pc' = "load" /\ UNCHANGED <<tip, job>>
    /\ UNCHANGED <<status, dirtyIndex, cursor, coins, best, undo, files, synced, nFile,
                   indexDB, lastFile, toPrune, at, crashes>>

\* The database refuses a batch, with the entries in S; Sync has by then unflagged
\* the unspent ones of them, and erased the spent ones from the cache.
WriteBatchFails ==
    /\ pc = "batch"
    /\ "coins" \in Faults
    /\ \E S \in SUBSET batch :
         /\ dirtyCoins' = UnflaggedBy(S)
         /\ coins' = [o \in Outpoint |-> IF coins[o] = Spent /\ o \in S /\ ~job.erase
                                         THEN coinsDB.coins[o] ELSE coins[o]]
    /\ Fatal
    /\ UNCHANGED <<status, dirtyIndex, best, undo, files, synced, indexDB, lastFile, coinsDB>>

-----------------------------------------------------------------------------
(* The end of the process and the next start.                               *)

LoseMemory ==
    /\ status' = [b \in Block |-> {}] /\ dirtyIndex' = {} /\ tip' = NoBlock
    /\ nFile' = [b \in Block |-> IF "data" \in indexDB[b] THEN nFile[b] ELSE 0]
    /\ cursor' = FirstFile
    /\ coins' = Empty /\ best' = NoBlock /\ dirtyCoins' = {}
    /\ job' = NoJob /\ toPrune' = {} /\ batch' = {} /\ at' = NoBlock
    /\ survivor' = coinsDB'
    /\ pc' = "down"

\* ChainMan's destructor has flushed: the process ends.
Shutdown ==
    /\ pc = "stop"
    /\ UNCHANGED <<undo, files, synced, indexDB, lastFile, coinsDB, crashes>>
    /\ LoseMemory

\* The process dies, or the machine does: then what has not been synced is lost,
\* of the coins database the batches since some moment.
Crash ==
    /\ pc \notin {"down", "failed"}
    /\ crashes < MaxCrash
    /\ crashes' = crashes + 1
    /\ files' \in {files} \cup (IF PowerFailure THEN {synced} ELSE {})
    /\ coinsDB' \in {coinsDB, survivor}
    /\ LoseMemory
    /\ UNCHANGED <<undo, synced, indexDB, lastFile>>

\* LoadBlockIndexDB wants all blk files and goes on with the last one; files already pruned are unlinked;
\* LoadGenesisBlock puts the genesis block into an empty index.
LoadBlockIndex ==
    LET pruned == {b \in Block : indexDB[b] = {"header"}}
        new == indexDB[Genesis] = {}
    IN  /\ pc = "down"
        /\ tip' = NoBlock
        /\ coins' = coinsDB.coins /\ best' = coinsDB.best /\ dirtyCoins' = {}
        /\ status' = IF new THEN [indexDB EXCEPT ![Genesis] = {"header", "data"}] ELSE indexDB
        /\ dirtyIndex' = IF new THEN {Genesis} ELSE {}
        /\ files' = [b \in Block |->
                       IF b \in pruned THEN {}
                       ELSE IF b = Genesis /\ new THEN {"data"} ELSE files[b]]
        /\ synced' = [b \in Block |-> IF b \in pruned \/ (b = Genesis /\ new) THEN {}
                                       ELSE synced[b]]
        /\ nFile' = IF new THEN [nFile EXCEPT ![Genesis] = lastFile] ELSE nFile
        /\ cursor' = [file_num |-> lastFile, undo_height |-> 0]
        /\ pc' = IF \A b \in Block : "data" \in indexDB[b] =>
                       \E c \in Block : nFile[c] = nFile[b] /\ "data" \in files[c]
                 THEN "replay" ELSE "failed"
        /\ UNCHANGED <<undo, indexDB, lastFile, coinsDB, survivor, flow>>

\* ReplayBlocks up to its loops: both tips of the interrupted flush must be known.
ReplayBlocks ==
    /\ pc = "replay"
    /\ IF coinsDB.heads = <<>>
       THEN pc' = "load" /\ UNCHANGED at
       ELSE LET new == coinsDB.heads[1]
                old == coinsDB.heads[2]
            IN  IF \A b \in {new, old} \ {NoBlock} : "header" \in status[b]
                THEN pc' = "rollback" /\ at' = (IF old = NoBlock THEN Genesis ELSE old)
                ELSE pc' = "failed" /\ UNCHANGED at
    /\ UNCHANGED <<mem, cache, disk, job, toPrune, batch, crashes>>

New == coinsDB.heads[1]

\* Mutant: the block is passed over.
Rollback_Skip == coins' = coins /\ at' = pprev[at]

\* Mutant: the loop does not come forward.
Rollback_Stay == coins' = DisconnectBlock(at, coins) /\ at' = at

Rollback == coins' = DisconnectBlock(at, coins) /\ at' = pprev[at]

\* One block of the old branch; the genesis block is in the new one too.
RollbackBlock ==
    /\ pc = "rollback"
    /\ IF at \in Chain[New]
       THEN pc' = "forward" /\ UNCHANGED <<coins, dirtyCoins, at>>
       ELSE IF {"data", "undo"} \subseteq status[at] \cap files[at]
       THEN /\ Rollback
            /\ dirtyCoins' = dirtyCoins \cup Touched(at)
            /\ UNCHANGED pc
       ELSE pc' = "failed" /\ UNCHANGED <<coins, dirtyCoins, at>>
    /\ UNCHANGED <<mem, best, disk, job, toPrune, batch, crashes>>

\* One block of the new branch, or the end: the cache is flushed.
ReplayForward ==
    /\ pc = "forward"
    /\ IF at = New
       THEN /\ best' = New
            /\ batch' = dirtyCoins
            /\ pc' = "rewrite"
            /\ UNCHANGED <<coins, dirtyCoins, at>>
       ELSE LET b == GetAncestor(New, nHeight[at] + 1)
            IN  IF "data" \in status[b] \cap files[b]
                THEN /\ coins' = RollforwardBlock(b, coins)
                     /\ dirtyCoins' = dirtyCoins \cup Touched(b)
                     /\ at' = b
                     /\ UNCHANGED <<best, batch, pc>>
                ELSE pc' = "failed" /\ UNCHANGED <<coins, dirtyCoins, at, best, batch>>
    /\ UNCHANGED <<mem, disk, job, toPrune, crashes>>

\* InitCoinsCache, and LoadChainTip unless the coins database is empty.
LoadChainTip ==
    /\ pc = "load"
    /\ coins' = coinsDB.coins /\ best' = coinsDB.best /\ dirtyCoins' = {}
    /\ at' = NoBlock
    /\ IF coinsDB.best = NoBlock \/ "header" \in status[coinsDB.best]
       THEN tip' = coinsDB.best /\ pc' = "run"
       ELSE pc' = "failed" /\ UNCHANGED tip
    /\ UNCHANGED <<status, dirtyIndex, cursor, disk, job, toPrune, batch, crashes>>

Start == LoadBlockIndex \/ ReplayBlocks \/ RollbackBlock \/ ReplayForward \/ LoadChainTip

FlushStep ==
    \/ EnterFlush \/ FlushChainstateBlockFile \/ WriteBlockIndexDB
    \/ WriteBlockIndexDBFails \/ UnlinkPrunedFiles \/ WriteCoins \/ DiskSpaceTooLow
    \/ WritePartialBatch \/ WriteLastBatch \/ WriteBatchFails \/ Shutdown

Next ==
    \/ \E b \in Block : AcceptBlock(b) \/ ConnectTip(b)
    \/ DisconnectTip \/ DisconnectTipFails \/ CallFlushStateToDisk
    \/ FlushStep \/ Crash \/ Start

Spec == Init /\ [][Next]_vars

\* The thread that holds cs_main goes on, and a stopped node is started again.
Fairness == WF_vars(FlushStep \/ Start)

FairSpec == Spec /\ Fairness

-----------------------------------------------------------------------------
(* Properties                                                               *)

CoinsDB == [coins : Coins, best : MaybeBlock, heads : {<<>>} \cup (Block \X MaybeBlock)]

\* The type of every variable; what a power failure leaves of the files is part
\* of what is in them, only blocks in the index are dirty, and an undo record
\* holds an unspent coin for each output that the block spends.
TypeOK ==
    /\ status \in [Block -> SUBSET Flag] /\ indexDB \in [Block -> SUBSET Flag]
    /\ files \in [Block -> SUBSET Flag] /\ synced \in [Block -> SUBSET Flag]
    /\ \A b \in Block : synced[b] \subseteq files[b]
    /\ nFile \in [Block -> 0..MaxFile] /\ lastFile \in 0..MaxFile
    /\ cursor \in [file_num : 0..MaxFile, undo_height : {nHeight[b] : b \in Block}]
    /\ dirtyIndex \in SUBSET {b \in Block : "header" \in status[b]}
    /\ undo \in [Block -> Coins]
    /\ \A b \in Block : "undo" \in files[b] => \A o \in vin[b] : undo[b][o] \in Block
    /\ coins \in Coins /\ best \in MaybeBlock /\ dirtyCoins \in SUBSET Outpoint
    /\ coinsDB \in CoinsDB /\ survivor \in CoinsDB
    /\ tip \in MaybeBlock /\ at \in MaybeBlock
    /\ pc \in Running \cup Starting \cup {"down", "failed"}
    /\ job \in [mode : Mode, then : MaybeBlock, erase : BOOLEAN]
    /\ toPrune \in SUBSET (0..MaxFile) /\ batch \in SUBSET Outpoint
    /\ crashes \in 0..MaxCrash

\* When the coins database says that it is consistent with a block (it has a
\* DB_BEST_BLOCK and no DB_HEAD_BLOCKS), it holds exactly the UTXO set of that
\* block: what the last batch of BatchWrite marks is true.
MarkedConsistent == coinsDB.heads = <<>> => coinsDB.coins = UtxoOf(coinsDB.best)

\* In the middle of a flush every coin in the database is the one of the old or
\* the one of the new tip that DB_HEAD_BLOCKS names, also after a replay has
\* itself been interrupted, and every state a power failure can bring back is
\* like that or consistent: ReplayBlocks depends on it.  BatchWrite's assertion
\* holds: a flush begins on a consistent database, or goes on with the one that
\* was interrupted.
OldOrNewCoin ==
    /\ TypeOK
    /\ \A d \in {coinsDB, survivor} : d.heads # <<>> =>
           \A o \in Outpoint : d.coins[o] \in {UtxoOf(d.heads[1])[o], UtxoOf(d.heads[2])[o]}
    /\ pc \in {"batch", "rewrite"} /\ coinsDB.heads # <<>> => coinsDB.heads[1] = best

\* Every block that the block index database has a position for survives a power
\* failure: a blk file is synced before the index is written or when the next
\* one is begun, and unlinked after the index has forgotten it.
IndexRefersToBlocks == \A b \in Block : "data" \in indexDB[b] => "data" \in synced[b]

\* A flush syncs the rev file of the cursor only: it leaves out the undo record of
\* b when b is in an earlier file and not the highest block in it.
LeftOut(b) ==
    /\ nFile[b] < lastFile
    /\ \E c \in Block : /\ "data" \in indexDB[c] /\ nFile[c] = nFile[b]
                       /\ nHeight[c] > nHeight[b]

\* Every undo record that the block index database refers to survives a power
\* failure, except those that FlushChainstateBlockFile leaves out, although the
\* comment at its call says "First make sure all block and undo data is flushed
\* to disk": records in the last file are synced before the index is written,
\* and a rev file that is complete when the highest block's record is in it.
UndoDurable == \A b \in Block :
    "undo" \in indexDB[b] => "undo" \in synced[b] \/ LeftOut(b)

\* A start does not end in an error: not for want of a blk file, of the block index
\* entry of a block that the coins database names, or of a block that ReplayBlocks
\* has to read.  It does for want of an undo record on the old branch that a
\* power failure took because the flush had left it out.
StartSucceeds ==
    pc = "failed" =>
        /\ at # NoBlock /\ at \notin Chain[New] /\ LeftOut(at)
        /\ "data" \in files[at] /\ "undo" \in status[at] \ files[at]

\* A node that is started, and does not crash again, comes up.
NodeComesUp == pc = "down" ~> pc = "run"

Committed(d) == IF d.heads # <<>> THEN d.heads[1] ELSE d.best

DC == INSTANCE DurableChain WITH
    up <- pc \in Running,
    at <- IF pc \in Running THEN best ELSE NoBlock,
    coins <- IF pc \in Running THEN coins ELSE Empty,
    durable <- {Committed(d) : d \in {coinsDB, survivor}}

\* Flush, crash and replay implement DurableChain: the UTXO set in memory is
\* always that of one block, and the set a node starts with is that of a block
\* it had when it wrote its state, whatever was interrupted how often.
ImplementsDurableChain == DC!Spec
=============================================================================
