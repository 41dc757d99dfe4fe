----------------------------- MODULE CoinsCache -----------------------------
(***************************************************************************)
(* The stack of coins views (coins.cpp, coins.h): the coins database, the  *)
(* CCoinsViewCache CoinsTip() on top of it, and the temporary              *)
(* CCoinsViewCache that ConnectTip and DisconnectTip put on top of that    *)
(* for one block.  Each cache entry carries the DIRTY and FRESH flags that *)
(* decide what a flush writes and what it may drop.                        *)
(*                                                                         *)
(* cs_main is held from the construction of the block's view until it is   *)
(* flushed or destroyed, so nobody else touches CoinsTip() meanwhile.      *)
(***************************************************************************)
CONSTANTS
    Outpoint,   \* transaction outputs
    Coin,       \* unspent coins; outputs IsUnspendable() never get one
    Spent,      \* the nulled-out Coin
    Block,      \* block hashes
    NullBlock,  \* the null hash
    NoEntry     \* cacheCoins has no entry for the outpoint

Entry == [coin : Coin \cup {Spent}, dirty : BOOLEAN, fresh : BOOLEAN]

ASSUME ConstantsDistinct ==
    /\ Spent \notin Coin
    /\ NullBlock \notin Block
    /\ NoEntry \notin Entry

VARIABLES
    db,         \* the coins database: outpoint -> coin, Spent where it has none
    dbBest,     \* its DB_BEST_BLOCK
    tip,        \* CoinsTip().cacheCoins
    tipBest,    \* CoinsTip().hashBlock
    view,       \* the block view's cacheCoins
    viewBest,   \* the block view's hashBlock
    open,       \* the block view exists
    threw       \* a std::logic_error was thrown

vars == <<db, dbBest, tip, tipBest, view, viewBest, open, threw>>

CoinMap == [Outpoint -> Coin \cup {Spent}]

Cache == [Outpoint -> Entry \cup {NoEntry}]

EmptyCache == [o \in Outpoint |-> NoEntry]

MaybeBlock == Block \cup {NullBlock}

-----------------------------------------------------------------------------
(* The operations of one CCoinsViewCache.  base is what GetCoin of the view *)
(* below reports; it never returns a spent coin, so FetchCoin's FRESH case  *)
(* for a spent one (marked "cannot" in the source) does not arise.          *)

\* GetCoin, HaveCoin and AccessCoin: the cached coin, else the base's.
GetCoin(cache, base, o) == IF cache[o] = NoEntry THEN base[o] ELSE cache[o].coin

Merge(cache, base) == [o \in Outpoint |-> GetCoin(cache, base, o)]

FetchCoin(cache, base, o) ==
    IF cache[o] # NoEntry \/ base[o] = Spent
    THEN cache
    ELSE [cache EXCEPT ![o] = [coin |-> base[o], dirty |-> FALSE, fresh |-> FALSE]]

IsUnspent(e) == e # NoEntry /\ e.coin # Spent

IsDirty(e) == e # NoEntry /\ e.dirty

IsFresh(e) == e # NoEntry /\ e.fresh

\* Mutant: a re-added coin is FRESH even when its spentness is still DIRTY.
AddCoinFreshAlways(cache, o, c, possible_overwrite) ==
    [cache EXCEPT ![o] = [coin |-> c, dirty |-> TRUE, fresh |-> ~possible_overwrite]]

\* The flags of an entry are only ever added to; a new entry starts without.
AddCoin(cache, o, c, possible_overwrite) ==
    [cache EXCEPT ![o] =
        [coin  |-> c,
         dirty |-> TRUE,
         fresh |-> IsFresh(cache[o]) \/ (~possible_overwrite /\ ~IsDirty(cache[o]))]]

AddCoinThrows(cache, o, possible_overwrite) ==
    ~possible_overwrite /\ IsUnspent(cache[o])

\* SpendCoin on a cache into which the outpoint has been fetched.
SpendCoin(cache, o) ==
    [cache EXCEPT ![o] =
        IF cache[o] = NoEntry \/ IsFresh(cache[o])
        THEN NoEntry
        ELSE [coin |-> Spent, dirty |-> TRUE, fresh |-> FALSE]]

\* Mutant: FRESH is passed on to an entry that the parent already has.
BatchWriteEntryPassesFresh(us, e) ==
    CASE ~IsDirty(e) -> us
      [] IsDirty(e) /\ IsFresh(us) /\ e.coin = Spent -> NoEntry
      [] IsDirty(e) /\ ~(IsFresh(us) /\ e.coin = Spent) ->
            [coin |-> e.coin, dirty |-> TRUE, fresh |-> e.fresh \/ IsFresh(us)]

\* BatchWrite: what the child's entry e makes of the parent's entry us.
BatchWriteEntry(us, e) ==
    CASE ~IsDirty(e) -> us
      [] IsDirty(e) /\ us = NoEntry ->
            IF e.fresh /\ e.coin = Spent
            THEN NoEntry
            ELSE [coin |-> e.coin, dirty |-> TRUE, fresh |-> e.fresh]
      [] IsDirty(e) /\ us # NoEntry ->
            IF us.fresh /\ e.coin = Spent
            THEN NoEntry
            ELSE [coin |-> e.coin, dirty |-> TRUE, fresh |-> us.fresh]

BatchWrite(parent, child) ==
    [o \in Outpoint |-> BatchWriteEntry(parent[o], child[o])]

\* "FRESH flag misapplied to coin that exists in parent cache"
BatchWriteThrows(parent, child) ==
    \E o \in Outpoint : IsDirty(child[o]) /\ IsFresh(child[o]) /\ IsUnspent(parent[o])

\* CCoinsViewDB::BatchWrite: dirty entries are written, spent ones erased.
DBBatchWrite(coins, cache) ==
    [o \in Outpoint |-> IF IsDirty(cache[o]) THEN cache[o].coin ELSE coins[o]]

\* NextAndMaybeErase without will_erase: flagged entries that are spent go,
\* the other flagged ones lose their flags.
SyncEntry(e) ==
    IF IsDirty(e) \/ IsFresh(e)
    THEN IF e.coin = Spent THEN NoEntry ELSE [coin |-> e.coin, dirty |-> FALSE, fresh |-> FALSE]
    ELSE e

BestBlock(hashBlock, base) == IF hashBlock = NullBlock THEN base ELSE hashBlock

-----------------------------------------------------------------------------
TipCoins == Merge(tip, db)

ViewCoins == Merge(view, TipCoins)

TipBestBlock == BestBlock(tipBest, dbBest)

Init ==
    /\ db \in CoinMap
    /\ dbBest \in MaybeBlock
    /\ dbBest = NullBlock => \A o \in Outpoint : db[o] = Spent
    /\ tip = EmptyCache
    /\ tipBest = NullBlock
    /\ view = EmptyCache
    /\ viewBest = NullBlock
    /\ open = FALSE
    /\ threw = FALSE

\* CCoinsViewCache view(&CoinsTip()), and the assertion on its best block.
OpenView ==
    /\ ~open /\ ~threw
    /\ open' = TRUE
    /\ view' = EmptyCache
    /\ tipBest' = TipBestBlock
    /\ viewBest' = TipBestBlock
    /\ UNCHANGED <<db, dbBest, tip, threw>>

\* A fetch by the view goes through GetCoin of the tip, which caches it too.
FetchThrough(o) == tip' = IF view[o] = NoEntry THEN FetchCoin(tip, db, o) ELSE tip

ReadCoin(o) ==
    /\ open /\ ~threw
    /\ FetchThrough(o)
    /\ view' = FetchCoin(view, TipCoins, o)
    /\ UNCHANGED <<db, dbBest, tipBest, viewBest, open, threw>>

\* UpdateCoins spends inputs, DisconnectBlock the outputs of a block.
SpendInput(o) ==
    /\ open /\ ~threw
    /\ FetchThrough(o)
    /\ view' = SpendCoin(FetchCoin(view, TipCoins, o), o)
    /\ UNCHANGED <<db, dbBest, tipBest, viewBest, open, threw>>

\* AddCoin on the block's view, or the exception it throws.
AddToView(cache, o, c, possible_overwrite) ==
    /\ threw' = AddCoinThrows(cache, o, possible_overwrite)
    /\ view' = IF threw' THEN cache ELSE AddCoin(cache, o, c, possible_overwrite)

\* UpdateCoins -> AddCoins with check_for_overwrite = false.  BIP30 has made
\* sure that a non-coinbase output does not overwrite an unspent coin.
AddOutput(o, c, coinbase) ==
    /\ open /\ ~threw
    /\ ~coinbase => ViewCoins[o] = Spent
    /\ AddToView(view, o, c, coinbase)
    /\ UNCHANGED <<db, dbBest, tip, tipBest, viewBest, open>>

\* Mutant: ApplyTxInUndo assumes that the coin it restores is not there.
RestoreInputUnchecked(o, c) ==
    /\ open /\ ~threw
    /\ FetchThrough(o)
    /\ AddToView(FetchCoin(view, TipCoins, o), o, c, FALSE)
    /\ UNCHANGED <<db, dbBest, tipBest, viewBest, open>>

\* ApplyTxInUndo: HaveCoin decides whether AddCoin may overwrite.
RestoreInput(o, c) ==
    /\ open /\ ~threw
    /\ FetchThrough(o)
    /\ AddToView(FetchCoin(view, TipCoins, o), o, c, ViewCoins[o] # Spent)
    /\ UNCHANGED <<db, dbBest, tipBest, viewBest, open>>

SetBestBlock(b) ==
    /\ open /\ ~threw
    /\ viewBest' = b
    /\ UNCHANGED <<db, dbBest, tip, tipBest, view, open, threw>>

\* view.Flush() of ConnectTip and DisconnectTip; the view dies afterwards.
CommitView ==
    /\ open /\ ~threw
    /\ viewBest # NullBlock
    /\ threw' = BatchWriteThrows(tip, view)
    /\ IF threw'
       THEN UNCHANGED <<tip, tipBest, view, viewBest, open>>
       ELSE /\ tip' = BatchWrite(tip, view)
            /\ tipBest' = viewBest
            /\ view' = EmptyCache
            /\ viewBest' = NullBlock
            /\ open' = FALSE
    /\ UNCHANGED <<db, dbBest>>

\* The block is invalid or cannot be disconnected: the view is destroyed.
DiscardView ==
    /\ open /\ ~threw
    /\ view' = EmptyCache
    /\ viewBest' = NullBlock
    /\ open' = FALSE
    /\ UNCHANGED <<db, dbBest, tip, tipBest, threw>>

\* Any reader of CoinsTip() between blocks.
ReadTip(o) ==
    /\ ~open /\ ~threw
    /\ tip' = FetchCoin(tip, db, o)
    /\ UNCHANGED <<db, dbBest, tipBest, view, viewBest, open, threw>>

Uncache(o) ==
    /\ ~open /\ ~threw
    /\ tip[o] # NoEntry /\ ~IsDirty(tip[o]) /\ ~IsFresh(tip[o])
    /\ tip' = [tip EXCEPT ![o] = NoEntry]
    /\ UNCHANGED <<db, dbBest, tipBest, view, viewBest, open, threw>>

\* FlushStateToDisk: the tip is flushed and emptied, or synced and kept.
WriteTip(kept) ==
    /\ ~open /\ ~threw
    /\ TipBestBlock # NullBlock
    /\ db' = DBBatchWrite(db, tip)
    /\ dbBest' = TipBestBlock
    /\ tipBest' = TipBestBlock
    /\ tip' = kept
    /\ UNCHANGED <<view, viewBest, open, threw>>

FlushTip == WriteTip(EmptyCache)

SyncTip == WriteTip([o \in Outpoint |-> SyncEntry(tip[o])])

Next ==
    \/ OpenView
    \/ CommitView
    \/ DiscardView
    \/ FlushTip
    \/ SyncTip
    \/ \E o \in Outpoint :
        \/ ReadCoin(o)
        \/ SpendInput(o)
        \/ ReadTip(o)
        \/ Uncache(o)
        \/ \E c \in Coin : RestoreInput(o, c) \/ \E coinbase \in BOOLEAN : AddOutput(o, c, coinbase)
    \/ \E b \in Block : SetBestBlock(b)

Spec == Init /\ [][Next]_vars

-----------------------------------------------------------------------------
(* Properties.                                                             *)

\* The variables range over what the C++ types and the assertions allow.
TypeOK ==
    /\ db \in CoinMap
    /\ dbBest \in MaybeBlock
    /\ tip \in Cache
    /\ tipBest \in MaybeBlock
    /\ view \in Cache
    /\ viewBest \in MaybeBlock
    /\ open \in BOOLEAN
    /\ threw \in BOOLEAN
    /\ ~open => view = EmptyCache /\ viewBest = NullBlock

\* What the flags of an entry e say about b, the base's coin.
EntryOK(e, b) ==
    e # NoEntry =>
        /\ e.fresh => e.dirty /\ e.coin # Spent /\ b = Spent
        /\ ~e.dirty => e.coin # Spent /\ e.coin = b

\* The FRESH and DIRTY contracts of coins.h hold at both levels, through any
\* interleaving of block connection, reorganisation, reads, uncaching and
\* flushing: a FRESH entry is unspent, DIRTY, and absent or spent below it, so
\* dropping it when it is spent loses nothing; an entry that is not DIRTY is
\* unspent and equal to the coin below it, so not flushing it loses nothing.
\* (SanityCheck's fifth combination, FRESH without DIRTY, never occurs.)
FlagsTruthful ==
    \A o \in Outpoint : EntryOK(tip[o], db[o]) /\ EntryOK(view[o], TipCoins[o])

\* Neither AddCoin's "Attempted to overwrite an unspent coin" nor BatchWrite's
\* "FRESH flag misapplied" is ever thrown by the callers in validation.cpp.
NoLogicError == ~threw

\* The three maps of UtxoSet, read off the caches.
Utxo == INSTANCE UtxoSet WITH
    Block <- MaybeBlock,
    disk  <- [coins |-> db, best |-> dbBest],
    tip   <- [coins |-> TipCoins, best |-> TipBestBlock],
    view  <- [coins |-> ViewCoins, best |-> BestBlock(viewBest, TipBestBlock)]

\* The caches implement plain maps: reads, uncaching and the flags never
\* change what a view reports, a view is committed or discarded as a whole,
\* and Flush and Sync leave the database equal to what the tip reported.
ImplementsUtxoSet == Utxo!Spec
=============================================================================
