-------------------------- MODULE CoinsCacheProofs --------------------------
(***************************************************************************)
(* CoinsCache keeps its flags truthful, never throws, and implements       *)
(* UtxoSet, for any sets of outpoints, coins and blocks.                   *)
(***************************************************************************)
EXTENDS CoinsCache, TLAPS

\* Every entry of a cache says the truth about the base under it.
CacheOK(cache, base) == \A p \in Outpoint : EntryOK(cache[p], base[p])

\* A cache entry is a value of its own, never mistaken for a missing one.
LEMMA EntryLemma ==
    ASSUME NEW c \in Coin \cup {Spent}, NEW d \in BOOLEAN, NEW f \in BOOLEAN
    PROVE  /\ [coin |-> c, dirty |-> d, fresh |-> f] \in Entry
           /\ [coin |-> c, dirty |-> d, fresh |-> f] # NoEntry
<1>1. [coin |-> c, dirty |-> d, fresh |-> f] \in Entry
  BY DEF Entry
<1>2. QED BY <1>1, ConstantsDistinct

\* Merging a cache into its base gives a map of coins again.
LEMMA MergeType ==
    ASSUME NEW cache \in Cache, NEW base \in CoinMap
    PROVE  Merge(cache, base) \in CoinMap
BY ConstantsDistinct DEF Merge, GetCoin, Cache, CoinMap, Entry

\* FetchCoin adds a truthful entry at most, and changes no answer.
LEMMA FetchLemma ==
    ASSUME NEW cache \in Cache, NEW base \in CoinMap, NEW o \in Outpoint,
           CacheOK(cache, base)
    PROVE  /\ FetchCoin(cache, base, o) \in Cache
           /\ CacheOK(FetchCoin(cache, base, o), base)
           /\ Merge(FetchCoin(cache, base, o), base) = Merge(cache, base)
<1>1. FetchCoin(cache, base, o) \in Cache
  BY DEF FetchCoin, Cache, CoinMap, Entry
<1>2. CacheOK(FetchCoin(cache, base, o), base)
  BY EntryLemma DEF FetchCoin, Cache, CoinMap, Entry, CacheOK, EntryOK
<1>3. ASSUME NEW p \in Outpoint
      PROVE  GetCoin(FetchCoin(cache, base, o), base, p) = GetCoin(cache, base, p)
  BY EntryLemma DEF FetchCoin, Cache, CoinMap, GetCoin
<1>4. QED
  BY <1>1, <1>2, <1>3 DEF Merge

\* AddCoin under the caller's contract: unless possible_overwrite is set, the
\* view has no unspent coin there.  Then it does not throw either.
LEMMA AddLemma ==
    ASSUME NEW cache \in Cache, NEW base \in CoinMap, NEW o \in Outpoint,
           NEW c \in Coin, NEW po \in BOOLEAN,
           CacheOK(cache, base),
           ~po => GetCoin(cache, base, o) = Spent
    PROVE  /\ ~AddCoinThrows(cache, o, po)
           /\ AddCoin(cache, o, c, po) \in Cache
           /\ CacheOK(AddCoin(cache, o, c, po), base)
           /\ Merge(AddCoin(cache, o, c, po), base) = [Merge(cache, base) EXCEPT ![o] = c]
<1> DEFINE new == [coin |-> c, dirty |-> TRUE,
                   fresh |-> IsFresh(cache[o]) \/ (~po /\ ~IsDirty(cache[o]))]
<1>1. ~AddCoinThrows(cache, o, po)
  BY DEF AddCoinThrows, IsUnspent, GetCoin
<1>2. IsFresh(cache[o]) \in BOOLEAN /\ IsDirty(cache[o]) \in BOOLEAN
  BY DEF IsFresh, IsDirty, Cache, Entry
<1>3. new \in Entry /\ new # NoEntry
  <2>1. (IsFresh(cache[o]) \/ (~po /\ ~IsDirty(cache[o]))) \in BOOLEAN
    OBVIOUS
  <2>2. QED BY <2>1, EntryLemma, ZenonT(40)
<1>4. AddCoin(cache, o, c, po) \in Cache
  BY <1>3 DEF AddCoin, Cache
<1>5. ASSUME new.fresh PROVE base[o] = Spent
  <2>1. CASE IsFresh(cache[o])
    BY <2>1 DEF IsFresh, CacheOK, EntryOK
  <2>2. CASE ~po /\ ~IsDirty(cache[o])
    BY <2>2 DEF IsDirty, CacheOK, EntryOK, GetCoin
  <2>3. QED BY <1>5, <2>1, <2>2, ZenonT(40)
<1>6. EntryOK(new, base[o])
  BY <1>3, <1>5, ConstantsDistinct DEF EntryOK
<1>7. CacheOK(AddCoin(cache, o, c, po), base)
  BY <1>6, ZenonT(40) DEF CacheOK, AddCoin, Cache
<1>8. ASSUME NEW p \in Outpoint
      PROVE  GetCoin(AddCoin(cache, o, c, po), base, p) = IF p = o THEN c ELSE GetCoin(cache, base, p)
  BY <1>3 DEF GetCoin, AddCoin, Cache
<1>9. Merge(AddCoin(cache, o, c, po), base) = [Merge(cache, base) EXCEPT ![o] = c]
  BY <1>8, ZenonT(40) DEF Merge
<1>10. QED BY <1>1, <1>4, <1>7, <1>9

\* SpendCoin after the fetch: the coin is gone from the view, and dropping a
\* FRESH entry loses nothing because the base has no coin there.
LEMMA SpendLemma ==
    ASSUME NEW cache \in Cache, NEW base \in CoinMap, NEW o \in Outpoint,
           CacheOK(cache, base)
    PROVE  LET new == SpendCoin(FetchCoin(cache, base, o), o)
           IN  /\ new \in Cache
               /\ CacheOK(new, base)
               /\ Merge(new, base) = [Merge(cache, base) EXCEPT ![o] = Spent]
<1> DEFINE fetched == FetchCoin(cache, base, o)
           spent == [coin |-> Spent, dirty |-> TRUE, fresh |-> FALSE]
           new == SpendCoin(fetched, o)
<1>1. fetched \in Cache /\ CacheOK(fetched, base) /\ Merge(fetched, base) = Merge(cache, base)
  BY FetchLemma
<1>2. fetched[o] = NoEntry => base[o] = Spent
  BY EntryLemma, ZenonT(40) DEF FetchCoin, Cache, CoinMap
<1>3. spent \in Entry /\ spent # NoEntry
  BY EntryLemma, ZenonT(40)
<1>4. new \in Cache
  BY <1>1, <1>3 DEF SpendCoin, Cache
<1>5. EntryOK(NoEntry, base[o]) /\ EntryOK(spent, base[o])
  BY DEF EntryOK
<1>6. CacheOK(new, base)
  BY <1>1, <1>5, ZenonT(40) DEF CacheOK, SpendCoin, Cache
<1>7. IsFresh(fetched[o]) => base[o] = Spent
  BY <1>1 DEF CacheOK, EntryOK, IsFresh
<1> HIDE DEF fetched
<1>8. ASSUME NEW p \in Outpoint
      PROVE  GetCoin(new, base, p) = IF p = o THEN Spent ELSE GetCoin(fetched, base, p)
  BY <1>1, <1>2, <1>3, <1>7 DEF SpendCoin, GetCoin, Cache
<1>9. Merge(new, base) = [Merge(fetched, base) EXCEPT ![o] = Spent]
  BY <1>8, ZenonT(40) DEF Merge
<1>10. QED BY <1>1, <1>4, <1>6, <1>9 DEF fetched

\* One entry of BatchWrite: the parent's entry stays truthful about the
\* grandparent, and answers as the child did.
LEMMA BatchEntryLemma ==
    ASSUME NEW us \in Entry \cup {NoEntry}, NEW e \in Entry \cup {NoEntry},
           NEW b \in Coin \cup {Spent}, EntryOK(us, b),
           EntryOK(e, IF us = NoEntry THEN b ELSE us.coin)
    PROVE  LET new == BatchWriteEntry(us, e)
               old == IF us = NoEntry THEN b ELSE us.coin
           IN  /\ new \in Entry \cup {NoEntry}
               /\ EntryOK(new, b)
               /\ (IF new = NoEntry THEN b ELSE new.coin) = (IF e = NoEntry THEN old ELSE e.coin)
<1>1. CASE ~IsDirty(e)
  BY <1>1 DEF BatchWriteEntry, IsDirty, EntryOK
<1>2. CASE IsDirty(e) /\ us = NoEntry
  <2> DEFINE new == [coin |-> e.coin, dirty |-> TRUE, fresh |-> e.fresh]
  <2>1. e # NoEntry /\ e \in Entry
    BY <1>2 DEF IsDirty
  <2>2. e.coin \in Coin \cup {Spent} /\ e.fresh \in BOOLEAN
    BY <2>1 DEF Entry
  <2>3. new \in Entry /\ new # NoEntry
    BY <2>2, EntryLemma, ZenonT(40)
  <2>4. BatchWriteEntry(us, e) = new
    BY <1>2, <2>1 DEF BatchWriteEntry, EntryOK
  <2>5. EntryOK(new, b)
    BY <1>2, <2>1 DEF EntryOK
  <2> HIDE DEF new
  <2>6. new.coin = e.coin
    BY DEF new
  <2>7. QED BY <1>2, <2>1, <2>3, <2>4, <2>5, <2>6
<1>3. CASE IsDirty(e) /\ us # NoEntry
  <2> DEFINE new == [coin |-> e.coin, dirty |-> TRUE, fresh |-> us.fresh]
  <2>1. e # NoEntry /\ e \in Entry /\ us \in Entry
    BY <1>3 DEF IsDirty
  <2>2. e.coin \in Coin \cup {Spent} /\ us.fresh \in BOOLEAN
    BY <2>1 DEF Entry
  <2>3. new \in Entry /\ new # NoEntry
    BY <2>2, EntryLemma, ZenonT(40)
  <2>4. CASE us.fresh /\ e.coin = Spent
    <3>1. BatchWriteEntry(us, e) = NoEntry
      BY <1>3, <2>4 DEF BatchWriteEntry
    <3>2. b = Spent
      BY <1>3, <2>4 DEF EntryOK
    <3>3. QED BY <2>1, <2>4, <3>1, <3>2 DEF EntryOK
  <2>5. CASE ~(us.fresh /\ e.coin = Spent)
    <3>1. BatchWriteEntry(us, e) = new
      BY <1>3, <2>5 DEF BatchWriteEntry
    <3>2. EntryOK(new, b)
      BY <1>3, <2>5, <2>1 DEF EntryOK
    <3> HIDE DEF new
    <3>3. new.coin = e.coin
      BY DEF new
    <3>4. QED BY <2>1, <2>3, <3>1, <3>2, <3>3
  <2>6. QED BY <2>4, <2>5
<1>4. QED BY <1>1, <1>2, <1>3

\* Flushing a truthful child into a truthful parent does not throw, keeps the
\* parent truthful, and makes the parent report what the child reported.
LEMMA BatchLemma ==
    ASSUME NEW parent \in Cache, NEW child \in Cache, NEW base \in CoinMap,
           CacheOK(parent, base), CacheOK(child, Merge(parent, base))
    PROVE  /\ ~BatchWriteThrows(parent, child)
           /\ BatchWrite(parent, child) \in Cache
           /\ CacheOK(BatchWrite(parent, child), base)
           /\ Merge(BatchWrite(parent, child), base) = Merge(child, Merge(parent, base))
<1>1. ~BatchWriteThrows(parent, child)
  BY DEF BatchWriteThrows, CacheOK, EntryOK, Merge, GetCoin, IsFresh, IsUnspent
<1>2. ASSUME NEW o \in Outpoint
      PROVE  /\ BatchWrite(parent, child)[o] \in Entry \cup {NoEntry}
             /\ EntryOK(BatchWrite(parent, child)[o], base[o])
             /\ GetCoin(BatchWrite(parent, child), base, o) = GetCoin(child, Merge(parent, base), o)
  <2>1. /\ parent[o] \in Entry \cup {NoEntry}
        /\ child[o] \in Entry \cup {NoEntry}
        /\ base[o] \in Coin \cup {Spent}
    BY DEF Cache, CoinMap
  <2>2. Merge(parent, base)[o] = IF parent[o] = NoEntry THEN base[o] ELSE parent[o].coin
    BY DEF Merge, GetCoin
  <2>3. EntryOK(parent[o], base[o]) /\ EntryOK(child[o], Merge(parent, base)[o])
    BY DEF CacheOK
  <2>4. BatchWrite(parent, child)[o] = BatchWriteEntry(parent[o], child[o])
    BY DEF BatchWrite
  <2>5. QED BY <2>1, <2>2, <2>3, <2>4, BatchEntryLemma DEF GetCoin
<1>3. BatchWrite(parent, child) \in Cache
  BY <1>2, ZenonT(40) DEF BatchWrite, Cache
<1>4. Merge(BatchWrite(parent, child), base) = Merge(child, Merge(parent, base))
  BY <1>2, ZenonT(40) DEF Merge
<1>5. QED BY <1>1, <1>2, <1>3, <1>4 DEF CacheOK

\* Writing a truthful cache to the database makes the database equal to what
\* the cache reported; emptied or synced, the cache is truthful about it.
LEMMA WriteLemma ==
    ASSUME NEW cache \in Cache, NEW base \in CoinMap, CacheOK(cache, base)
    PROVE  LET synced == [o \in Outpoint |-> SyncEntry(cache[o])]
               new == DBBatchWrite(base, cache)
           IN  /\ new = Merge(cache, base)
               /\ EmptyCache \in Cache /\ CacheOK(EmptyCache, new) /\ Merge(EmptyCache, new) = new
               /\ synced \in Cache /\ CacheOK(synced, new) /\ Merge(synced, new) = new
<1> DEFINE synced == [o \in Outpoint |-> SyncEntry(cache[o])]
           new == DBBatchWrite(base, cache)
<1>1. ASSUME NEW o \in Outpoint
      PROVE  new[o] = GetCoin(cache, base, o)
  BY DEF DBBatchWrite, GetCoin, CacheOK, EntryOK, IsDirty
<1>2. new = Merge(cache, base) /\ new \in CoinMap
  <2>1. new = [o \in Outpoint |-> new[o]]
    BY DEF DBBatchWrite
  <2>2. QED BY <1>1, <2>1, MergeType, ZenonT(40) DEF Merge
<1>3. EmptyCache \in Cache /\ CacheOK(EmptyCache, new) /\ Merge(EmptyCache, new) = new
  BY <1>2 DEF EmptyCache, Cache, CacheOK, EntryOK, Merge, GetCoin, CoinMap
<1> HIDE DEF new
<1>4. ASSUME NEW o \in Outpoint
      PROVE  /\ SyncEntry(cache[o]) \in Entry \cup {NoEntry}
             /\ EntryOK(SyncEntry(cache[o]), new[o])
             /\ (IF SyncEntry(cache[o]) = NoEntry THEN new[o] ELSE SyncEntry(cache[o]).coin) = new[o]
  <2>1. cache[o] \in Entry \cup {NoEntry} /\ EntryOK(cache[o], base[o])
    BY DEF Cache, CacheOK
  <2>2. CASE cache[o] = NoEntry
    BY <2>2, SMTT(30) DEF SyncEntry, IsDirty, IsFresh, EntryOK
  <2>3. CASE cache[o] # NoEntry /\ ~cache[o].dirty
    BY <1>1, <2>1, <2>3, SMTT(30) DEF SyncEntry, IsDirty, IsFresh, EntryOK, GetCoin
  <2>4. CASE cache[o] # NoEntry /\ cache[o].dirty /\ cache[o].coin = Spent
    BY <2>4 DEF SyncEntry, IsDirty, IsFresh, EntryOK
  <2>5. CASE cache[o] # NoEntry /\ cache[o].dirty /\ cache[o].coin # Spent
    <3> DEFINE clean == [coin |-> cache[o].coin, dirty |-> FALSE, fresh |-> FALSE]
    <3>1. SyncEntry(cache[o]) = clean
      BY <2>5 DEF SyncEntry, IsDirty
    <3>2. cache[o].coin \in Coin \cup {Spent}
      BY <2>1, <2>5 DEF Entry
    <3>3. clean \in Entry /\ clean # NoEntry
      BY <3>2, EntryLemma, ZenonT(40)
    <3>4. new[o] = cache[o].coin
      BY <1>1, <2>5 DEF GetCoin
    <3>5. QED BY <2>5, <3>1, <3>3, <3>4 DEF EntryOK
  <2>6. QED BY <2>2, <2>3, <2>4, <2>5
<1>5. synced \in Cache /\ CacheOK(synced, new)
  BY <1>4 DEF Cache, CacheOK
<1>6. Merge(synced, new) = new
  BY <1>2, <1>4 DEF Merge, GetCoin, CoinMap
<1>7. QED BY <1>2, <1>3, <1>5, <1>6 DEF new

-----------------------------------------------------------------------------
\* The inductive invariant.  FlagsTruthful alone is not inductive: the types
\* are needed, and that a closed view is empty.
IInv == TypeOK /\ FlagsTruthful /\ NoLogicError

\* The two levels in the form the lemmas above take them.
LEMMA Levels ==
    ASSUME IInv
    PROVE  /\ db \in CoinMap /\ tip \in Cache /\ view \in Cache
           /\ TipCoins \in CoinMap /\ ViewCoins \in CoinMap
           /\ CacheOK(tip, db) /\ CacheOK(view, TipCoins)
<1>1. db \in CoinMap /\ tip \in Cache /\ view \in Cache
  BY DEF IInv, TypeOK
<1>2. TipCoins \in CoinMap
  BY <1>1, MergeType DEF TipCoins
<1>3. ViewCoins \in CoinMap
  BY <1>1, <1>2, MergeType DEF ViewCoins
<1>4. QED BY <1>1, <1>2, <1>3 DEF IInv, FlagsTruthful, CacheOK

\* The node starts with empty caches over the coins database: the invariant holds.
LEMMA InitInv == Init => IInv
<1> SUFFICES ASSUME Init PROVE IInv
  OBVIOUS
<1>1. TypeOK
  BY ZenonT(40) DEF Init, TypeOK, EmptyCache, Cache, MaybeBlock
<1>2. FlagsTruthful
  BY ZenonT(40) DEF Init, FlagsTruthful, EmptyCache, EntryOK
<1>3. QED BY <1>1, <1>2 DEF IInv, NoLogicError, Init

\* An empty cache is truthful about any base and reports what the base does.
LEMMA EmptyLemma ==
    ASSUME NEW base \in CoinMap
    PROVE  EmptyCache \in Cache /\ CacheOK(EmptyCache, base) /\ Merge(EmptyCache, base) = base
BY DEF EmptyCache, Cache, CacheOK, EntryOK, Merge, GetCoin, CoinMap

\* A read that goes through the tip leaves the tip truthful and its answers as
\* they were.
LEMMA FetchThroughLemma ==
    ASSUME IInv, NEW o \in Outpoint, FetchThrough(o), db' = db
    PROVE  /\ tip' \in Cache /\ CacheOK(tip', db') /\ TipCoins' = TipCoins
<1>1. /\ FetchCoin(tip, db, o) \in Cache
      /\ CacheOK(FetchCoin(tip, db, o), db)
      /\ Merge(FetchCoin(tip, db, o), db) = TipCoins
  BY Levels, FetchLemma DEF TipCoins
<1>2. CASE view[o] = NoEntry
  <2>1. tip' = FetchCoin(tip, db, o)
    BY <1>2 DEF FetchThrough
  <2>2. TipCoins' = Merge(tip', db')
    BY DEF TipCoins
  <2>3. QED BY <1>1, <2>1, <2>2
<1>3. CASE view[o] # NoEntry
  <2>1. tip' = tip
    BY <1>3 DEF FetchThrough
  <2>2. TipCoins' = TipCoins
    BY <2>1 DEF TipCoins
  <2>3. QED BY <2>1, <2>2, Levels
<1>4. QED BY <1>2, <1>3

\* Putting the invariant of the next state together from its levels.
LEMMA InvPrime ==
    ASSUME db' \in CoinMap, dbBest' \in MaybeBlock, tip' \in Cache,
           tipBest' \in MaybeBlock, view' \in Cache, viewBest' \in MaybeBlock,
           open' \in BOOLEAN, threw' = FALSE,
           ~open' => view' = EmptyCache /\ viewBest' = NullBlock,
           CacheOK(tip', db'), CacheOK(view', TipCoins')
    PROVE  IInv'
BY ZenonT(40) DEF IInv, TypeOK, FlagsTruthful, NoLogicError, CacheOK

\* Each write to the block's view is one write to UtxoSet's view.
LEMMA WriteStep ==
    ASSUME IInv, open, NEW o \in Outpoint, NEW c \in Coin \cup {Spent},
           ViewCoins' = [ViewCoins EXCEPT ![o] = c],
           TipCoins' = TipCoins,
           UNCHANGED <<db, dbBest, tipBest, viewBest, open>>
    PROVE  Utxo!Write
<1> DEFINE u == [coins |-> ViewCoins, best |-> BestBlock(viewBest, TipBestBlock)]
<1>1. TipBestBlock' = TipBestBlock
  BY DEF TipBestBlock
<1>2. [u EXCEPT !.coins[o] = c] = [coins |-> [ViewCoins EXCEPT ![o] = c], best |-> u.best]
  OBVIOUS
<1>3. u' = [u EXCEPT !.coins[o] = c]
  BY <1>1, <1>2
<1>4. QED BY <1>1, <1>3, ZenonT(40) DEF Utxo!Write

\* Every step keeps the invariant and is a step of UtxoSet or stutters there.
LEMMA StepLemma ==
    ASSUME IInv, [Next]_vars
    PROVE  IInv' /\ [Utxo!Next]_(Utxo!vars)
<1> USE DEF MaybeBlock
<1>0. /\ db \in CoinMap /\ tip \in Cache /\ view \in Cache
      /\ TipCoins \in CoinMap /\ ViewCoins \in CoinMap
      /\ CacheOK(tip, db) /\ CacheOK(view, TipCoins)
      /\ dbBest \in MaybeBlock /\ tipBest \in MaybeBlock /\ viewBest \in MaybeBlock
      /\ open \in BOOLEAN /\ threw = FALSE /\ TipBestBlock \in MaybeBlock
      /\ ~open => view = EmptyCache /\ viewBest = NullBlock
  BY Levels DEF IInv, TypeOK, NoLogicError, TipBestBlock, BestBlock
<1>1. CASE OpenView
  <2>1. TipCoins' = TipCoins /\ view = EmptyCache /\ viewBest = NullBlock
    BY <1>1 DEF OpenView, TipCoins, IInv, TypeOK
  <2>2. IInv'
    BY <1>0, <1>1, <2>1, EmptyLemma, InvPrime, ZenonT(40) DEF OpenView
  <2>3. ViewCoins' = ViewCoins
    BY <1>1, <2>1 DEF OpenView, ViewCoins
  <2>4. TipBestBlock' = TipBestBlock
    BY <1>1 DEF OpenView, TipBestBlock, BestBlock
  <2>5. BestBlock(viewBest, TipBestBlock)' = BestBlock(viewBest, TipBestBlock)
    BY <1>1, <2>1, <2>4 DEF OpenView, BestBlock
  <2>6. Utxo!OpenView
    BY <1>1, <2>1, <2>3, <2>4, <2>5 DEF OpenView, Utxo!OpenView
  <2>7. QED BY <2>2, <2>6 DEF Utxo!Next
<1>2. CASE CommitView
  <2>1. /\ ~BatchWriteThrows(tip, view)
        /\ BatchWrite(tip, view) \in Cache
        /\ CacheOK(BatchWrite(tip, view), db)
        /\ Merge(BatchWrite(tip, view), db) = ViewCoins
    BY <1>0, BatchLemma DEF TipCoins, ViewCoins
  <2>2. /\ threw' = FALSE /\ tip' = BatchWrite(tip, view) /\ tipBest' = viewBest
        /\ view' = EmptyCache /\ viewBest' = NullBlock /\ open' = FALSE
        /\ db' = db /\ dbBest' = dbBest /\ viewBest # NullBlock /\ open
    BY <1>2, <2>1 DEF CommitView
  <2>3. TipCoins' = ViewCoins
    BY <2>1, <2>2 DEF TipCoins
  <2>4. CacheOK(view', TipCoins') /\ ViewCoins' = ViewCoins
    BY <1>0, <2>2, <2>3, EmptyLemma DEF ViewCoins
  <2>5. IInv'
    BY <1>0, <2>1, <2>2, <2>4, EmptyLemma, InvPrime, ZenonT(40)
  <2>6. /\ TipBestBlock' = BestBlock(viewBest, TipBestBlock)
        /\ BestBlock(viewBest, TipBestBlock)' = BestBlock(viewBest, TipBestBlock)
    BY <2>2 DEF TipBestBlock, BestBlock
  <2>7. Utxo!Commit
    BY <2>2, <2>3, <2>4, <2>6 DEF Utxo!Commit
  <2>8. QED BY <2>5, <2>7 DEF Utxo!Next
<1>3. CASE DiscardView
  <2>1. TipCoins' = TipCoins /\ TipBestBlock' = TipBestBlock
    BY <1>3 DEF DiscardView, TipCoins, TipBestBlock
  <2>2. CacheOK(view', TipCoins') /\ ViewCoins' = TipCoins
    BY <1>0, <1>3, <2>1, EmptyLemma DEF DiscardView, ViewCoins
  <2>3. IInv'
    BY <1>0, <1>3, <2>2, EmptyLemma, InvPrime, ZenonT(40) DEF DiscardView
  <2>4. BestBlock(viewBest, TipBestBlock)' = TipBestBlock
    BY <1>3, <2>1 DEF DiscardView, BestBlock
  <2>5. Utxo!Discard
    BY <1>3, <2>1, <2>2, <2>4 DEF DiscardView, Utxo!Discard
  <2>6. QED BY <2>3, <2>5 DEF Utxo!Next
<1>4. ASSUME NEW kept \in Cache, WriteTip(kept),
             CacheOK(kept, DBBatchWrite(db, tip)),
             Merge(kept, DBBatchWrite(db, tip)) = DBBatchWrite(db, tip)
      PROVE  IInv' /\ Utxo!Next
  <2>1. DBBatchWrite(db, tip) = TipCoins
    BY <1>0, WriteLemma, ZenonT(40) DEF TipCoins
  <2>2. /\ db' = TipCoins /\ dbBest' = TipBestBlock /\ tipBest' = TipBestBlock
        /\ tip' = kept /\ ~open /\ view = EmptyCache /\ viewBest = NullBlock
        /\ view' = view /\ viewBest' = viewBest /\ open' = open /\ threw' = FALSE
    BY <1>4, <2>1 DEF WriteTip, IInv, TypeOK, NoLogicError
  <2>3. TipCoins' = TipCoins
    BY <1>4, <2>1, <2>2 DEF TipCoins
  <2>4. CacheOK(tip', db') /\ CacheOK(view', TipCoins') /\ ViewCoins' = ViewCoins
    BY <1>0, <1>4, <2>1, <2>2, <2>3 DEF ViewCoins
  <2>5. IInv'
    BY <1>0, <2>2, <2>4, InvPrime, ZenonT(40)
  <2>6. /\ TipBestBlock' = TipBestBlock
        /\ BestBlock(viewBest, TipBestBlock)' = BestBlock(viewBest, TipBestBlock)
    BY <2>2 DEF TipBestBlock, BestBlock
  <2>7. Utxo!Persist
    BY <2>2, <2>3, <2>4, <2>6 DEF Utxo!Persist
  <2>8. QED BY <2>5, <2>7 DEF Utxo!Next
<1>5. CASE FlushTip
  BY <1>0, <1>4, <1>5, WriteLemma, ZenonT(40) DEF FlushTip
<1>6. CASE SyncTip
  BY <1>0, <1>4, <1>6, WriteLemma DEF SyncTip
<1>7. ASSUME NEW o \in Outpoint, ReadCoin(o)
      PROVE  IInv' /\ UNCHANGED Utxo!vars
  <2>1. tip' \in Cache /\ CacheOK(tip', db') /\ TipCoins' = TipCoins
    BY <1>7, FetchThroughLemma DEF ReadCoin
  <2>2. view' \in Cache /\ CacheOK(view', TipCoins') /\ ViewCoins' = ViewCoins
    BY <1>0, <1>7, <2>1, FetchLemma DEF ReadCoin, ViewCoins
  <2>3. IInv'
    BY <1>0, <1>7, <2>1, <2>2, InvPrime, ZenonT(40) DEF ReadCoin
  <2>4. TipBestBlock' = TipBestBlock
    BY <1>7 DEF ReadCoin, TipBestBlock
  <2>5. QED BY <1>7, <2>1, <2>2, <2>3, <2>4 DEF ReadCoin, Utxo!vars
<1>8. ASSUME NEW o \in Outpoint, SpendInput(o)
      PROVE  IInv' /\ Utxo!Next
  <2>1. tip' \in Cache /\ CacheOK(tip', db') /\ TipCoins' = TipCoins
    BY <1>8, FetchThroughLemma DEF SpendInput
  <2>2. /\ view' \in Cache /\ CacheOK(view', TipCoins')
        /\ ViewCoins' = [ViewCoins EXCEPT ![o] = Spent]
    BY <1>0, <1>8, <2>1, SpendLemma DEF SpendInput, ViewCoins
  <2>3. IInv'
    BY <1>0, <1>8, <2>1, <2>2, InvPrime, ZenonT(40) DEF SpendInput
  <2>4. Utxo!Write
    BY <1>8, <2>1, <2>2, WriteStep, ZenonT(40) DEF SpendInput
  <2>5. QED BY <2>3, <2>4 DEF Utxo!Next
<1>9. ASSUME NEW o \in Outpoint, NEW c \in Coin, NEW coinbase \in BOOLEAN, AddOutput(o, c, coinbase)
      PROVE  IInv' /\ Utxo!Next
  <2>1. tip' = tip /\ db' = db /\ TipCoins' = TipCoins
    BY <1>9 DEF AddOutput, TipCoins
  <2>2. ~coinbase => GetCoin(view, TipCoins, o) = Spent
    BY <1>9 DEF AddOutput, ViewCoins, Merge
  <2>3. threw' = FALSE /\ view' = AddCoin(view, o, c, coinbase)
    BY <1>0, <1>9, <2>2, AddLemma DEF AddOutput, AddToView
  <2>4. /\ view' \in Cache /\ CacheOK(view', TipCoins')
        /\ ViewCoins' = [ViewCoins EXCEPT ![o] = c]
    <3>1. /\ AddCoin(view, o, c, coinbase) \in Cache
          /\ CacheOK(AddCoin(view, o, c, coinbase), TipCoins)
          /\ Merge(AddCoin(view, o, c, coinbase), TipCoins) = [Merge(view, TipCoins) EXCEPT ![o] = c]
      BY <1>0, <2>2, AddLemma
    <3>2. QED BY <2>1, <2>3, <3>1 DEF ViewCoins
  <2>5. IInv'
    BY <1>0, <1>9, <2>1, <2>3, <2>4, InvPrime, ZenonT(40) DEF AddOutput
  <2>6. Utxo!Write
    BY <1>9, <2>1, <2>4, WriteStep, ZenonT(40) DEF AddOutput
  <2>7. QED BY <2>5, <2>6 DEF Utxo!Next
<1>10. ASSUME NEW o \in Outpoint, NEW c \in Coin, RestoreInput(o, c)
       PROVE  IInv' /\ Utxo!Next
  <2> DEFINE fetched == FetchCoin(view, TipCoins, o)
             po == ViewCoins[o] # Spent
  <2>1. tip' \in Cache /\ CacheOK(tip', db') /\ TipCoins' = TipCoins
    BY <1>10, FetchThroughLemma DEF RestoreInput
  <2>2. fetched \in Cache /\ CacheOK(fetched, TipCoins) /\ Merge(fetched, TipCoins) = ViewCoins
    BY <1>0, FetchLemma DEF ViewCoins
  <2>3. ~po => GetCoin(fetched, TipCoins, o) = Spent
    BY <2>2 DEF Merge
  <2>4. AddToView(fetched, o, c, po) /\ po \in BOOLEAN
    BY <1>10 DEF RestoreInput
  <2> HIDE DEF fetched, po
  <2>5. threw' = FALSE /\ view' = AddCoin(fetched, o, c, po)
    BY <1>0, <2>2, <2>3, <2>4, AddLemma DEF AddToView
  <2>6. /\ view' \in Cache /\ CacheOK(view', TipCoins')
        /\ ViewCoins' = [ViewCoins EXCEPT ![o] = c]
    <3>1. /\ AddCoin(fetched, o, c, po) \in Cache
          /\ CacheOK(AddCoin(fetched, o, c, po), TipCoins)
          /\ Merge(AddCoin(fetched, o, c, po), TipCoins) = [Merge(fetched, TipCoins) EXCEPT ![o] = c]
      BY <1>0, <2>2, <2>3, <2>4, AddLemma
    <3>2. ViewCoins' = Merge(AddCoin(fetched, o, c, po), TipCoins)
      BY <2>1, <2>5 DEF ViewCoins
    <3>3. QED BY <2>1, <2>2, <2>5, <3>1, <3>2
  <2>7. IInv'
    BY <1>0, <1>10, <2>1, <2>5, <2>6, InvPrime, ZenonT(40) DEF RestoreInput
  <2>8. Utxo!Write
    BY <1>10, <2>1, <2>6, WriteStep, ZenonT(40) DEF RestoreInput
  <2>9. QED BY <2>7, <2>8 DEF Utxo!Next
<1>11. ASSUME NEW o \in Outpoint, ReadTip(o)
       PROVE  IInv' /\ UNCHANGED Utxo!vars
  <2>1. tip' \in Cache /\ CacheOK(tip', db') /\ TipCoins' = TipCoins
    BY <1>0, <1>11, FetchLemma DEF ReadTip, TipCoins
  <2>2. ViewCoins' = ViewCoins /\ TipBestBlock' = TipBestBlock
    BY <1>11, <2>1 DEF ReadTip, ViewCoins, TipBestBlock
  <2>3. IInv'
    BY <1>0, <1>11, <2>1, InvPrime, ZenonT(40) DEF ReadTip
  <2>4. QED BY <1>11, <2>1, <2>2, <2>3 DEF ReadTip, Utxo!vars
<1>12. ASSUME NEW o \in Outpoint, Uncache(o)
       PROVE  IInv' /\ UNCHANGED Utxo!vars
  <2>1. tip' \in Cache /\ CacheOK(tip', db')
    BY <1>0, <1>12, SMTT(30) DEF Uncache, Cache, CacheOK, EntryOK
  <2>2. ASSUME NEW p \in Outpoint PROVE GetCoin(tip', db, p) = GetCoin(tip, db, p)
    BY <1>0, <1>12 DEF Uncache, Cache, CacheOK, EntryOK, GetCoin, IsDirty
  <2>3. TipCoins' = TipCoins
    BY <1>12, <2>2, ZenonT(40) DEF Uncache, TipCoins, Merge
  <2>4. ViewCoins' = ViewCoins /\ TipBestBlock' = TipBestBlock
    BY <1>12, <2>3 DEF Uncache, ViewCoins, TipBestBlock
  <2>5. IInv'
    BY <1>0, <1>12, <2>1, <2>3, InvPrime, ZenonT(40) DEF Uncache
  <2>6. QED BY <1>12, <2>3, <2>4, <2>5, SMTT(30) DEF Uncache, Utxo!vars
<1>13. ASSUME NEW b \in Block, SetBestBlock(b)
       PROVE  IInv' /\ Utxo!Next
  <2>1. TipCoins' = TipCoins /\ ViewCoins' = ViewCoins /\ TipBestBlock' = TipBestBlock
    BY <1>13 DEF SetBestBlock, TipCoins, ViewCoins, TipBestBlock
  <2>2. IInv'
    BY <1>0, <1>13, <2>1, InvPrime, ZenonT(40) DEF SetBestBlock
  <2>3. BestBlock(viewBest, TipBestBlock)' = b
    BY <1>13, ConstantsDistinct DEF SetBestBlock, BestBlock
  <2>4. Utxo!SetBestBlock
    BY <1>13, <2>1, <2>3 DEF SetBestBlock, Utxo!SetBestBlock
  <2>5. QED BY <2>2, <2>4 DEF Utxo!Next
<1>14. CASE UNCHANGED vars
  <2>1. IInv'
    BY <1>14 DEF vars, IInv, TypeOK, FlagsTruthful, NoLogicError, TipCoins
  <2>2. UNCHANGED Utxo!vars
    BY <1>14 DEF vars, Utxo!vars, TipCoins, ViewCoins, TipBestBlock
  <2>3. QED BY <2>1, <2>2
<1>15. QED
  BY <1>1, <1>2, <1>3, <1>5, <1>6, <1>7, <1>8, <1>9, <1>10, <1>11, <1>12, <1>13, <1>14 DEF Next

\* The types, the FRESH/DIRTY contracts of coins.h and the absence of
\* std::logic_error hold in every reachable state.
THEOREM CoinsCacheInvariant == Spec => [](TypeOK /\ FlagsTruthful /\ NoLogicError)
<1>1. Init => IInv
  BY InitInv
<1>2. IInv /\ [Next]_vars => IInv'
  BY StepLemma
<1>3. IInv => TypeOK /\ FlagsTruthful /\ NoLogicError
  BY DEF IInv
<1>4. QED BY <1>1, <1>2, <1>3, PTL DEF Spec

\* AddCoin's and BatchWrite's std::logic_error is never thrown by the callers in
\* validation.cpp, whatever blocks they connect, disconnect and flush.
THEOREM NoLogicErrorIsThrown == Spec => []NoLogicError
BY CoinsCacheInvariant, PTL

\* The layered caches implement the plain maps of UtxoSet.
THEOREM CoinsCacheRefinement == Spec => ImplementsUtxoSet
<1>1. Init => Utxo!Init
  <2> SUFFICES ASSUME Init PROVE Utxo!Init
    OBVIOUS
  <2>1. TipCoins = db /\ ViewCoins = db
    BY EmptyLemma DEF Init, TipCoins, ViewCoins
  <2>2. TipBestBlock = dbBest /\ BestBlock(viewBest, TipBestBlock) = dbBest
    BY DEF Init, TipBestBlock, BestBlock
  <2>3. [coins |-> db, best |-> dbBest] \in Utxo!View
    BY DEF Init, CoinMap, Utxo!View, Utxo!Coins
  <2>4. QED BY <2>1, <2>2, <2>3 DEF Init, Utxo!Init
<1>2. IInv /\ [Next]_vars => [Utxo!Next]_(Utxo!vars)
  BY StepLemma
<1>3. Spec => []IInv
  <2>1. Init => IInv
    BY InitInv
  <2>2. IInv /\ [Next]_vars => IInv'
    BY StepLemma
  <2>3. QED BY <2>1, <2>2, PTL DEF Spec
<1>4. QED BY <1>1, <1>2, <1>3, PTL DEF Spec, ImplementsUtxoSet, Utxo!Spec
=============================================================================
