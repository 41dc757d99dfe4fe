----------------------------- MODULE Chainstate -----------------------------
(***************************************************************************)
(* The block index and the active chain (validation.cpp, blockstorage.cpp):*)
(* headers and blocks arrive in any order, ActivateBestChain moves the tip *)
(* to the candidate with the most work, and InvalidateBlock,               *)
(* ResetBlockFailureFlags and PreciousBlock change what counts as best.    *)
(*                                                                         *)
(* m_chainstate_mutex lets one thread at a time run ActivateBestChain or   *)
(* InvalidateBlock: pc is where that thread is.  Both give cs_main up in   *)
(* the middle, and other threads then change the index under them.  An     *)
(* action is a whole cs_main section, except that ActivateBestChain's is   *)
(* one action per block, during which pc says that it holds cs_main.       *)
(*                                                                         *)
(* One chainstate, no pruning; whether a block is valid is a property of   *)
(* the block.                                                              *)
(***************************************************************************)
EXTENDS BlockTree, FiniteSets

CONSTANTS
    Verdicts,           \* which checks each block passes, see Verdict
    Addresses,          \* possible memory layouts of the CBlockIndex entries
    MIN_BLOCKS_TO_KEEP,
    MinimumChainWork,
    ConnectBatch,       \* 32 in ActivateBestChainStep
    MinSequenceId,      \* the least int32_t
    Scenarios           \* bounds to consider, see Scenario

\* "ok", "context": AcceptBlock rejects the block, "connect": ConnectBlock does.
Verdict == {"ok", "context", "connect"}

\* quiet: no other call while InvalidateBlock runs.  The others bound the calls of
\* InvalidateBlock, PreciousBlock and ResetBlockFailureFlags, the disk and database
\* errors, and the restarts.
Scenario == [quiet : BOOLEAN, invalidate : Nat, precious : Nat, reset : Nat,
             error : Nat, restart : Nat]

ASSUME ChainstateAssumption ==
    /\ Verdicts \subseteq [Block -> Verdict]
    /\ \A v \in Verdicts : v[Genesis] = "ok"
    /\ Addresses \subseteq [Block -> Nat]
    /\ \A a \in Addresses : \A b, c \in Block : a[b] = a[c] => b = c
    /\ ConnectBatch \in Nat \ {0}
    /\ MinSequenceId \in Int /\ MinSequenceId < 0
    /\ Scenarios \subseteq Scenario

VARIABLES
    index,              \* m_block_index
    failedValid,        \* the blocks with BLOCK_FAILED_VALID
    failedChild,        \* the blocks with BLOCK_FAILED_CHILD
    data,               \* the blocks with BLOCK_HAVE_DATA
    linked,             \* the blocks with HaveNumChainTxs()
    unlinked,           \* m_blocks_unlinked, without the parents
    candidates,         \* setBlockIndexCandidates
    tip,                \* m_chain.Tip()
    nSequenceId,
    nBlockSequenceId, nBlockReverseSequenceId, nLastPreciousChainwork,
    m_best_header, m_best_invalid,
    address, verdict, scenario, \* chosen at startup, and for ever
    pc, abc, inv,       \* the thread with m_chainstate_mutex and its locals
    pending,            \* some thread is about to call ActivateBestChain
    interrupt,          \* m_interrupt
    heard,              \* what a listener knows of the active chain: seen, the
                        \* tip by BlockConnected and BlockDisconnected, and
                        \* told, the tip by blockTip
    calls               \* how often the bounded operations have run

flags == <<failedValid, failedChild>>
received == <<data, linked, unlinked>>
counters == <<nBlockSequenceId, nBlockReverseSequenceId, nLastPreciousChainwork>>
best == <<m_best_header, m_best_invalid>>
fixed == <<address, verdict, scenario>>
thread == <<pc, abc, inv>>
vars == <<index, flags, received, candidates, tip, nSequenceId, counters, best,
          fixed, heard, thread, pending, interrupt, calls>>

failed == failedValid \cup failedChild

\* CBlockIndexWorkComparator, for the sequence ids seq and the addresses addr.
Worse(seq, addr, a, b) ==
    \/ nChainWork[a] < nChainWork[b]
    \/ /\ nChainWork[a] = nChainWork[b]
       /\ \/ seq[a] > seq[b]
          \/ seq[a] = seq[b] /\ addr[a] > addr[b]

WorseNow(a, b) == Worse(nSequenceId, address, a, b)

\* BLOCK_VALID_TRANSACTIONS, not failed and HaveNumChainTxs()
Usable == (data \cap linked) \ failed

NoCall == [mostWork |-> NoBlock, newTip |-> NoBlock, starting |-> NoBlock,
           old |-> NoBlock, front |-> NoBlock, connected |-> FALSE]

NoInvalidation == [pindex |-> NoBlock, to_mark_failed |-> NoBlock,
                   was_in_chain |-> FALSE, headers |-> {}]

Holds_cs_main == pc \in {"find", "disconnect", "connect", "loop", "out"}

Invalidating == pc \in {"scan", "walk", "check", "mark"}

\* Another thread can take cs_main.
Unlocked == ~ Holds_cs_main

CanEnter == Unlocked /\ (scenario.quiet => ~ Invalidating)

\* LoadGenesisBlock and the first ActivateBestChain have run.
Init ==
    /\ index = {Genesis} /\ data = {Genesis} /\ linked = {Genesis}
    /\ failedValid = {} /\ failedChild = {} /\ unlinked = {}
    /\ candidates = {Genesis} /\ tip = Genesis
    /\ nSequenceId = [b \in Block |-> IF b = Genesis THEN 1 ELSE 0]
    /\ nBlockSequenceId = 2
    /\ nBlockReverseSequenceId = -1 /\ nLastPreciousChainwork = 0
    /\ m_best_header = Genesis /\ m_best_invalid = NoBlock
    /\ address \in Addresses /\ verdict \in Verdicts /\ scenario \in Scenarios
    /\ heard = [seen |-> Genesis, told |-> Genesis]
    /\ pc = "idle" /\ abc = NoCall /\ inv = NoInvalidation
    /\ pending = FALSE /\ interrupt = FALSE
    /\ calls = [invalidate |-> 0, precious |-> 0, reset |-> 0, error |-> 0,
                restart |-> 0]

-----------------------------------------------------------------------------
(* Bookkeeping shared by the operations *)

\* RecalculateBestHeader walks an unordered map: any best header but the tip
\* only if it beats the tip.
RecalculateBestHeader_Tip(idx, bad) == {tip}
RecalculateBestHeader(idx, bad) ==
    LET Valid == {tip} \cup (idx \ bad)
        Most == {b \in Valid : \A c \in Valid : nChainWork[c] <= nChainWork[b]}
    IN  IF tip \in Most THEN {tip} ELSE Most

\* The blocks SetBlockFailureFlags marks: all descendants of b
SetBlockFailureFlags_Children(b, idx) == {d \in idx : pprev[d] = b}
SetBlockFailureFlags(b, idx) == {d \in idx \ {b} : Descends(d, b)}

\* InvalidChainFound(b) when idx, fv, fc and hdr are the index, the flags and
\* the best header so far.  ActivateBestChainStep calls it again for the top
\* of its batch, which only m_best_invalid can tell.
InvalidChainFound(b, top, idx, fv, fc, hdr) ==
    /\ failedValid' = fv \ SetBlockFailureFlags(b, idx)
    /\ failedChild' = fc \cup SetBlockFailureFlags(b, idx)
    /\ m_best_invalid' =
         IF \/ m_best_invalid = NoBlock
            \/ nChainWork[top] > nChainWork[m_best_invalid]
         THEN top ELSE m_best_invalid
    /\ m_best_header' \in IF Descends(hdr, b)
                          THEN RecalculateBestHeader(idx, failedValid' \cup failedChild')
                          ELSE {hdr}

\* InvalidBlockFound, for a result other than BLOCK_MUTATED
InvalidBlockFound(b, top, idx, hdr) ==
    /\ candidates' = candidates \ {b}
    /\ InvalidChainFound(b, top, idx, failedValid \cup {b}, failedChild, hdr)

PruneBlockIndexCandidates(cands, seq, t) == {c \in cands : ~ Worse(seq, address, c, t)}

\* AddToBlockIndex for a header that is not in the index
BestHeaderWith(b) ==
    IF nChainWork[m_best_header] < nChainWork[b] THEN b ELSE m_best_header

\* AcceptBlockHeader adds the header of b
NewHeader(b) == b \notin index /\ pprev[b] \in index \ failed

\* AcceptBlockHeader returns true for b
HeaderAccepted(b) == NewHeader(b) \/ b \in index \ failed

-----------------------------------------------------------------------------
(* Headers and blocks arrive *)

\* ProcessNewBlockHeaders; a header it does not add changes nothing
AcceptBlockHeader(b) ==
    /\ CanEnter
    /\ NewHeader(b)
    /\ index' = index \cup {b}
    /\ m_best_header' = BestHeaderWith(b)
    /\ UNCHANGED <<flags, received, candidates, tip, nSequenceId, counters,
                   m_best_invalid, fixed, heard, thread, pending, interrupt, calls>>

\* The early returns of AcceptBlock for a block nobody asked for
Unwanted(b) ==
    \/ nChainWork[b] < nChainWork[tip]
    \/ nHeight[b] > nHeight[tip] + MIN_BLOCKS_TO_KEEP
    \/ nChainWork[b] < MinimumChainWork

\* b and the blocks that m_blocks_unlinked leads to from it
Linkable_Children(b) == {b} \cup {d \in unlinked : pprev[d] = b}
Linkable(b) ==
    {b} \cup {d \in unlinked : Descends(d, b) /\ Chain[d] \ Chain[b] \subseteq unlinked}

\* Breadth first; m_blocks_unlinked orders the children of one parent by arrival.
SequenceIds(L) ==
    LET Ids == nBlockSequenceId .. (nBlockSequenceId + Cardinality(L) - 1)
    IN  {f \in [L -> Ids] : \A x, y \in L :
            /\ f[x] = f[y] => x = y
            /\ nHeight[x] < nHeight[y] => f[x] < f[y]}

ReceivedBlockTransactions(b) ==
    /\ data' = data \cup {b}
    /\ \/ /\ pprev[b] \in linked
          /\ linked' = linked \cup Linkable(b)
          /\ unlinked' = unlinked \ Linkable(b)
          /\ \E ids \in SequenceIds(Linkable(b)) :
               nSequenceId' = [x \in Block |-> IF x \in Linkable(b) THEN ids[x]
                                                                     ELSE nSequenceId[x]]
          /\ nBlockSequenceId' = nBlockSequenceId + Cardinality(Linkable(b))
          /\ candidates' = candidates \cup
               {x \in Linkable(b) : ~ Worse(nSequenceId', address, x, tip)}
       \/ /\ pprev[b] \notin linked
          /\ unlinked' = unlinked \cup (IF pprev[b] \in failed THEN {} ELSE {b})
          /\ UNCHANGED <<linked, nSequenceId, nBlockSequenceId, candidates>>

\* ProcessNewBlock up to the call of ActivateBestChain, for a block that passes
\* CheckBlock.  The header goes in first, whatever becomes of the block.
AcceptBlock(b, fRequested) ==
    /\ CanEnter
    /\ HeaderAccepted(b)
    /\ index' = index \cup {b}
    /\ \/ /\ b \in data \/ (~ fRequested /\ Unwanted(b))
          /\ m_best_header' = IF b \in index THEN m_best_header ELSE BestHeaderWith(b)
          /\ pending' = TRUE
          /\ UNCHANGED <<flags, received, candidates, nSequenceId, nBlockSequenceId,
                         m_best_invalid>>
       \/ /\ b \notin data /\ (fRequested \/ ~ Unwanted(b))
          /\ verdict[b] = "context"
          /\ InvalidBlockFound(b, b, index', IF b \in index THEN m_best_header
                                                            ELSE BestHeaderWith(b))
          /\ UNCHANGED <<received, nSequenceId, nBlockSequenceId, pending>>
       \/ /\ b \notin data /\ (fRequested \/ ~ Unwanted(b))
          /\ verdict[b] # "context"
          /\ m_best_header' = IF b \in index THEN m_best_header ELSE BestHeaderWith(b)
          /\ ReceivedBlockTransactions(b)
          /\ pending' = TRUE
          /\ UNCHANGED <<flags, m_best_invalid>>
    /\ UNCHANGED <<tip, nBlockReverseSequenceId, nLastPreciousChainwork, fixed, heard,
                   thread, interrupt, calls>>

-----------------------------------------------------------------------------
(* ActivateBestChain *)

abcUnchanged == <<index, received, nSequenceId, counters, fixed, inv, interrupt, calls>>

\* It takes m_chainstate_mutex and reaches the top of the outer loop.
ActivateBestChain ==
    /\ pc = "idle" /\ pending
    /\ pending' = FALSE
    /\ pc' = "while"
    /\ UNCHANGED <<abcUnchanged, flags, candidates, tip, best, heard, abc>>

\* The top of the outer loop takes cs_main; its end asks whether to go on.
LeaveOuterLoop_AfterStep == abc.newTip # NoBlock
LeaveOuterLoop == abc.newTip # NoBlock /\ (interrupt \/ abc.newTip = abc.mostWork)

OuterLoop ==
    /\ pc = "while"
    /\ IF LeaveOuterLoop
       THEN pc' = "idle" /\ abc' = NoCall
       ELSE pc' = "find" /\ abc' = [abc EXCEPT !.starting = tip, !.connected = FALSE]
    /\ UNCHANGED <<abcUnchanged, flags, candidates, tip, best, heard, pending>>

\* The blocks between b and the active chain, b included
PathTo(b) == Chain[b] \ Chain[tip]

Highest(S) == CHOOSE b \in S : \A c \in S : nHeight[c] <= nHeight[b]

BestCandidate == CHOOSE b \in candidates : \A c \in candidates : ~ WorseNow(b, c)

\* The blocks that keep the candidate b from being connected
Unusable_Missing(b) == PathTo(b) \ data
Unusable(b) == {x \in PathTo(b) : x \in failed \/ x \notin data}

\* What leaves the set of candidates with the candidate b, unusable because of test
Dropped_Above(b, test) == PathTo(b) \ Chain[test]
Dropped(b, test) == (PathTo(b) \ Chain[test]) \cup {test}

\* One round of FindMostWorkChain: take the best candidate, or drop it and what
\* lies above the block that makes it unusable.
FindMostWorkChain ==
    LET new == BestCandidate
        pindexTest == Highest(Unusable(new))
        Above == PathTo(new) \ Chain[pindexTest]
    IN  IF Unusable(new) = {}
        THEN /\ abc' = [abc EXCEPT !.mostWork = new]
             /\ UNCHANGED <<failedChild, unlinked, candidates, m_best_invalid>>
        ELSE /\ candidates' = candidates \ Dropped(new, pindexTest)
             /\ failedChild' = failedChild \cup (IF pindexTest \in failed THEN Above ELSE {})
             /\ unlinked' = unlinked \cup (IF pindexTest \in failed THEN {} ELSE Above)
             /\ m_best_invalid' =
                  IF /\ pindexTest \in failed
                     /\ \/ m_best_invalid = NoBlock
                        \/ nChainWork[new] > nChainWork[m_best_invalid]
                  THEN new ELSE m_best_invalid
             /\ UNCHANGED abc

InnerLoop ==
    /\ pc = "find"
    /\ \/ /\ abc.mostWork = NoBlock /\ candidates # {}
          /\ FindMostWorkChain
          /\ UNCHANGED pc
       \/ /\ \/ abc.mostWork = NoBlock /\ candidates = {}
             \/ abc.mostWork = tip
          /\ pc' = "out"
          /\ UNCHANGED <<failedChild, unlinked, candidates, m_best_invalid, abc>>
       \/ /\ abc.mostWork \notin {NoBlock, tip}
          /\ pc' = "disconnect"
          /\ abc' = [abc EXCEPT !.old = tip, !.front = NoBlock]
          /\ UNCHANGED <<failedChild, unlinked, candidates, m_best_invalid>>
    /\ UNCHANGED <<index, failedValid, data, linked, tip, nSequenceId, counters,
                   m_best_header, fixed, heard, inv, pending, interrupt, calls>>

\* BlockDisconnected(tip).  A listener that is somewhere else is lost.
BlockDisconnected ==
    heard' = [heard EXCEPT !.seen = IF @ = tip THEN pprev[tip] ELSE NoBlock]

\* ActivateBestChainStep: DisconnectTip down to the fork
DisconnectTip ==
    /\ pc = "disconnect"
    /\ IF tip # FindFork(tip, abc.mostWork)
       THEN tip' = pprev[tip] /\ BlockDisconnected /\ UNCHANGED pc
       ELSE /\ pc' = IF tip = abc.mostWork THEN "loop" ELSE "connect"
            /\ UNCHANGED <<tip, heard>>
    /\ UNCHANGED <<abcUnchanged, flags, candidates, best, abc, pending>>

\* The front of vpindexToConnect: the last block of the batch that starts at
\* the tip, or of the batch under way.
Front ==
    IF abc.front \in {NoBlock, tip}
    THEN LET h == nHeight[tip] + ConnectBatch
         IN  GetAncestor(abc.mostWork, IF h < nHeight[abc.mostWork]
                                       THEN h ELSE nHeight[abc.mostWork])
    ELSE abc.front

\* ActivateBestChainStep: ConnectTip for the next block towards mostWork
ConnectTip ==
    LET b == GetAncestor(abc.mostWork, nHeight[tip] + 1)
    IN  /\ pc = "connect"
        /\ \/ /\ verdict[b] # "connect"
              /\ tip' = b
              /\ candidates' = PruneBlockIndexCandidates(candidates, nSequenceId, b)
              /\ abc' = [abc EXCEPT !.front = Front]
              /\ pc' = IF nChainWork[b] > nChainWork[abc.old] \/ b = abc.mostWork
                       THEN "loop" ELSE "connect"
              /\ UNCHANGED <<flags, best>>
           \/ /\ verdict[b] = "connect"
              /\ InvalidBlockFound(b, Front, index, m_best_header)
              /\ abc' = [abc EXCEPT !.mostWork = NoBlock]
              /\ pc' = "loop"
              /\ UNCHANGED tip
        /\ UNCHANGED <<abcUnchanged, heard, pending>>

\* A disk or database error in ConnectTip or DisconnectTip: ActivateBestChain
\* returns false and FatalError asks for a shutdown.
SystemError ==
    /\ pc \in {"disconnect", "connect"}
    /\ calls.error < scenario.error
    /\ calls' = [calls EXCEPT !.error = @ + 1]
    /\ interrupt' = TRUE
    /\ pc' = "idle" /\ abc' = NoCall
    /\ UNCHANGED <<index, flags, received, candidates, tip, nSequenceId, counters,
                   best, fixed, heard, inv, pending>>

\* The condition of the inner loop
TipTooBad_Never == FALSE
TipTooBad == WorseNow(tip, abc.starting)

\* The blocks connected by the step are reported, also when it met an invalid one.
connectTrace_Invalid == IF abc.mostWork = NoBlock THEN {} ELSE Chain[tip] \ Chain[abc.old]
connectTrace == Chain[tip] \ Chain[abc.old]

LoopOrLeave ==
    /\ pc = "loop"
    /\ heard' = [heard EXCEPT !.seen = IF connectTrace = {} THEN @
                                       ELSE IF @ = FindFork(tip, abc.old) THEN tip
                                       ELSE NoBlock]
    /\ abc' = [abc EXCEPT !.connected = TRUE, !.newTip = tip,
                          !.old = NoBlock, !.front = NoBlock]
    /\ pc' = IF TipTooBad THEN "find" ELSE "out"
    /\ UNCHANGED <<abcUnchanged, flags, candidates, tip, best, pending>>

\* cs_main is released, after blockTip; ActivateBestChain returns if it had nothing
\* to do.
Release_cs_main ==
    /\ pc = "out"
    /\ IF abc.connected
       THEN /\ pc' = "while" /\ abc' = [abc EXCEPT !.starting = NoBlock]
            /\ heard' = [heard EXCEPT !.told = IF FindFork(tip, abc.starting) = abc.newTip
                                               THEN @ ELSE abc.newTip]
       ELSE pc' = "idle" /\ abc' = NoCall /\ UNCHANGED heard
    /\ UNCHANGED <<abcUnchanged, flags, candidates, tip, best, pending>>

-----------------------------------------------------------------------------
(* The operator's interventions *)

\* PreciousBlock up to its call of ActivateBestChain
PreciousBlock(b) ==
    LET reverse == IF nChainWork[tip] > nLastPreciousChainwork
                   THEN -1 ELSE nBlockReverseSequenceId
    IN  /\ CanEnter
        /\ b \in index
        /\ nChainWork[b] >= nChainWork[tip]
        /\ calls.precious < scenario.precious
        /\ calls' = [calls EXCEPT !.precious = @ + 1]
        /\ nLastPreciousChainwork' = nChainWork[tip]
        /\ nSequenceId' = [nSequenceId EXCEPT ![b] = reverse]
        /\ nBlockReverseSequenceId' = IF reverse > MinSequenceId THEN reverse - 1 ELSE reverse
        /\ candidates' = IF b \in Usable
                         THEN PruneBlockIndexCandidates(candidates \cup {b}, nSequenceId', tip)
                         ELSE candidates \ {b}
        /\ pending' = TRUE
        /\ UNCHANGED <<index, flags, received, tip, nBlockSequenceId, best, fixed, heard,
                       thread, interrupt>>

\* What ResetBlockFailureFlags adds to the candidates
Reconsidered_None(Cleared) == {}
Reconsidered(Cleared) == {x \in Cleared \cap data \cap linked : WorseNow(tip, x)}

\* ReconsiderBlock: ResetBlockFailureFlags and RecalculateBestHeader, before
\* ActivateBestChain
ResetBlockFailureFlags(b) ==
    LET Cleared == {x \in index \cap failed : Descends(x, b) \/ Descends(b, x)}
    IN  /\ CanEnter
        /\ b \in index
        /\ calls.reset < scenario.reset
        /\ calls' = [calls EXCEPT !.reset = @ + 1]
        /\ failedValid' = failedValid \ Cleared
        /\ failedChild' = failedChild \ Cleared
        /\ candidates' = candidates \cup Reconsidered(Cleared)
        /\ m_best_invalid' = IF m_best_invalid \in Cleared THEN NoBlock ELSE m_best_invalid
        /\ m_best_header' \in RecalculateBestHeader(index, failed \ Cleared)
        /\ pending' = TRUE
        /\ UNCHANGED <<index, received, tip, nSequenceId, counters, fixed, heard, thread, interrupt>>

\* InvalidateBlock takes m_chainstate_mutex.
InvalidateBlock(b) ==
    /\ pc = "idle"
    /\ b \in index \ {Genesis}
    /\ calls.invalidate < scenario.invalidate
    /\ calls' = [calls EXCEPT !.invalidate = @ + 1]
    /\ inv' = [NoInvalidation EXCEPT !.pindex = b, !.to_mark_failed = b]
    /\ pc' = "scan"
    /\ UNCHANGED <<index, flags, received, candidates, tip, nSequenceId, counters,
                   best, fixed, heard, abc, pending, interrupt>>

\* Its first cs_main section collects highpow_outofchain_headers.
CollectHeaders ==
    /\ pc = "scan"
    /\ inv' = [inv EXCEPT !.headers =
                 {c \in (index \ Chain[tip]) \ failed : ~ WorseNow(c, pprev[inv.pindex])}]
    /\ pc' = "walk"
    /\ UNCHANGED <<index, flags, received, candidates, tip, nSequenceId, counters,
                   best, fixed, heard, abc, pending, interrupt, calls>>

\* The headers of S with the most work, if it is more than b's; else b.
MoreWork(S, b) ==
    LET More == {c \in S : nChainWork[c] > nChainWork[b]}
    IN  IF More = {} THEN {b}
        ELSE {c \in More : \A d \in More : nChainWork[d] <= nChainWork[c]}

\* Its loop marks the tip it disconnects; the block above becomes a child.
MarkDisconnected(demoted) == (failedValid \cup {tip}) \ demoted

\* The blocks out of the chain that it makes candidates: those not worse than the
\* new tip
LoopCandidates(blocks) == {c \in blocks \cap Usable : ~ WorseNow(c, pprev[tip])}

\* One turn of its loop disconnects the tip and marks it failed.
DisconnectInvalid ==
    LET w == tip                       \* invalid_walk_tip
        last == inv.to_mark_failed
        Demoted == {c \in {last} \cap failedValid : pprev[c] = w}
        Walked == {c \in inv.headers : nChainWork[c] >= nChainWork[pprev[w]]}
        Below == {c \in Walked : Descends(c, w)}
    IN  /\ pc = "walk"
        /\ ~ interrupt
        /\ inv.pindex \in Chain[tip]
        /\ tip' = pprev[w]
        /\ BlockDisconnected
        /\ failedValid' = MarkDisconnected(Demoted) \ Below
        /\ failedChild' = (failedChild \cup Demoted) \cup Below
        /\ candidates' = (candidates \ {w}) \cup {pprev[w]} \cup LoopCandidates(Walked \ Below)
        /\ m_best_header' \in IF Descends(m_best_header, w)
                              THEN MoreWork(Walked \ Below, pprev[w]) ELSE {m_best_header}
        /\ inv' = [inv EXCEPT !.to_mark_failed = w, !.was_in_chain = TRUE,
                              !.headers = @ \ Below]
        /\ UNCHANGED <<index, received, nSequenceId, counters, m_best_invalid, fixed,
                       pc, abc, pending, interrupt, calls>>

\* DisconnectTip cannot read the block or its undo data: InvalidateBlock returns
\* false.  Nothing is said in state, and the caller calls ActivateBestChain.
DisconnectInvalidFails ==
    /\ pc = "walk"
    /\ ~ interrupt
    /\ inv.pindex \in Chain[tip]
    /\ calls.error < scenario.error
    /\ calls' = [calls EXCEPT !.error = @ + 1]
    /\ pc' = "idle" /\ inv' = NoInvalidation
    /\ pending' = TRUE
    /\ UNCHANGED <<index, flags, received, candidates, tip, nSequenceId, counters,
                   best, fixed, heard, abc, interrupt>>

\* The loop ends: the block is out of the chain, or a shutdown is under way.
LeaveLoop ==
    /\ pc = "walk"
    /\ interrupt \/ inv.pindex \notin Chain[tip]
    /\ pc' = "check"
    /\ UNCHANGED <<index, flags, received, candidates, tip, nSequenceId, counters,
                   best, fixed, heard, abc, inv, pending, interrupt, calls>>

\* InvalidateBlock calls CheckBlockIndex, which only reads.
CheckDuringInvalidate ==
    /\ pc = "check"
    /\ pc' = "mark"
    /\ UNCHANGED <<index, flags, received, candidates, tip, nSequenceId, counters,
                   best, fixed, heard, abc, inv, pending, interrupt, calls>>

\* The blocks it finds missing from the candidates in the end
MissingCandidates_None(unmarked) == {}
MissingCandidates(unmarked) == {c \in Usable \ unmarked : ~ WorseNow(c, tip)}

\* What blockTip says in the end
ReportedTip == IF inv.was_in_chain THEN pprev[inv.to_mark_failed] ELSE heard.told

\* The last section of InvalidateBlock and its notification; its caller then calls
\* ActivateBestChain.
MarkInvalid ==
    LET b == inv.to_mark_failed
        Unmarked == {c \in {inv.pindex} \ failed : ~ inv.was_in_chain}
    IN  /\ pc = "mark"
        /\ \/ /\ b \in Chain[tip]
              /\ UNCHANGED <<flags, candidates, best, heard>>
           \/ /\ b \notin Chain[tip]
              /\ candidates' = (candidates \ Unmarked) \cup MissingCandidates(Unmarked)
              /\ InvalidChainFound(b, b, index, failedValid \cup Unmarked, failedChild,
                                   m_best_header)
              /\ heard' = [heard EXCEPT !.told = ReportedTip]
        /\ pc' = "idle" /\ inv' = NoInvalidation
        /\ pending' = TRUE
        /\ UNCHANGED <<index, received, tip, nSequenceId, counters, fixed, abc,
                       interrupt, calls>>

-----------------------------------------------------------------------------
(* Shutdown and startup *)

Interrupt ==
    /\ ~ interrupt /\ calls.restart < scenario.restart
    /\ interrupt' = TRUE
    /\ UNCHANGED <<index, flags, received, candidates, tip, nSequenceId, counters,
                   best, fixed, heard, thread, pending, calls>>

\* LoadBlockIndex adds all usable blocks, LoadChainTip prunes the worse ones.
LoadCandidates(usable, addr) ==
    {b \in usable : ~ Worse([c \in Block |-> 0], addr, b, tip)}

\* A clean shutdown has written everything; LoadBlockIndex and LoadChainTip
\* rebuild what is not stored, and ImportBlocks calls ActivateBestChain.
Restart ==
    LET Linked == {b \in data : Chain[b] \subseteq data}
        FailedNow == {b \in index : Chain[b] \cap failed # {}}
        Valid == index \ FailedNow
        MostWork(S) == {b \in S : \A c \in S : nChainWork[c] <= nChainWork[b]}
    IN  /\ interrupt /\ pc = "idle"
        /\ interrupt' = FALSE
        /\ calls' = [calls EXCEPT !.restart = @ + 1]
        /\ address' \in Addresses
        /\ nSequenceId' = [b \in Block |-> 0]
        /\ nBlockSequenceId' = 1
        /\ nBlockReverseSequenceId' = -1 /\ nLastPreciousChainwork' = 0
        /\ linked' = Linked
        /\ unlinked' = data \ Linked
        /\ failedChild' = failedChild \cup (FailedNow \ failed)
        /\ candidates' = LoadCandidates(Linked \cap Valid, address')
        /\ m_best_header' = CHOOSE b \in Valid :
             \A c \in Valid : ~ Worse(nSequenceId', address', b, c)
        /\ m_best_invalid' \in IF FailedNow = {} THEN {NoBlock} ELSE MostWork(FailedNow)
        /\ pending' = TRUE
        /\ heard' = [seen |-> tip, told |-> tip]
        /\ UNCHANGED <<index, failedValid, data, tip, verdict, scenario, thread>>

-----------------------------------------------------------------------------
ChainstateStep ==
    \/ ActivateBestChain \/ OuterLoop \/ InnerLoop \/ DisconnectTip \/ ConnectTip
    \/ LoopOrLeave \/ Release_cs_main
    \/ CollectHeaders \/ DisconnectInvalid \/ LeaveLoop \/ CheckDuringInvalidate
    \/ MarkInvalid

Next ==
    \/ \E b \in Block : AcceptBlockHeader(b)
    \/ \E b \in Block, fRequested \in BOOLEAN : AcceptBlock(b, fRequested)
    \/ \E b \in Block : PreciousBlock(b)
    \/ \E b \in Block : ResetBlockFailureFlags(b)
    \/ \E b \in Block : InvalidateBlock(b)
    \/ ChainstateStep
    \/ SystemError \/ DisconnectInvalidFails
    \/ Interrupt
    \/ Restart

Spec == Init /\ [][Next]_vars

\* The threads are scheduled, and who waits for a mutex gets it.
Fairness == WF_vars(ChainstateStep)

FairSpec == Spec /\ Fairness

-----------------------------------------------------------------------------
(* Properties *)

MaybeBlock == Block \cup {NoBlock}

\* The members have their types; the index holds the parent of every header it
\* holds, and what AcceptBlock records of a block it records of known headers.
TypeOK ==
    /\ index \subseteq Block /\ Genesis \in index
    /\ \A b \in index \ {Genesis} : pprev[b] \in index
    /\ data \subseteq index /\ linked \subseteq data /\ unlinked \subseteq data \ linked
    /\ failedValid \subseteq index \ {Genesis} /\ failedChild \subseteq index \ {Genesis}
    /\ candidates \subseteq linked
    /\ tip \in linked /\ m_best_header \in index /\ m_best_invalid \in index \cup {NoBlock}
    /\ nSequenceId \in [Block -> Int]
    /\ nBlockSequenceId \in Nat /\ nBlockReverseSequenceId \in MinSequenceId .. -1
    /\ nLastPreciousChainwork \in Nat
    /\ pc \in {"idle", "while", "find", "disconnect", "connect", "loop", "out",
               "scan", "walk", "check", "mark"}
    /\ abc \in [mostWork : MaybeBlock, newTip : MaybeBlock, starting : MaybeBlock,
                old : MaybeBlock, front : MaybeBlock, connected : BOOLEAN]
    /\ inv \in [pindex : MaybeBlock, to_mark_failed : MaybeBlock,
                was_in_chain : BOOLEAN, headers : SUBSET index]
    /\ pending \in BOOLEAN /\ interrupt \in BOOLEAN
    /\ heard \in [seen : MaybeBlock, told : MaybeBlock]

\* CheckBlockIndex can run, and nothing excuses an inconsistency: cs_main is free,
\* InvalidateBlock is not half way through, no fatal error has occurred.
Settled == Unlocked /\ ~ Invalidating /\ ~ interrupt

Invalid(b) == Chain[b] \cap failedValid # {}

\* FindMostWorkChain and ConnectTip never put a block on the active chain that is
\* marked failed, and InvalidateBlock takes a block off before it marks it.  The
\* pindexMostWork that ActivateBestChain keeps while others hold cs_main stays a
\* chain of valid blocks with data: it need not look again.
ActiveChainValid ==
    /\ Chain[tip] \cap failed = {}
    /\ abc.mostWork # NoBlock =>
           Chain[abc.mostWork] \cap failed = {} /\ Chain[abc.mostWork] \subseteq data

\* What CheckBlockIndex asserts of setBlockIndexCandidates: the linked blocks that
\* do not sort worse than the tip are in, unless they are invalid, and no others.
CandidatesExact ==
    \A b \in index : IF b \in linked /\ ~ WorseNow(b, tip)
                     THEN Invalid(b) \/ b \in candidates
                     ELSE b \notin candidates

\* The candidates are exact whenever no InvalidateBlock is running, although
\* blocks arrive, become precious and fail while cs_main is free; and also when
\* InvalidateBlock itself calls CheckBlockIndex, if no block can have arrived since
\* it collected the headers outside the chain and no fatal error has occurred.
CandidatesWhenChecked ==
    Settled \/ (pc = "check" /\ scenario.quiet /\ ~ interrupt) => CandidatesExact

\* CheckBlockIndex: the blocks marked failed are those with an invalid block on
\* their chain.
FailureFlagsExact == Settled => \A b \in index : b \in failed <=> Invalid(b)

\* CheckBlockIndex: m_best_header is not failed, and no header that is not failed
\* has more work.
BestHeaderIsBest == Settled =>
    /\ m_best_header \notin failed
    /\ \A b \in index \ failed : nChainWork[b] <= nChainWork[m_best_header]

\* CheckBlockIndex: HaveNumChainTxs() is set exactly when the data of the block
\* and of all below it are there; a block with data that waits for a parent is
\* in m_blocks_unlinked, however blocks arrive.
LinkedExact ==
    /\ TypeOK
    /\ linked = {b \in data : Chain[b] \subseteq data}
    /\ Settled => \A b \in data \ linked : b \in unlinked \/ Invalid(b)

\* "We absolutely may not unlock cs_main until we've made forward progress": the
\* tip others see is never worse than the one they saw before, even when a
\* reorganisation has disconnected blocks and then hit an invalid one.
ForwardProgress == pc = "out" => ~ WorseNow(tip, abc.starting)

\* When no ActivateBestChain is running or about to, no usable block beats the
\* tip: a block that arrives during a call is not forgotten.
BestChainActive == pc = "idle" /\ ~ pending /\ ~ interrupt =>
    \A b \in Usable : Chain[b] \cap failed = {} => ~ WorseNow(tip, b)

\* ActivateBestChain and InvalidateBlock return.
CallsReturn == pc # "idle" ~> pc = "idle"

\* The blocks with more work than the tip whose chains are all valid and all there,
\* but for those the operator has invalidated.
Ahead == {b \in linked :
             /\ nChainWork[b] > nChainWork[tip]
             /\ \A x \in Chain[b] : verdict[x] = "ok"
             /\ calls.invalidate = 0 \/ Chain[b] \cap failed = {}}

\* However blocks arrive, the tip in the end has as much work as every chain that is
\* all valid and all there, unless the operator invalidates the chain or the node is
\* shutting down.
MostWorkWins == Ahead # {} ~> (Ahead = {} \/ interrupt)

\* A listener that applies BlockConnected and BlockDisconnected in the order they
\* are sent never meets a block that does not fit, and is at the tip whenever
\* cs_main is free: also after a reorganisation that met an invalid block half way
\* and went back.  When ActivateBestChain and InvalidateBlock have returned, the
\* last blockTip was for the tip, unless a disk error has cut one of them short.
ListenerFollows ==
    /\ Unlocked /\ ~ interrupt => heard.seen = tip
    /\ pc = "idle" /\ ~ interrupt /\ calls.error = 0 => heard.told = tip

=============================================================================
