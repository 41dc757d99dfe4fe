-------------------------- MODULE CheckQueueProofs --------------------------
(***************************************************************************)
(* The counters of CCheckQueue are exact, no check outlives its round, and *)
(* Complete returns an error exactly when a check of the round fails: for  *)
(* any number of workers, controllers, checks and rounds.                  *)
(*                                                                         *)
(* Every critical section of Loop ends in WhileLoop.  The invariant is     *)
(* stated of the counters, the result and the locals as parameters, so     *)
(* that the parts of a section before WhileLoop can be shown to lead to a  *)
(* state in which the thread could just as well enter Loop.                *)
(***************************************************************************)
EXTENDS CheckQueue, FiniteSetFacts, TLAPS

\* HeldChecks, the waiting threads and the threads in Loop, of given locals
HeldOf(pcs, now, t) == IF pcs[t] = "work" \/ pcs[t] = "lock" THEN now[t] ELSE 0

Slots(pcs, now) ==
    {slot \in Thread \X (1..MaxChecks) : slot[2] <= HeldOf(pcs, now, slot[1])}

Waiting(pcs) == {t \in Thread : pcs[t] \in {"wait", "woken"}}

InsideOf(pcs, now, t) ==
    pcs[t] \in {"wait", "woken", "work", "exit"} \/ (pcs[t] = "lock" /\ now[t] # 0)

Inside(pcs, now) == {t \in Thread : InsideOf(pcs, now, t)}

\* A round is going on: its control exists and Complete has not returned.
Active(pcs) == control # NoOne /\ pcs[control] # "returned"

\* The members and locals have their types; the master is the one who holds
\* m_control_mutex, and threads leave Loop on m_request_stop only.
Types(pcs, now, lr, result) ==
    /\ queue \in Seq(Check) /\ added \in [n : 0..MaxChecks, bad : BOOLEAN]
    /\ result \in Result /\ verdict \in Result
    /\ stop \in {"no", "flag", "join"} /\ control \in Controller \cup {NoOne}
    /\ pcs \in [Thread -> PC] /\ now \in [Thread -> 0..MaxChecks]
    /\ lr \in [Thread -> Result] /\ do_work \in [Thread -> BOOLEAN]
    /\ vChecks \in [Thread -> Seq(Check)]
    /\ round \in 0..MaxRound
    /\ control # NoOne => round \in 1..MaxRound /\ stop = "no"
    /\ \A c \in Controller : IF control = c THEN pcs[c] \notin {"idle", "exit"} ELSE pcs[c] = "idle"
    /\ \A w \in Worker : pcs[w] \in {"lock", "wait", "woken", "work", "exit"}
    /\ \A t \in Thread : pcs[t] = "exit" => stop # "no"

\* Accounting, and no check is left when a round is over
Counts(idle, total, todo, pcs, now) ==
    /\ todo = Len(queue) + Cardinality(Slots(pcs, now))
    /\ idle = Cardinality(Waiting(pcs))
    /\ total = Cardinality(Inside(pcs, now))
    /\ todo <= added.n
    /\ ~Active(pcs) => todo = 0

\* The checks in the queue and in the batches belong to this round.
Checks(pcs, now) ==
    /\ \A i \in 1..Len(queue) : queue[i].round = round
    /\ \A t \in Thread :
           IF pcs[t] = "work"
           THEN /\ now[t] # 0 /\ Len(vChecks[t]) = now[t]
                /\ \A i \in 1..Len(vChecks[t]) : vChecks[t][i].round = round
           ELSE vChecks[t] = <<>>

\* A thread is about to find, or has found, a failure that m_result does not tell.
Failing(pcs, now, lr, t) ==
    \/ pcs[t] = "work" /\ \E i \in 1..Len(vChecks[t]) : vChecks[t][i].bad
    \/ pcs[t] = "lock" /\ now[t] # 0 /\ do_work[t] /\ lr[t] # NullOpt

\* A failure of the round is in the queue, with a thread, or in the result.
FailureFound(result, pcs, now, lr) ==
    \/ result # NullOpt
    \/ \E i \in 1..Len(queue) : queue[i].bad
    \/ \E t \in Thread : Failing(pcs, now, lr, t)

\* A failure is never lost and never made up: while the round is going on it is
\* somewhere exactly if one was added.  A thread does not run its batch only when
\* the result is known, so that what an earlier batch left in its local_result
\* does not matter.
Verdicts(result, pcs, now, lr) ==
    /\ Active(pcs) => /\ result \in {NullOpt, round}
                      /\ added.bad <=> FailureFound(result, pcs, now, lr)
    /\ ~Active(pcs) => result = NullOpt
    /\ \A t \in Thread :
           /\ pcs[t] = "work" \/ (pcs[t] = "lock" /\ now[t] # 0) => do_work[t] \/ result # NullOpt
           /\ pcs[t] = "lock" /\ now[t] # 0 /\ do_work[t] => lr[t] \in {NullOpt, round}
    /\ \A c \in Controller : pcs[c] = "returned" =>
           verdict = IF added.bad THEN round ELSE NullOpt

\* The inductive invariant
J(idle, total, todo, result, pcs, now, lr) ==
    /\ Types(pcs, now, lr, result)
    /\ Counts(idle, total, todo, pcs, now)
    /\ Checks(pcs, now)
    /\ Verdicts(result, pcs, now, lr)

IInv == J(nIdle, nTotal, nTodo, m_result, pc, nNow, local_result)

-----------------------------------------------------------------------------
(* Lemmas on the operators                                                 *)

\* Where a proof names no prover, it is Zenon, which is given enough time.
USE ZenonT(40)

\* Sets of threads that differ in one thread at most
LEMMA CountChange ==
    ASSUME SetFacts, NEW S \in SUBSET Thread, NEW T \in SUBSET Thread, NEW t \in Thread,
           \A u \in Thread : u # t => (u \in S <=> u \in T)
    PROVE  /\ Cardinality(S) \in Nat /\ Cardinality(T) \in Nat
           /\ t \in S /\ t \notin T => Cardinality(T) = Cardinality(S) - 1
           /\ t \notin S /\ t \in T => Cardinality(T) = Cardinality(S) + 1
           /\ (t \in S <=> t \in T) => Cardinality(T) = Cardinality(S)
<1>1. IsFiniteSet(Thread)
  BY CheckQueueAssumption DEF Thread, SetFacts, FiniteUnions
<1>2. IsFiniteSet(S) /\ IsFiniteSet(T)
  BY <1>1 DEF SetFacts, FiniteSubsets
<1>3. Cardinality(S) \in Nat /\ Cardinality(T) \in Nat
  BY <1>2 DEF SetFacts, FiniteSubsets
<1>4. CASE t \in S /\ t \notin T
  <2>1. T = S \ {t}
    BY <1>4
  <2> QED BY <1>2, <1>3, <1>4, <2>1 DEF SetFacts, FiniteRemove
<1>5. CASE t \notin S /\ t \in T
  <2>1. T = S \cup {t}
    BY <1>5
  <2> QED BY <1>2, <1>3, <1>5, <2>1 DEF SetFacts, FiniteAdd
<1>6. CASE t \in S <=> t \in T
  <2>1. S = T
    BY <1>6, SMTT(40)
  <2> QED BY <1>3, <1>6, <2>1
<1> QED BY <1>3, <1>4, <1>5, <1>6

\* One thread takes a batch or gives it back.
LEMMA SlotsChange ==
    ASSUME SetFacts, NEW pcs, NEW now, NEW pcs2, NEW now2, NEW t \in Thread,
           \A u \in Thread : u # t => HeldOf(pcs2, now2, u) = HeldOf(pcs, now, u),
           HeldOf(pcs, now, t) \in 0..MaxChecks, HeldOf(pcs2, now2, t) \in 0..MaxChecks
    PROVE  /\ Cardinality(Slots(pcs, now)) \in Nat
           /\ HeldOf(pcs, now, t) <= Cardinality(Slots(pcs, now))
           /\ Cardinality(Slots(pcs2, now2)) =
                  Cardinality(Slots(pcs, now)) - HeldOf(pcs, now, t) + HeldOf(pcs2, now2, t)
<1> DEFINE k == HeldOf(pcs, now, t)
           m == HeldOf(pcs2, now2, t)
           Rest == {slot \in Slots(pcs, now) : slot[1] # t}
           Mine(h) == {t} \X (1..h)
<1>1. IsFiniteSet(Thread \X (1..MaxChecks))
  <2>1. IsFiniteSet(Thread)
    BY CheckQueueAssumption DEF Thread, SetFacts, FiniteUnions
  <2>2. IsFiniteSet(1..MaxChecks)
    <3>1. MaxChecks \in Int /\ 1 \in Int
      BY CheckQueueAssumption, SMTT(40)
    <3> QED BY <3>1 DEF SetFacts, FiniteIntervals
  <2> QED BY <2>1, <2>2 DEF SetFacts, FiniteProducts
<1>2. Slots(pcs, now) = Rest \cup Mine(k) /\ Rest \cap Mine(k) = {}
  BY CheckQueueAssumption, SMTT(40) DEF Slots
<1>3. Slots(pcs2, now2) = Rest \cup Mine(m) /\ Rest \cap Mine(m) = {}
  BY CheckQueueAssumption, SMTT(40) DEF Slots
<1>4. ASSUME NEW h \in 0..MaxChecks
      PROVE  IsFiniteSet(Mine(h)) /\ Cardinality(Mine(h)) = h
  <2>1. h \in Int /\ 1 \in Int /\ h >= 0
    BY CheckQueueAssumption, SMTT(40)
  <2>2. IsFiniteSet(1..h) /\ Cardinality(1..h) = h
    BY <2>1, SMTT(40) DEF SetFacts, FiniteIntervals
  <2>3. IsFiniteSet({t}) /\ Cardinality({t}) = 1
    BY DEF SetFacts, FiniteSingletons
  <2>4. IsFiniteSet(Mine(h)) /\ Cardinality(Mine(h)) = Cardinality({t}) * Cardinality(1..h)
    BY <2>2, <2>3 DEF SetFacts, FiniteProducts
  <2> QED BY <2>1, <2>2, <2>3, <2>4, SMTT(40)
<1>5. IsFiniteSet(Rest)
  <2>1. Rest \subseteq Thread \X (1..MaxChecks)
    BY DEF Slots
  <2> QED BY <1>1, <2>1 DEF SetFacts, FiniteSubsets
<1> HIDE DEF Rest, Mine, k, m
<1>6. Cardinality(Rest) \in Nat /\ Cardinality({}) = 0 /\ k \in Nat /\ m \in Nat
  BY <1>5, CheckQueueAssumption, SMTT(40) DEF k, m, SetFacts, FiniteEmpty, FiniteSubsets
<1>7. Cardinality(Slots(pcs, now)) = Cardinality(Rest) + k
  <2>1. k \in 0..MaxChecks
    BY DEF k
  <2>2. IsFiniteSet(Mine(k)) /\ Cardinality(Mine(k)) = k
    BY <1>4, <2>1
  <2>3. Cardinality(Rest \cup Mine(k)) = Cardinality(Rest) + k - Cardinality({})
    BY <1>2, <1>5, <2>2, SMTT(40) DEF SetFacts, FiniteUnions
  <2> QED BY <1>2, <1>6, <2>3, SMTT(40)
<1>8. Cardinality(Slots(pcs2, now2)) = Cardinality(Rest) + m
  <2>1. m \in 0..MaxChecks
    BY DEF m
  <2>2. IsFiniteSet(Mine(m)) /\ Cardinality(Mine(m)) = m
    BY <1>4, <2>1
  <2>3. Cardinality(Rest \cup Mine(m)) = Cardinality(Rest) + m - Cardinality({})
    BY <1>3, <1>5, <2>2, SMTT(40) DEF SetFacts, FiniteUnions
  <2> QED BY <1>3, <1>6, <2>3, SMTT(40)
<1> QED BY <1>6, <1>7, <1>8, SMTT(40) DEF k, m

\* The size of a batch is between 1 and the number of checks in the queue.
LEMMA BatchLemma ==
    ASSUME NEW size \in Nat \ {0}, NEW total \in Nat, NEW idle \in Nat
    PROVE  BatchSize(size, total, idle) \in 1..size
<1>1. nBatchSize \in Nat \ {0}
  BY CheckQueueAssumption
<1>2. size \div (total + idle + 1) \in Nat /\ size \div (total + idle + 1) <= size
  BY SMTT(40)
<1> QED BY <1>1, <1>2, SMTT(40) DEF BatchSize

-----------------------------------------------------------------------------
(* The critical sections of Loop                                           *)

\* Only thread t is somewhere else or has another batch.
Moves(t, pcs, now, pcs2, now2) ==
    /\ now \in [Thread -> 0..MaxChecks] /\ now2 \in [Thread -> 0..MaxChecks]
    /\ \A u \in Thread : u # t => pcs2[u] = pcs[u] /\ now2[u] = now[u]

\* How the counters change then
LEMMA CountersChange ==
    ASSUME SetFacts, NEW pcs, NEW now, NEW pcs2, NEW now2, NEW t \in Thread, Moves(t, pcs, now, pcs2, now2)
    PROVE  /\ Cardinality(Slots(pcs, now)) \in Nat /\ Cardinality(Slots(pcs2, now2)) \in Nat
           /\ HeldOf(pcs, now, t) <= Cardinality(Slots(pcs, now))
           /\ Cardinality(Slots(pcs2, now2)) =
                  Cardinality(Slots(pcs, now)) - HeldOf(pcs, now, t) + HeldOf(pcs2, now2, t)
           /\ Cardinality(Waiting(pcs)) \in Nat /\ Cardinality(Waiting(pcs2)) \in Nat
           /\ Cardinality(Waiting(pcs2)) = Cardinality(Waiting(pcs))
                  - (IF pcs[t] \in {"wait", "woken"} THEN 1 ELSE 0)
                  + (IF pcs2[t] \in {"wait", "woken"} THEN 1 ELSE 0)
           /\ Cardinality(Inside(pcs, now)) \in Nat /\ Cardinality(Inside(pcs2, now2)) \in Nat
           /\ Cardinality(Inside(pcs2, now2)) = Cardinality(Inside(pcs, now))
                  - (IF InsideOf(pcs, now, t) THEN 1 ELSE 0)
                  + (IF InsideOf(pcs2, now2, t) THEN 1 ELSE 0)
<1>1. /\ HeldOf(pcs, now, t) \in 0..MaxChecks /\ HeldOf(pcs2, now2, t) \in 0..MaxChecks
      /\ MaxChecks \in Nat
  BY CheckQueueAssumption, SMTT(40) DEF HeldOf, Moves
<1>2. \A u \in Thread : u # t => HeldOf(pcs2, now2, u) = HeldOf(pcs, now, u)
  BY DEF HeldOf, Moves
<1>3. /\ Cardinality(Slots(pcs, now)) \in Nat
      /\ HeldOf(pcs, now, t) <= Cardinality(Slots(pcs, now))
      /\ Cardinality(Slots(pcs2, now2)) =
             Cardinality(Slots(pcs, now)) - HeldOf(pcs, now, t) + HeldOf(pcs2, now2, t)
  BY <1>1, <1>2, SlotsChange, SMTT(40)
<1>4. Cardinality(Slots(pcs2, now2)) \in Nat
  BY <1>1, <1>3, SMTT(40)
<1>5. /\ Waiting(pcs) \in SUBSET Thread /\ Waiting(pcs2) \in SUBSET Thread
      /\ \A u \in Thread : u # t => (u \in Waiting(pcs) <=> u \in Waiting(pcs2))
      /\ t \in Waiting(pcs) <=> pcs[t] \in {"wait", "woken"}
      /\ t \in Waiting(pcs2) <=> pcs2[t] \in {"wait", "woken"}
  BY DEF Waiting, Moves
<1>6. /\ Inside(pcs, now) \in SUBSET Thread /\ Inside(pcs2, now2) \in SUBSET Thread
      /\ \A u \in Thread : u # t => (u \in Inside(pcs, now) <=> u \in Inside(pcs2, now2))
      /\ t \in Inside(pcs, now) <=> InsideOf(pcs, now, t)
      /\ t \in Inside(pcs2, now2) <=> InsideOf(pcs2, now2, t)
  BY DEF Inside, InsideOf, Moves
<1> DEFINE W == Waiting(pcs)
           W2 == Waiting(pcs2)
           I == Inside(pcs, now)
           I2 == Inside(pcs2, now2)
<1> HIDE DEF W, W2, I, I2
<1>7. /\ Cardinality(W) \in Nat /\ Cardinality(W2) \in Nat
      /\ Cardinality(W2) = Cardinality(W) - (IF t \in W THEN 1 ELSE 0) + (IF t \in W2 THEN 1 ELSE 0)
  <2>1. /\ W \in SUBSET Thread /\ W2 \in SUBSET Thread
        /\ \A u \in Thread : u # t => (u \in W <=> u \in W2)
    BY <1>5 DEF W, W2
  <2> QED BY <2>1, CountChange, SMTT(40)
<1>8. /\ Cardinality(I) \in Nat /\ Cardinality(I2) \in Nat
      /\ Cardinality(I2) = Cardinality(I) - (IF t \in I THEN 1 ELSE 0) + (IF t \in I2 THEN 1 ELSE 0)
  <2>1. /\ I \in SUBSET Thread /\ I2 \in SUBSET Thread
        /\ \A u \in Thread : u # t => (u \in I <=> u \in I2)
    BY <1>6 DEF I, I2
  <2> QED BY <2>1, CountChange, SMTT(40)
<1> QED BY <1>3, <1>4, <1>5, <1>6, <1>7, <1>8 DEF W, W2, I, I2

\* When nothing is to do, no thread has a batch.
LEMMA NobodyHolds ==
    ASSUME SetFacts, NEW pcs, NEW now, now \in [Thread -> 0..MaxChecks],
           Cardinality(Slots(pcs, now)) = 0, NEW t \in Thread
    PROVE  pcs[t] = "work" \/ pcs[t] = "lock" => now[t] = 0
<1>1. Moves(t, pcs, now, pcs, now)
  BY DEF Moves
<1>2. HeldOf(pcs, now, t) <= Cardinality(Slots(pcs, now))
  BY <1>1, CountersChange
<1> QED BY <1>2, CheckQueueAssumption, SMTT(40) DEF HeldOf

\* Thread t has the mutex and could be about to enter Loop: the invariant holds of
\* the counters and locals as the section has left them so far.
Entering(t, idle, total, todo, result, pcs, now, lr) ==
    /\ J(idle, total, todo, result, pcs, now, lr)
    /\ pcs[t] = "lock" /\ now[t] = 0
    /\ nNow \in [Thread -> 0..MaxChecks] /\ \A u \in Thread : u # t => nNow[u] = now[u]
    /\ local_result' = lr /\ UNCHANGED <<stop, control, round, added>>

\* From there the thread goes on to state x.
GoesTo(t, pcs, x) ==
    pc' \in [Thread -> PC] /\ pc'[t] = x /\ \A u \in Thread : u # t => pc'[u] = pcs[u]

\* The master leaves Loop with the verdict.
LEMMA MasterReturns ==
    ASSUME SetFacts, NEW t \in Thread, NEW idle, NEW total, NEW todo, NEW result, NEW pcs, NEW now, NEW lr,
           Entering(t, idle, total, todo, result, pcs, now, lr), GoesTo(t, pcs, "returned"),
           queue = <<>>, t \in Controller, todo = 0,
           nTotal' = total, nIdle' = idle, nTodo' = todo, verdict' = result, m_result' = NullOpt,
           UNCHANGED <<queue, vChecks, nNow, do_work>>
    PROVE  IInv'
<1>1. /\ Types(pcs, now, lr, result) /\ Counts(idle, total, todo, pcs, now)
      /\ Checks(pcs, now) /\ Verdicts(result, pcs, now, lr)
      /\ pcs[t] = "lock" /\ now[t] = 0 /\ nNow \in [Thread -> 0..MaxChecks]
      /\ \A u \in Thread : u # t => nNow[u] = now[u]
      /\ local_result' = lr /\ UNCHANGED <<stop, control, round, added>>
      /\ pc' \in [Thread -> PC] /\ pc'[t] = "returned" /\ \A u \in Thread : u # t => pc'[u] = pcs[u]
  BY DEF Entering, J, GoesTo
<1>2. control = t /\ t \notin Worker /\ control # NoOne /\ Active(pcs) /\ ~Active(pc')
  BY <1>1, CheckQueueAssumption, SMTT(40) DEF Types, Active
<1>3. Types(pc, nNow, local_result, m_result)'
  <2>1. result \in Result /\ NullOpt \in Result
    BY <1>1 DEF Types, Result
  <2>2. /\ \A c \in Controller : IF control = c THEN pc'[c] \notin {"idle", "exit"} ELSE pc'[c] = "idle"
        /\ \A w \in Worker : pc'[w] \in {"lock", "wait", "woken", "work", "exit"}
        /\ \A u \in Thread : pc'[u] = "exit" => stop # "no"
    BY <1>1, <1>2 DEF Types, Thread
  <2> QED BY <1>1, <2>1, <2>2 DEF Types
<1>4. Len(queue) = 0 /\ now \in [Thread -> 0..MaxChecks]
  BY <1>1 DEF Types
<1>5. Counts(nIdle, nTotal, nTodo, pc, nNow)'
  <2>1. /\ HeldOf(pcs, now, t) = 0 /\ HeldOf(pc', nNow, t) = 0
        /\ ~ InsideOf(pcs, now, t) /\ ~ InsideOf(pc', nNow, t)
        /\ pcs[t] \notin {"wait", "woken"} /\ pc'[t] \notin {"wait", "woken"}
    BY <1>1 DEF HeldOf, InsideOf
  <2>2. /\ Cardinality(Slots(pc', nNow)) = Cardinality(Slots(pcs, now))
        /\ Cardinality(Waiting(pc')) = Cardinality(Waiting(pcs))
        /\ Cardinality(Inside(pc', nNow)) = Cardinality(Inside(pcs, now))
    <3>1. Moves(t, pcs, now, pc', nNow)
      BY <1>1, <1>4 DEF Moves
    <3> QED BY <2>1, <3>1, CountersChange, SMTT(40)
  <2> QED BY <1>1, <1>2, <2>2 DEF Counts
<1>6. Cardinality(Slots(pcs, now)) = 0
  <2>1. Moves(t, pcs, now, pcs, now)
    BY <1>4 DEF Moves
  <2>2. Cardinality(Slots(pcs, now)) \in Nat
    BY <2>1, CountersChange
  <2> QED BY <1>1, <1>4, <2>2, SMTT(40) DEF Counts
<1>7. \A u \in Thread : pcs[u] = "work" \/ pcs[u] = "lock" => now[u] = 0
  BY <1>4, <1>6, NobodyHolds
<1>8. Checks(pc, nNow)'
  BY <1>1, SMTT(40) DEF Checks
<1>9. result \in {NullOpt, round} /\ (added.bad <=> result # NullOpt)
  <2>1. ~ \E u \in Thread : Failing(pcs, now, lr, u)
    BY <1>1, <1>7 DEF Failing, Checks
  <2> QED BY <1>1, <1>2, <1>4, <2>1, SMTT(40) DEF Verdicts, FailureFound
<1>10. Verdicts(m_result, pc, nNow, local_result)'
  <2>1. verdict' = IF added.bad THEN round ELSE NullOpt
    BY <1>9
  <2>2. \A u \in Thread : ~ (pc'[u] = "work" \/ (pc'[u] = "lock" /\ nNow[u] # 0))
    BY <1>1, <1>7 DEF Checks
  <2>3. ~Active(pc)'
    BY <1>1, <1>2 DEF Active
  <2> QED BY <1>1, <2>1, <2>2, <2>3 DEF Verdicts
<1> QED BY <1>3, <1>5, <1>8, <1>10 DEF IInv, J

\* A thread waits, or leaves after m_request_stop.
LEMMA ThreadStops ==
    ASSUME SetFacts, NEW t \in Thread, NEW idle, NEW total, NEW todo, NEW result, NEW pcs, NEW now, NEW lr,
           NEW x \in {"wait", "exit"},
           Entering(t, idle, total, todo, result, pcs, now, lr), GoesTo(t, pcs, x),
           x = "exit" => stop # "no",
           nTotal' = total + 1, nIdle' = IF x = "wait" THEN idle + 1 ELSE idle,
           nTodo' = todo, m_result' = result,
           UNCHANGED <<queue, vChecks, nNow, do_work, verdict>>
    PROVE  IInv'
<1>1. /\ Types(pcs, now, lr, result) /\ Counts(idle, total, todo, pcs, now)
      /\ Checks(pcs, now) /\ Verdicts(result, pcs, now, lr)
      /\ pcs[t] = "lock" /\ now[t] = 0 /\ nNow \in [Thread -> 0..MaxChecks]
      /\ \A u \in Thread : u # t => nNow[u] = now[u]
      /\ local_result' = lr /\ UNCHANGED <<stop, control, round, added>>
      /\ pc' \in [Thread -> PC] /\ pc'[t] = x /\ \A u \in Thread : u # t => pc'[u] = pcs[u]
  BY DEF Entering, J, GoesTo
<1>2. now \in [Thread -> 0..MaxChecks] /\ control \in Controller \cup {NoOne}
  BY <1>1 DEF Types
<1>3. Types(pc, nNow, local_result, m_result)'
  <2>1. x = "exit" => t \notin Controller
    <3>1. control # NoOne => stop = "no"
      BY <1>1 DEF Types
    <3>2. t \in Controller => control = t
      BY <1>1 DEF Types
    <3> QED BY <3>1, <3>2, CheckQueueAssumption
  <2>2. ASSUME NEW c \in Controller
        PROVE  IF control = c THEN pc'[c] \notin {"idle", "exit"} ELSE pc'[c] = "idle"
    <3>1. c \in Thread /\ (IF control = c THEN pcs[c] \notin {"idle", "exit"} ELSE pcs[c] = "idle")
      BY <1>1 DEF Types, Thread
    <3>2. CASE c = t
      BY <1>1, <2>1, <3>1, <3>2
    <3>3. CASE c # t
      BY <1>1, <3>1, <3>3
    <3> QED BY <3>2, <3>3
  <2>3. \A w \in Worker : pc'[w] \in {"lock", "wait", "woken", "work", "exit"}
    BY <1>1 DEF Types, Thread
  <2>4. \A u \in Thread : pc'[u] = "exit" => stop # "no"
    BY <1>1, SMTT(40) DEF Types
  <2> QED BY <1>1, <2>2, <2>3, <2>4 DEF Types
<1>4. Active(pc') <=> Active(pcs)
  BY <1>1, <1>2 DEF Active, Thread
<1>5. Counts(nIdle, nTotal, nTodo, pc, nNow)'
  <2>1. /\ HeldOf(pcs, now, t) = 0 /\ HeldOf(pc', nNow, t) = 0
        /\ ~ InsideOf(pcs, now, t) /\ InsideOf(pc', nNow, t)
        /\ pcs[t] \notin {"wait", "woken"} /\ (pc'[t] \in {"wait", "woken"} <=> x = "wait")
    BY <1>1 DEF HeldOf, InsideOf
  <2>2. /\ Cardinality(Slots(pc', nNow)) = Cardinality(Slots(pcs, now))
        /\ Cardinality(Waiting(pc')) = Cardinality(Waiting(pcs)) + (IF x = "wait" THEN 1 ELSE 0)
        /\ Cardinality(Inside(pc', nNow)) = Cardinality(Inside(pcs, now)) + 1
        /\ Cardinality(Waiting(pcs)) \in Nat
    <3>1. Moves(t, pcs, now, pc', nNow)
      BY <1>1, <1>2 DEF Moves
    <3> QED BY <2>1, <3>1, CountersChange, SMTT(40)
  <2>3. Active(pc)' <=> Active(pcs)
    BY <1>1, <1>4 DEF Active
  <2> QED BY <1>1, <2>2, <2>3, SMTT(40) DEF Counts
<1>6. Checks(pc, nNow)'
  BY <1>1 DEF Checks
<1>7. Verdicts(m_result, pc, nNow, local_result)'
  <2>1. \A u \in Thread : Failing(pc, nNow, local_result, u)' <=> Failing(pcs, now, lr, u)
    BY <1>1 DEF Failing
  <2>2. FailureFound(m_result, pc, nNow, local_result)' <=> FailureFound(result, pcs, now, lr)
    BY <2>1 DEF FailureFound
  <2>3. Active(pc)' <=> Active(pcs)
    BY <1>1, <1>4 DEF Active
  <2>4. \A u \in Thread : pc'[u] = "work" \/ (pc'[u] = "lock" /\ nNow'[u] # 0) =>
            u # t /\ pcs[u] = pc'[u] /\ now[u] = nNow'[u]
    BY <1>1
  <2>5. \A c \in Controller : pc'[c] = "returned" => pcs[c] = "returned"
    BY <1>1 DEF Thread
  <2> QED BY <1>1, <2>2, <2>3, <2>4, <2>5, SMTT(40) DEF Verdicts
<1> QED BY <1>3, <1>5, <1>6, <1>7 DEF IInv, J

\* A queue is cut into the part that stays and the batch at its end, of n checks.
IsCut(s, n, front, back) ==
    /\ front \in Seq(Check) /\ Len(front) = Len(s) - n
    /\ back \in Seq(Check) /\ Len(back) = n
    /\ \A i \in 1..Len(front) : i \in 1..Len(s) /\ front[i] = s[i]
    /\ \A i \in 1..Len(back) : Len(s) - n + i \in 1..Len(s) /\ back[i] = s[Len(s) - n + i]
    /\ \A i \in 1..Len(s) : i \in 1..Len(front) \/ i - (Len(s) - n) \in 1..Len(back)

\* A batch is the end of the queue, and the rest stays.
LEMMA CutLemma ==
    ASSUME NEW s \in Seq(Check), NEW n \in 1..Len(s)
    PROVE  IsCut(s, n, SubSeq(s, 1, Len(s) - n), SubSeq(s, Len(s) - n + 1, Len(s)))
  BY SMTT(40) DEF IsCut

\* A thread takes a batch.
LEMMA ThreadTakes ==
    ASSUME SetFacts, NEW t \in Thread, NEW idle, NEW total, NEW todo, NEW result, NEW pcs, NEW now, NEW lr,
           Entering(t, idle, total, todo, result, pcs, now, lr), GoesTo(t, pcs, "work"),
           queue # <<>>, stop = "no",
           nTotal' = total + 1, nIdle' = idle, nTodo' = todo, m_result' = result,
           LET n == BatchSize(Len(queue), total + 1, idle)
               start == Len(queue) - n
           IN  /\ nNow' = [nNow EXCEPT ![t] = n]
               /\ vChecks' = [vChecks EXCEPT ![t] = SubSeq(queue, start + 1, Len(queue))]
               /\ queue' = SubSeq(queue, 1, start),
           do_work' = [do_work EXCEPT ![t] = (result = NullOpt)], UNCHANGED verdict
    PROVE  IInv'
<1> DEFINE n == BatchSize(Len(queue), total + 1, idle)
<1>1. /\ Types(pcs, now, lr, result) /\ Counts(idle, total, todo, pcs, now)
      /\ Checks(pcs, now) /\ Verdicts(result, pcs, now, lr)
      /\ pcs[t] = "lock" /\ now[t] = 0 /\ nNow \in [Thread -> 0..MaxChecks]
      /\ \A u \in Thread : u # t => nNow[u] = now[u]
      /\ local_result' = lr /\ UNCHANGED <<stop, control, round, added>>
      /\ pc' \in [Thread -> PC] /\ pc'[t] = "work" /\ \A u \in Thread : u # t => pc'[u] = pcs[u]
  BY DEF Entering, J, GoesTo
<1>2. /\ now \in [Thread -> 0..MaxChecks] /\ control \in Controller \cup {NoOne}
      /\ queue \in Seq(Check) /\ vChecks \in [Thread -> Seq(Check)]
      /\ do_work \in [Thread -> BOOLEAN] /\ added.n \in 0..MaxChecks
  BY <1>1 DEF Types
<1>3. /\ idle \in Nat /\ total \in Nat /\ Cardinality(Slots(pcs, now)) \in Nat
  <2>1. Moves(t, pcs, now, pcs, now)
    BY <1>2 DEF Moves
  <2> QED BY <1>1, <2>1, CountersChange DEF Counts
<1>4. /\ n \in 1..Len(queue) /\ n \in 0..MaxChecks /\ n # 0 /\ Len(queue) \in Nat
      /\ todo = Len(queue) + Cardinality(Slots(pcs, now))
  <2>1. Len(queue) \in Nat \ {0}
    BY <1>2, SMTT(40)
  <2>2. n \in 1..Len(queue)
    BY <1>3, <2>1, BatchLemma, SMTT(40)
  <2>3. todo = Len(queue) + Cardinality(Slots(pcs, now)) /\ todo <= added.n
    BY <1>1 DEF Counts
  <2>4. added.n \in 0..MaxChecks /\ MaxChecks \in Nat /\ Cardinality(Slots(pcs, now)) \in Nat
    BY <1>2, <1>3, CheckQueueAssumption
  <2> HIDE DEF n
  <2>5. n \in 0..MaxChecks /\ n # 0
    BY <2>1, <2>2, <2>3, <2>4, SMTT(40)
  <2> QED BY <2>1, <2>2, <2>3, <2>5
<1> DEFINE back == SubSeq(queue, Len(queue) - n + 1, Len(queue))
<1>5. /\ nNow' \in [Thread -> 0..MaxChecks] /\ nNow'[t] = n
      /\ \A u \in Thread : u # t => nNow'[u] = now[u]
      /\ do_work' \in [Thread -> BOOLEAN] /\ do_work'[t] = (result = NullOpt)
      /\ \A u \in Thread : u # t => do_work'[u] = do_work[u]
  BY <1>1, <1>2, <1>4
<1>6. IsCut(queue, n, queue', back)
  <2> HIDE DEF n
  <2>1. IsCut(queue, n, SubSeq(queue, 1, Len(queue) - n), back)
    BY <1>2, <1>4, CutLemma
  <2>2. queue' = SubSeq(queue, 1, Len(queue) - n)
    BY DEF n
  <2> QED BY <2>1, <2>2
<1>7. /\ vChecks'[t] = back /\ \A u \in Thread : u # t => vChecks'[u] = vChecks[u]
      /\ vChecks' \in [Thread -> Seq(Check)]
  <2>1. vChecks' = [vChecks EXCEPT ![t] = back]
    OBVIOUS
  <2> HIDE DEF back
  <2> QED BY <1>2, <1>6, <2>1 DEF IsCut
<1> HIDE DEF n, back
<1>8. Types(pc, nNow, local_result, m_result)'
  <2>1. /\ \A c \in Controller : IF control = c THEN pc'[c] \notin {"idle", "exit"} ELSE pc'[c] = "idle"
        /\ \A w \in Worker : pc'[w] \in {"lock", "wait", "woken", "work", "exit"}
        /\ \A u \in Thread : pc'[u] = "exit" => stop # "no"
    BY <1>1 DEF Types, Thread
  <2> QED BY <1>1, <1>5, <1>6, <1>7, <2>1 DEF IsCut, Types
<1>9. Active(pc)' <=> Active(pcs)
  BY <1>1, <1>2 DEF Active, Thread
<1>10. Counts(nIdle, nTotal, nTodo, pc, nNow)'
  <2>1. /\ HeldOf(pcs, now, t) = 0 /\ HeldOf(pc', nNow', t) = n
        /\ ~ InsideOf(pcs, now, t) /\ InsideOf(pc', nNow', t)
        /\ pcs[t] \notin {"wait", "woken"} /\ pc'[t] \notin {"wait", "woken"}
    BY <1>1, <1>5 DEF HeldOf, InsideOf
  <2>2. /\ Cardinality(Slots(pc', nNow')) = Cardinality(Slots(pcs, now)) + n
        /\ Cardinality(Waiting(pc')) = Cardinality(Waiting(pcs))
        /\ Cardinality(Inside(pc', nNow')) = Cardinality(Inside(pcs, now)) + 1
    <3>1. Moves(t, pcs, now, pc', nNow')
      BY <1>1, <1>2, <1>5 DEF Moves
    <3>2. n \in Nat
      BY <1>4, SMTT(40)
    <3> QED BY <2>1, <3>1, <3>2, CountersChange, SMTT(40)
  <2>3. Len(queue') + Cardinality(Slots(pc', nNow')) = Len(queue) + Cardinality(Slots(pcs, now))
    <3>1. Len(queue') = Len(queue) - n
      BY <1>6 DEF IsCut
    <3>2. Len(queue) \in Nat /\ n \in Nat /\ Cardinality(Slots(pcs, now)) \in Nat
      BY <1>3, <1>4, SMTT(40)
    <3>3. \A a, b, c \in Nat : (a - b) + (c + b) = a + c
      BY SMTT(40)
    <3>4. (Len(queue) - n) + (Cardinality(Slots(pcs, now)) + n) = Len(queue) + Cardinality(Slots(pcs, now))
      BY <3>2, <3>3, SMTT(40)
    <3> QED BY <2>2, <3>1, <3>4
  <2> QED BY <1>1, <1>9, <2>2, <2>3 DEF Counts
<1>11. Checks(pc, nNow)'
  <2>1. \A i \in 1..Len(queue') : queue'[i].round = round
    BY <1>1, <1>6, SMTT(40) DEF IsCut, Checks
  <2>2. ASSUME NEW i \in 1..Len(back) PROVE back[i].round = round
    <3>1. PICK k \in 1..Len(queue) : back[i] = queue[k]
      BY <1>6 DEF IsCut
    <3> QED BY <1>1, <3>1 DEF Checks
  <2>3. /\ nNow'[t] # 0 /\ Len(vChecks'[t]) = nNow'[t]
        /\ \A i \in 1..Len(vChecks'[t]) : vChecks'[t][i].round = round
    BY <1>4, <1>5, <1>6, <1>7, <2>2 DEF IsCut
  <2>4. ASSUME NEW u \in Thread, u # t
        PROVE  IF pc'[u] = "work"
               THEN /\ nNow'[u] # 0 /\ Len(vChecks'[u]) = nNow'[u]
                    /\ \A i \in 1..Len(vChecks'[u]) : vChecks'[u][i].round = round
               ELSE vChecks'[u] = <<>>
    <3>1. pc'[u] = pcs[u] /\ nNow'[u] = now[u] /\ vChecks'[u] = vChecks[u]
      BY <1>1, <1>5, <1>7, <2>4
    <3> QED BY <1>1, <3>1, SMTT(40) DEF Checks
  <2>5. \A u \in Thread :
            IF pc'[u] = "work"
            THEN /\ nNow'[u] # 0 /\ Len(vChecks'[u]) = nNow'[u]
                 /\ \A i \in 1..Len(vChecks'[u]) : vChecks'[u][i].round = round
            ELSE vChecks'[u] = <<>>
    <3> TAKE u \in Thread
    <3>1. CASE u = t
      BY <1>1, <2>3, <3>1
    <3>2. CASE u # t
      BY <2>4, <3>2
    <3> QED BY <3>1, <3>2
  <2> QED BY <1>1, <2>1, <2>5 DEF Checks
<1>12. Verdicts(m_result, pc, nNow, local_result)'
  <2>1. \A u \in Thread : u # t => (Failing(pc, nNow, local_result, u)' <=> Failing(pcs, now, lr, u))
    BY <1>1, <1>5, <1>7 DEF Failing
  <2>2. /\ Failing(pc, nNow, local_result, t)' <=> \E i \in 1..Len(back) : back[i].bad
        /\ ~ Failing(pcs, now, lr, t)
    BY <1>1, <1>7 DEF Failing
  <2>3. (\E i \in 1..Len(queue) : queue[i].bad) <=>
            (\E i \in 1..Len(queue') : queue'[i].bad) \/ (\E i \in 1..Len(back) : back[i].bad)
    <3>1. ASSUME NEW i \in 1..Len(queue), queue[i].bad
          PROVE  (\E j \in 1..Len(queue') : queue'[j].bad) \/ (\E j \in 1..Len(back) : back[j].bad)
      <4>1. CASE i \in 1..Len(queue')
        BY <1>6, <3>1, <4>1 DEF IsCut
      <4>2. CASE i - (Len(queue) - n) \in 1..Len(back)
        <5>1. Len(queue) - n + (i - (Len(queue) - n)) = i
          BY <1>4, SMTT(40)
        <5>2. back[i - (Len(queue) - n)] = queue[i]
          BY <1>6, <4>2, <5>1 DEF IsCut
        <5> QED BY <3>1, <4>2, <5>2
      <4> QED BY <1>6, <4>1, <4>2 DEF IsCut
    <3> QED BY <1>6, <3>1 DEF IsCut
  <2>4. FailureFound(m_result, pc, nNow, local_result)' <=> FailureFound(result, pcs, now, lr)
    BY <2>1, <2>2, <2>3 DEF FailureFound
  <2>5. ASSUME NEW u \in Thread
        PROVE  /\ pc'[u] = "work" \/ (pc'[u] = "lock" /\ nNow'[u] # 0) => do_work'[u] \/ result # NullOpt
               /\ pc'[u] = "lock" /\ nNow'[u] # 0 /\ do_work'[u] => lr[u] \in {NullOpt, round}
    <3>1. CASE u = t
      BY <1>1, <1>5, <3>1
    <3>2. CASE u # t
      <4>1. pc'[u] = pcs[u] /\ nNow'[u] = now[u] /\ do_work'[u] = do_work[u]
        BY <1>1, <1>5, <3>2
      <4> QED BY <1>1, <4>1 DEF Verdicts
    <3> QED BY <3>1, <3>2
  <2>6. \A c \in Controller : pc'[c] = "returned" => pcs[c] = "returned"
    BY <1>1 DEF Thread
  <2> QED BY <1>1, <1>9, <2>4, <2>5, <2>6 DEF Verdicts
<1> QED BY <1>8, <1>10, <1>11, <1>12 DEF IInv, J

\* The rest of a critical section, from the while loop on
LEMMA WhileLoopKeeps ==
    ASSUME SetFacts, NEW t \in Thread, NEW idle, NEW total, NEW todo, NEW result, NEW pcs, NEW now, NEW lr,
           Entering(t, idle, total, todo, result, pcs, now, lr),
           NEW pcs0, DOMAIN pcs0 = Thread, \A u \in Thread : u # t => pcs0[u] = pcs[u],
           WhileLoop(t, total + 1, idle, todo, result, pcs0)
    PROVE  IInv'
<1>1. \A x \in PC : pc' = [pcs0 EXCEPT ![t] = x] => GoesTo(t, pcs, x)
  <2> SUFFICES ASSUME NEW x \in PC, pc' = [pcs0 EXCEPT ![t] = x]
               PROVE  GoesTo(t, pcs, x)
    OBVIOUS
  <2>1. pcs \in [Thread -> PC]
    BY DEF Entering, J, Types
  <2>2. /\ DOMAIN pc' = Thread /\ pc'[t] = x /\ \A u \in Thread : u # t => pc'[u] = pcs[u]
        /\ pc' = [u \in Thread |-> pc'[u]]
    OBVIOUS
  <2>3. \A u \in Thread : pc'[u] \in PC
    BY <2>1, <2>2
  <2> QED BY <2>2, <2>3 DEF GoesTo
<1>2. total \in Nat
  <2>1. now \in [Thread -> 0..MaxChecks] /\ total = Cardinality(Inside(pcs, now))
    BY DEF Entering, J, Types, Counts
  <2>2. Moves(t, pcs, now, pcs, now)
    BY <2>1 DEF Moves
  <2> QED BY <2>1, <2>2, CountersChange
<1>3. CASE WhileLoop(t, total + 1, idle, todo, result, pcs0)!1
  <2>1. /\ t \in Controller /\ todo = 0 /\ m_result' = NullOpt /\ nTotal' = total
        /\ GoesTo(t, pcs, "returned")
    BY <1>1, <1>2, <1>3, SMTT(40) DEF RoundDone, ResultReset, PC
  <2> QED BY <1>3, <2>1, MasterReturns
<1>4. CASE WhileLoop(t, total + 1, idle, todo, result, pcs0)!2
  <2>1. GoesTo(t, pcs, "wait")
    BY <1>1, <1>4 DEF PC
  <2> QED BY <1>4, <2>1, ThreadStops
<1>5. CASE WhileLoop(t, total + 1, idle, todo, result, pcs0)!3
  <2>1. GoesTo(t, pcs, "exit") /\ stop # "no"
    BY <1>1, <1>5 DEF PC, m_request_stop
  <2> QED BY <1>5, <2>1, ThreadStops
<1>6. CASE WhileLoop(t, total + 1, idle, todo, result, pcs0)!4
  <2>1. GoesTo(t, pcs, "work") /\ stop = "no"
    BY <1>1, <1>6 DEF PC, m_request_stop
  <2> QED BY <1>6, <2>1, ThreadTakes
<1> QED BY <1>3, <1>4, <1>5, <1>6 DEF WhileLoop

\* A waiting thread, or many, are woken: nothing that counts changes.
LEMMA Awoken ==
    ASSUME NEW idle, NEW total, NEW todo, NEW result, NEW pcs, NEW now, NEW lr,
           J(idle, total, todo, result, pcs, now, lr), NEW pcs2 \in [Thread -> PC],
           \A u \in Thread : pcs2[u] = pcs[u] \/ (pcs[u] = "wait" /\ pcs2[u] = "woken")
    PROVE  J(idle, total, todo, result, pcs2, now, lr)
<1>1. /\ Types(pcs, now, lr, result) /\ Counts(idle, total, todo, pcs, now)
      /\ Checks(pcs, now) /\ Verdicts(result, pcs, now, lr)
  BY DEF J
<1>2. \A u \in Thread : \A x \in PC \ {"wait", "woken"} : pcs2[u] = x <=> pcs[u] = x
  OBVIOUS
<1>3. control \in Controller \cup {NoOne}
  BY <1>1 DEF Types
<1>4. Active(pcs2) <=> Active(pcs)
  BY <1>2, <1>3 DEF Active, PC, Thread
<1>5. Types(pcs2, now, lr, result)
  <2>1. /\ \A c \in Controller : IF control = c THEN pcs2[c] \notin {"idle", "exit"} ELSE pcs2[c] = "idle"
        /\ \A w \in Worker : pcs2[w] \in {"lock", "wait", "woken", "work", "exit"}
        /\ \A u \in Thread : pcs2[u] = "exit" => stop # "no"
    BY <1>1 DEF Types, Thread
  <2> QED BY <1>1, <2>1 DEF Types
<1>6. Counts(idle, total, todo, pcs2, now)
  <2>1. \A u \in Thread : HeldOf(pcs2, now, u) = HeldOf(pcs, now, u)
    BY DEF HeldOf
  <2>2. Slots(pcs2, now) = Slots(pcs, now)
    BY <2>1 DEF Slots
  <2>3. Waiting(pcs2) = Waiting(pcs) /\ Inside(pcs2, now) = Inside(pcs, now)
    BY DEF Waiting, Inside, InsideOf
  <2> QED BY <1>1, <1>4, <2>2, <2>3 DEF Counts
<1>7. \A u \in Thread : (pcs2[u] = "work" <=> pcs[u] = "work") /\ (pcs2[u] = "lock" <=> pcs[u] = "lock")
  OBVIOUS
<1>8. Checks(pcs2, now)
  BY <1>1, <1>7 DEF Checks
<1>9. Verdicts(result, pcs2, now, lr)
  <2>1. \A u \in Thread : Failing(pcs2, now, lr, u) <=> Failing(pcs, now, lr, u)
    BY <1>7 DEF Failing
  <2>2. FailureFound(result, pcs2, now, lr) <=> FailureFound(result, pcs, now, lr)
    BY <2>1 DEF FailureFound
  <2>3. \A c \in Controller : pcs2[c] = "returned" => pcs[c] = "returned"
    BY DEF Thread
  <2> QED BY <1>1, <1>4, <1>7, <2>2, <2>3 DEF Verdicts
<1> QED BY <1>5, <1>6, <1>8, <1>9 DEF J

\* A thread gives its batch back, and its result if m_result has none.
LEMMA Release ==
    ASSUME SetFacts, IInv, NEW t \in Thread, pc[t] = "lock", nNow[t] # 0,
           NEW lr \in [Thread -> Result], \A u \in Thread : u # t => lr[u] = local_result[u],
           NEW now \in [Thread -> 0..MaxChecks], now[t] = 0,
           \A u \in Thread : u # t => now[u] = nNow[u],
           NEW result,
           result = IF local_result[t] # NullOpt /\ m_result = NullOpt THEN local_result[t] ELSE m_result
    PROVE  J(nIdle, nTotal - 1, nTodo - nNow[t], result, pc, now, lr)
<1>1. /\ Types(pc, nNow, local_result, m_result) /\ Counts(nIdle, nTotal, nTodo, pc, nNow)
      /\ Checks(pc, nNow) /\ Verdicts(m_result, pc, nNow, local_result)
  BY DEF IInv, J
<1>2. /\ nNow \in [Thread -> 0..MaxChecks] /\ local_result \in [Thread -> Result]
      /\ m_result \in Result /\ added.n \in 0..MaxChecks /\ queue \in Seq(Check)
  BY <1>1 DEF Types
<1>3. Types(pc, now, lr, result)
  <2>1. result \in Result
    BY <1>2
  <2> QED BY <1>1, <2>1 DEF Types
<1>4. /\ HeldOf(pc, nNow, t) = nNow[t] /\ HeldOf(pc, now, t) = 0
      /\ InsideOf(pc, nNow, t) /\ ~ InsideOf(pc, now, t)
      /\ pc[t] \notin {"wait", "woken"} /\ nNow[t] \in Nat \ {0}
  BY <1>2, CheckQueueAssumption, SMTT(40) DEF HeldOf, InsideOf
<1>5. /\ Cardinality(Slots(pc, now)) = Cardinality(Slots(pc, nNow)) - nNow[t]
      /\ Cardinality(Inside(pc, now)) = Cardinality(Inside(pc, nNow)) - 1
      /\ Cardinality(Slots(pc, now)) \in Nat /\ Cardinality(Slots(pc, nNow)) \in Nat
  <2>1. Moves(t, pc, nNow, pc, now)
    BY <1>2 DEF Moves
  <2> QED BY <1>4, <2>1, CountersChange, SMTT(40)
<1>6. /\ nTodo = Len(queue) + Cardinality(Slots(pc, nNow)) /\ nTodo <= added.n
      /\ Len(queue) \in Nat /\ added.n \in Nat
  BY <1>1, <1>2, CheckQueueAssumption, SMTT(40) DEF Counts
<1>7. Active(pc)
  <2>1. nTodo # 0
    BY <1>4, <1>5, <1>6, SMTT(40)
  <2> QED BY <1>1, <2>1 DEF Counts
<1>8. Counts(nIdle, nTotal - 1, nTodo - nNow[t], pc, now)
  <2>1. nTodo - nNow[t] = Len(queue) + Cardinality(Slots(pc, now)) /\ nTodo - nNow[t] <= added.n
    BY <1>4, <1>5, <1>6, SMTT(40)
  <2> QED BY <1>1, <1>5, <1>7, <2>1 DEF Counts
<1>9. Checks(pc, now)
  BY <1>1 DEF Checks
<1>10. Verdicts(result, pc, now, lr)
  <2>1. \A u \in Thread : u # t => (Failing(pc, now, lr, u) <=> Failing(pc, nNow, local_result, u))
    BY DEF Failing
  <2>2. /\ ~ Failing(pc, now, lr, t)
        /\ Failing(pc, nNow, local_result, t) <=> do_work[t] /\ local_result[t] # NullOpt
    BY DEF Failing
  <2>3. /\ do_work[t] \/ m_result # NullOpt
        /\ do_work[t] => local_result[t] \in {NullOpt, round}
        /\ m_result \in {NullOpt, round}
        /\ added.bad <=> FailureFound(m_result, pc, nNow, local_result)
    BY <1>1, <1>7 DEF Verdicts
  <2>4. result \in {NullOpt, round} /\ (m_result # NullOpt => result # NullOpt)
    BY <2>3
  <2>5. FailureFound(result, pc, now, lr) <=> FailureFound(m_result, pc, nNow, local_result)
    BY <2>1, <2>2, <2>3 DEF FailureFound
  <2>6. \A u \in Thread : pc[u] = "work" \/ (pc[u] = "lock" /\ now[u] # 0) =>
            do_work[u] \/ result # NullOpt
    BY <1>1, <2>4 DEF Verdicts, Checks
  <2>7. \A u \in Thread : pc[u] = "lock" /\ now[u] # 0 /\ do_work[u] => lr[u] \in {NullOpt, round}
    BY <1>1 DEF Verdicts
  <2> QED BY <1>1, <1>7, <2>3, <2>4, <2>5, <2>6, <2>7 DEF Verdicts
<1> QED BY <1>3, <1>8, <1>9, <1>10 DEF J

\* A thread comes back from waiting.
LEMMA Wake ==
    ASSUME SetFacts, IInv, NEW t \in Thread, pc[t] = "woken",
           NEW pcs \in [Thread -> PC], pcs[t] = "lock", \A u \in Thread : u # t => pcs[u] = pc[u],
           NEW now \in [Thread -> 0..MaxChecks], now[t] = 0,
           \A u \in Thread : u # t => now[u] = nNow[u]
    PROVE  J(nIdle - 1, nTotal - 1, nTodo, m_result, pcs, now, local_result)
<1>1. /\ Types(pc, nNow, local_result, m_result) /\ Counts(nIdle, nTotal, nTodo, pc, nNow)
      /\ Checks(pc, nNow) /\ Verdicts(m_result, pc, nNow, local_result)
  BY DEF IInv, J
<1>2. nNow \in [Thread -> 0..MaxChecks] /\ control \in Controller \cup {NoOne}
  BY <1>1 DEF Types
<1>3. Types(pcs, now, local_result, m_result)
  <2>1. /\ \A c \in Controller : IF control = c THEN pcs[c] \notin {"idle", "exit"} ELSE pcs[c] = "idle"
        /\ \A w \in Worker : pcs[w] \in {"lock", "wait", "woken", "work", "exit"}
        /\ \A u \in Thread : pcs[u] = "exit" => stop # "no"
    BY <1>1 DEF Types, Thread
  <2> QED BY <1>1, <2>1 DEF Types
<1>4. Active(pcs) <=> Active(pc)
  BY <1>2 DEF Active, Thread
<1>5. Counts(nIdle - 1, nTotal - 1, nTodo, pcs, now)
  <2>1. /\ HeldOf(pc, nNow, t) = 0 /\ HeldOf(pcs, now, t) = 0
        /\ InsideOf(pc, nNow, t) /\ ~ InsideOf(pcs, now, t)
        /\ pc[t] \in {"wait", "woken"} /\ pcs[t] \notin {"wait", "woken"}
    BY DEF HeldOf, InsideOf
  <2>2. /\ Cardinality(Slots(pcs, now)) = Cardinality(Slots(pc, nNow))
        /\ Cardinality(Waiting(pcs)) = Cardinality(Waiting(pc)) - 1
        /\ Cardinality(Inside(pcs, now)) = Cardinality(Inside(pc, nNow)) - 1
    <3>1. Moves(t, pc, nNow, pcs, now)
      BY <1>2 DEF Moves
    <3> QED BY <2>1, <3>1, CountersChange, SMTT(40)
  <2> QED BY <1>1, <1>4, <2>2 DEF Counts
<1>6. Checks(pcs, now)
  BY <1>1 DEF Checks
<1>7. Verdicts(m_result, pcs, now, local_result)
  <2>1. \A u \in Thread : Failing(pcs, now, local_result, u) <=> Failing(pc, nNow, local_result, u)
    BY DEF Failing
  <2>2. FailureFound(m_result, pcs, now, local_result) <=> FailureFound(m_result, pc, nNow, local_result)
    BY <2>1 DEF FailureFound
  <2>3. \A c \in Controller : pcs[c] = "returned" => pc[c] = "returned"
    BY DEF Thread
  <2>4. \A u \in Thread : pcs[u] = "work" \/ (pcs[u] = "lock" /\ now[u] # 0) =>
            u # t /\ pcs[u] = pc[u] /\ now[u] = nNow[u]
    OBVIOUS
  <2> QED BY <1>1, <1>4, <2>2, <2>3, <2>4, SMTT(40) DEF Verdicts
<1> QED BY <1>3, <1>5, <1>6, <1>7 DEF J

-----------------------------------------------------------------------------
(* The actions                                                             *)

\* The types of what the actions below assign
LEMMA IInvTypes ==
    ASSUME SetFacts, IInv
    PROVE  /\ pc \in [Thread -> PC] /\ nNow \in [Thread -> 0..MaxChecks]
           /\ local_result \in [Thread -> Result] /\ control \in Controller \cup {NoOne}
           /\ nTotal \in Nat /\ nIdle \in Nat /\ Cardinality(Slots(pc, nNow)) \in Nat
           /\ queue \in Seq(Check) /\ added \in [n : 0..MaxChecks, bad : BOOLEAN]
           /\ \A t \in Thread : nNow[t] \in Nat /\ HeldOf(pc, nNow, t) <= Cardinality(Slots(pc, nNow))
<1>1. /\ pc \in [Thread -> PC] /\ nNow \in [Thread -> 0..MaxChecks]
      /\ local_result \in [Thread -> Result] /\ control \in Controller \cup {NoOne}
      /\ queue \in Seq(Check) /\ added \in [n : 0..MaxChecks, bad : BOOLEAN]
  BY DEF IInv, J, Types
<1>2. /\ IsFiniteSet(Thread) /\ IsFiniteSet(Slots(pc, nNow))
  <2>1. IsFiniteSet(Thread)
    BY CheckQueueAssumption DEF Thread, SetFacts, FiniteUnions
  <2>2. IsFiniteSet(1..MaxChecks)
    <3>1. MaxChecks \in Int /\ 1 \in Int
      BY CheckQueueAssumption, SMTT(40)
    <3> QED BY <3>1 DEF SetFacts, FiniteIntervals
  <2>3. IsFiniteSet(Thread \X (1..MaxChecks))
    BY <2>1, <2>2 DEF SetFacts, FiniteProducts
  <2> QED BY <2>1, <2>3 DEF Slots, SetFacts, FiniteSubsets
<1>3. /\ nTotal \in Nat /\ nIdle \in Nat /\ Cardinality(Slots(pc, nNow)) \in Nat
  <2>1. IsFiniteSet(Waiting(pc)) /\ IsFiniteSet(Inside(pc, nNow))
    BY <1>2 DEF Waiting, Inside, SetFacts, FiniteSubsets
  <2> QED BY <1>2, <2>1 DEF IInv, J, Counts, SetFacts, FiniteSubsets
<1>4. ASSUME NEW t \in Thread
      PROVE  nNow[t] \in Nat /\ HeldOf(pc, nNow, t) <= Cardinality(Slots(pc, nNow))
  <2>1. Moves(t, pc, nNow, pc, nNow)
    BY <1>1 DEF Moves
  <2> QED BY <1>1, <2>1, CountersChange, CheckQueueAssumption, SMTT(40)
<1> QED BY <1>1, <1>3, <1>4

\* A thread enters Loop.
LEMMA EnterStep ==
    ASSUME SetFacts, IInv, NEW t \in Thread, EnterLoop(t)
    PROVE  IInv'
<1>1. Entering(t, nIdle, nTotal, nTodo, m_result, pc, nNow, local_result)
  BY IInvTypes DEF EnterLoop, Entering, IInv
<1>2. WhileLoop(t, nTotal + 1, nIdle, nTodo, m_result, pc) /\ DOMAIN pc = Thread
  BY IInvTypes DEF EnterLoop
<1> QED BY <1>1, <1>2, WhileLoopKeeps

\* A thread comes back from waiting.
LEMMA RelockStep ==
    ASSUME SetFacts, IInv, NEW t \in Thread, Relock(t)
    PROVE  IInv'
<1> DEFINE pcs == [pc EXCEPT ![t] = "lock"]
           now == [nNow EXCEPT ![t] = 0]
<1>1. /\ pcs \in [Thread -> PC] /\ pcs[t] = "lock" /\ \A u \in Thread : u # t => pcs[u] = pc[u]
      /\ now \in [Thread -> 0..MaxChecks] /\ now[t] = 0 /\ \A u \in Thread : u # t => now[u] = nNow[u]
      /\ DOMAIN pc = Thread /\ pc[t] = "woken"
  BY IInvTypes, CheckQueueAssumption, SMTT(40) DEF PC, Relock
<1> HIDE DEF pcs, now
<1>2. J(nIdle - 1, nTotal - 1, nTodo, m_result, pcs, now, local_result)
  BY <1>1, Wake
<1>3. Entering(t, nIdle - 1, nTotal - 1, nTodo, m_result, pcs, now, local_result)
  BY <1>1, <1>2, IInvTypes DEF Relock, Entering
<1>4. nTotal = (nTotal - 1) + 1
  BY IInvTypes, SMTT(40)
<1>5. WhileLoop(t, (nTotal - 1) + 1, nIdle - 1, nTodo, m_result, pc)
  BY <1>4 DEF Relock
<1>6. \A u \in Thread : u # t => pc[u] = pcs[u]
  BY <1>1
<1> QED BY <1>1, <1>3, <1>5, <1>6, WhileLoopKeeps, SMTT(40)

\* A thread that has run its batch accounts for it first.
LEMMA CleanUpStep ==
    ASSUME SetFacts, IInv, NEW t \in Thread, CleanUp(t)
    PROVE  IInv'
<1> DEFINE swap == local_result[t] # NullOpt /\ m_result = NullOpt
           todo == nTodo - nNow[t]
           result == IF swap THEN local_result[t] ELSE m_result
           now == [nNow EXCEPT ![t] = 0]
<1>1. /\ pc[t] = "lock" /\ nNow[t] # 0
      /\ local_result' = IF swap THEN [local_result EXCEPT ![t] = NullOpt] ELSE local_result
      /\ UNCHANGED <<stop, control, round, added>>
  BY DEF CleanUp
<1>2. PICK pcs \in MasterTold(t, todo, pc) : WhileLoop(t, nTotal, nIdle, todo, result, pcs)
  BY DEF CleanUp
<1>3. /\ now \in [Thread -> 0..MaxChecks] /\ now[t] = 0 /\ \A u \in Thread : u # t => now[u] = nNow[u]
      /\ local_result' \in [Thread -> Result] /\ \A u \in Thread : u # t => local_result'[u] = local_result[u]
  BY <1>1, IInvTypes, CheckQueueAssumption, SMTT(40) DEF Result
<1>4. /\ pcs \in [Thread -> PC] /\ pcs[t] = "lock"
      /\ \A u \in Thread : pcs[u] = pc[u] \/ (pc[u] = "wait" /\ pcs[u] = "woken")
  BY <1>1, <1>2, IInvTypes DEF MasterTold, NotifyOne, PC, Thread
<1>5. result = IF local_result[t] # NullOpt /\ m_result = NullOpt THEN local_result[t] ELSE m_result
  OBVIOUS
<1> HIDE DEF now, result
<1>6. J(nIdle, nTotal - 1, todo, result, pc, now, local_result')
  BY <1>1, <1>3, <1>5, Release
<1> HIDE DEF todo
<1>7. J(nIdle, nTotal - 1, todo, result, pcs, now, local_result')
  BY <1>4, <1>6, Awoken
<1>8. Entering(t, nIdle, nTotal - 1, todo, result, pcs, now, local_result')
  BY <1>1, <1>3, <1>4, <1>7, IInvTypes DEF Entering
<1>9. nTotal = (nTotal - 1) + 1 /\ DOMAIN pcs = Thread
  BY <1>4, IInvTypes, SMTT(40)
<1>10. WhileLoop(t, (nTotal - 1) + 1, nIdle, todo, result, pcs)
  BY <1>2, <1>9
<1> QED BY <1>8, <1>9, <1>10, WhileLoopKeeps

\* What J says does not change with variables that it does not take as parameters.
LEMMA Frame ==
    ASSUME J(nIdle', nTotal', nTodo', m_result', pc', nNow', local_result'),
           UNCHANGED <<queue, control, stop, vChecks, do_work, round, added, verdict>>
    PROVE  IInv'
<1>1. Types(pc', nNow', local_result', m_result') => Types(pc, nNow, local_result, m_result)'
  BY DEF Types
<1>2. Counts(nIdle', nTotal', nTodo', pc', nNow') => Counts(nIdle, nTotal, nTodo, pc, nNow)'
  BY DEF Counts, Active
<1>3. Checks(pc', nNow') => Checks(pc, nNow)'
  BY DEF Checks
<1>4. Verdicts(m_result', pc', nNow', local_result') => Verdicts(m_result, pc, nNow, local_result)'
  BY DEF Verdicts, Active, FailureFound, Failing
<1> QED BY <1>1, <1>2, <1>3, <1>4 DEF IInv, J

\* Spurious wakeups and the notifications of Add and of the destructor
LEMMA NotifyStep ==
    ASSUME SetFacts, IInv,
           \/ \E t \in Thread : SpuriousWakeup(t)
           \/ \E c \in Controller : Notify(c)
           \/ NotifyStop
    PROVE  IInv'
<1>1. /\ UNCHANGED <<shared, control, locals, history>> /\ pc \in [Thread -> PC]
  BY IInvTypes DEF SpuriousWakeup, Notify, NotifyStop
<1>2. ASSUME NEW pcs2 \in [Thread -> PC], pc' = pcs2, stop' = stop,
             NEW pcs, J(nIdle, nTotal, nTodo, m_result, pcs, nNow, local_result),
             \A u \in Thread : pcs2[u] = pcs[u] \/ (pcs[u] = "wait" /\ pcs2[u] = "woken")
      PROVE  IInv'
  <2>1. J(nIdle, nTotal, nTodo, m_result, pcs2, nNow, local_result)
    BY <1>2, Awoken
  <2> QED BY <1>1, <1>2, <2>1, Frame DEF shared, locals, history
<1>3. ASSUME NEW t \in Thread, SpuriousWakeup(t) PROVE IInv'
  <2>1. /\ pc' \in [Thread -> PC] /\ stop' = stop
        /\ \A u \in Thread : pc'[u] = pc[u] \/ (pc[u] = "wait" /\ pc'[u] = "woken")
    BY <1>1, <1>3 DEF SpuriousWakeup, PC
  <2> QED BY <1>2, <2>1 DEF IInv
<1>4. ASSUME NEW c \in Controller, Notify(c) PROVE IInv'
  <2> DEFINE pcs == [pc EXCEPT ![c] = "adding"]
  <2>1. /\ pcs \in [Thread -> PC] /\ pcs[c] = "adding" /\ \A u \in Thread : u # c => pcs[u] = pc[u]
        /\ pc[c] \in {"notify_one", "notify_all"} /\ c \in Thread
    BY <1>1, <1>4 DEF Notify, PC, Thread
  <2>2. /\ pc' \in [Thread -> PC] /\ stop' = stop
        /\ \A u \in Thread : pc'[u] = pcs[u] \/ (pcs[u] = "wait" /\ pc'[u] = "woken")
    BY <1>4, <2>1, SMTT(40) DEF Notify, NotifyOne, NotifyAll, PC, Thread
  <2> HIDE DEF pcs
  <2>3. J(nIdle, nTotal, nTodo, m_result, pcs, nNow, local_result)
    <3>1. /\ Types(pc, nNow, local_result, m_result) /\ Counts(nIdle, nTotal, nTodo, pc, nNow)
          /\ Checks(pc, nNow) /\ Verdicts(m_result, pc, nNow, local_result)
      BY DEF IInv, J
    <3>2. Types(pcs, nNow, local_result, m_result)
      <4>1. /\ \A d \in Controller : IF control = d THEN pcs[d] \notin {"idle", "exit"} ELSE pcs[d] = "idle"
            /\ \A w \in Worker : pcs[w] \in {"lock", "wait", "woken", "work", "exit"}
            /\ \A u \in Thread : pcs[u] = "exit" => stop # "no"
        BY <2>1, <3>1, CheckQueueAssumption DEF Types, Thread
      <4> QED BY <2>1, <3>1, <4>1 DEF Types
    <3>3. Active(pcs) <=> Active(pc)
      BY <2>1, <3>1 DEF Active, Types, Thread
    <3>4. /\ \A u \in Thread : HeldOf(pcs, nNow, u) = HeldOf(pc, nNow, u)
          /\ Waiting(pcs) = Waiting(pc) /\ Inside(pcs, nNow) = Inside(pc, nNow)
      BY <2>1 DEF HeldOf, Waiting, Inside, InsideOf
    <3>5. Slots(pcs, nNow) = Slots(pc, nNow)
      BY <3>4 DEF Slots
    <3>6. Counts(nIdle, nTotal, nTodo, pcs, nNow)
      BY <3>1, <3>3, <3>4, <3>5 DEF Counts
    <3>7. \A u \in Thread : (pcs[u] = "work" <=> pc[u] = "work") /\ (pcs[u] = "lock" <=> pc[u] = "lock")
      BY <2>1
    <3>8. Checks(pcs, nNow)
      BY <3>1, <3>7 DEF Checks
    <3>9. \A u \in Thread : Failing(pcs, nNow, local_result, u) <=> Failing(pc, nNow, local_result, u)
      BY <3>7 DEF Failing
    <3>10. Verdicts(m_result, pcs, nNow, local_result)
      <4>1. FailureFound(m_result, pcs, nNow, local_result) <=> FailureFound(m_result, pc, nNow, local_result)
        BY <3>9 DEF FailureFound
      <4>2. \A d \in Controller : pcs[d] = "returned" => pc[d] = "returned"
        BY <2>1 DEF Thread
      <4> QED BY <3>1, <3>3, <3>7, <4>1, <4>2 DEF Verdicts
    <3> QED BY <3>2, <3>6, <3>8, <3>10 DEF J
  <2> QED BY <1>2, <2>2, <2>3
<1>5. ASSUME NotifyStop PROVE IInv'
  <2>1. /\ pc' \in [Thread -> PC] /\ stop = "flag" /\ stop' = "join"
        /\ \A u \in Thread : pc'[u] = pc[u] \/ (pc[u] = "wait" /\ pc'[u] = "woken")
    BY <1>1, <1>5 DEF NotifyStop, NotifyAll, PC
  <2>2. J(nIdle', nTotal', nTodo', m_result', pc', nNow', local_result')
    <3>1. J(nIdle, nTotal, nTodo, m_result, pc', nNow, local_result)
      BY <2>1, Awoken DEF IInv
    <3> QED BY <1>1, <3>1 DEF shared, locals, history
  <2>3. Types(pc', nNow', local_result', m_result') => Types(pc, nNow, local_result, m_result)'
    BY <1>1, <2>1 DEF Types, shared, locals, history
  <2>4. Counts(nIdle', nTotal', nTodo', pc', nNow') => Counts(nIdle, nTotal, nTodo, pc, nNow)'
    BY <1>1 DEF Counts, Active, shared, history
  <2>5. Checks(pc', nNow') => Checks(pc, nNow)'
    BY <1>1 DEF Checks, shared, locals, history
  <2>6. Verdicts(m_result', pc', nNow', local_result') => Verdicts(m_result, pc, nNow, local_result)'
    BY <1>1 DEF Verdicts, Active, FailureFound, Failing, shared, locals, history
  <2> QED BY <2>2, <2>3, <2>4, <2>5, <2>6 DEF IInv, J
<1> QED BY <1>3, <1>4, <1>5

\* No thread's batch grows, shrinks or changes hands, and none starts or ends waiting.
Keeps(pcs, now, pcs2, now2) ==
    \A u \in Thread : /\ HeldOf(pcs2, now2, u) = HeldOf(pcs, now, u)
                      /\ InsideOf(pcs2, now2, u) <=> InsideOf(pcs, now, u)
                      /\ pcs2[u] \in {"wait", "woken"} <=> pcs[u] \in {"wait", "woken"}

\* Threads that keep what they count for keep the counters.
LEMMA SameCounts ==
    ASSUME NEW pcs, NEW now, NEW pcs2, NEW now2, Keeps(pcs, now, pcs2, now2)
    PROVE  /\ Slots(pcs2, now2) = Slots(pcs, now)
           /\ Waiting(pcs2) = Waiting(pcs) /\ Inside(pcs2, now2) = Inside(pcs, now)
BY DEF Keeps, Slots, Waiting, Inside

\* A set of numbers that is not empty has a least element.
LEMMA LeastElement ==
    ASSUME SetFacts, NEW S \in SUBSET Nat, S # {}
    PROVE  \E x \in S : \A y \in S : x <= y
BY DEF SetFacts, LeastNumbers

\* The first failing check of a batch, if there is one
LEMMA FirstFailure ==
    ASSUME SetFacts, NEW Bad \in SUBSET Nat, Bad # {}
    PROVE  (CHOOSE i \in Bad : \A j \in Bad : i <= j) \in Bad
<1>1. \E i \in Bad : \A j \in Bad : i <= j
  BY LeastElement
<1> QED BY <1>1

\* A thread runs its batch: what it finds goes to its local_result.
LEMMA ExecuteStep ==
    ASSUME SetFacts, IInv, NEW t \in Thread, Execute(t)
    PROVE  IInv'
<1>1. /\ Types(pc, nNow, local_result, m_result) /\ Counts(nIdle, nTotal, nTodo, pc, nNow)
      /\ Checks(pc, nNow) /\ Verdicts(m_result, pc, nNow, local_result)
  BY DEF IInv, J
<1>2. /\ UNCHANGED <<queue, nIdle, nTotal, nTodo, m_result, stop, control, nNow, do_work, round, added, verdict>>
      /\ pc[t] = "work" /\ pc' \in [Thread -> PC] /\ pc'[t] = "lock"
      /\ \A u \in Thread : u # t => pc'[u] = pc[u]
  BY <1>1 DEF Execute, Types, PC, shared, history
<1>3. /\ vChecks' \in [Thread -> Seq(Check)] /\ vChecks'[t] = <<>>
      /\ \A u \in Thread : u # t => vChecks'[u] = vChecks[u]
  BY <1>1, SMTT(40) DEF Execute, Types
<1>4. /\ nNow[t] # 0 /\ vChecks[t] \in Seq(Check) /\ do_work[t] \in BOOLEAN
      /\ \A i \in 1..Len(vChecks[t]) : vChecks[t][i].round = round
  BY <1>1, <1>2 DEF Checks, Types
<1>5. control # NoOne /\ Active(pc) /\ round \in 1..MaxRound
  <2>1. HeldOf(pc, nNow, t) <= Cardinality(Slots(pc, nNow)) /\ Cardinality(Slots(pc, nNow)) \in Nat /\ nNow[t] \in Nat
    BY IInvTypes
  <2>2. Cardinality(Slots(pc, nNow)) # 0
    BY <1>2, <1>4, <2>1, SMTT(40) DEF HeldOf
  <2>3. nTodo # 0
    <3>1. Len(queue) \in Nat
      BY <1>1, SMTT(40) DEF Types
    <3> QED BY <1>1, <2>1, <2>2, <3>1, SMTT(40) DEF Counts
  <2> QED BY <1>1, <2>3 DEF Counts, Active, Types
<1>6. /\ local_result' \in [Thread -> Result]
      /\ \A u \in Thread : u # t => local_result'[u] = local_result[u]
      /\ do_work[t] => /\ local_result'[t] \in {NullOpt, round}
                       /\ local_result'[t] # NullOpt <=> \E i \in 1..Len(vChecks[t]) : vChecks[t][i].bad
  <2> DEFINE Bad == {i \in 1 .. Len(vChecks[t]) : vChecks[t][i].bad}
             first == CHOOSE i \in Bad : \A j \in Bad : i <= j
             found == IF Bad = {} THEN NullOpt ELSE vChecks[t][first].round
  <2>1. Bad # {} => first \in Bad
    <3>1. Bad \in SUBSET Nat
      BY SMTT(40)
    <3> HIDE DEF Bad
    <3> QED BY <3>1, FirstFailure
  <2>2. local_result' = IF do_work[t] THEN [local_result EXCEPT ![t] = found] ELSE local_result
    BY DEF Execute
  <2> HIDE DEF first
  <2>3. /\ found \in {NullOpt, round} /\ found \in Result
        /\ found # NullOpt <=> \E i \in 1..Len(vChecks[t]) : vChecks[t][i].bad
    <3>1. CASE Bad = {}
      BY <3>1 DEF Result
    <3>2. CASE Bad # {}
      <4>1. first \in 1 .. Len(vChecks[t]) /\ vChecks[t][first].bad
        BY <2>1, <3>2
      <4>2. found = round
        BY <1>4, <3>2, <4>1
      <4>3. round \in Nat
        BY <1>5, SMTT(40)
      <4> QED BY <1>5, <4>1, <4>2, <4>3, CheckQueueAssumption DEF Result
    <3> QED BY <3>1, <3>2
  <2>4. local_result' = IF do_work[t] THEN [local_result EXCEPT ![t] = found] ELSE local_result
    BY <2>2
  <2> HIDE DEF found
  <2>5. local_result \in [Thread -> Result]
    BY <1>1 DEF Types
  <2>6. CASE do_work[t]
    BY <2>3, <2>4, <2>5, <2>6
  <2> QED BY <2>4, <2>5, <2>6
<1>7. Keeps(pc, nNow, pc', nNow)
  <2>1. ASSUME NEW u \in Thread
        PROVE  /\ HeldOf(pc', nNow, u) = HeldOf(pc, nNow, u)
               /\ InsideOf(pc', nNow, u) <=> InsideOf(pc, nNow, u)
               /\ pc'[u] \in {"wait", "woken"} <=> pc[u] \in {"wait", "woken"}
    BY <1>2, <1>4 DEF HeldOf, InsideOf
  <2> QED BY <2>1 DEF Keeps
<1>8. /\ Slots(pc', nNow) = Slots(pc, nNow)
      /\ Waiting(pc') = Waiting(pc) /\ Inside(pc', nNow) = Inside(pc, nNow)
  BY <1>7, SameCounts, SMTT(40)
<1>9. (Active(pc) <=> Active(pc)') /\ \A c \in Controller : pc'[c] = "returned" => pc[c] = "returned"
  BY <1>1, <1>2 DEF Active, Types, Thread
<1>10. Types(pc, nNow, local_result, m_result)'
  <2>1. /\ \A c \in Controller : IF control = c THEN pc'[c] \notin {"idle", "exit"} ELSE pc'[c] = "idle"
        /\ \A w \in Worker : pc'[w] \in {"lock", "wait", "woken", "work", "exit"}
        /\ \A u \in Thread : pc'[u] = "exit" => stop # "no"
    BY <1>1, <1>2 DEF Types, Thread
  <2> QED BY <1>1, <1>2, <1>3, <1>6, <2>1 DEF Types
<1>11. Counts(nIdle, nTotal, nTodo, pc, nNow)'
  <2>1. /\ Slots(pc, nNow)' = Slots(pc, nNow)
        /\ Waiting(pc)' = Waiting(pc) /\ Inside(pc, nNow)' = Inside(pc, nNow)
    BY <1>2, <1>8 DEF Slots, HeldOf, Waiting, Inside, InsideOf
  <2> QED BY <1>1, <1>2, <1>9, <2>1 DEF Counts
<1>12. Checks(pc, nNow)'
  <2>1. ASSUME NEW u \in Thread
        PROVE  IF pc'[u] = "work"
               THEN /\ nNow[u] # 0 /\ Len(vChecks'[u]) = nNow[u]
                    /\ \A i \in 1..Len(vChecks'[u]) : vChecks'[u][i].round = round
               ELSE vChecks'[u] = <<>>
    <3>1. CASE u = t
      BY <1>2, <1>3, <3>1
    <3>2. CASE u # t
      <4>1. pc'[u] = pc[u] /\ vChecks'[u] = vChecks[u]
        BY <1>2, <1>3, <3>2
      <4> QED BY <1>1, <4>1 DEF Checks
    <3> QED BY <3>1, <3>2
  <2> QED BY <1>1, <1>2, <2>1 DEF Checks
<1>13. Verdicts(m_result, pc, nNow, local_result)'
  <2>1. \A u \in Thread : u # t =>
            (Failing(pc, nNow, local_result, u)' <=> Failing(pc, nNow, local_result, u))
    BY <1>2, <1>3, <1>6 DEF Failing
  <2>2. do_work[t] => (Failing(pc, nNow, local_result, t)' <=> Failing(pc, nNow, local_result, t))
    BY <1>2, <1>4, <1>6 DEF Failing
  <2>3. do_work[t] \/ m_result # NullOpt
    BY <1>1, <1>2 DEF Verdicts
  <2>4. FailureFound(m_result, pc, nNow, local_result)' <=> FailureFound(m_result, pc, nNow, local_result)
    BY <1>2, <2>1, <2>2, <2>3 DEF FailureFound
  <2>5. \A u \in Thread :
           /\ pc'[u] = "work" \/ (pc'[u] = "lock" /\ nNow[u] # 0) => do_work[u] \/ m_result # NullOpt
           /\ pc'[u] = "lock" /\ nNow[u] # 0 /\ do_work[u] => local_result'[u] \in {NullOpt, round}
    BY <1>1, <1>2, <1>6, <2>3 DEF Verdicts
  <2> QED BY <1>1, <1>2, <1>9, <2>4, <2>5 DEF Verdicts
<1> QED BY <1>10, <1>11, <1>12, <1>13 DEF IInv, J

\* A new control: nothing is left of the round before.
LEMMA ConstructStep ==
    ASSUME SetFacts, IInv, NEW c \in Controller, Construct(c)
    PROVE  IInv'
<1>1. /\ Types(pc, nNow, local_result, m_result) /\ Counts(nIdle, nTotal, nTodo, pc, nNow)
      /\ Checks(pc, nNow) /\ Verdicts(m_result, pc, nNow, local_result)
  BY DEF IInv, J
<1>2. /\ UNCHANGED <<queue, nIdle, nTotal, nTodo, m_result, stop, vChecks, nNow, local_result, do_work, verdict>>
      /\ c \in Thread /\ pc[c] = "idle" /\ pc' \in [Thread -> PC] /\ pc'[c] = "adding"
      /\ \A u \in Thread : u # c => pc'[u] = pc[u]
      /\ control = NoOne /\ control' = c /\ c # NoOne /\ stop = "no"
      /\ round' = round + 1 /\ round' \in 1..MaxRound /\ added' = [n |-> 0, bad |-> FALSE]
  BY <1>1, CheckQueueAssumption, SMTT(40)
  DEF Construct, Types, PC, shared, locals, Thread, NothingAdded, m_request_stop
<1>3. /\ nTodo = 0 /\ m_result = NullOpt /\ queue = <<>> /\ Cardinality(Slots(pc, nNow)) = 0
  <2>1. nTodo = 0 /\ m_result = NullOpt
    BY <1>1, <1>2 DEF Counts, Verdicts, Active
  <2>2. Cardinality(Slots(pc, nNow)) \in Nat /\ queue \in Seq(Check)
    BY IInvTypes
  <2>3. Len(queue) \in Nat /\ nTodo = Len(queue) + Cardinality(Slots(pc, nNow))
    BY <1>1, <2>2, SMTT(40) DEF Counts
  <2>4. Len(queue) = 0 /\ Cardinality(Slots(pc, nNow)) = 0
    BY <2>1, <2>2, <2>3, SMTT(40)
  <2> QED BY <2>1, <2>2, <2>4, SMTT(40)
<1>4. \A u \in Thread : pc[u] = "work" \/ pc[u] = "lock" => nNow[u] = 0
  BY <1>3, IInvTypes, NobodyHolds
<1>5. \A u \in Thread : pc'[u] # "work" /\ (pc'[u] = "lock" => nNow[u] = 0) /\ vChecks[u] = <<>>
  <2>1. \A u \in Thread : pc[u] # "work" /\ vChecks[u] = <<>>
    BY <1>1, <1>4 DEF Checks
  <2> QED BY <1>2, <1>4, <2>1
<1>6. Keeps(pc, nNow, pc', nNow)
  <2>1. ASSUME NEW u \in Thread
        PROVE  /\ HeldOf(pc', nNow, u) = HeldOf(pc, nNow, u)
               /\ InsideOf(pc', nNow, u) <=> InsideOf(pc, nNow, u)
               /\ pc'[u] \in {"wait", "woken"} <=> pc[u] \in {"wait", "woken"}
    BY <1>2 DEF HeldOf, InsideOf
  <2> QED BY <2>1 DEF Keeps
<1>7. Types(pc, nNow, local_result, m_result)'
  <2>1. /\ \A d \in Controller : IF c = d THEN pc'[d] \notin {"idle", "exit"} ELSE pc'[d] = "idle"
        /\ \A w \in Worker : pc'[w] \in {"lock", "wait", "woken", "work", "exit"}
        /\ \A u \in Thread : pc'[u] = "exit" => stop # "no"
    BY <1>1, <1>2, CheckQueueAssumption DEF Types, Thread
  <2>2. added' \in [n : 0..MaxChecks, bad : BOOLEAN]
    BY <1>2, CheckQueueAssumption, SMTT(40)
  <2> QED BY <1>1, <1>2, <2>1, <2>2, SMTT(40) DEF Types
<1>8. Counts(nIdle, nTotal, nTodo, pc, nNow)'
  <2>1. /\ Slots(pc', nNow) = Slots(pc, nNow)
        /\ Waiting(pc') = Waiting(pc) /\ Inside(pc', nNow) = Inside(pc, nNow)
    BY <1>6, SameCounts, SMTT(40)
  <2>2. /\ Slots(pc, nNow)' = Slots(pc, nNow)
        /\ Waiting(pc)' = Waiting(pc) /\ Inside(pc, nNow)' = Inside(pc, nNow)
    BY <1>2, <2>1 DEF Slots, HeldOf, Waiting, Inside, InsideOf
  <2>3. nTodo' <= added'.n /\ nTodo' = 0
    BY <1>2, <1>3, SMTT(40)
  <2> QED BY <1>1, <1>2, <2>2, <2>3 DEF Counts
<1>9. Checks(pc, nNow)'
  BY <1>2, <1>3, <1>5, SMTT(40) DEF Checks
<1>10. Verdicts(m_result, pc, nNow, local_result)'
  <2>1. ~FailureFound(m_result, pc, nNow, local_result)'
    BY <1>2, <1>3, <1>5, SMTT(40) DEF FailureFound, Failing
  <2>2. \A d \in Controller : pc'[d] # "returned"
    BY <1>1, <1>2, CheckQueueAssumption DEF Types, Thread
  <2>3. Active(pc)'
    BY <1>2 DEF Active
  <2>4. added'.bad = FALSE
    BY <1>2
  <2> QED BY <1>2, <1>3, <1>5, <2>1, <2>2, <2>3, <2>4 DEF Verdicts
<1> QED BY <1>7, <1>8, <1>9, <1>10 DEF IInv, J

\* A batch is added.
LEMMA AddStep ==
    ASSUME SetFacts, IInv, NEW c \in Controller, NEW checks \in Batches, Add(c, checks)
    PROVE  IInv'
<1>1. /\ Types(pc, nNow, local_result, m_result) /\ Counts(nIdle, nTotal, nTodo, pc, nNow)
      /\ Checks(pc, nNow) /\ Verdicts(m_result, pc, nNow, local_result)
  BY DEF IInv, J
<1>2. /\ UNCHANGED <<nIdle, nTotal, m_result, stop, control, vChecks, nNow, local_result, do_work, round, verdict>>
      /\ c \in Thread /\ pc[c] = "adding" /\ pc' \in [Thread -> PC] /\ pc'[c] \in {"notify_one", "notify_all"}
      /\ \A u \in Thread : u # c => pc'[u] = pc[u]
      /\ queue' = queue \o checks /\ nTodo' = nTodo + Len(checks)
      /\ added.n + Len(checks) <= MaxChecks
      /\ added' = [n |-> added.n + Len(checks), bad |-> added.bad \/ \E i \in DOMAIN checks : checks[i].bad]
  BY <1>1 DEF Add, Types, PC, locals, Thread
<1>3. control = c /\ Active(pc) /\ round \in 1..MaxRound
  BY <1>1, <1>2, CheckQueueAssumption DEF Types, Active
<1>4. /\ checks \in Seq(Check) /\ Len(checks) \in Nat /\ DOMAIN checks = 1..Len(checks)
      /\ \A i \in 1..Len(checks) : checks[i].round = round
  <2>1. PICK n \in 1..MaxAdd : checks \in [1..n -> {[round |-> round, bad |-> b] : b \in BOOLEAN}]
    BY DEF Batches
  <2>2. {[round |-> round, bad |-> b] : b \in BOOLEAN} \subseteq Check
    BY <1>3, SMTT(40) DEF Check
  <2>3. n \in Nat
    BY CheckQueueAssumption, SMTT(40)
  <2>4. checks \in [1..n -> Check] /\ \A i \in 1..n : checks[i].round = round
    BY <2>1, <2>2, SMTT(40)
  <2>5. checks \in Seq(Check) /\ Len(checks) = n
    BY <2>3, <2>4, SMTT(40)
  <2> QED BY <2>3, <2>4, <2>5
<1>5. /\ queue \in Seq(Check) /\ Len(queue) \in Nat /\ queue' \in Seq(Check)
      /\ Len(queue') = Len(queue) + Len(checks)
      /\ \A i \in 1..Len(queue) : queue'[i] = queue[i]
      /\ \A i \in 1..Len(checks) : queue'[Len(queue) + i] = checks[i]
      /\ \A i \in 1..Len(queue') : IF i <= Len(queue) THEN i \in 1..Len(queue)
             ELSE i - Len(queue) \in 1..Len(checks) /\ queue'[i] = checks[i - Len(queue)]
  BY <1>1, <1>2, <1>4, SMTT(40) DEF Types
<1>6. Keeps(pc, nNow, pc', nNow)
  <2>1. ASSUME NEW u \in Thread
        PROVE  /\ HeldOf(pc', nNow, u) = HeldOf(pc, nNow, u)
               /\ InsideOf(pc', nNow, u) <=> InsideOf(pc, nNow, u)
               /\ pc'[u] \in {"wait", "woken"} <=> pc[u] \in {"wait", "woken"}
    BY <1>2 DEF HeldOf, InsideOf
  <2> QED BY <2>1 DEF Keeps
<1>7. /\ added \in [n : 0..MaxChecks, bad : BOOLEAN] /\ added' \in [n : 0..MaxChecks, bad : BOOLEAN]
      /\ added'.n = added.n + Len(checks)
      /\ added'.bad <=> added.bad \/ \E i \in 1..Len(checks) : checks[i].bad
  <2>1. added \in [n : 0..MaxChecks, bad : BOOLEAN]
    BY <1>1 DEF Types
  <2>2. added.n + Len(checks) \in 0..MaxChecks
    BY <1>2, <1>4, <2>1, CheckQueueAssumption, SMTT(40)
  <2>3. (\E i \in DOMAIN checks : checks[i].bad) \in BOOLEAN
    OBVIOUS
  <2>4. added.bad \in BOOLEAN
    BY <2>1
  <2>5. added'.n = added.n + Len(checks) /\ added'.bad = (added.bad \/ \E i \in DOMAIN checks : checks[i].bad)
    BY <1>2
  <2>6. added' \in [n : 0..MaxChecks, bad : BOOLEAN]
    BY <1>2, <2>2, <2>3, <2>4
  <2> QED BY <1>4, <2>1, <2>5, <2>6
<1>8. Types(pc, nNow, local_result, m_result)'
  <2>1. /\ \A d \in Controller : IF control = d THEN pc'[d] \notin {"idle", "exit"} ELSE pc'[d] = "idle"
        /\ \A w \in Worker : pc'[w] \in {"lock", "wait", "woken", "work", "exit"}
        /\ \A u \in Thread : pc'[u] = "exit" => stop # "no"
    BY <1>1, <1>2, <1>3, CheckQueueAssumption DEF Types, Thread
  <2> QED BY <1>1, <1>2, <1>5, <1>7, <2>1 DEF Types
<1>9. Active(pc)'
  BY <1>2, <1>3 DEF Active
<1>10. Counts(nIdle, nTotal, nTodo, pc, nNow)'
  <2>1. /\ Slots(pc', nNow) = Slots(pc, nNow)
        /\ Waiting(pc') = Waiting(pc) /\ Inside(pc', nNow) = Inside(pc, nNow)
    BY <1>6, SameCounts, SMTT(40)
  <2>2. /\ Slots(pc, nNow)' = Slots(pc, nNow)
        /\ Waiting(pc)' = Waiting(pc) /\ Inside(pc, nNow)' = Inside(pc, nNow)
    BY <1>2, <2>1 DEF Slots, HeldOf, Waiting, Inside, InsideOf
  <2>3. /\ Cardinality(Slots(pc, nNow)) \in Nat /\ nTodo = Len(queue) + Cardinality(Slots(pc, nNow))
        /\ nTodo <= added.n /\ added.n \in Nat
    <3>1. added.n \in 0..MaxChecks /\ MaxChecks \in Nat
      BY <1>7, CheckQueueAssumption
    <3>2. added.n \in Nat
      BY <3>1, SMTT(40)
    <3> QED BY <1>1, <3>2, IInvTypes DEF Counts
  <2>4. nTodo' = Len(queue') + Cardinality(Slots(pc, nNow)) /\ nTodo' <= added'.n
    <3>1. /\ nTodo' = nTodo + Len(checks) /\ Len(checks) \in Nat /\ Len(queue) \in Nat
          /\ Len(queue') = Len(queue) + Len(checks) /\ added'.n = added.n + Len(checks)
      BY <1>2, <1>4, <1>5, <1>7
    <3> HIDE DEF Slots
    <3> QED BY <2>3, <3>1, SMTT(40)
  <2> QED BY <1>1, <1>2, <1>9, <2>2, <2>4 DEF Counts
<1>11. Checks(pc, nNow)'
  <2>1. ASSUME NEW i \in 1..Len(queue') PROVE queue'[i].round = round
    <3>1. \A j \in 1..Len(queue) : queue[j].round = round
      BY <1>1 DEF Checks
    <3>2. CASE i \in 1..Len(queue)
      BY <1>5, <3>1, <3>2
    <3>3. CASE i - Len(queue) \in 1..Len(checks) /\ queue'[i] = checks[i - Len(queue)]
      BY <1>4, <3>3
    <3> QED BY <1>5, <3>2, <3>3
  <2>2. \A u \in Thread : pc'[u] = "work" <=> pc[u] = "work"
    BY <1>2
  <2> QED BY <1>1, <1>2, <2>1, <2>2 DEF Checks
<1>12. Verdicts(m_result, pc, nNow, local_result)'
  <2>1. \A u \in Thread : (pc'[u] = "work" <=> pc[u] = "work") /\ (pc'[u] = "lock" <=> pc[u] = "lock")
    BY <1>2
  <2>2. \A u \in Thread : Failing(pc, nNow, local_result, u)' <=> Failing(pc, nNow, local_result, u)
    BY <1>2, <2>1 DEF Failing
  <2>3. (\E i \in 1..Len(queue') : queue'[i].bad)
            <=> (\E i \in 1..Len(queue) : queue[i].bad) \/ \E i \in 1..Len(checks) : checks[i].bad
    <3>1. ASSUME NEW i \in 1..Len(queue'), queue'[i].bad
          PROVE  (\E k \in 1..Len(queue) : queue[k].bad) \/ \E k \in 1..Len(checks) : checks[k].bad
      BY <1>5, <3>1
    <3>2. ASSUME NEW i \in 1..Len(queue), queue[i].bad PROVE \E k \in 1..Len(queue') : queue'[k].bad
      <4>1. i \in 1..Len(queue') /\ queue'[i].bad
        BY <1>4, <1>5, <3>2, SMTT(40)
      <4> QED BY <4>1
    <3>3. ASSUME NEW i \in 1..Len(checks), checks[i].bad PROVE \E k \in 1..Len(queue') : queue'[k].bad
      <4>1. Len(queue) + i \in 1..Len(queue') /\ queue'[Len(queue) + i].bad
        BY <1>4, <1>5, <3>3, SMTT(40)
      <4> QED BY <4>1
    <3> QED BY <3>1, <3>2, <3>3
  <2>4. FailureFound(m_result, pc, nNow, local_result)' <=>
            FailureFound(m_result, pc, nNow, local_result) \/ \E i \in 1..Len(checks) : checks[i].bad
    BY <1>2, <2>2, <2>3 DEF FailureFound
  <2>5. \A d \in Controller : pc'[d] # "returned"
    BY <1>1, <1>2, <1>3 DEF Types, Thread
  <2>6. m_result' \in {NullOpt, round'}
    BY <1>1, <1>2, <1>3 DEF Verdicts
  <2>7. added'.bad <=> FailureFound(m_result, pc, nNow, local_result)'
    <3>1. added.bad <=> FailureFound(m_result, pc, nNow, local_result)
      BY <1>1, <1>3 DEF Verdicts
    <3> QED BY <1>7, <2>4, <3>1
  <2> QED BY <1>1, <1>2, <1>9, <2>1, <2>5, <2>6, <2>7 DEF Verdicts
<1> QED BY <1>8, <1>10, <1>11, <1>12 DEF IInv, J

\* Complete begins: the master is about to enter Loop.
LEMMA CompleteStep ==
    ASSUME IInv, NEW c \in Controller, Complete(c)
    PROVE  IInv'
<1>1. /\ Types(pc, nNow, local_result, m_result) /\ Counts(nIdle, nTotal, nTodo, pc, nNow)
      /\ Checks(pc, nNow) /\ Verdicts(m_result, pc, nNow, local_result)
  BY DEF IInv, J
<1>2. /\ UNCHANGED <<queue, nIdle, nTotal, nTodo, m_result, stop, control, vChecks, do_work, round, added, verdict>>
      /\ c \in Thread /\ pc[c] = "adding" /\ pc' \in [Thread -> PC] /\ pc'[c] = "lock"
      /\ nNow' \in [Thread -> 0..MaxChecks] /\ nNow'[c] = 0
      /\ local_result' \in [Thread -> Result]
      /\ \A u \in Thread : u # c => pc'[u] = pc[u] /\ nNow'[u] = nNow[u] /\ local_result'[u] = local_result[u]
  BY <1>1, CheckQueueAssumption, SMTT(40) DEF Complete, Types, PC, Result, Thread, shared, history
<1>3. control = c /\ Active(pc) /\ Active(pc)'
  BY <1>1, <1>2, CheckQueueAssumption DEF Types, Active
<1>4. Keeps(pc, nNow, pc', nNow')
  <2>1. ASSUME NEW u \in Thread
        PROVE  /\ HeldOf(pc', nNow', u) = HeldOf(pc, nNow, u)
               /\ InsideOf(pc', nNow', u) <=> InsideOf(pc, nNow, u)
               /\ pc'[u] \in {"wait", "woken"} <=> pc[u] \in {"wait", "woken"}
    BY <1>2 DEF HeldOf, InsideOf
  <2> QED BY <2>1 DEF Keeps
<1>5. Types(pc', nNow', local_result', m_result')
  <2>1. /\ \A d \in Controller : IF control = d THEN pc'[d] \notin {"idle", "exit"} ELSE pc'[d] = "idle"
        /\ \A w \in Worker : pc'[w] \in {"lock", "wait", "woken", "work", "exit"}
        /\ \A u \in Thread : pc'[u] = "exit" => stop # "no"
    BY <1>1, <1>2, <1>3, CheckQueueAssumption DEF Types, Thread
  <2> QED BY <1>1, <1>2, <2>1 DEF Types
<1>6. Counts(nIdle', nTotal', nTodo', pc', nNow')
  <2>1. /\ Slots(pc', nNow') = Slots(pc, nNow)
        /\ Waiting(pc') = Waiting(pc) /\ Inside(pc', nNow') = Inside(pc, nNow)
    BY <1>4, SameCounts, SMTT(40)
  <2>2. Active(pc')
    BY <1>2, <1>3 DEF Active
  <2> QED BY <1>1, <1>2, <2>1, <2>2 DEF Counts
<1>7. Checks(pc', nNow')
  BY <1>1, <1>2 DEF Checks
<1>8. Verdicts(m_result', pc', nNow', local_result')
  <2>1. \A u \in Thread : Failing(pc', nNow', local_result', u) <=> Failing(pc, nNow, local_result, u)
    BY <1>2 DEF Failing
  <2>2. FailureFound(m_result', pc', nNow', local_result') <=> FailureFound(m_result, pc, nNow, local_result)
    BY <1>2, <2>1 DEF FailureFound
  <2>3. Active(pc')
    BY <1>2, <1>3 DEF Active
  <2>4. \A d \in Controller : pc'[d] # "returned"
    BY <1>1, <1>2, <1>3 DEF Types, Thread
  <2>5. \A u \in Thread :
           /\ pc'[u] = "work" \/ (pc'[u] = "lock" /\ nNow'[u] # 0) => do_work[u] \/ m_result # NullOpt
           /\ pc'[u] = "lock" /\ nNow'[u] # 0 /\ do_work[u] => local_result'[u] \in {NullOpt, round}
    BY <1>1, <1>2 DEF Verdicts
  <2> QED BY <1>1, <1>2, <1>3, <2>2, <2>3, <2>4, <2>5 DEF Verdicts
<1>9. J(nIdle', nTotal', nTodo', m_result', pc', nNow', local_result')
  BY <1>5, <1>6, <1>7, <1>8 DEF J
<1> QED BY <1>2, <1>9, Frame

\* The control is gone.
LEMMA DestructStep ==
    ASSUME IInv, NEW c \in Controller, Destruct(c)
    PROVE  IInv'
<1>1. /\ Types(pc, nNow, local_result, m_result) /\ Counts(nIdle, nTotal, nTodo, pc, nNow)
      /\ Checks(pc, nNow) /\ Verdicts(m_result, pc, nNow, local_result)
  BY DEF IInv, J
<1>2. /\ UNCHANGED <<queue, nIdle, nTotal, nTodo, m_result, stop, vChecks, nNow, local_result, do_work, round, added, verdict>>
      /\ c \in Thread /\ pc[c] = "returned" /\ pc' \in [Thread -> PC] /\ pc'[c] = "idle"
      /\ \A u \in Thread : u # c => pc'[u] = pc[u]
      /\ control' = NoOne
  BY <1>1 DEF Destruct, Types, PC, Thread, shared, locals, history
<1>3. control = c /\ ~Active(pc) /\ ~Active(pc)'
  BY <1>1, <1>2, CheckQueueAssumption DEF Types, Active
<1>4. Keeps(pc, nNow, pc', nNow)
  <2>1. ASSUME NEW u \in Thread
        PROVE  /\ HeldOf(pc', nNow, u) = HeldOf(pc, nNow, u)
               /\ InsideOf(pc', nNow, u) <=> InsideOf(pc, nNow, u)
               /\ pc'[u] \in {"wait", "woken"} <=> pc[u] \in {"wait", "woken"}
    BY <1>2 DEF HeldOf, InsideOf
  <2> QED BY <2>1 DEF Keeps
<1>5. Types(pc, nNow, local_result, m_result)'
  <2>1. /\ \A d \in Controller : pc'[d] = "idle" /\ d # NoOne
        /\ \A w \in Worker : pc'[w] \in {"lock", "wait", "woken", "work", "exit"}
        /\ \A u \in Thread : pc'[u] = "exit" => stop # "no"
    BY <1>1, <1>2, <1>3, CheckQueueAssumption DEF Types, Thread
  <2> QED BY <1>1, <1>2, <2>1 DEF Types
<1>6. Counts(nIdle, nTotal, nTodo, pc, nNow)'
  <2>1. /\ Slots(pc', nNow) = Slots(pc, nNow)
        /\ Waiting(pc') = Waiting(pc) /\ Inside(pc', nNow) = Inside(pc, nNow)
    BY <1>4, SameCounts, SMTT(40)
  <2>2. /\ Slots(pc, nNow)' = Slots(pc, nNow)
        /\ Waiting(pc)' = Waiting(pc) /\ Inside(pc, nNow)' = Inside(pc, nNow)
    BY <1>2, <2>1 DEF Slots, HeldOf, Waiting, Inside, InsideOf
  <2> QED BY <1>1, <1>2, <1>3, <2>2 DEF Counts
<1>7. Checks(pc, nNow)'
  BY <1>1, <1>2 DEF Checks
<1>8. Verdicts(m_result, pc, nNow, local_result)'
  <2>1. \A d \in Controller : pc'[d] # "returned"
    BY <1>1, <1>2, <1>3 DEF Types, Thread
  <2>2. \A u \in Thread :
           /\ pc'[u] = "work" \/ (pc'[u] = "lock" /\ nNow[u] # 0) => do_work[u] \/ m_result # NullOpt
           /\ pc'[u] = "lock" /\ nNow[u] # 0 /\ do_work[u] => local_result[u] \in {NullOpt, round}
    BY <1>1, <1>2 DEF Verdicts
  <2> QED BY <1>1, <1>2, <1>3, <2>1, <2>2 DEF Verdicts
<1> QED BY <1>5, <1>6, <1>7, <1>8 DEF IInv, J

\* The destructor sets the flag.
LEMMA StopStep ==
    ASSUME IInv, RequestStop
    PROVE  IInv'
<1>1. /\ Types(pc, nNow, local_result, m_result) /\ Counts(nIdle, nTotal, nTodo, pc, nNow)
      /\ Checks(pc, nNow) /\ Verdicts(m_result, pc, nNow, local_result)
  BY DEF IInv, J
<1>2. /\ UNCHANGED <<queue, nIdle, nTotal, nTodo, m_result, control, pc, vChecks, nNow,
                     local_result, do_work, round, added, verdict>>
      /\ stop' = "flag" /\ control = NoOne
  BY DEF RequestStop, shared, locals, history
<1>3. Types(pc, nNow, local_result, m_result)'
  BY <1>1, <1>2 DEF Types
<1>4. Counts(nIdle, nTotal, nTodo, pc, nNow)'
  BY <1>1, <1>2 DEF Counts, Slots, HeldOf, Waiting, Inside, InsideOf, Active
<1>5. Checks(pc, nNow)'
  BY <1>1, <1>2 DEF Checks
<1>6. Verdicts(m_result, pc, nNow, local_result)'
  BY <1>1, <1>2 DEF Verdicts, Active, FailureFound, Failing
<1> QED BY <1>3, <1>4, <1>5, <1>6 DEF IInv, J

-----------------------------------------------------------------------------
(* The theorems                                                            *)

\* All threads are outside of Loop, and there is no round.
LEMMA InitIInv ==
    ASSUME SetFacts
    PROVE  Init => IInv
<1> SUFFICES ASSUME Init PROVE IInv
  OBVIOUS
<1>1. /\ \A t \in Thread : /\ pc[t] = IF t \in Worker THEN "lock" ELSE "idle"
                           /\ nNow[t] = 0 /\ vChecks[t] = <<>>
      /\ control = NoOne /\ queue = <<>>
  BY DEF Init
<1>2. Types(pc, nNow, local_result, m_result)
  BY CheckQueueAssumption, SMTT(40) DEF Init, Types, Thread, PC, Result, NothingAdded
<1>3. Slots(pc, nNow) = {} /\ Waiting(pc) = {} /\ Inside(pc, nNow) = {}
  <2>1. \A t \in Thread : HeldOf(pc, nNow, t) = 0 /\ ~InsideOf(pc, nNow, t) /\ pc[t] \notin {"wait", "woken"}
    BY <1>1 DEF HeldOf, InsideOf
  <2>2. \A slot \in Thread \X (1..MaxChecks) : slot[1] \in Thread /\ slot[2] \in 1..MaxChecks
    OBVIOUS
  <2>3. Slots(pc, nNow) = {}
    BY <2>1, <2>2, CheckQueueAssumption, SMTT(40) DEF Slots
  <2> QED BY <2>1, <2>3 DEF Waiting, Inside
<1>4. Counts(nIdle, nTotal, nTodo, pc, nNow)
  <2>1. Len(queue) = 0 /\ Cardinality({}) = 0 /\ added.n = 0
    BY <1>1 DEF Init, NothingAdded, SetFacts, FiniteEmpty
  <2>2. nTodo = 0 /\ nIdle = 0 /\ nTotal = 0
    BY DEF Init
  <2>3. /\ nTodo = Len(queue) + Cardinality(Slots(pc, nNow)) /\ nTodo <= added.n
        /\ nIdle = Cardinality(Waiting(pc)) /\ nTotal = Cardinality(Inside(pc, nNow))
    BY <1>3, <2>1, <2>2, SMTT(40)
  <2> QED BY <2>2, <2>3 DEF Counts
<1>5. Checks(pc, nNow)
  BY <1>1, SMTT(40) DEF Checks
<1>6. Verdicts(m_result, pc, nNow, local_result)
  BY <1>1 DEF Init, Verdicts, Active, Thread
<1> QED BY <1>2, <1>4, <1>5, <1>6 DEF IInv, J

\* Every step keeps the invariant.
LEMMA NextIInv ==
    ASSUME SetFacts
    PROVE  IInv /\ [Next]_vars => IInv'
<1> SUFFICES ASSUME IInv, [Next]_vars PROVE IInv'
  OBVIOUS
<1>1. ASSUME NEW t \in Thread, Step(t) PROVE IInv'
  BY <1>1, EnterStep, CleanUpStep, RelockStep, ExecuteStep DEF Step
<1>2. ASSUME NEW t \in Thread, SpuriousWakeup(t) PROVE IInv'
  BY <1>2, NotifyStep
<1>3. ASSUME NEW c \in Controller, Construct(c) \/ Complete(c) \/ Destruct(c) PROVE IInv'
  BY <1>3, ConstructStep, CompleteStep, DestructStep
<1>4. ASSUME NEW c \in Controller, Notify(c) PROVE IInv'
  BY <1>4, NotifyStep
<1>5. ASSUME NEW c \in Controller, NEW checks \in Batches, Add(c, checks) PROVE IInv'
  BY <1>5, AddStep
<1>6. ASSUME RequestStop \/ NotifyStop PROVE IInv'
  BY <1>6, StopStep, NotifyStep
<1>7. ASSUME UNCHANGED vars PROVE IInv'
  <2>1. J(nIdle', nTotal', nTodo', m_result', pc', nNow', local_result')
    BY <1>7 DEF vars, shared, locals, IInv
  <2> QED BY <1>7, <2>1, Frame DEF vars, shared, locals, history
<1> QED BY <1>1, <1>2, <1>3, <1>4, <1>5, <1>6, <1>7 DEF Next, Joined

-----------------------------------------------------------------------------
(* The theorems                                                            *)

INSTANCE FiniteSetTheorems

\* The libraries have what is used of them.
LEMMA SetFactsHold == SetFacts
<1>1. LeastNumbers
  <2> DEFINE Less == OpToRel(<, Nat)
  <2>1. \A x, y \in Nat : <<y, x>> \in Less <=> y < x
    BY DEF OpToRel
  <2>2. IsWellFoundedOn(Less, Nat)
    BY NatLessThanWellFounded
  <2> HIDE DEF Less
  <2>3. ASSUME NEW S \in SUBSET Nat, S # {} PROVE \E x \in S : \A y \in S : x <= y
    <3>1. PICK x \in S : \A y \in S : ~ (<<y, x>> \in Less)
      BY <2>2, <2>3, WFMin
    <3>2. ASSUME NEW y \in S PROVE x <= y
      <4>1. x \in Nat /\ y \in Nat /\ ~ (y < x)
        BY <2>1, <3>1
      <4> QED BY <4>1, SMTT(40)
    <3> QED BY <3>2
  <2> QED BY <2>3 DEF LeastNumbers
<1>2. FiniteSubsets
  BY FS_CardinalityType, FS_Subset DEF FiniteSubsets
<1>3. FiniteEmpty /\ FiniteSingletons
  BY FS_EmptySet, FS_Singleton DEF FiniteEmpty, FiniteSingletons
<1>4. FiniteAdd /\ FiniteRemove
  BY FS_AddElement, FS_RemoveElement DEF FiniteAdd, FiniteRemove
<1>5. FiniteUnions /\ FiniteUNION
  BY FS_Union, FS_UNION DEF FiniteUnions, FiniteUNION
<1>6. FiniteProducts /\ FiniteIntervals
  BY FS_Product, FS_Interval DEF FiniteProducts, FiniteIntervals
<1>7. FiniteImages
  <2> SUFFICES ASSUME NEW S, NEW T, NEW f \in [S -> T], IsFiniteSet(S),
                      \A y \in T : \E x \in S : f[x] = y
               PROVE  /\ IsFiniteSet(T)
                      /\ (\A x, y \in S : f[x] = f[y] => x = y) => Cardinality(T) = Cardinality(S)
    BY DEF FiniteImages
  <2>1. f \in Surjection(S, T)
    BY DEF Surjection
  <2>2. (\A x, y \in S : f[x] = f[y] => x = y) => f \in Injection(S, T)
    BY DEF Injection, IsInjective
  <2> QED BY <2>1, <2>2, FS_Surjection
<1> QED BY <1>1, <1>2, <1>3, <1>4, <1>5, <1>6, <1>7 DEF SetFacts

\* The invariant always holds.
LEMMA AlwaysIInv == Spec => []IInv
BY InitIInv, NextIInv, SetFactsHold, PTL DEF Spec

\* nTodo, nIdle and nTotal count what they should, and stay in their ranges, for any
\* number of threads and checks.
THEOREM CountersAreExact == Spec => []Accounting
<1>1. IInv => Accounting
  <2> SUFFICES ASSUME IInv PROVE Accounting
    OBVIOUS
  <2>1. /\ Types(pc, nNow, local_result, m_result) /\ Counts(nIdle, nTotal, nTodo, pc, nNow)
    BY DEF IInv, J
  <2>2. HeldChecks = Slots(pc, nNow)
    BY DEF HeldChecks, Held, Slots, HeldOf
  <2>3. stop = "no" => Inside(pc, nNow) = {t \in Thread : InLoop(t)}
    BY <2>1 DEF Inside, InsideOf, InLoop, Types
  <2>4. IsFiniteSet(Thread)
    BY CheckQueueAssumption, SetFactsHold DEF Thread, SetFacts, FiniteUnions
  <2>5. /\ Cardinality(Waiting(pc)) \in 0..Cardinality(Thread)
        /\ Cardinality(Inside(pc, nNow)) \in 0..Cardinality(Thread)
    <3>1. Waiting(pc) \subseteq Thread /\ Inside(pc, nNow) \subseteq Thread
      BY DEF Waiting, Inside
    <3>2. /\ IsFiniteSet(Waiting(pc)) /\ Cardinality(Waiting(pc)) <= Cardinality(Thread)
          /\ IsFiniteSet(Inside(pc, nNow)) /\ Cardinality(Inside(pc, nNow)) <= Cardinality(Thread)
      BY <2>4, <3>1, SetFactsHold DEF SetFacts, FiniteSubsets
    <3> QED BY <2>4, <3>2, SetFactsHold, SMTT(40) DEF SetFacts, FiniteSubsets
  <2>6. nTodo \in 0..MaxChecks
    <3>1. /\ Len(queue) \in Nat /\ Cardinality(Slots(pc, nNow)) \in Nat /\ added.n \in 0..MaxChecks
          /\ nTodo = Len(queue) + Cardinality(Slots(pc, nNow)) /\ nTodo <= added.n
      BY <2>1, IInvTypes, SetFactsHold, SMTT(40) DEF Counts
    <3> QED BY <3>1, CheckQueueAssumption, SMTT(40)
  <2>7. TypeOK
    BY <2>1, <2>5, <2>6 DEF TypeOK, Types, Counts
  <2> QED BY <2>1, <2>2, <2>3, <2>7 DEF Accounting, Counts, Waiting
<1> QED BY <1>1, AlwaysIInv, SetFactsHold, PTL

\* When Complete has returned, no thread has or can get a check of the round.
THEOREM ChecksDieWithTheirRound == Spec => []NoCheckOutlivesRound
<1>1. IInv => NoCheckOutlivesRound
  <2> SUFFICES ASSUME IInv PROVE NoCheckOutlivesRound
    OBVIOUS
  <2>1. /\ Types(pc, nNow, local_result, m_result) /\ Counts(nIdle, nTotal, nTodo, pc, nNow)
        /\ Checks(pc, nNow)
    BY DEF IInv, J
  <2>2. /\ Len(queue) \in Nat /\ Cardinality(Slots(pc, nNow)) \in Nat
        /\ nTodo = Len(queue) + Cardinality(Slots(pc, nNow))
    BY <2>1, IInvTypes, SetFactsHold, SMTT(40) DEF Counts
  <2>3. ASSUME NEW i \in 1..Len(queue)
        PROVE  queue[i].round = round /\ Active(pc)
    <3>1. nTodo # 0
      BY <2>2, SMTT(40)
    <3> QED BY <2>1, <3>1 DEF Checks, Counts
  <2>4. ASSUME NEW t \in Thread, NEW i \in 1..Len(vChecks[t])
        PROVE  vChecks[t][i].round = round /\ Active(pc)
    <3>1. vChecks[t] # <<>>
      BY SMTT(40)
    <3>2. pc[t] = "work" /\ nNow[t] # 0 /\ vChecks[t][i].round = round
      BY <2>1, <3>1 DEF Checks
    <3>3. nNow[t] \in Nat /\ nNow[t] <= Cardinality(Slots(pc, nNow))
      BY <3>2, IInvTypes, SetFactsHold DEF HeldOf
    <3>4. nTodo # 0
      BY <2>2, <3>2, <3>3, SMTT(40)
    <3> QED BY <2>1, <3>2, <3>4 DEF Counts
  <2> QED BY <2>3, <2>4 DEF NoCheckOutlivesRound, Active
<1> QED BY <1>1, AlwaysIInv, SetFactsHold, PTL

\* Complete tells of a failure exactly when a check of its round fails.
THEOREM VerdictIsExact == Spec => []VerdictExact
<1>1. IInv => VerdictExact
  BY DEF IInv, J, Verdicts, VerdictExact
<1> QED BY <1>1, AlwaysIInv, SetFactsHold, PTL
=============================================================================
