----------------------------- MODULE CheckQueue -----------------------------
(***************************************************************************)
(* CCheckQueue and CCheckQueueControl (checkqueue.h): the thread pool that *)
(* runs the script checks of a block.  A controller takes m_control_mutex, *)
(* adds batches of checks, and joins the workers in Loop until all checks  *)
(* of its round are done.                                                  *)
(*                                                                         *)
(* Everything shared is guarded by m_mutex, so a critical section is one   *)
(* action; running checks and notifying after the unlock are actions of    *)
(* their own.  Condition variables may wake up spuriously.                 *)
(***************************************************************************)
EXTENDS Naturals, FiniteSets, Sequences

CONSTANTS
    Worker,     \* the worker threads
    Controller, \* threads that create a CCheckQueueControl
    NoOne,      \* m_control_mutex is free
    NullOpt,    \* std::nullopt
    nBatchSize,
    MaxAdd,     \* bound: checks per call of Add
    MaxChecks,  \* bound: checks added in one round
    MaxRound    \* bound: rounds

ASSUME CheckQueueAssumption ==
    /\ IsFiniteSet(Worker) /\ IsFiniteSet(Controller)
    /\ Worker \cap Controller = {}
    /\ NoOne \notin Controller
    /\ NullOpt \notin Nat
    /\ nBatchSize \in Nat \ {0}
    /\ MaxAdd \in Nat /\ MaxChecks \in Nat /\ MaxRound \in Nat

Thread == Worker \cup Controller

\* A check belongs to a round and fails or not; its error is the round number.
Check == [round : 1..MaxRound, bad : BOOLEAN]

Result == {NullOpt} \cup 1..MaxRound

VARIABLES
    queue, nIdle, nTotal, nTodo, m_result,  \* the members guarded by m_mutex
    stop,           \* ~CCheckQueue: "no", "flag" m_request_stop is set, "join"
    control,        \* who holds m_control_mutex
    pc,             \* where each thread is
    vChecks, nNow, local_result, do_work,   \* the locals of Loop
    round,          \* number of the current or last round
    added,          \* how many checks were added in it, and whether one fails
    verdict         \* what its Complete returned

shared == <<queue, nIdle, nTotal, nTodo, m_result>>
locals == <<vChecks, nNow, local_result, do_work>>
history == <<round, added, verdict>>
vars == <<shared, stop, control, pc, locals, history>>

\* Loop: "lock" before a critical section, "wait" in the condition variable,
\* "woken" before it has the mutex back, "work" while running checks.
\* Controllers: "idle", "adding", "notify_..." after Add's unlock, "returned".
PC == {"lock", "wait", "woken", "work", "exit",
       "idle", "adding", "notify_one", "notify_all", "returned"}

NothingAdded == [n |-> 0, bad |-> FALSE]

m_request_stop == stop # "no"

Init ==
    /\ queue = <<>> /\ nIdle = 0 /\ nTotal = 0 /\ nTodo = 0 /\ m_result = NullOpt
    /\ stop = "no"
    /\ control = NoOne
    /\ pc = [t \in Thread |-> IF t \in Worker THEN "lock" ELSE "idle"]
    /\ vChecks = [t \in Thread |-> <<>>]
    /\ nNow = [t \in Thread |-> 0]
    /\ local_result = [t \in Thread |-> NullOpt]
    /\ do_work = [t \in Thread |-> FALSE]
    /\ round = 0 /\ added = NothingAdded /\ verdict = NullOpt

-----------------------------------------------------------------------------
(* The locked part of Loop.                                                *)

\* The program counters after notify_one on the condition variable of ts.
NotifyOne(ts, pcs) ==
    LET waiting == {t \in ts : pcs[t] = "wait"}
    IN  IF waiting = {} THEN {pcs} ELSE {[pcs EXCEPT ![t] = "woken"] : t \in waiting}

NotifyAll(ts, pcs) ==
    [t \in Thread |-> IF t \in ts /\ pcs[t] = "wait" THEN "woken" ELSE pcs[t]]

BatchSize(size, total, idle) ==
    LET share == size \div (total + idle + 1)
        capped == IF share < nBatchSize THEN share ELSE nBatchSize
    IN  IF capped < 1 THEN 1 ELSE capped

\* Mutant: the master leaves as soon as the queue is empty.
RoundDoneQueueEmpty(t, todo) == t \in Controller

RoundDone(t, todo) == t \in Controller /\ todo = 0

\* Mutant: the moved-from optional is not reset, and still has its value.
ResultKept(result) == result

ResultReset(result) == NullOpt

\* From the while loop to the end of the critical section, with the counters,
\* the result and the program counters as the code before it left them.
WhileLoop(t, total, idle, todo, result, pcs) ==
    \/ \* the master's round is complete
       /\ queue = <<>> /\ ~m_request_stop /\ RoundDone(t, todo)
       /\ nTotal' = total - 1 /\ nIdle' = idle /\ nTodo' = todo
       /\ verdict' = result
       /\ m_result' = ResultReset(result)
       /\ pc' = [pcs EXCEPT ![t] = "returned"]
       /\ UNCHANGED <<queue, vChecks, nNow, do_work>>
    \/ /\ queue = <<>> /\ ~m_request_stop /\ ~RoundDone(t, todo)
       /\ nTotal' = total /\ nIdle' = idle + 1 /\ nTodo' = todo /\ m_result' = result
       /\ pc' = [pcs EXCEPT ![t] = "wait"]
       /\ UNCHANGED <<queue, vChecks, nNow, do_work, verdict>>
    \/ /\ m_request_stop
       /\ nTotal' = total /\ nIdle' = idle /\ nTodo' = todo /\ m_result' = result
       /\ pc' = [pcs EXCEPT ![t] = "exit"]
       /\ UNCHANGED <<queue, vChecks, nNow, do_work, verdict>>
    \/ /\ queue # <<>> /\ ~m_request_stop
       /\ nTotal' = total /\ nIdle' = idle /\ nTodo' = todo /\ m_result' = result
       /\ LET n == BatchSize(Len(queue), total, idle)
              start == Len(queue) - n
          IN  /\ nNow' = [nNow EXCEPT ![t] = n]
              /\ vChecks' = [vChecks EXCEPT ![t] = SubSeq(queue, start + 1, Len(queue))]
              /\ queue' = SubSeq(queue, 1, start)
       /\ do_work' = [do_work EXCEPT ![t] = result = NullOpt]
       /\ pc' = [pcs EXCEPT ![t] = "work"]
       /\ UNCHANGED verdict

\* The first critical section of Loop.
EnterLoop(t) ==
    /\ pc[t] = "lock" /\ nNow[t] = 0
    /\ WhileLoop(t, nTotal + 1, nIdle, nTodo, m_result, pc)
    /\ UNCHANGED <<stop, control, local_result, round, added>>

\* Mutant: the worker that finishes the last check does not tell the master.
MasterToldNever(t, todo, pcs) == {pcs}

MasterTold(t, todo, pcs) ==
    IF todo = 0 /\ t \in Worker THEN NotifyOne(Controller, pcs) ELSE {pcs}

\* A later critical section: account for the batch just run first.
CleanUp(t) ==
    /\ pc[t] = "lock" /\ nNow[t] # 0
    /\ LET swap == local_result[t] # NullOpt /\ m_result = NullOpt
           todo == nTodo - nNow[t]
       IN  /\ local_result' = IF swap THEN [local_result EXCEPT ![t] = NullOpt] ELSE local_result
           /\ \E pcs \in MasterTold(t, todo, pc) :
                  WhileLoop(t, nTotal, nIdle, todo, IF swap THEN local_result[t] ELSE m_result, pcs)
    /\ UNCHANGED <<stop, control, round, added>>

\* Mutant: a thread that comes back from waiting still counts as idle.
RelockStillIdle(t) ==
    /\ pc[t] = "woken"
    /\ WhileLoop(t, nTotal, nIdle, nTodo, m_result, pc)
    /\ UNCHANGED <<stop, control, local_result, round, added>>

\* cond.wait returns with the mutex.
Relock(t) ==
    /\ pc[t] = "woken"
    /\ WhileLoop(t, nTotal, nIdle - 1, nTodo, m_result, pc)
    /\ UNCHANGED <<stop, control, local_result, round, added>>

SpuriousWakeup(t) ==
    /\ pc[t] = "wait"
    /\ pc' = [pc EXCEPT ![t] = "woken"]
    /\ UNCHANGED <<shared, stop, control, locals, history>>

\* Run the batch outside the lock, up to the first failure.
Execute(t) ==
    /\ pc[t] = "work"
    /\ LET Bad == {i \in 1 .. Len(vChecks[t]) : vChecks[t][i].bad}
           first == CHOOSE i \in Bad : \A j \in Bad : i <= j
       IN  local_result' =
               IF do_work[t]
               THEN [local_result EXCEPT ![t] = IF Bad = {} THEN NullOpt ELSE vChecks[t][first].round]
               ELSE local_result
    /\ vChecks' = [vChecks EXCEPT ![t] = <<>>]
    /\ pc' = [pc EXCEPT ![t] = "lock"]
    /\ UNCHANGED <<shared, stop, control, nNow, do_work, history>>

-----------------------------------------------------------------------------
(* Controllers and the destructor.                                         *)

\* CCheckQueueControl's constructor takes m_control_mutex.
Construct(c) ==
    /\ pc[c] = "idle" /\ ~m_request_stop
    /\ control = NoOne
    /\ round < MaxRound
    /\ control' = c
    /\ pc' = [pc EXCEPT ![c] = "adding"]
    /\ round' = round + 1 /\ added' = NothingAdded
    /\ UNCHANGED <<shared, stop, locals, verdict>>

\* Add returns at once when there are no checks: only non-empty batches here.
Add(c, checks) ==
    /\ pc[c] = "adding"
    /\ added.n + Len(checks) <= MaxChecks
    /\ queue' = queue \o checks
    /\ nTodo' = nTodo + Len(checks)
    /\ pc' = [pc EXCEPT ![c] = IF Len(checks) = 1 THEN "notify_one" ELSE "notify_all"]
    /\ added' = [n |-> added.n + Len(checks), bad |-> added.bad \/ \E i \in DOMAIN checks : checks[i].bad]
    /\ UNCHANGED <<nIdle, nTotal, m_result, stop, control, locals, round, verdict>>

\* Add's notification, after the unlock.
Notify(c) ==
    /\ \/ pc[c] = "notify_one" /\ pc' \in NotifyOne(Worker, [pc EXCEPT ![c] = "adding"])
       \/ pc[c] = "notify_all" /\ pc' = NotifyAll(Worker, [pc EXCEPT ![c] = "adding"])
    /\ UNCHANGED <<shared, stop, control, locals, history>>

\* Complete, called or run by the destructor of the control: Loop(true).
Complete(c) ==
    /\ pc[c] = "adding"
    /\ pc' = [pc EXCEPT ![c] = "lock"]
    /\ nNow' = [nNow EXCEPT ![c] = 0]
    /\ local_result' = [local_result EXCEPT ![c] = NullOpt]
    /\ UNCHANGED <<shared, stop, control, vChecks, do_work, history>>

\* The control goes out of scope and releases m_control_mutex.
Destruct(c) ==
    /\ pc[c] = "returned"
    /\ pc' = [pc EXCEPT ![c] = "idle"]
    /\ control' = NoOne
    /\ UNCHANGED <<shared, stop, locals, history>>

\* ~CCheckQueue, when no control is left: the flag, then the notification.
RequestStop ==
    /\ stop = "no" /\ control = NoOne
    /\ stop' = "flag"
    /\ UNCHANGED <<shared, control, pc, locals, history>>

NotifyStop ==
    /\ stop = "flag"
    /\ stop' = "join"
    /\ pc' = NotifyAll(Worker, pc)
    /\ UNCHANGED <<shared, control, locals, history>>

Joined ==
    /\ stop = "join" /\ \A w \in Worker : pc[w] = "exit"
    /\ UNCHANGED vars

Batches == UNION {[1..n -> {[round |-> round, bad |-> b] : b \in BOOLEAN}] : n \in 1..MaxAdd}

Step(t) == EnterLoop(t) \/ CleanUp(t) \/ Relock(t) \/ Execute(t)

Next ==
    \/ \E t \in Thread : Step(t) \/ SpuriousWakeup(t)
    \/ \E c \in Controller :
        \/ Construct(c) \/ Notify(c) \/ Complete(c) \/ Destruct(c)
        \/ \E checks \in Batches : Add(c, checks)
    \/ RequestStop
    \/ NotifyStop
    \/ Joined

\* Every thread that can run does, and gets m_mutex eventually; a controller
\* that holds m_control_mutex goes on to Complete and releases it.  Nothing is
\* assumed about spurious wakeups, and nobody has to start a round or a stop.
Fairness ==
    /\ \A t \in Thread : WF_vars(Step(t))
    /\ \A c \in Controller : WF_vars(Notify(c)) /\ WF_vars(Complete(c)) /\ WF_vars(Destruct(c))
    /\ WF_vars(NotifyStop)

Spec == Init /\ [][Next]_vars /\ Fairness

-----------------------------------------------------------------------------
(* Properties.                                                             *)

\* Types, and the ranges that keep the unsigned counters from wrapping.
TypeOK ==
    /\ queue \in Seq(Check) /\ added \in [n : 0..MaxChecks, bad : BOOLEAN]
    /\ nTodo \in 0..MaxChecks
    /\ nTotal \in 0..Cardinality(Thread) /\ nIdle \in 0..Cardinality(Thread)
    /\ m_result \in Result /\ verdict \in Result
    /\ stop \in {"no", "flag", "join"}
    /\ control \in Controller \cup {NoOne}
    /\ pc \in [Thread -> PC]
    /\ \A t \in Thread : vChecks[t] \in Seq(Check)
    /\ nNow \in [Thread -> 0..MaxChecks]
    /\ local_result \in [Thread -> Result]
    /\ do_work \in [Thread -> BOOLEAN]
    /\ round \in 0..MaxRound

InLoop(t) == pc[t] \in {"wait", "woken", "work"} \/ (pc[t] = "lock" /\ nNow[t] # 0)

\* A thread holds a batch from taking it until its clean-up.
Held(t) == IF pc[t] = "work" \/ pc[t] = "lock" THEN nNow[t] ELSE 0

\* The checks in the threads' batches
HeldChecks == {slot \in Thread \X (1..MaxChecks) : slot[2] <= Held(slot[1])}

\* nTodo is the number of checks queued or in some thread's batch, nIdle the
\* number of threads waiting, nTotal the number of threads in Loop (until the
\* destructor runs): the counters on which termination and batch sizes rest.
Accounting ==
    /\ TypeOK
    /\ nTodo = Len(queue) + Cardinality(HeldChecks)
    /\ nIdle = Cardinality({t \in Thread : pc[t] \in {"wait", "woken"}})
    /\ stop = "no" => nTotal = Cardinality({t \in Thread : InLoop(t)})

\* A check that is queued or about to run belongs to the round whose control
\* still exists: when Complete has returned, no thread touches the block's
\* transaction data (txsdata in ConnectBlock) any more.
NoCheckOutlivesRound ==
    LET live(s) == \A i \in 1..Len(s) :
            /\ s[i].round = round
            /\ control # NoOne /\ pc[control] # "returned"
    IN  live(queue) /\ \A t \in Thread : live(vChecks[t])

\* Complete returns an error exactly when a check added in this round fails,
\* and then an error of this round: no failure is lost between threads, none
\* leaks in from an earlier round through m_result or a thread's local_result.
VerdictExact ==
    \A c \in Controller : pc[c] = "returned" =>
        verdict = IF added.bad THEN round ELSE NullOpt

\* A controller always gets its answer: no wakeup is lost between Add's
\* unlocked notification, the workers' waits and the notification of the master.
\* The destructor's join returns: every worker sees m_request_stop and leaves.
EveryWaitEnds ==
    /\ \A c \in Controller : pc[c] = "adding" ~> pc[c] = "idle"
    /\ stop = "flag" ~> \A w \in Worker : pc[w] = "exit"
=============================================================================
