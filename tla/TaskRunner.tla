----------------------------- MODULE TaskRunner -----------------------------
(***************************************************************************)
(* SerialTaskRunner on top of CScheduler (scheduler.h, scheduler.cpp), as  *)
(* ValidationSignals uses it (validationinterface.cpp): threads insert     *)
(* callbacks, any number of threads service the scheduler, and one thread  *)
(* stops the scheduler and flushes what is left, as at shutdown.  A thread *)
(* that produces events first calls LimitValidationInterfaceQueue          *)
(* (validation.cpp), which waits for the queue to drain when it is long.   *)
(*                                                                         *)
(* Each critical section of newTaskMutex and of m_callbacks_mutex is one   *)
(* action.  Condition variables may wake up spuriously.                    *)
(***************************************************************************)
EXTENDS Naturals, FiniteSets, Sequences

CONSTANTS
    Worker,     \* threads running CScheduler::serviceQueue
    Producer,   \* threads that emit validation events
    Main,       \* the thread that stops the scheduler and flushes the queue
    NoTask,     \* no callback
    Reenter,    \* whether a callback may call LimitValidationInterfaceQueue
    Limit,      \* LimitValidationInterfaceQueue waits above this many callbacks
    MaxBurst,   \* bound: events emitted between two calls of it
    MaxTask,    \* bound: events emitted in all
    MaxClock    \* bound: the time, and the time of the one timer

Thread == Worker \cup Producer \cup {Main}

\* A callback: an event for the listeners, or the function that fulfils the
\* promise "by" waits for.
Callback == [kind : {"event", "promise"}, by : Thread]

ASSUME TaskRunnerAssumption ==
    /\ Worker # {} /\ IsFiniteSet(Producer) /\ Worker \cap Producer = {} /\ Main \notin Worker \cup Producer
    /\ Reenter \in BOOLEAN
    /\ \A cb \in Callback : cb # NoTask
    /\ Limit \in Nat /\ MaxBurst \in Nat \ {0} /\ MaxTask \in Nat /\ MaxClock \in Nat

\* An entry of the scheduler's queue: ProcessQueue, or some other function.
Function == [time : 0..MaxClock, f : {"ProcessQueue", "timer"}]

VARIABLES
    clock,                  \* steady_clock::now()
    taskQueue,              \* CScheduler's multimap, in its order
    stopRequested, stopWhenEmpty,
    m_callbacks_pending, m_are_callbacks_running,
    pc,                     \* where each thread is
    timeToWaitFor,          \* the local of serviceQueue
    callback,               \* the callback each thread is running
    awaiting,               \* threads whose promise has not been fulfilled
    burst,                  \* events a producer still emits before the next call
    emitted                 \* events emitted so far

scheduler == <<clock, taskQueue, stopRequested, stopWhenEmpty>>
runner == <<m_callbacks_pending, m_are_callbacks_running>>
client == <<awaiting, burst, emitted>>
vars == <<scheduler, runner, pc, timeToWaitFor, callback, client>>

\* serviceQueue: "lock" before a decision under the lock, "wait" and "wait_until"
\* in the condition variable, "woken" from wait_until and without the lock,
\* "timer" in a function that is not ProcessQueue, "exit".
\* The task runner: "ProcessQueue" at its start, "callback", "raii" at the
\* destructor, "maybe" MaybeScheduleProcessQueue, "schedule" and "notify" the
\* two halves of schedule.
\* Clients: "idle", "burst", "promise" in promise.get_future().wait().
\* Main: "up", "notify_all", "join", "flush" at the condition of its loop, "down".
PC == {"lock", "wait", "wait_until", "woken", "timer", "exit",
       "ProcessQueue", "callback", "raii", "maybe", "schedule", "notify",
       "idle", "burst", "promise", "up", "notify_all", "join", "flush", "down"}

Init ==
    /\ clock = 0
    /\ taskQueue \in {<<>>, <<[time |-> MaxClock, f |-> "timer"]>>}
    /\ stopRequested = FALSE /\ stopWhenEmpty = FALSE
    /\ m_callbacks_pending = <<>> /\ m_are_callbacks_running = FALSE
    /\ pc = [t \in Thread |-> IF t \in Worker THEN "lock"
                              ELSE IF t \in Producer THEN "idle" ELSE "up"]
    /\ timeToWaitFor = [w \in Worker |-> 0]
    /\ callback = [t \in Worker \cup {Main} |-> NoTask]
    /\ awaiting = {} /\ burst = [p \in Producer |-> 0] /\ emitted = 0

Goto(t, label) == pc' = [pc EXCEPT ![t] = label]

-----------------------------------------------------------------------------
(* CScheduler                                                              *)

shouldStop == stopRequested \/ (stopWhenEmpty /\ taskQueue = <<>>)

Waiting == {w \in Worker : pc[w] \in {"wait", "wait_until"}}

Woken(w) == IF pc[w] = "wait" THEN "lock" ELSE "woken"

NotifyOne(pcs) ==
    IF Waiting = {} THEN {pcs} ELSE {[pcs EXCEPT ![w] = Woken(w)] : w \in Waiting}

\* wait_until returns cv_status::timeout when the time has come, however it
\* was woken.
TimedOut(w) == pc[w] = "woken" /\ timeToWaitFor[w] <= clock

\* Under the lock, at the head of any of the three loops of serviceQueue: they
\* all decide the same way.
serviceQueue(w) ==
    /\ pc[w] = "lock" \/ (pc[w] = "woken" /\ ~TimedOut(w))
    /\ \/ /\ shouldStop
          /\ pc' \in NotifyOne([pc EXCEPT ![w] = "exit"])
          /\ UNCHANGED timeToWaitFor
       \/ /\ ~shouldStop /\ taskQueue = <<>>
          /\ Goto(w, "wait")
          /\ UNCHANGED timeToWaitFor
       \/ /\ ~shouldStop /\ taskQueue # <<>>
          /\ Goto(w, "wait_until")
          /\ timeToWaitFor' = [timeToWaitFor EXCEPT ![w] = Head(taskQueue).time]
    /\ UNCHANGED <<scheduler, runner, callback, client>>

SpuriousWakeup(w) ==
    /\ w \in Waiting
    /\ Goto(w, Woken(w))
    /\ UNCHANGED <<scheduler, runner, timeToWaitFor, callback, client>>

Timeout(w) ==
    /\ pc[w] = "wait_until" /\ timeToWaitFor[w] <= clock
    /\ Goto(w, "woken")
    /\ UNCHANGED <<scheduler, runner, timeToWaitFor, callback, client>>

\* The lock is back after the timeout: the first function is taken, whichever
\* it is by now.
TakeTask(w) ==
    /\ TimedOut(w)
    /\ \/ /\ shouldStop \/ taskQueue = <<>>
          /\ Goto(w, "lock")
          /\ UNCHANGED taskQueue
       \/ /\ ~shouldStop /\ taskQueue # <<>>
          /\ Goto(w, Head(taskQueue).f)
          /\ taskQueue' = Tail(taskQueue)
    /\ UNCHANGED <<clock, stopRequested, stopWhenEmpty, runner, timeToWaitFor,
                   callback, client>>

TimerDone(w) ==
    /\ pc[w] = "timer"
    /\ Goto(w, "lock")
    /\ UNCHANGED <<scheduler, runner, timeToWaitFor, callback, client>>

\* multimap::insert: behind the entries that are not later.
InsertByTime(queue, entry) ==
    LET n == Cardinality({i \in DOMAIN queue : queue[i].time <= entry.time})
    IN  SubSeq(queue, 1, n) \o <<entry>> \o SubSeq(queue, n + 1, Len(queue))

Tick ==
    /\ clock < MaxClock
    /\ clock' = clock + 1
    /\ UNCHANGED <<taskQueue, stopRequested, stopWhenEmpty, runner, pc,
                   timeToWaitFor, callback, client>>

-----------------------------------------------------------------------------
(* SerialTaskRunner                                                        *)

\* Where a thread goes on after insert, or after ProcessQueue.
Return(t) ==
    IF t \in awaiting THEN "promise"
    ELSE IF t \in Worker THEN "lock"
    ELSE IF t = Main THEN "flush" ELSE "burst"

Running == {t \in Worker \cup {Main} : callback[t] # NoTask}

\* The part of insert under the lock; MaybeScheduleProcessQueue comes next.
Insert(t, cb) ==
    /\ m_callbacks_pending' = Append(m_callbacks_pending, cb)
    /\ Goto(t, "maybe")

NothingToSchedule == m_are_callbacks_running \/ m_callbacks_pending = <<>>

MaybeScheduleProcessQueue(t) ==
    /\ pc[t] = "maybe"
    /\ Goto(t, IF NothingToSchedule THEN Return(t) ELSE "schedule")
    /\ UNCHANGED <<scheduler, runner, timeToWaitFor, callback, client>>

schedule(t) ==
    /\ pc[t] = "schedule"
    /\ taskQueue' = InsertByTime(taskQueue, [time |-> clock, f |-> "ProcessQueue"])
    /\ Goto(t, "notify")
    /\ UNCHANGED <<clock, stopRequested, stopWhenEmpty, runner, timeToWaitFor,
                   callback, client>>

notify(t) ==
    /\ pc[t] = "notify"
    /\ pc' \in NotifyOne([pc EXCEPT ![t] = Return(t)])
    /\ UNCHANGED <<scheduler, runner, timeToWaitFor, callback, client>>

\* Mutant: a second copy of ProcessQueue runs a callback of its own.
MayProcess_Concurrently == m_callbacks_pending # <<>>

MayProcess == ~m_are_callbacks_running /\ m_callbacks_pending # <<>>

ProcessQueue(t) ==
    /\ pc[t] = "ProcessQueue"
    /\ \/ /\ ~MayProcess
          /\ Goto(t, Return(t))
          /\ UNCHANGED <<runner, callback>>
       \/ /\ MayProcess
          /\ m_are_callbacks_running' = TRUE
          /\ callback' = [callback EXCEPT ![t] = Head(m_callbacks_pending)]
          /\ m_callbacks_pending' = Tail(m_callbacks_pending)
          /\ Goto(t, "callback")
    /\ UNCHANGED <<scheduler, timeToWaitFor, client>>

\* Mutant: nobody waits for the queue.
QueueTooLong_Never == FALSE

QueueTooLong == Len(m_callbacks_pending) > Limit

\* callback() returns.
RunCallback(t) ==
    /\ pc[t] = "callback"
    /\ awaiting' = IF callback[t].kind = "promise" THEN awaiting \ {callback[t].by}
                                                   ELSE awaiting
    /\ Goto(t, "raii")
    /\ UNCHANGED <<scheduler, runner, timeToWaitFor, callback, burst, emitted>>

\* A listener calls ActivateBestChain, and that LimitValidationInterfaceQueue,
\* which has something to wait for.
LimitInCallback(t) ==
    /\ Reenter
    /\ pc[t] = "callback" /\ callback[t].kind = "event" /\ t \notin awaiting
    /\ QueueTooLong
    /\ Insert(t, [kind |-> "promise", by |-> t])
    /\ awaiting' = awaiting \cup {t}
    /\ UNCHANGED <<scheduler, m_are_callbacks_running, timeToWaitFor, callback,
                   burst, emitted>>

\* Mutant: the destructor does not look at the queue again.
AfterCallback_Return(t) == Return(t)

AfterCallback(t) == "maybe"

\* ~RAIICallbacksRunning, up to its call of MaybeScheduleProcessQueue.
CallbackDone(t) ==
    /\ pc[t] = "raii"
    /\ m_are_callbacks_running' = FALSE
    /\ callback' = [callback EXCEPT ![t] = NoTask]
    /\ Goto(t, AfterCallback(t))
    /\ UNCHANGED <<scheduler, m_callbacks_pending, timeToWaitFor, client>>

-----------------------------------------------------------------------------
(* Clients: ValidationSignals and LimitValidationInterfaceQueue            *)

\* LimitValidationInterfaceQueue; SyncWithValidationInterfaceQueue when the
\* queue is too long.  Then the caller emits some events.
LimitQueue(p) ==
    /\ pc[p] = "idle" /\ pc[Main] = "up"
    /\ \E n \in 1..MaxBurst :
           /\ emitted + n <= MaxTask
           /\ burst' = [burst EXCEPT ![p] = n]
           /\ emitted' = emitted + n
    /\ \/ /\ ~QueueTooLong
          /\ Goto(p, "burst")
          /\ UNCHANGED <<m_callbacks_pending, awaiting>>
       \/ /\ QueueTooLong
          /\ Insert(p, [kind |-> "promise", by |-> p])
          /\ awaiting' = awaiting \cup {p}
    /\ UNCHANGED <<scheduler, m_are_callbacks_running, timeToWaitFor, callback>>

\* promise.get_future().wait() returns.
Synced(t) ==
    /\ pc[t] = "promise" /\ t \notin awaiting
    /\ Goto(t, IF t \in Producer THEN "burst" ELSE "raii")
    /\ UNCHANGED <<scheduler, runner, timeToWaitFor, callback, client>>

\* ENQUEUE_AND_LOG_EVENT, or the call of LimitValidationInterfaceQueue is over.
Enqueue(p) ==
    /\ pc[p] = "burst"
    /\ \/ /\ burst[p] > 0
          /\ Insert(p, [kind |-> "event", by |-> p])
          /\ burst' = [burst EXCEPT ![p] = @ - 1]
       \/ /\ burst[p] = 0
          /\ Goto(p, "idle")
          /\ UNCHANGED <<m_callbacks_pending, burst>>
    /\ UNCHANGED <<scheduler, m_are_callbacks_running, timeToWaitFor, callback,
                   awaiting, emitted>>

-----------------------------------------------------------------------------
(* Shutdown                                                                *)

\* stop() or StopWhenDrained(), up to their notify_all; the threads that emit
\* events have ended before.
Stop ==
    /\ pc[Main] = "up"
    /\ \A p \in Producer : pc[p] = "idle"
    /\ \/ stopRequested' = TRUE /\ UNCHANGED stopWhenEmpty
       \/ stopWhenEmpty' = TRUE /\ UNCHANGED stopRequested
    /\ Goto(Main, "notify_all")
    /\ UNCHANGED <<clock, taskQueue, runner, timeToWaitFor, callback, client>>

NotifyAll ==
    /\ pc[Main] = "notify_all"
    /\ pc' = [t \in Thread |-> IF t \in Waiting THEN Woken(t)
                               ELSE IF t = Main THEN "join" ELSE pc[t]]
    /\ UNCHANGED <<scheduler, runner, timeToWaitFor, callback, client>>

\* The service threads are gone.  After stop() the chainstate is flushed to
\* disk, which emits ChainStateFlushed, and flush() runs what is left.
Join ==
    /\ pc[Main] = "join"
    /\ \A w \in Worker : pc[w] = "exit"
    /\ \/ /\ stopWhenEmpty
          /\ Goto(Main, "down")
          /\ UNCHANGED m_callbacks_pending
       \/ /\ stopRequested
          /\ Insert(Main, [kind |-> "event", by |-> Main])
    /\ UNCHANGED <<scheduler, m_are_callbacks_running, timeToWaitFor, callback, client>>

\* Mutant: flush runs a single callback.
FlushIsDone_Once == Len(m_callbacks_pending) < 2

FlushIsDone == m_callbacks_pending = <<>>

\* The loop of flush: its first turn has nothing to do when the queue is empty.
Flush ==
    /\ pc[Main] = "flush"
    /\ Goto(Main, IF FlushIsDone THEN "down" ELSE "ProcessQueue")
    /\ UNCHANGED <<scheduler, runner, timeToWaitFor, callback, client>>

-----------------------------------------------------------------------------

RunnerStep(t) ==
    \/ MaybeScheduleProcessQueue(t) \/ schedule(t) \/ notify(t)
    \/ ProcessQueue(t) \/ Synced(t)
    \/ /\ t \notin Producer
       /\ RunCallback(t) \/ LimitInCallback(t) \/ CallbackDone(t)

WorkerStep(w) ==
    serviceQueue(w) \/ Timeout(w) \/ TakeTask(w) \/ TimerDone(w) \/ RunnerStep(w)

ProducerStep(p) == LimitQueue(p) \/ Enqueue(p) \/ RunnerStep(p)

MainStep == Stop \/ NotifyAll \/ Join \/ Flush \/ RunnerStep(Main)

Next ==
    \/ \E w \in Worker : WorkerStep(w) \/ SpuriousWakeup(w)
    \/ \E p \in Producer : ProducerStep(p)
    \/ MainStep
    \/ Tick

\* Every thread is scheduled and time passes.  Nothing makes a producer emit
\* events, makes a waiting thread wake up without a notification, or makes
\* the program stop.
Fairness ==
    /\ \A w \in Worker : WF_vars(WorkerStep(w))
    /\ \A p \in Producer : WF_vars(Enqueue(p) \/ RunnerStep(p))
    /\ WF_vars(NotifyAll \/ Join \/ Flush \/ RunnerStep(Main))
    /\ WF_vars(Tick)

Spec == Init /\ [][Next]_vars /\ Fairness

-----------------------------------------------------------------------------
(* Properties                                                              *)

\* The members have their types; taskQueue, a multimap, is ordered by time.
TypeOK ==
    /\ clock \in 0..MaxClock
    /\ taskQueue \in Seq(Function)
    /\ \A i, j \in DOMAIN taskQueue : i < j => taskQueue[i].time <= taskQueue[j].time
    /\ stopRequested \in BOOLEAN /\ stopWhenEmpty \in BOOLEAN
    /\ m_callbacks_pending \in Seq(Callback) /\ m_are_callbacks_running \in BOOLEAN
    /\ pc \in [Thread -> PC]
    /\ timeToWaitFor \in [Worker -> 0..MaxClock]
    /\ callback \in [Worker \cup {Main} -> Callback \cup {NoTask}]
    /\ awaiting \subseteq Thread
    /\ burst \in [Producer -> 0..MaxBurst]
    /\ emitted \in 0..MaxTask

\* The callback that TaskQueue sees running.
Current == IF Running = {} THEN NoTask ELSE callback[CHOOSE t \in Running : TRUE]

Abstract ==
    INSTANCE TaskQueue WITH
        Task <- Callback,
        pending <- m_callbacks_pending,
        current <- Current

\* SerialTaskRunner keeps what task_runner.h promises: whatever the scheduler's
\* threads do, the callbacks run one at a time in the order of their insertion.
ImplementsTaskQueue == Abstract!Spec

\* Whichever threads service the scheduler, one callback runs at a time and
\* m_are_callbacks_running says exactly whether one does (proved in
\* TaskRunnerProofs).
RunningFlagExact ==
    /\ m_are_callbacks_running = (Running # {})
    /\ \A t, u \in Running : t = u

\* A callback waits for the queue it is itself holding up: validation.cpp's
\* comment on LimitValidationInterfaceQueue says that this "may lead to a
\* deadlock".
HeldUp == \E t \in Running : t \in awaiting

\* It always does: a callback that waits for the queue never returns.
ReentryNeverReturns ==
    [][\A t \in Running : t \in awaiting => t \in awaiting' /\ callback'[t] = callback[t]]_vars

\* Every inserted callback is run and every caller of
\* SyncWithValidationInterfaceQueue returns, also when the scheduler is
\* stopped before, unless a callback holds up the queue.
QueueDrains ==
    /\ (m_callbacks_pending # <<>>) ~> (m_callbacks_pending = <<>> \/ HeldUp)
    /\ \A p \in Producer : (p \in awaiting) ~> (p \notin awaiting \/ HeldUp)

\* Shutdown completes once it began, unless a callback holds up the queue.  Then
\* every callback was run, no caller waits, and after StopWhenDrained the
\* scheduler's queue is empty, as ~CScheduler asserts.
ShutdownCompletes ==
    (pc[Main] # "up") ~> \/ HeldUp
                         \/ /\ pc[Main] = "down"
                            /\ m_callbacks_pending = <<>> /\ awaiting = {}
                            /\ stopWhenEmpty => taskQueue = <<>>

\* "Make sure the queue of validation callbacks doesn't grow unboundedly":
\* however slow the listeners are, at most one burst of each producer goes
\* beyond the limit.
QueueBounded ==
    /\ TypeOK
    /\ Cardinality({i \in DOMAIN m_callbacks_pending :
                       m_callbacks_pending[i].kind = "event" /\ m_callbacks_pending[i].by \in Producer})
           <= Limit + MaxBurst * Cardinality(Producer)

\* "Call func at/after time t" (scheduler.h): a function whose time has not
\* come is not taken from the queue.  The code does not keep this: see the README.
NeverEarly ==
    [][\A w \in Worker :
           (pc[w] = "woken" /\ pc'[w] \in {"timer", "ProcessQueue"})
               => Head(taskQueue).time <= clock]_vars
=============================================================================
