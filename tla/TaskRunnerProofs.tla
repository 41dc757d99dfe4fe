-------------------------- MODULE TaskRunnerProofs --------------------------
(***************************************************************************)
(* SerialTaskRunner runs one callback at a time, in the order of           *)
(* insertion, with any number of service threads and producers; and a      *)
(* callback that waits for the queue it runs on never returns.             *)
(***************************************************************************)
EXTENDS TaskRunner, FiniteSetFacts, TLAPS

Runner == Worker \cup {Main}

Limiting == {"maybe", "schedule", "notify", "promise"}

\* A thread that services the queue has a callback exactly while it runs it or
\* waits in it for the queue, and it waits nowhere else.
AtOK(t) ==
    /\ t \in awaiting => pc[t] \in Limiting
    /\ pc[t] = "promise" => t \in awaiting
    /\ callback[t] # NoTask <=> pc[t] \in {"callback", "raii"} \/ t \in awaiting

Types ==
    /\ clock \in 0..MaxClock
    /\ taskQueue \in Seq(Function)
    /\ m_callbacks_pending \in Seq(Callback) /\ m_are_callbacks_running \in BOOLEAN
    /\ pc \in [Thread -> PC]
    /\ callback \in [Runner -> Callback \cup {NoTask}]

\* The inductive invariant; producers do not service the queue.
IInv ==
    /\ Types
    /\ RunningFlagExact
    /\ \A t \in Runner : AtOK(t)
    /\ \A p \in Producer : pc[p] \in {"idle", "burst"} \cup Limiting

\* A thread that waits for the queue it runs on still does, in the same callback.
Stuck == \A t \in Runner : t \in awaiting => t \in awaiting' /\ callback'[t] = callback[t]

\* What every step has to do.
Good == IInv' /\ [Abstract!Next]_(Abstract!queueVars) /\ Stuck

\* For the bound of the queue.  From position k on, the queue q holds Events(q, k), and
\* the producers that wait for no promise in that part have Slots(q, b, k) events to
\* emit before they look at the queue again.
Events(q, k) == {i \in k + 1 .. Len(q) : q[i].kind = "event" /\ q[i].by \in Producer}

PromiseIn(q, i, p) == q[i].kind = "promise" /\ q[i].by = p

Slots(q, b, k) ==
    {s \in Producer \X (1 .. MaxBurst) :
        s[2] <= b[s[1]] /\ \A i \in k + 1 .. Len(q) : ~ PromiseIn(q, i, s[1])}

Bound == Limit + MaxBurst * Cardinality(Producer)

Room(q, b, k) == Cardinality(Events(q, k)) + Cardinality(Slots(q, b, k)) <= Bound

\* A producer's promise is in the queue once, or is being fulfilled, while it waits.
PromiseOK(p) ==
    /\ p \in awaiting => pc[p] \in Limiting
    /\ \A i \in 1 .. Len(m_callbacks_pending) : PromiseIn(m_callbacks_pending, i, p) => p \in awaiting
    /\ \A i, j \in 1 .. Len(m_callbacks_pending) :
           PromiseIn(m_callbacks_pending, i, p) /\ PromiseIn(m_callbacks_pending, j, p) => i = j
    /\ \A t \in Runner : pc[t] = "callback" /\ callback[t].kind = "promise" /\ callback[t].by = p =>
           p \in awaiting /\ \A i \in 1 .. Len(m_callbacks_pending) : ~ PromiseIn(m_callbacks_pending, i, p)

Ordered(q) == \A i, j \in 1 .. Len(q) : i < j => q[i].time <= q[j].time

OtherTypes ==
    /\ stopRequested \in BOOLEAN /\ stopWhenEmpty \in BOOLEAN
    /\ Ordered(taskQueue)
    /\ timeToWaitFor \in [Worker -> 0..MaxClock]
    /\ awaiting \subseteq Thread
    /\ burst \in [Producer -> 0..MaxBurst]
    /\ emitted \in 0..MaxTask

\* The invariant of the bound, inductive together with IInv
BInv ==
    /\ OtherTypes
    /\ \A p \in Producer : PromiseOK(p)
    /\ \A k \in 0 .. Len(m_callbacks_pending) : Room(m_callbacks_pending, burst, k)

-----------------------------------------------------------------------------
(* Lemmas on the operators                                                 *)

\* Where a proof names no prover, it is Zenon, which is given enough time.
USE ZenonT(40)

\* schedule puts a function into the queue of the scheduler.
LEMMA InsertType ==
    ASSUME SetFacts, NEW q \in Seq(Function), NEW e \in Function
    PROVE  InsertByTime(q, e) \in Seq(Function)
<1> DEFINE I == {i \in DOMAIN q : q[i].time <= e.time}
           n == Cardinality(I)
<1>1. IsFiniteSet(1..Len(q)) /\ Cardinality(1..Len(q)) = Len(q)
  <2>1. \A m \in Nat : IsFiniteSet(1..m) /\ Cardinality(1..m) = m
    <3> TAKE m \in Nat
    <3>1. IsFiniteSet(1..m) /\ Cardinality(1..m) = IF 1 > m THEN 0 ELSE m - 1 + 1
      BY SMTT(40) DEF SetFacts, FiniteIntervals
    <3> QED BY <3>1, SMTT(40)
  <2> QED BY <2>1, SMTT(40)
<1>2. I \subseteq 1..Len(q)
  BY SMTT(40)
<1>3. n \in Nat /\ n <= Len(q)
  BY <1>1, <1>2 DEF SetFacts, FiniteSubsets
<1>4. SubSeq(q, 1, n) \in Seq(Function) /\ SubSeq(q, n + 1, Len(q)) \in Seq(Function)
  <2> HIDE DEF n
  <2> QED BY <1>3, SMTT(40)
<1>5. QED BY <1>4, SMTT(40) DEF InsertByTime

\* notify_one changes where waiting service threads are and nothing else.
LEMMA NotifyOneLemma ==
    ASSUME NEW pcs \in [Thread -> PC], NEW new \in NotifyOne(pcs)
    PROVE  /\ new \in [Thread -> PC]
           /\ \A t \in Thread : new[t] # pcs[t] => t \in Waiting /\ new[t] \in {"lock", "woken"}
<1>1. CASE Waiting = {}
  BY <1>1 DEF NotifyOne
<1>2. CASE Waiting # {}
  <2>1. PICK w \in Waiting : new = [pcs EXCEPT ![w] = Woken(w)]
    BY <1>2 DEF NotifyOne
  <2>2. w \in Thread /\ Woken(w) \in {"lock", "woken"}
    BY DEF Waiting, Thread, Woken
  <2> QED BY <2>1, <2>2 DEF PC
<1> QED BY <1>1, <1>2

\* While no thread begins or ends a callback nothing happens to the abstract queue
\* but insertions.
LEMMA SameCurrent ==
    ASSUME UNCHANGED callback
    PROVE  Running' = Running /\ Current' = Current
BY SMTT(40) DEF Running, Current

\* When a thread runs a callback, it is the current one.
LEMMA CurrentLemma ==
    ASSUME RunningFlagExact, NEW t \in Running
    PROVE  Current = callback[t]
<1>1. (CHOOSE u \in Running : TRUE) = t
  BY DEF RunningFlagExact
<1> QED BY <1>1 DEF Current

\* The constants are pairwise different where it matters.
LEMMA Threads ==
    /\ Runner \cap Producer = {} /\ Runner \subseteq Thread /\ Producer \subseteq Thread
    /\ Thread = Runner \cup Producer /\ NoTask \notin Callback
BY TaskRunnerAssumption DEF Runner, Thread

\* A step that begins and ends no callback and leaves the queue as it is.
LEMMA QuietStep ==
    ASSUME IInv, UNCHANGED <<runner, callback>>,
           clock' \in 0..MaxClock, taskQueue' \in Seq(Function),
           pc' \in [Thread -> PC],
           \A t \in Runner : t \in awaiting => t \in awaiting',
           \A t \in Runner : AtOK(t)',
           \A p \in Producer : pc'[p] \in {"idle", "burst"} \cup Limiting
    PROVE  Good
<1>1. Running' = Running /\ Current' = Current
  BY SameCurrent
<1>2. RunningFlagExact'
  BY <1>1 DEF IInv, RunningFlagExact, runner
<1>3. IInv'
  BY <1>2 DEF IInv, Types, runner
<1>4. UNCHANGED Abstract!queueVars
  BY <1>1 DEF Abstract!queueVars, runner
<1>5. Stuck
  BY DEF Stuck
<1> QED BY <1>3, <1>4, <1>5 DEF Good

\* A step of one thread that changes nothing but where it is, and wakes others.
LEMMA Move ==
    ASSUME IInv, UNCHANGED <<runner, callback, awaiting>>,
           clock' \in 0..MaxClock, taskQueue' \in Seq(Function),
           NEW t \in Thread, NEW label \in PC,
           pc' = [pc EXCEPT ![t] = label] \/ pc' \in NotifyOne([pc EXCEPT ![t] = label]),
           t \in Producer => label \in {"idle", "burst"} \cup Limiting,
           t \in Runner => IF t \in awaiting THEN label \in Limiting
                           ELSE /\ pc[t] \notin {"callback", "raii"}
                                /\ label \notin {"callback", "raii", "promise"}
    PROVE  Good
<1> DEFINE pcs == [pc EXCEPT ![t] = label]
<1>1. pcs \in [Thread -> PC] /\ pc \in [Thread -> PC]
  BY DEF IInv, Types
<1>2. /\ pc' \in [Thread -> PC]
      /\ \A u \in Thread : pc'[u] # pcs[u] => u \in Waiting /\ pc'[u] \in {"lock", "woken"}
  <2>1. CASE pc' = pcs
    BY <1>1, <2>1
  <2>2. CASE pc' \in NotifyOne(pcs)
    BY <1>1, <2>2, NotifyOneLemma
  <2> QED BY <2>1, <2>2
<1>3. \A u \in Waiting : u \in Worker /\ pc[u] \in {"wait", "wait_until"}
  BY DEF Waiting
<1>4. ASSUME NEW u \in Runner PROVE AtOK(u)'
  <2>1. u \in Thread
    BY Threads
  <2>2. AtOK(u) /\ callback'[u] = callback[u] /\ (u \in awaiting' <=> u \in awaiting)
    BY DEF IInv
  <2>3. CASE pc'[u] # pcs[u]
    <3>1. u \in Waiting /\ pc[u] \in {"wait", "wait_until"} /\ pc'[u] \in {"lock", "woken"}
      BY <1>2, <1>3, <2>1, <2>3
    <3> QED BY <2>2, <3>1 DEF AtOK, Limiting
  <2>4. CASE pc'[u] = pcs[u] /\ u # t
    <3>1. pc'[u] = pc[u]
      BY <1>1, <2>1, <2>4
    <3> QED BY <2>2, <3>1 DEF AtOK
  <2>5. CASE pc'[u] = pcs[u] /\ u = t
    <3>1. pc'[u] = label
      BY <1>1, <2>1, <2>5
    <3> QED BY <2>2, <2>5, <3>1 DEF AtOK, Limiting
  <2> QED BY <2>3, <2>4, <2>5
<1>5. ASSUME NEW p \in Producer PROVE pc'[p] \in {"idle", "burst"} \cup Limiting
  <2>1. p \in Thread /\ p \notin Waiting
    BY <1>3, Threads DEF Runner
  <2>2. pc'[p] = pcs[p]
    BY <1>2, <2>1
  <2> QED BY <1>1, <2>1, <2>2 DEF IInv
<1> QED BY <1>2, <1>4, <1>5, QuietStep

\* Where a thread goes on after insert or ProcessQueue fits whether it waits.
LEMMA ReturnLemma ==
    ASSUME NEW t \in Thread
    PROVE  /\ Return(t) \in PC
           /\ t \in awaiting => Return(t) = "promise"
           /\ t \notin awaiting /\ t \in Runner => Return(t) \in {"lock", "flush"}
           /\ t \in Producer => Return(t) \in {"promise", "burst"}
BY Threads, TaskRunnerAssumption DEF Return, PC, Runner

-----------------------------------------------------------------------------
(* The steps of the scheduler and of shutdown                              *)

\* The scheduler's threads go around their loop without a callback.
LEMMA ServiceSteps ==
    ASSUME IInv, NEW w \in Worker,
           serviceQueue(w) \/ Timeout(w) \/ TakeTask(w) \/ TimerDone(w) \/ SpuriousWakeup(w)
    PROVE  Good
<1>1. w \in Runner /\ w \in Thread /\ w \notin Producer
  BY Threads DEF Runner
<1>2. Types /\ AtOK(w)
  BY <1>1 DEF IInv
<1>3. pc[w] \notin Limiting \cup {"callback", "raii"} => w \notin awaiting
  BY <1>2 DEF AtOK
<1>4. CASE serviceQueue(w)
  <2>1. PICK label \in {"exit", "wait", "wait_until"} :
            pc' = [pc EXCEPT ![w] = label] \/ pc' \in NotifyOne([pc EXCEPT ![w] = label])
    BY <1>4 DEF serviceQueue, Goto
  <2>2. pc[w] \in {"lock", "woken"} /\ UNCHANGED <<scheduler, runner, callback, awaiting>>
    BY <1>4 DEF serviceQueue, client
  <2>3. label \in PC /\ label \notin Limiting \cup {"callback", "raii"} /\ w \notin awaiting
    BY <1>3, <2>2 DEF PC, Limiting
  <2> QED BY <1>1, <1>2, <2>1, <2>2, <2>3, Move DEF Types, scheduler, Limiting
<1>5. CASE Timeout(w) \/ TimerDone(w) \/ SpuriousWakeup(w)
  <2>1. PICK label \in {"lock", "woken"} : pc' = [pc EXCEPT ![w] = label]
    BY <1>5 DEF Timeout, TimerDone, SpuriousWakeup, Goto, Woken
  <2>2. /\ pc[w] \in {"wait", "wait_until", "timer"}
        /\ UNCHANGED <<scheduler, runner, callback, awaiting>>
    BY <1>5 DEF Timeout, TimerDone, SpuriousWakeup, Waiting, client
  <2>3. label \in PC /\ label \notin Limiting \cup {"callback", "raii"} /\ w \notin awaiting
    BY <1>3, <2>2 DEF PC, Limiting
  <2> QED BY <1>1, <1>2, <2>1, <2>2, <2>3, Move DEF Types, scheduler, Limiting
<1>6. CASE TakeTask(w)
  <2>1. pc[w] = "woken" /\ UNCHANGED <<clock, runner, callback, awaiting>>
    BY <1>6 DEF TakeTask, TimedOut, client
  <2>2. PICK label \in {"lock", "ProcessQueue", "timer"} :
            pc' = [pc EXCEPT ![w] = label] /\ taskQueue' \in Seq(Function)
    <3>1. CASE taskQueue = <<>>
      BY <1>2, <1>6, <3>1 DEF TakeTask, Goto, Types
    <3>2. CASE taskQueue # <<>>
      <4>1. Head(taskQueue) \in Function /\ Tail(taskQueue) \in Seq(Function)
        BY <1>2, <3>2, SMTT(40) DEF Types
      <4> QED BY <1>2, <1>6, <4>1 DEF TakeTask, Goto, Types, Function
    <3> QED BY <3>1, <3>2
  <2>3. label \in PC /\ label \notin Limiting \cup {"callback", "raii"} /\ w \notin awaiting
    BY <1>3, <2>1 DEF PC, Limiting
  <2> QED BY <1>1, <1>2, <2>1, <2>2, <2>3, Move DEF Types, Limiting
<1> QED BY <1>4, <1>5, <1>6

\* Shutdown wakes threads and goes on to flush.
LEMMA ShutdownSteps ==
    ASSUME IInv, Stop \/ NotifyAll \/ Flush
    PROVE  Good
<1>1. Main \in Runner /\ Main \in Thread /\ Main \notin Producer
  BY Threads DEF Runner
<1>2. Types /\ AtOK(Main)
  BY <1>1 DEF IInv
<1>3. pc[Main] \notin Limiting \cup {"callback", "raii"} => Main \notin awaiting
  BY <1>2 DEF AtOK
<1>4. CASE Stop \/ Flush
  <2>1. PICK label \in {"notify_all", "down", "ProcessQueue"} :
            pc' = [pc EXCEPT ![Main] = label]
    BY <1>4 DEF Stop, Flush, Goto
  <2>2. /\ pc[Main] \in {"up", "flush"}
        /\ UNCHANGED <<clock, taskQueue, runner, callback, awaiting>>
    BY <1>4 DEF Stop, Flush, client, scheduler
  <2>3. label \in PC /\ label \notin Limiting \cup {"callback", "raii"} /\ Main \notin awaiting
    BY <1>3, <2>2 DEF PC, Limiting
  <2> QED BY <1>1, <1>2, <2>1, <2>2, <2>3, Move DEF Types, Limiting
<1>5. CASE NotifyAll
  <2>1. /\ pc[Main] = "notify_all" /\ Main \notin awaiting
        /\ UNCHANGED <<clock, taskQueue, runner, callback, awaiting>>
    BY <1>3, <1>5 DEF NotifyAll, Limiting, client, scheduler
  <2>2. \A u \in Waiting : u \in Worker /\ pc[u] \in {"wait", "wait_until"}
                           /\ Woken(u) \in {"lock", "woken"}
    BY DEF Waiting, Woken
  <2>3. pc' \in [Thread -> PC]
    BY <1>2, <1>5, <2>2, SMTT(40) DEF NotifyAll, Types, PC
  <2>4. ASSUME NEW u \in Runner PROVE AtOK(u)'
    <3>1. AtOK(u) /\ u \in Thread /\ callback'[u] = callback[u]
          /\ (u \in awaiting' <=> u \in awaiting)
      BY <2>1, Threads DEF IInv
    <3>2. CASE u \in Waiting
      BY <1>5, <2>2, <3>1, <3>2 DEF NotifyAll, AtOK, Limiting
    <3>3. CASE u \notin Waiting /\ u = Main
      BY <1>5, <2>1, <3>1, <3>3 DEF NotifyAll, AtOK, Limiting
    <3>4. CASE u \notin Waiting /\ u # Main
      BY <1>5, <3>1, <3>4 DEF NotifyAll, AtOK
    <3> QED BY <3>2, <3>3, <3>4
  <2>5. ASSUME NEW p \in Producer PROVE pc'[p] \in {"idle", "burst"} \cup Limiting
    <3>1. p \in Thread /\ p # Main /\ p \notin Waiting
      BY <1>1, <2>2, Threads DEF Runner
    <3> QED BY <1>5, <3>1 DEF NotifyAll, IInv
  <2> QED BY <1>2, <2>1, <2>3, <2>4, <2>5, QuietStep DEF Types
<1> QED BY <1>4, <1>5

-----------------------------------------------------------------------------
(* The steps of the task runner                                            *)

\* MaybeScheduleProcessQueue, and waiting for a promise: only a producer's wait
\* ends.
LEMMA ScheduleSteps ==
    ASSUME SetFacts, IInv, NEW t \in Thread,
           MaybeScheduleProcessQueue(t) \/ schedule(t) \/ notify(t) \/ Synced(t)
    PROVE  Good
<1>1. Types /\ (t \in Runner => AtOK(t))
  BY DEF IInv
<1>2. /\ Return(t) \in PC
      /\ t \in awaiting => Return(t) \in Limiting
      /\ t \notin awaiting /\ t \in Runner => Return(t) \notin Limiting \cup {"callback", "raii"}
      /\ t \in Producer => Return(t) \in {"idle", "burst"} \cup Limiting
  BY ReturnLemma DEF Limiting
<1>3. "schedule" \in PC /\ "notify" \in PC /\ "burst" \in PC
  BY DEF PC
<1>4. pc[t] \in Limiting /\ UNCHANGED <<clock, runner, callback, awaiting>>
  BY DEF MaybeScheduleProcessQueue, schedule, notify, Synced, Limiting, client, scheduler
<1>5. CASE MaybeScheduleProcessQueue(t)
  <2>1. PICK label \in {"schedule", Return(t)} : pc' = [pc EXCEPT ![t] = label]
    BY <1>5 DEF MaybeScheduleProcessQueue, Goto
  <2>2. taskQueue' = taskQueue
    BY <1>5 DEF MaybeScheduleProcessQueue, scheduler
  <2> QED BY <1>1, <1>2, <1>3, <1>4, <2>1, <2>2, Move DEF Types, Limiting
<1>6. CASE schedule(t)
  <2>1. [time |-> clock, f |-> "ProcessQueue"] \in Function
    BY <1>1 DEF Types, Function
  <2>2. pc' = [pc EXCEPT ![t] = "notify"] /\ taskQueue' \in Seq(Function)
    BY <1>1, <1>6, <2>1, InsertType DEF schedule, Goto, Types
  <2> QED BY <1>1, <1>3, <1>4, <2>2, Move DEF Types, Limiting
<1>7. CASE notify(t)
  <2>1. pc' \in NotifyOne([pc EXCEPT ![t] = Return(t)]) /\ taskQueue' = taskQueue
    BY <1>7 DEF notify, scheduler
  <2> QED BY <1>1, <1>2, <1>4, <2>1, Move DEF Types, Limiting
<1>8. CASE Synced(t)
  <2>1. t \in Producer /\ t \notin Runner
    BY <1>1, <1>8, Threads DEF Synced, AtOK
  <2>2. pc' = [pc EXCEPT ![t] = "burst"] /\ taskQueue' = taskQueue
    BY <1>8, <2>1 DEF Synced, Goto, scheduler
  <2> QED BY <1>1, <1>3, <1>4, <2>1, <2>2, Move DEF Types
<1> QED BY <1>5, <1>6, <1>7, <1>8

\* insert puts a callback at the end of the queue; the thread is not one that
\* waits, and if it is in a callback, it waits from now on.
LEMMA InsertStep ==
    ASSUME IInv, NEW t \in Thread, NEW cb \in Callback,
           UNCHANGED <<clock, taskQueue, m_are_callbacks_running, callback>>,
           Insert(t, cb), awaiting' = awaiting \/ awaiting' = awaiting \cup {t},
           t \in Runner => /\ t \notin awaiting
                           /\ pc[t] = "callback" <=> t \in awaiting'
                           /\ pc[t] # "raii"
    PROVE  Good
<1>1. Running' = Running /\ Current' = Current
  BY SameCurrent
<1>2. /\ Types /\ "maybe" \in PC /\ "maybe" \in Limiting /\ pc' = [pc EXCEPT ![t] = "maybe"]
      /\ m_callbacks_pending' = Append(m_callbacks_pending, cb)
  BY DEF IInv, PC, Limiting, Insert, Goto
<1>3. Types'
  BY <1>2, SMTT(40) DEF Types
<1>4. RunningFlagExact'
  BY <1>1 DEF IInv, RunningFlagExact
<1>5. ASSUME NEW u \in Runner PROVE AtOK(u)'
  <2>1. AtOK(u) /\ u \in Thread
    BY Threads DEF IInv
  <2>2. CASE u = t
    BY <1>2, <2>1, <2>2 DEF Types, AtOK, Limiting
  <2>3. CASE u # t
    BY <1>2, <2>1, <2>3 DEF Types, AtOK
  <2> QED BY <2>2, <2>3
<1>6. \A p \in Producer : pc'[p] \in {"idle", "burst"} \cup Limiting
  BY <1>2, Threads DEF IInv, Types
<1>7. Abstract!Next
  BY <1>1, <1>2 DEF Abstract!Next, Abstract!Insert
<1>8. Stuck
  BY DEF Stuck
<1> QED BY <1>3, <1>4, <1>5, <1>6, <1>7, <1>8 DEF Good, IInv

\* Callers of insert: a listener's callback, the producers, and shutdown.
LEMMA InsertSteps ==
    ASSUME IInv, \/ \E t \in Runner : LimitInCallback(t)
                 \/ \E p \in Producer : LimitQueue(p) \/ Enqueue(p)
                 \/ Join
    PROVE  Good
<1>1. \A t \in Runner : AtOK(t)
  BY DEF IInv
<1>2. \A t \in Thread, k \in {"event", "promise"} : [kind |-> k, by |-> t] \in Callback
  BY DEF Callback
<1>3. ASSUME NEW t \in Runner, LimitInCallback(t) PROVE Good
  <2>1. t \in Thread
    BY Threads
  <2>2. /\ pc[t] = "callback" /\ t \notin awaiting /\ awaiting' = awaiting \cup {t}
        /\ Insert(t, [kind |-> "promise", by |-> t])
        /\ UNCHANGED <<clock, taskQueue, m_are_callbacks_running, callback>>
    BY <1>3 DEF LimitInCallback, scheduler
  <2> QED BY <1>2, <2>1, <2>2, InsertStep
<1>4. ASSUME NEW p \in Producer, LimitQueue(p) \/ Enqueue(p) PROVE Good
  <2>1. p \in Thread /\ p \notin Runner
    BY Threads
  <2>2. UNCHANGED <<clock, taskQueue, m_are_callbacks_running, callback>>
    BY <1>4 DEF LimitQueue, Enqueue, scheduler
  <2>3. CASE pc' = [pc EXCEPT ![p] = "burst"] \/ pc' = [pc EXCEPT ![p] = "idle"]
    <3>1. m_callbacks_pending' = m_callbacks_pending /\ awaiting' = awaiting
      <4>1. "maybe" \notin {"burst", "idle"} /\ pc \in [Thread -> PC]
        BY DEF IInv, Types
      <4>2. ~ \E cb : Insert(p, cb)
        BY <2>1, <2>3, <4>1 DEF Insert, Goto
      <4> QED BY <1>4, <4>2 DEF LimitQueue, Enqueue
    <3>2. "burst" \in PC /\ "idle" \in PC /\ Types
      BY DEF PC, IInv
    <3> QED BY <2>1, <2>2, <2>3, <3>1, <3>2, Move DEF Types, runner
  <2>4. CASE \E k \in {"event", "promise"} :
                 /\ Insert(p, [kind |-> k, by |-> p])
                 /\ awaiting' = awaiting \/ awaiting' = awaiting \cup {p}
    BY <1>2, <2>1, <2>2, <2>4, InsertStep
  <2> QED BY <1>4, <2>3, <2>4 DEF LimitQueue, Enqueue, Goto
<1>5. CASE Join
  <2>1. Main \in Thread /\ Main \in Runner /\ Main \notin Producer
    BY Threads DEF Runner
  <2>2. /\ pc[Main] = "join" /\ Main \notin awaiting
        /\ UNCHANGED <<clock, taskQueue, m_are_callbacks_running, callback, awaiting>>
    BY <1>1, <1>5, <2>1 DEF Join, AtOK, Limiting, scheduler, client
  <2>3. CASE pc' = [pc EXCEPT ![Main] = "down"] /\ m_callbacks_pending' = m_callbacks_pending
    <3>1. "down" \in PC /\ Types
      BY DEF PC, IInv
    <3> QED BY <2>1, <2>2, <2>3, <3>1, Move DEF Types, runner
  <2>4. CASE Insert(Main, [kind |-> "event", by |-> Main])
    BY <1>2, <2>1, <2>2, <2>4, InsertStep
  <2> QED BY <1>5, <2>3, <2>4 DEF Join, Goto
<1> QED BY <1>3, <1>4, <1>5

\* ProcessQueue takes the oldest callback, and only when none is running.
LEMMA ProcessQueueStep ==
    ASSUME IInv, NEW t \in Thread, ProcessQueue(t)
    PROVE  Good
<1>1. t \in Runner /\ t \notin Producer
  BY Threads DEF IInv, ProcessQueue, Limiting
<1>2. Types /\ AtOK(t) /\ RunningFlagExact
  BY <1>1 DEF IInv
<1>3. t \notin awaiting /\ callback[t] = NoTask
  BY <1>2 DEF ProcessQueue, AtOK, Limiting
<1>4. UNCHANGED <<clock, taskQueue, awaiting>>
  BY DEF ProcessQueue, scheduler, client
<1>5. CASE ~MayProcess
  <2>1. pc' = [pc EXCEPT ![t] = Return(t)] /\ UNCHANGED <<runner, callback>>
    BY <1>5 DEF ProcessQueue, Goto
  <2>2. Return(t) \in PC /\ Return(t) \notin {"callback", "raii", "promise"}
    BY <1>1, <1>3, ReturnLemma
  <2>3. pc[t] \notin {"callback", "raii"}
    BY DEF ProcessQueue
  <2> QED BY <1>1, <1>2, <1>3, <1>4, <2>1, <2>2, <2>3, Move DEF Types
<1>6. CASE MayProcess
  <2> DEFINE cb == Head(m_callbacks_pending)
  <2>1. /\ m_are_callbacks_running = FALSE /\ m_callbacks_pending # <<>>
        /\ cb \in Callback /\ Tail(m_callbacks_pending) \in Seq(Callback)
    BY <1>2, <1>6, SMTT(40) DEF MayProcess, Types
  <2>2. /\ m_are_callbacks_running' = TRUE
        /\ callback' = [callback EXCEPT ![t] = cb]
        /\ m_callbacks_pending' = Tail(m_callbacks_pending)
        /\ pc' = [pc EXCEPT ![t] = "callback"]
    BY <1>6 DEF ProcessQueue, Goto
  <2>3. Running = {}
    BY <1>2, <2>1 DEF RunningFlagExact
  <2>4. cb # NoTask
    BY <2>1, Threads
  <2> HIDE DEF cb
  <2>5. Running' = {t}
    <3>1. \A u \in Runner : callback[u] = NoTask
      BY <2>3 DEF Running, Runner
    <3> QED BY <1>1, <1>2, <2>2, <2>4, <3>1 DEF Running, Runner, Types
  <2>6. RunningFlagExact'
    BY <2>2, <2>5 DEF RunningFlagExact
  <2>7. Types'
    BY <1>2, <1>4, <2>1, <2>2 DEF Types, PC
  <2>8. ASSUME NEW u \in Runner PROVE AtOK(u)'
    <3>1. AtOK(u) /\ u \in Thread
      BY Threads DEF IInv
    <3>2. CASE u = t
      BY <1>2, <1>3, <1>4, <2>2, <2>4, <3>1, <3>2 DEF Types, AtOK
    <3>3. CASE u # t
      BY <1>2, <1>4, <2>2, <3>1, <3>3 DEF Types, AtOK
    <3> QED BY <3>2, <3>3
  <2>9. \A p \in Producer : pc'[p] \in {"idle", "burst"} \cup Limiting
    BY <1>1, <1>2, <2>2, Threads DEF IInv, Types
  <2>10. Current = NoTask /\ Current' = cb
    <3>1. Current' = callback'[t]
      BY <2>5 DEF Current
    <3> QED BY <1>1, <1>2, <2>2, <2>3, <3>1 DEF Current, Types
  <2>11. Abstract!Next
    BY <2>1, <2>2, <2>10 DEF Abstract!Next, Abstract!Start, cb
  <2>12. Stuck
    BY <1>2, <1>3, <1>4, <2>2 DEF Stuck, Types
  <2> QED BY <2>6, <2>7, <2>8, <2>9, <2>11, <2>12 DEF Good, IInv
<1> QED BY <1>5, <1>6

\* A callback returns.  If it fulfils a promise, the one who waits is a producer:
\* a thread that runs a callback does not wait for another, since there is none.
LEMMA RunCallbackStep ==
    ASSUME IInv, NEW t \in Runner, RunCallback(t)
    PROVE  Good
<1>1. Types /\ AtOK(t) /\ t \in Thread /\ t \notin Producer
  BY Threads DEF IInv
<1>2. pc[t] = "callback" /\ t \notin awaiting /\ callback[t] # NoTask
  BY <1>1 DEF RunCallback, AtOK, Limiting
<1>3. /\ pc' = [pc EXCEPT ![t] = "raii"]
      /\ UNCHANGED <<clock, taskQueue, runner, callback>>
  BY DEF RunCallback, Goto, scheduler
<1>4. ASSUME NEW u \in Runner, u \in awaiting PROVE FALSE
  <2>1. AtOK(u)
    BY DEF IInv
  <2>2. u \in Running /\ t \in Running
    BY <1>2, <1>4, <2>1 DEF AtOK, Running, Runner
  <2>3. u = t
    BY <2>2 DEF IInv, RunningFlagExact
  <2> QED BY <1>2, <1>4, <2>3
<1>5. awaiting' \subseteq awaiting
  BY DEF RunCallback
<1>6. ASSUME NEW u \in Runner PROVE AtOK(u)'
  <2>1. AtOK(u) /\ u \in Thread /\ u \notin awaiting /\ u \notin awaiting'
    BY <1>4, <1>5, Threads DEF IInv
  <2>2. callback'[u] = callback[u]
    BY <1>3
  <2>3. CASE u = t
    BY <1>1, <1>2, <1>3, <2>1, <2>2, <2>3 DEF Types, AtOK
  <2>4. CASE u # t
    BY <1>1, <1>3, <2>1, <2>2, <2>4 DEF Types, AtOK
  <2> QED BY <2>3, <2>4
<1>7. \A p \in Producer : pc'[p] \in {"idle", "burst"} \cup Limiting
  BY <1>1, <1>3, Threads DEF IInv, Types
<1>8. pc' \in [Thread -> PC]
  BY <1>1, <1>3 DEF Types, PC
<1> QED BY <1>1, <1>3, <1>4, <1>6, <1>7, <1>8, QuietStep DEF Types

\* ~RAIICallbacksRunning ends the only callback.
LEMMA CallbackDoneStep ==
    ASSUME IInv, NEW t \in Runner, CallbackDone(t)
    PROVE  Good
<1>1. Types /\ AtOK(t) /\ RunningFlagExact /\ t \in Thread /\ t \notin Producer
  BY Threads DEF IInv
<1>2. pc[t] = "raii" /\ t \notin awaiting /\ callback[t] # NoTask
  BY <1>1 DEF CallbackDone, AtOK, Limiting
<1>3. /\ m_are_callbacks_running' = FALSE
      /\ callback' = [callback EXCEPT ![t] = NoTask]
      /\ pc' = [pc EXCEPT ![t] = "maybe"]
      /\ UNCHANGED <<clock, taskQueue, m_callbacks_pending, awaiting>>
  BY DEF CallbackDone, AfterCallback, Goto, scheduler, client
<1>4. t \in Running /\ Running \subseteq {t}
  BY <1>1, <1>2 DEF Running, Runner, RunningFlagExact
<1>5. Running' = {}
  BY <1>1, <1>3, <1>4 DEF Running, Runner, Types
<1>6. RunningFlagExact' /\ Current' = NoTask /\ Current # NoTask
  BY <1>1, <1>2, <1>3, <1>4, <1>5, CurrentLemma DEF RunningFlagExact, Current
<1>7. Types'
  BY <1>1, <1>3 DEF Types, PC
<1>8. ASSUME NEW u \in Runner PROVE AtOK(u)'
  <2>1. AtOK(u) /\ u \in Thread
    BY Threads DEF IInv
  <2>2. CASE u = t
    BY <1>1, <1>2, <1>3, <2>1, <2>2 DEF Types, AtOK
  <2>3. CASE u # t
    BY <1>1, <1>3, <2>1, <2>3 DEF Types, AtOK
  <2> QED BY <2>2, <2>3
<1>9. \A p \in Producer : pc'[p] \in {"idle", "burst"} \cup Limiting
  BY <1>1, <1>3, Threads DEF IInv, Types
<1>10. Abstract!Next
  BY <1>3, <1>6 DEF Abstract!Next, Abstract!Finish
<1>11. Stuck
  BY <1>1, <1>2, <1>3 DEF Stuck, Types
<1> QED BY <1>6, <1>7, <1>8, <1>9, <1>10, <1>11 DEF Good, IInv

-----------------------------------------------------------------------------
(* The theorems                                                            *)

\* Init establishes the inductive invariant.
LEMMA InitInv == Init => IInv
<1> SUFFICES ASSUME Init PROVE IInv
  OBVIOUS
<1>1. Types
  <2>1. [time |-> MaxClock, f |-> "timer"] \in Function /\ 0 \in 0..MaxClock
    BY TaskRunnerAssumption, SMTT(40) DEF Function
  <2>2. taskQueue \in Seq(Function)
    <3> DEFINE e == [time |-> MaxClock, f |-> "timer"]
    <3>1. taskQueue \in {<<>>, <<e>>} /\ e \in Function
      BY <2>1 DEF Init
    <3> HIDE DEF e
    <3>2. <<>> \in Seq(Function) /\ <<e>> \in Seq(Function)
      BY <3>1, SMTT(40)
    <3> QED BY <3>1, <3>2
  <2>3. pc \in [Thread -> PC]
    BY DEF Init, PC
  <2>4. callback \in [Runner -> Callback \cup {NoTask}]
    BY DEF Init, Runner
  <2>5. clock = 0 /\ m_callbacks_pending = <<>> /\ m_are_callbacks_running = FALSE
    BY DEF Init
  <2>6. m_callbacks_pending \in Seq(Callback)
    BY <2>5, SMTT(40)
  <2> QED BY <2>1, <2>2, <2>3, <2>4, <2>5, <2>6 DEF Types
<1>2. \A t \in Runner : callback[t] = NoTask
  BY DEF Init, Runner
<1>3. RunningFlagExact
  BY <1>2 DEF Init, RunningFlagExact, Running, Runner
<1>4. \A t \in Runner : AtOK(t)
  BY <1>2, Threads, TaskRunnerAssumption DEF Init, AtOK, Runner, Limiting
<1>5. \A p \in Producer : pc[p] = "idle"
  BY Threads, TaskRunnerAssumption DEF Init, Runner
<1> QED BY <1>1, <1>3, <1>4, <1>5 DEF IInv

\* Every step keeps the invariant, is a step of TaskQueue or a stutter, and
\* releases no thread that waits for the queue it runs on.
LEMMA StepLemma ==
    ASSUME SetFacts
    PROVE  IInv /\ [Next]_vars => Good
<1> SUFFICES ASSUME IInv, [Next]_vars PROVE Good
  OBVIOUS
<1>1. CASE Tick \/ UNCHANGED vars
  <2>1. /\ UNCHANGED <<taskQueue, runner, pc, callback, awaiting>>
        /\ clock' = clock \/ (clock < MaxClock /\ clock' = clock + 1)
    BY <1>1 DEF Tick, vars, scheduler, client
  <2>2. clock' \in 0..MaxClock
    BY <2>1, TaskRunnerAssumption, SMTT(40) DEF IInv, Types
  <2>3. \A t \in Runner : AtOK(t)'
    BY <2>1 DEF IInv, AtOK
  <2> QED BY <2>1, <2>2, <2>3, QuietStep DEF IInv, Types
<1>2. ASSUME NEW t \in Thread, RunnerStep(t) PROVE Good
  <2>1. t \notin Producer => t \in Runner
    BY Threads
  <2> QED BY <1>2, <2>1, ScheduleSteps, ProcessQueueStep, RunCallbackStep, CallbackDoneStep,
             InsertSteps DEF RunnerStep
<1>3. ASSUME NEW w \in Worker, WorkerStep(w) \/ SpuriousWakeup(w) PROVE Good
  BY <1>2, <1>3, ServiceSteps DEF WorkerStep, Thread
<1>4. ASSUME NEW p \in Producer, ProducerStep(p) PROVE Good
  BY <1>2, <1>4, InsertSteps DEF ProducerStep, Thread
<1>5. CASE MainStep
  BY <1>2, <1>5, ShutdownSteps, InsertSteps DEF MainStep, Thread
<1> QED BY <1>1, <1>3, <1>4, <1>5 DEF Next

-----------------------------------------------------------------------------
(* The bound of the queue: events, and slots for events                    *)

\* The events of the queue can be counted.
LEMMA EventsFinite ==
    ASSUME SetFacts, NEW q \in Seq(Callback), NEW k \in Nat
    PROVE  /\ IsFiniteSet(Events(q, k)) /\ Cardinality(Events(q, k)) \in Nat
           /\ Cardinality(Events(q, k)) <= Len(q)
<1>1. IsFiniteSet(1..Len(q)) /\ Cardinality(1..Len(q)) = Len(q)
  <2>1. \A m \in Nat : IsFiniteSet(1..m) /\ Cardinality(1..m) = m
    <3> TAKE m \in Nat
    <3>1. IsFiniteSet(1..m) /\ Cardinality(1..m) = IF 1 > m THEN 0 ELSE m - 1 + 1
      BY SMTT(40) DEF SetFacts, FiniteIntervals
    <3> QED BY <3>1, SMTT(40)
  <2> QED BY <2>1, SMTT(40)
<1>2. Events(q, k) \subseteq 1..Len(q)
  BY SMTT(40) DEF Events
<1> QED BY <1>1, <1>2 DEF SetFacts, FiniteSubsets

\* The slots of the producers can be counted; they are no more than MaxBurst each.
LEMMA SlotsFinite ==
    ASSUME SetFacts, NEW q, NEW b, NEW k
    PROVE  /\ IsFiniteSet(Slots(q, b, k)) /\ Cardinality(Slots(q, b, k)) \in Nat
           /\ Cardinality(Slots(q, b, k)) <= MaxBurst * Cardinality(Producer)
           /\ MaxBurst * Cardinality(Producer) \in Nat
<1> DEFINE B == 1..MaxBurst
<1>1. IsFiniteSet(B) /\ Cardinality(B) = MaxBurst /\ MaxBurst \in Nat
  <2>1. MaxBurst \in Nat /\ MaxBurst # 0
    BY TaskRunnerAssumption
  <2>2. IsFiniteSet(B) /\ Cardinality(B) = IF 1 > MaxBurst THEN 0 ELSE MaxBurst - 1 + 1
    BY <2>1, SMTT(40) DEF SetFacts, FiniteIntervals
  <2> QED BY <2>1, <2>2, SMTT(40)
<1>2. IsFiniteSet(Producer) /\ Cardinality(Producer) \in Nat
  BY TaskRunnerAssumption DEF SetFacts, FiniteSubsets
<1> HIDE DEF B
<1>3. IsFiniteSet(Producer \X B) /\ Cardinality(Producer \X B) = Cardinality(Producer) * Cardinality(B)
  BY <1>1, <1>2 DEF SetFacts, FiniteProducts
<1>4. Cardinality(Producer) * Cardinality(B) = MaxBurst * Cardinality(Producer)
      /\ MaxBurst * Cardinality(Producer) \in Nat
  BY <1>1, <1>2, SMTT(40)
<1>5. Slots(q, b, k) \subseteq Producer \X B
  BY DEF Slots, B
<1>6. /\ IsFiniteSet(Slots(q, b, k))
      /\ Cardinality(Slots(q, b, k)) <= Cardinality(Producer \X B)
  BY <1>3, <1>5 DEF SetFacts, FiniteSubsets
<1> QED BY <1>3, <1>4, <1>6 DEF SetFacts, FiniteSubsets

\* A queue with fewer events and slots leaves room as well.
LEMMA RoomSmaller ==
    ASSUME SetFacts, NEW q \in Seq(Callback), NEW b, NEW k \in Nat, NEW r \in Seq(Callback), NEW c, NEW l \in Nat,
           Room(q, b, k), Events(r, l) \subseteq Events(q, k), Slots(r, c, l) \subseteq Slots(q, b, k)
    PROVE  Room(r, c, l)
<1>1. /\ Cardinality(Events(r, l)) <= Cardinality(Events(q, k))
      /\ Cardinality(Slots(r, c, l)) <= Cardinality(Slots(q, b, k))
  BY EventsFinite, SlotsFinite DEF SetFacts, FiniteSubsets
<1>2. /\ Cardinality(Events(r, l)) \in Nat /\ Cardinality(Events(q, k)) \in Nat
      /\ Cardinality(Slots(r, c, l)) \in Nat /\ Cardinality(Slots(q, b, k)) \in Nat
  BY EventsFinite, SlotsFinite
<1>3. Bound \in Nat
  <2>1. MaxBurst * Cardinality(Producer) \in Nat /\ Limit \in Nat
    BY SlotsFinite, TaskRunnerAssumption
  <2> QED BY <2>1, SMTT(40) DEF Bound
<1> QED BY <1>1, <1>2, <1>3, SMTT(40) DEF Room

\* There is room while the events are no more than the limit.
LEMMA RoomBelowLimit ==
    ASSUME SetFacts, NEW q \in Seq(Callback), NEW b, NEW k \in Nat, Cardinality(Events(q, k)) <= Limit
    PROVE  Room(q, b, k)
<1>1. /\ Cardinality(Events(q, k)) \in Nat /\ Cardinality(Slots(q, b, k)) \in Nat
      /\ Cardinality(Slots(q, b, k)) <= MaxBurst * Cardinality(Producer)
      /\ MaxBurst * Cardinality(Producer) \in Nat
  BY EventsFinite, SlotsFinite
<1>2. Limit \in Nat
  BY TaskRunnerAssumption
<1> QED BY <1>1, <1>2, SMTT(40) DEF Room, Bound

\* A callback is appended that is no event of a producer, and whoever may emit more
\* from now on waits for it.
LEMMA RoomAppend ==
    ASSUME SetFacts, NEW q \in Seq(Callback), NEW cb \in Callback, ~ (cb.kind = "event" /\ cb.by \in Producer),
           NEW b, NEW c, \A k \in 0 .. Len(q) : Room(q, b, k),
           \A p \in Producer : c[p] = b[p] \/ (cb.kind = "promise" /\ cb.by = p),
           NEW r, r = Append(q, cb)
    PROVE  \A k \in 0 .. Len(r) : Room(r, c, k)
<1>1. /\ r \in Seq(Callback) /\ Len(r) = Len(q) + 1 /\ r[Len(q) + 1] = cb /\ Len(q) \in Nat
      /\ \A i \in 1 .. Len(q) : r[i] = q[i]
  BY SMTT(40)
<1> SUFFICES ASSUME NEW k \in 0 .. Len(r) PROVE Room(r, c, k)
  OBVIOUS
<1>2. CASE k \in 0 .. Len(q)
  <2>1. Events(r, k) \subseteq Events(q, k)
    <3> SUFFICES ASSUME NEW i \in Events(r, k) PROVE i \in Events(q, k)
      OBVIOUS
    <3>1. i \in k + 1 .. Len(q) + 1 /\ r[i].kind = "event" /\ r[i].by \in Producer
      BY <1>1 DEF Events
    <3>2. i # Len(q) + 1
      BY <1>1, <3>1
    <3>3. i \in k + 1 .. Len(q) /\ i \in 1 .. Len(q)
      BY <1>1, <1>2, <3>1, <3>2, SMTT(40)
    <3> QED BY <1>1, <3>1, <3>3 DEF Events
  <2>2. Slots(r, c, k) \subseteq Slots(q, b, k)
    <3> SUFFICES ASSUME NEW s \in Slots(r, c, k) PROVE s \in Slots(q, b, k)
      OBVIOUS
    <3>1. /\ s \in Producer \X (1 .. MaxBurst) /\ s[2] <= c[s[1]]
          /\ \A i \in k + 1 .. Len(q) + 1 : ~ PromiseIn(r, i, s[1])
      BY <1>1 DEF Slots
    <3>2. s[1] \in Producer
      BY <3>1
    <3>3. Len(q) + 1 \in k + 1 .. Len(q) + 1
      BY <1>1, <1>2, SMTT(40)
    <3>4. ~ (cb.kind = "promise" /\ cb.by = s[1])
      BY <1>1, <3>1, <3>3 DEF PromiseIn
    <3>5. c[s[1]] = b[s[1]]
      BY <3>2, <3>4
    <3>6. ASSUME NEW i \in k + 1 .. Len(q) PROVE ~ PromiseIn(q, i, s[1])
      <4>1. i \in k + 1 .. Len(q) + 1 /\ i \in 1 .. Len(q)
        BY <1>1, <1>2, SMTT(40)
      <4> QED BY <1>1, <3>1, <4>1 DEF PromiseIn
    <3> QED BY <3>1, <3>5, <3>6 DEF Slots
  <2>3. k \in Nat /\ Room(q, b, k)
    BY <1>2, SMTT(40)
  <2> QED BY <1>1, <2>1, <2>2, <2>3, RoomSmaller
<1>3. CASE k = Len(q) + 1
  <2>1. Events(r, k) = {}
    BY <1>1, <1>3, SMTT(40) DEF Events
  <2>2. Cardinality(Events(r, k)) <= Limit
    BY <2>1, TaskRunnerAssumption, SMTT(40) DEF SetFacts, FiniteEmpty
  <2>3. k \in Nat
    BY <1>1, <1>3, SMTT(40)
  <2> QED BY <1>1, <2>2, <2>3, RoomBelowLimit
<1> QED BY <1>1, <1>2, <1>3, SMTT(40)

\* A producer that waits for nothing emits an event: it has one less to emit.
LEMMA RoomEvent ==
    ASSUME SetFacts, NEW q \in Seq(Callback), NEW p \in Producer, NEW cb \in Callback,
           cb.kind = "event", cb.by = p,
           NEW b \in [Producer -> 0..MaxBurst], b[p] > 0, NEW c, c = [b EXCEPT ![p] = @ - 1],
           \A i \in 1 .. Len(q) : ~ PromiseIn(q, i, p),
           \A k \in 0 .. Len(q) : Room(q, b, k),
           NEW r, r = Append(q, cb)
    PROVE  \A k \in 0 .. Len(r) : Room(r, c, k)
<1>1. /\ r \in Seq(Callback) /\ Len(r) = Len(q) + 1 /\ r[Len(q) + 1] = cb /\ Len(q) \in Nat
      /\ \A i \in 1 .. Len(q) : r[i] = q[i]
  BY SMTT(40)
<1>2. /\ c[p] = b[p] - 1 /\ \A u \in Producer \ {p} : c[u] = b[u]
      /\ b[p] \in 1..MaxBurst /\ MaxBurst \in Nat /\ b[p] \in Nat
  BY TaskRunnerAssumption, SMTT(40)
<1> SUFFICES ASSUME NEW k \in 0 .. Len(r) PROVE Room(r, c, k)
  OBVIOUS
<1>3. CASE k \in 0 .. Len(q)
  <2> DEFINE new == Len(q) + 1
             slot == <<p, b[p]>>
  <2>1. Events(r, k) \subseteq Events(q, k) \cup {new}
    <3> SUFFICES ASSUME NEW i \in Events(r, k), i # new PROVE i \in Events(q, k)
      OBVIOUS
    <3>1. i \in k + 1 .. Len(q) + 1 /\ r[i].kind = "event" /\ r[i].by \in Producer
      BY <1>1 DEF Events
    <3>3. i \in k + 1 .. Len(q) /\ i \in 1 .. Len(q)
      BY <1>1, <1>3, <3>1, SMTT(40)
    <3> QED BY <1>1, <3>1, <3>3 DEF Events
  <2>2. slot \in Slots(q, b, k)
    <3>1. slot \in Producer \X (1 .. MaxBurst) /\ slot[1] = p /\ slot[2] = b[p] /\ b[p] <= b[p]
      BY <1>2, SMTT(40)
    <3>2. \A i \in k + 1 .. Len(q) : ~ PromiseIn(q, i, p)
      BY <1>1, <1>3, SMTT(40)
    <3> HIDE DEF slot
    <3> QED BY <3>1, <3>2 DEF Slots
  <2>3. Slots(r, c, k) \subseteq Slots(q, b, k) \ {slot}
    <3> SUFFICES ASSUME NEW s \in Slots(r, c, k) PROVE s \in Slots(q, b, k) /\ s # slot
      OBVIOUS
    <3>1. /\ s \in Producer \X (1 .. MaxBurst) /\ s[2] <= c[s[1]]
          /\ \A i \in k + 1 .. Len(q) + 1 : ~ PromiseIn(r, i, s[1])
      BY <1>1 DEF Slots
    <3>2. s[1] \in Producer /\ s[2] \in Nat /\ b[s[1]] \in Nat
      BY <1>2, <3>1, SMTT(40)
    <3>3. s[2] <= b[s[1]]
      BY <1>2, <3>1, <3>2, SMTT(40)
    <3>4. s # slot
      <4> SUFFICES ASSUME s = slot PROVE FALSE
        OBVIOUS
      <4>1. s[1] = p /\ s[2] = b[p]
        OBVIOUS
      <4> QED BY <1>2, <3>1, <4>1, SMTT(40)
    <3>6. ASSUME NEW i \in k + 1 .. Len(q) PROVE ~ PromiseIn(q, i, s[1])
      <4>1. i \in k + 1 .. Len(q) + 1 /\ i \in 1 .. Len(q)
        BY <1>1, <1>3, SMTT(40)
      <4> QED BY <1>1, <3>1, <4>1 DEF PromiseIn
    <3> QED BY <3>1, <3>3, <3>4, <3>6 DEF Slots
  <2> HIDE DEF new, slot
  <2>4. /\ IsFiniteSet(Events(q, k)) /\ Cardinality(Events(q, k)) \in Nat
        /\ IsFiniteSet(Slots(q, b, k)) /\ Cardinality(Slots(q, b, k)) \in Nat
        /\ Cardinality(Events(r, k)) \in Nat /\ Cardinality(Slots(r, c, k)) \in Nat
    <3>1. k \in Nat
      BY <1>1, <1>3, SMTT(40)
    <3> QED BY <1>1, <3>1, EventsFinite, SlotsFinite
  <2>5. Cardinality(Events(r, k)) <= Cardinality(Events(q, k)) + 1
    <3>1. /\ IsFiniteSet(Events(q, k) \cup {new})
          /\ Cardinality(Events(q, k) \cup {new}) <= Cardinality(Events(q, k)) + 1
          /\ Cardinality(Events(q, k) \cup {new}) \in Nat
      <4>1. /\ IsFiniteSet(Events(q, k) \cup {new})
            /\ Cardinality(Events(q, k) \cup {new}) =
                 IF new \in Events(q, k) THEN Cardinality(Events(q, k)) ELSE Cardinality(Events(q, k)) + 1
        BY <2>4 DEF SetFacts, FiniteAdd
      <4> QED BY <2>4, <4>1, SMTT(40)
    <3>2. Cardinality(Events(r, k)) <= Cardinality(Events(q, k) \cup {new})
      BY <2>1, <3>1 DEF SetFacts, FiniteSubsets
    <3> QED BY <2>4, <3>1, <3>2, SMTT(40)
  <2>6. Cardinality(Slots(r, c, k)) <= Cardinality(Slots(q, b, k)) - 1
    <3>1. /\ IsFiniteSet(Slots(q, b, k) \ {slot})
          /\ Cardinality(Slots(q, b, k) \ {slot}) = Cardinality(Slots(q, b, k)) - 1
      BY <2>2, <2>4 DEF SetFacts, FiniteRemove
    <3>2. Cardinality(Slots(r, c, k)) <= Cardinality(Slots(q, b, k) \ {slot})
      BY <2>3, <3>1 DEF SetFacts, FiniteSubsets
    <3> QED BY <3>1, <3>2
  <2>7. Bound \in Nat
    <3>1. MaxBurst * Cardinality(Producer) \in Nat /\ Limit \in Nat
      BY SlotsFinite, TaskRunnerAssumption
    <3> QED BY <3>1, SMTT(40) DEF Bound
  <2>8. Room(q, b, k)
    BY <1>3
  <2> QED BY <2>4, <2>5, <2>6, <2>7, <2>8, SMTT(40) DEF Room
<1>4. CASE k = Len(q) + 1
  <2>1. Events(r, k) = {}
    BY <1>1, <1>4, SMTT(40) DEF Events
  <2>2. Cardinality(Events(r, k)) <= Limit
    BY <2>1, TaskRunnerAssumption, SMTT(40) DEF SetFacts, FiniteEmpty
  <2>3. k \in Nat
    BY <1>1, <1>4, SMTT(40)
  <2> QED BY <1>1, <2>2, <2>3, RoomBelowLimit
<1> QED BY <1>1, <1>3, <1>4, SMTT(40)

\* The first callback is taken.
LEMMA RoomTail ==
    ASSUME SetFacts, NEW q \in Seq(Callback), q # <<>>, NEW b, \A k \in 0 .. Len(q) : Room(q, b, k),
           NEW r, r = Tail(q)
    PROVE  \A k \in 0 .. Len(r) : Room(r, b, k)
<1>1. /\ r \in Seq(Callback) /\ Len(r) = Len(q) - 1 /\ Len(q) \in Nat \ {0}
      /\ \A i \in 1 .. Len(q) - 1 : r[i] = q[i + 1]
  BY SMTT(40)
<1> SUFFICES ASSUME NEW k \in 0 .. Len(r) PROVE Room(r, b, k)
  OBVIOUS
<1>2. k \in Nat /\ k + 1 \in 0 .. Len(q) /\ k + 1 \in Nat /\ (k + 1) + 1 = k + 2
  BY <1>1, SMTT(40)
<1> DEFINE E == Events(r, k)
           F == Events(q, k + 1)
           f == [i \in E |-> i + 1]
<1>3. \A i \in E : i \in k + 1 .. Len(q) - 1 /\ i \in 1 .. Len(q) - 1 /\ r[i].kind = "event" /\ r[i].by \in Producer
  BY <1>1, <1>2, SMTT(40) DEF Events
<1>4. ASSUME NEW i \in E PROVE f[i] \in F
  <2>1. f[i] = i + 1 /\ i + 1 \in (k + 1) + 1 .. Len(q) /\ r[i] = q[i + 1]
    BY <1>1, <1>2, <1>3, SMTT(40)
  <2> QED BY <1>3, <2>1 DEF Events
<1>5. ASSUME NEW j \in F PROVE \E i \in E : f[i] = j
  <2>1. j \in (k + 1) + 1 .. Len(q) /\ q[j].kind = "event" /\ q[j].by \in Producer
    BY DEF Events
  <2>2. j - 1 \in k + 1 .. Len(r) /\ j - 1 \in 1 .. Len(q) - 1 /\ (j - 1) + 1 = j
    BY <1>1, <1>2, <2>1, SMTT(40)
  <2>3. r[j - 1] = q[j]
    BY <1>1, <2>2
  <2>4. j - 1 \in E
    BY <2>1, <2>2, <2>3 DEF Events
  <2> QED BY <2>2, <2>4
<1>6. f \in [E -> F] /\ (\A i, j \in E : f[i] = f[j] => i = j) /\ \A j \in F : \E i \in E : f[i] = j
  <2>1. f \in [E -> F]
    BY <1>4
  <2>2. ASSUME NEW i \in E, NEW j \in E, f[i] = f[j] PROVE i = j
    <3>1. i + 1 = j + 1 /\ i \in Int /\ j \in Int
      BY <1>2, <1>3, <2>2, SMTT(40)
    <3> QED BY <3>1, SMTT(40)
  <2> HIDE DEF f, E, F
  <2> QED BY <1>5, <2>1, <2>2
<1>7. Cardinality(Events(r, k)) = Cardinality(Events(q, k + 1))
  <2>1. IsFiniteSet(E)
    BY <1>1, <1>2, EventsFinite
  <2> HIDE DEF E, F, f
  <2>2. Cardinality(E) = Cardinality(F)
    BY <1>6, <2>1 DEF SetFacts, FiniteImages
  <2> QED BY <2>2 DEF E, F
<1>8. Slots(r, b, k) = Slots(q, b, k + 1)
  <2>1. ASSUME NEW p PROVE (\A i \in k + 1 .. Len(r) : ~ PromiseIn(r, i, p))
                             <=> (\A i \in (k + 1) + 1 .. Len(q) : ~ PromiseIn(q, i, p))
    <3>1. ASSUME NEW i \in k + 1 .. Len(r), PromiseIn(r, i, p)
          PROVE  \E j \in (k + 1) + 1 .. Len(q) : PromiseIn(q, j, p)
      <4>1. i + 1 \in (k + 1) + 1 .. Len(q) /\ r[i] = q[i + 1]
        BY <1>1, <1>2, SMTT(40)
      <4> QED BY <3>1, <4>1 DEF PromiseIn
    <3>2. ASSUME NEW j \in (k + 1) + 1 .. Len(q), PromiseIn(q, j, p)
          PROVE  \E i \in k + 1 .. Len(r) : PromiseIn(r, i, p)
      <4>1. j - 1 \in k + 1 .. Len(r) /\ j - 1 \in 1 .. Len(q) - 1 /\ (j - 1) + 1 = j
        BY <1>1, <1>2, SMTT(40)
      <4>2. r[j - 1] = q[j]
        BY <1>1, <4>1
      <4> QED BY <3>2, <4>1, <4>2 DEF PromiseIn
    <3> QED BY <3>1, <3>2
  <2> QED BY <2>1 DEF Slots
<1>9. Room(q, b, k + 1)
  BY <1>2
<1> QED BY <1>7, <1>8, <1>9 DEF Room

-----------------------------------------------------------------------------
(* The bound of the queue: the steps                                       *)

\* A set of numbers that is not empty has a least element.
LEMMA LeastElement ==
    ASSUME SetFacts, NEW S \in SUBSET Nat, S # {}
    PROVE  \E x \in S : \A y \in S : x <= y
BY DEF SetFacts, LeastNumbers

\* schedule keeps the order of the queue of the scheduler.
LEMMA InsertOrdered ==
    ASSUME SetFacts, NEW q \in Seq(Function), NEW e \in Function, Ordered(q)
    PROVE  Ordered(InsertByTime(q, e))
<1> DEFINE I == {i \in DOMAIN q : q[i].time <= e.time}
           J == {i \in 1 .. Len(q) : ~ (q[i].time <= e.time)}
           n == Cardinality(I)
<1>1. /\ Len(q) \in Nat /\ DOMAIN q = 1 .. Len(q) /\ e.time \in Nat
      /\ \A i \in 1 .. Len(q) : q[i].time \in Nat
  <2>1. \A i \in 1 .. Len(q) : q[i] \in Function
    BY SMTT(40)
  <2>2. \A g \in Function : g.time \in Nat
    BY TaskRunnerAssumption, SMTT(40) DEF Function
  <2> QED BY <2>1, <2>2, SMTT(40)
<1>2. \E m \in 0 .. Len(q) : I = 1 .. m
  <2>1. CASE J = {}
    <3>1. I = 1 .. Len(q)
      BY <1>1, <2>1
    <3> QED BY <1>1, <3>1, SMTT(40)
  <2>2. CASE J # {}
    <3>0. J \in SUBSET Nat
      BY <1>1, SMTT(40)
    <3>1. PICK y \in J : \A z \in J : y <= z
      <4> HIDE DEF J
      <4> QED BY <2>2, <3>0, LeastElement
    <3>2. y \in 1 .. Len(q) /\ ~ (q[y].time <= e.time)
      OBVIOUS
    <3>3. ASSUME NEW i \in 1 .. Len(q), i < y PROVE q[i].time <= e.time
      <4>1. i \notin J
        BY <1>1, <3>1, <3>2, <3>3, SMTT(40)
      <4> QED BY <4>1
    <3>4. ASSUME NEW i \in 1 .. Len(q), i >= y PROVE ~ (q[i].time <= e.time)
      <4>1. q[y].time <= q[i].time
        <5>1. CASE i = y
          BY <1>1, <5>1, SMTT(40)
        <5>2. CASE y < i
          BY <3>2, <5>2 DEF Ordered
        <5> QED BY <1>1, <3>2, <3>4, <5>1, <5>2, SMTT(40)
      <4> QED BY <1>1, <3>2, <4>1, SMTT(40)
    <3>5. I = 1 .. (y - 1)
      <4>1. ASSUME NEW i \in I PROVE i \in 1 .. (y - 1)
        <5>1. i \in 1 .. Len(q) /\ q[i].time <= e.time
          BY <1>1
        <5>2. ~ (i >= y)
          BY <3>4, <5>1
        <5> QED BY <1>1, <3>2, <5>1, <5>2, SMTT(40)
      <4>2. ASSUME NEW i \in 1 .. (y - 1) PROVE i \in I
        <5>1. i \in 1 .. Len(q) /\ i < y
          BY <1>1, <3>2, SMTT(40)
        <5> QED BY <1>1, <3>3, <5>1
      <4> QED BY <4>1, <4>2
    <3>6. y - 1 \in 0 .. Len(q)
      BY <1>1, <3>2, SMTT(40)
    <3> HIDE DEF I, J
    <3> QED BY <3>5, <3>6
  <2> QED BY <2>1, <2>2
<1>3. PICK m \in 0 .. Len(q) : I = 1 .. m
  BY <1>2
<1>4. n = m /\ m \in Nat
  <2>1. m \in Nat
    BY <1>1, SMTT(40)
  <2>2. Cardinality(1 .. m) = IF 1 > m THEN 0 ELSE m - 1 + 1
    BY <2>1, SMTT(40) DEF SetFacts, FiniteIntervals
  <2>3. Cardinality(1 .. m) = m
    BY <2>1, <2>2, SMTT(40)
  <2> QED BY <1>3, <2>1, <2>3
<1> DEFINE r == SubSeq(q, 1, m) \o <<e>> \o SubSeq(q, m + 1, Len(q))
<1>5. InsertByTime(q, e) = r
  BY <1>4 DEF InsertByTime
<1>6. /\ Len(r) = Len(q) + 1
      /\ \A i \in 1 .. m : r[i] = q[i]
      /\ r[m + 1] = e
      /\ \A i \in m + 2 .. Len(q) + 1 : r[i] = q[i - 1]
  <2> DEFINE u == SubSeq(q, 1, m)
             v == SubSeq(q, m + 1, Len(q))
  <2>1. u \in Seq(Function) /\ Len(u) = m /\ \A i \in 1 .. m : u[i] = q[i]
    BY <1>1, <1>4, SMTT(40)
  <2>2. v \in Seq(Function) /\ Len(v) = Len(q) - m /\ \A i \in 1 .. Len(q) - m : v[i] = q[m + i]
    <3>1. v \in Seq(Function)
      BY <1>1, <1>4, SMTT(40)
    <3>2. Len(v) = Len(q) - m
      <4>1. \A i \in m + 1 .. Len(q) : q[i] \in Function
        BY <1>1, <1>4, SMTT(40)
      <4>2. Len(v) = IF m + 1 <= Len(q) THEN Len(q) - (m + 1) + 1 ELSE 0
        BY <1>1, <1>4, <4>1, SMTT(40)
      <4>3. m <= Len(q)
        BY <1>1, SMTT(40)
      <4> HIDE DEF v
      <4>4. CASE m + 1 <= Len(q)
        BY <1>1, <1>4, <4>2, <4>4, SMTT(40)
      <4>5. CASE ~ (m + 1 <= Len(q))
        <5>1. m = Len(q)
          <6>1. m \in Nat /\ Len(q) \in Nat
            BY <1>1, <1>4
          <6> HIDE DEF n, I, J
          <6> QED BY <4>3, <4>5, <6>1, SMTT(40)
        <5>2. Len(v) = 0
          BY <4>2, <4>5
        <5> QED BY <1>1, <5>1, <5>2, SMTT(40)
      <4> QED BY <4>4, <4>5
    <3>3. ASSUME NEW i \in 1 .. Len(q) - m PROVE v[i] = q[m + i]
      BY <1>1, <1>4, SMTT(40)
    <3> QED BY <3>1, <3>2, <3>3
  <2> HIDE DEF u, v
  <2>3. <<e>> \in Seq(Function) /\ Len(<<e>>) = 1 /\ <<e>>[1] = e
    BY SMTT(40)
  <2> DEFINE s == u \o <<e>>
  <2>4. s \in Seq(Function) /\ Len(s) = m + 1 /\ s[m + 1] = e /\ \A i \in 1 .. m : s[i] = q[i]
    BY <1>4, <2>1, <2>3, SMTT(40)
  <2> HIDE DEF s
  <2>5. /\ Len(s \o v) = Len(q) + 1
        /\ \A i \in 1 .. m + 1 : (s \o v)[i] = s[i]
        /\ \A i \in m + 2 .. Len(q) + 1 : (s \o v)[i] = v[i - (m + 1)]
    BY <1>1, <1>4, <2>2, <2>4, SMTT(40)
  <2>6. \A i \in m + 2 .. Len(q) + 1 : v[i - (m + 1)] = q[i - 1]
    <3> SUFFICES ASSUME NEW i \in m + 2 .. Len(q) + 1 PROVE v[i - (m + 1)] = q[i - 1]
      OBVIOUS
    <3>1. i - (m + 1) \in 1 .. Len(q) - m /\ m + (i - (m + 1)) = i - 1
      BY <1>1, <1>4, SMTT(40)
    <3> QED BY <2>2, <3>1
  <2>7. r = s \o v
    BY DEF u, v, s
  <2>8. m + 1 \in 1 .. m + 1 /\ \A i \in 1 .. m : i \in 1 .. m + 1
    BY <1>4, SMTT(40)
  <2> HIDE DEF r
  <2> QED BY <2>4, <2>5, <2>6, <2>7, <2>8
<1>7. \A i \in 1 .. m : q[i].time <= e.time
  BY <1>3
<1>8. \A i \in m + 1 .. Len(q) : e.time <= q[i].time
  <2> SUFFICES ASSUME NEW i \in m + 1 .. Len(q) PROVE e.time <= q[i].time
    OBVIOUS
  <2>1. i \notin 1 .. m /\ i \in 1 .. Len(q)
    BY <1>1, <1>4, SMTT(40)
  <2>2. ~ (q[i].time <= e.time)
    BY <1>1, <1>3, <2>1
  <2> QED BY <1>1, <2>1, <2>2, SMTT(40)
<1> HIDE DEF r, I, J, n
<1>9. ASSUME NEW i \in 1 .. Len(q) + 1, NEW j \in 1 .. Len(q) + 1, i < j PROVE r[i].time <= r[j].time
  <2>1. CASE j <= m
    <3>1. i \in 1 .. m /\ j \in 1 .. m /\ i \in 1 .. Len(q) /\ j \in 1 .. Len(q)
      BY <1>1, <1>4, <1>9, <2>1, SMTT(40)
    <3> QED BY <1>6, <1>9, <3>1 DEF Ordered
  <2>2. CASE j = m + 1
    <3>1. i \in 1 .. m
      BY <1>1, <1>4, <1>9, <2>2, SMTT(40)
    <3> QED BY <1>6, <1>7, <2>2, <3>1
  <2>3. CASE j > m + 1 /\ i <= m
    <3>1. i \in 1 .. m /\ j \in m + 2 .. Len(q) + 1 /\ j - 1 \in m + 1 .. Len(q) /\ i \in 1 .. Len(q) /\ j - 1 \in 1 .. Len(q)
      BY <1>1, <1>4, <1>9, <2>3, SMTT(40)
    <3>2. q[i].time <= e.time /\ e.time <= q[j - 1].time /\ r[i] = q[i] /\ r[j] = q[j - 1]
      BY <1>6, <1>7, <1>8, <3>1
    <3> QED BY <1>1, <3>1, <3>2, SMTT(40)
  <2>4. CASE j > m + 1 /\ i = m + 1
    <3>1. j \in m + 2 .. Len(q) + 1 /\ j - 1 \in m + 1 .. Len(q)
      BY <1>1, <1>4, <1>9, <2>4, SMTT(40)
    <3> QED BY <1>6, <1>8, <2>4, <3>1
  <2>5. CASE j > m + 1 /\ i > m + 1
    <3>1. /\ i \in m + 2 .. Len(q) + 1 /\ j \in m + 2 .. Len(q) + 1
          /\ i - 1 \in 1 .. Len(q) /\ j - 1 \in 1 .. Len(q) /\ i - 1 < j - 1
      BY <1>1, <1>4, <1>9, <2>5, SMTT(40)
    <3> QED BY <1>6, <3>1 DEF Ordered
  <2> QED BY <1>1, <1>4, <1>9, <2>1, <2>2, <2>3, <2>4, <2>5, SMTT(40)
<1> QED BY <1>5, <1>6, <1>9 DEF Ordered

\* Where the threads are after a thread moved and perhaps woke another.
LEMMA Moved ==
    ASSUME IInv, NEW t \in Thread, NEW label \in PC,
           pc' = [pc EXCEPT ![t] = label] \/ pc' \in NotifyOne([pc EXCEPT ![t] = label])
    PROVE  /\ \A u \in Runner : pc'[u] = "callback" => pc[u] = "callback" \/ (u = t /\ label = "callback")
           /\ \A p \in Producer : pc'[p] = IF p = t THEN label ELSE pc[p]
<1> DEFINE pcs == [pc EXCEPT ![t] = label]
<1>1. pcs \in [Thread -> PC] /\ pc \in [Thread -> PC]
  BY DEF IInv, Types
<1>2. \A u \in Thread : pc'[u] # pcs[u] => u \in Waiting /\ pc'[u] \in {"lock", "woken"}
  <2>1. CASE pc' = pcs
    BY <1>1, <2>1
  <2>2. CASE pc' \in NotifyOne(pcs)
    BY <1>1, <2>2, NotifyOneLemma
  <2> QED BY <2>1, <2>2
<1>3. \A u \in Thread : pcs[u] = IF u = t THEN label ELSE pc[u]
  BY <1>1
<1>4. Waiting \cap Producer = {}
  BY Threads DEF Waiting, Runner
<1> HIDE DEF pcs
<1>5. ASSUME NEW u \in Runner, pc'[u] = "callback" PROVE pc[u] = "callback" \/ (u = t /\ label = "callback")
  BY <1>2, <1>3, <1>5, Threads
<1>6. ASSUME NEW p \in Producer PROVE pc'[p] = IF p = t THEN label ELSE pc[p]
  BY <1>2, <1>3, <1>4, Threads
<1> QED BY <1>5, <1>6

\* A step that touches neither the queue nor a promise nor a burst.
LEMMA QuietBound ==
    ASSUME BInv, OtherTypes', UNCHANGED <<m_callbacks_pending, awaiting, burst>>,
           \A u \in Runner : pc'[u] = "callback" => pc[u] = "callback" /\ callback'[u] = callback[u],
           \A p \in Producer : p \in awaiting => pc'[p] \in Limiting
    PROVE  BInv'
<1>1. ASSUME NEW p \in Producer PROVE PromiseOK(p)'
  <2>1. PromiseOK(p)
    BY DEF BInv
  <2> QED BY <2>1 DEF PromiseOK
<1>2. (\A k \in 0 .. Len(m_callbacks_pending) : Room(m_callbacks_pending, burst, k))'
  BY DEF BInv
<1> QED BY <1>1, <1>2 DEF BInv

\* The same for a thread that moves on.
LEMMA MoveBound ==
    ASSUME IInv, BInv, OtherTypes', UNCHANGED <<m_callbacks_pending, callback, awaiting, burst>>,
           NEW t \in Thread, NEW label \in PC \ {"callback"},
           pc' = [pc EXCEPT ![t] = label] \/ pc' \in NotifyOne([pc EXCEPT ![t] = label]),
           t \in Producer /\ t \in awaiting => label \in Limiting
    PROVE  BInv'
<1>1. /\ \A u \in Runner : pc'[u] = "callback" => pc[u] = "callback"
      /\ \A p \in Producer : pc'[p] = IF p = t THEN label ELSE pc[p]
  BY Moved
<1>2. \A p \in Producer : p \in awaiting => pc'[p] \in Limiting
  BY <1>1 DEF BInv, PromiseOK
<1> QED BY <1>1, <1>2, QuietBound

\* A thread that does not wait in its promise inserts a callback.
LEMMA InsertBound ==
    ASSUME IInv, BInv, OtherTypes', NEW t \in Thread, NEW cb \in Callback, Insert(t, cb),
           UNCHANGED callback,
           cb.kind = "promise" => cb.by = t /\ awaiting' = awaiting \cup {t} /\ t \notin awaiting,
           cb.kind = "event" => UNCHANGED awaiting,
           (\A k \in 0 .. Len(m_callbacks_pending) : Room(m_callbacks_pending, burst, k))'
    PROVE  BInv'
<1> DEFINE q == m_callbacks_pending
           r == m_callbacks_pending'
<1>1. q \in Seq(Callback) /\ r = Append(q, cb)
  BY DEF IInv, Types, Insert
<1>2. /\ Len(r) = Len(q) + 1 /\ Len(q) \in Nat /\ r[Len(q) + 1] = cb
      /\ \A i \in 1 .. Len(q) : r[i] = q[i]
  BY <1>1, SMTT(40)
<1> HIDE DEF q, r
<1>3. /\ \A u \in Runner : pc'[u] = "callback" => pc[u] = "callback"
      /\ \A p \in Producer : pc'[p] = IF p = t THEN "maybe" ELSE pc[p]
  <2>1. pc' = [pc EXCEPT ![t] = "maybe"] /\ "maybe" \in PC
    BY DEF Insert, Goto, PC
  <2> QED BY <2>1, Moved
<1>4. cb.kind \in {"event", "promise"}
  BY DEF Callback
<1>5. awaiting \subseteq awaiting' /\ \A p \in awaiting' : p \in awaiting \/ p = t
  BY <1>4
<1>6. ASSUME NEW p \in Producer PROVE PromiseOK(p)'
  <2>1. PromiseOK(p)
    BY DEF BInv
  <2>2. ASSUME NEW i \in 1 .. Len(r) PROVE i \in 1 .. Len(q) \/ i = Len(q) + 1
    BY <1>2, SMTT(40)
  <2>3. ASSUME NEW i \in 1 .. Len(r), PromiseIn(r, i, p), i = Len(q) + 1
        PROVE  p = t /\ p \in awaiting' /\ p \notin awaiting
    BY <1>2, <2>3 DEF PromiseIn
  <2>4. ASSUME NEW i \in 1 .. Len(r), PromiseIn(r, i, p), i \in 1 .. Len(q)
        PROVE  p \in awaiting /\ PromiseIn(q, i, p)
    BY <1>2, <2>1, <2>4 DEF PromiseIn, PromiseOK, q
  <2>5. p \in awaiting' => pc'[p] \in Limiting
    BY <1>3, <1>5, <2>1 DEF PromiseOK, Limiting
  <2>6. \A i \in 1 .. Len(r) : PromiseIn(r, i, p) => p \in awaiting'
    BY <1>5, <2>2, <2>3, <2>4
  <2>7. \A i, j \in 1 .. Len(r) : PromiseIn(r, i, p) /\ PromiseIn(r, j, p) => i = j
    <3>1. \A i, j \in 1 .. Len(q) : PromiseIn(q, i, p) /\ PromiseIn(q, j, p) => i = j
      BY <2>1 DEF PromiseOK, q
    <3> QED BY <2>2, <2>3, <2>4, <3>1
  <2>8. ASSUME NEW u \in Runner, pc'[u] = "callback", callback'[u].kind = "promise", callback'[u].by = p,
               NEW i \in 1 .. Len(r), PromiseIn(r, i, p)
        PROVE  FALSE
    <3>1. pc[u] = "callback" /\ callback[u].kind = "promise" /\ callback[u].by = p
      BY <1>3, <2>8
    <3>2. CASE i \in 1 .. Len(q)
      BY <2>1, <2>4, <2>8, <3>1, <3>2 DEF PromiseOK, q
    <3>3. CASE i = Len(q) + 1
      <4>1. p = t /\ p \notin awaiting
        BY <2>3, <2>8, <3>3
      <4> QED BY <2>1, <3>1, <4>1 DEF PromiseOK
    <3> QED BY <2>2, <3>2, <3>3
  <2>9. ASSUME NEW u \in Runner, pc'[u] = "callback", callback'[u].kind = "promise", callback'[u].by = p
        PROVE  p \in awaiting'
    BY <1>3, <1>5, <2>1, <2>9 DEF PromiseOK
  <2> QED BY <2>5, <2>6, <2>7, <2>8, <2>9 DEF PromiseOK, r
<1> QED BY <1>6 DEF BInv

\* The members that only the types are said of keep them.
LEMMA OtherTypesStep ==
    ASSUME SetFacts, IInv, OtherTypes, [Next]_vars
    PROVE  OtherTypes'
<1> USE DEF OtherTypes
<1>1. Types /\ Len(taskQueue) \in Nat
  BY SMTT(40) DEF IInv, Types
<1>2. CASE Tick \/ UNCHANGED vars
  BY <1>2 DEF Tick, vars, scheduler, client
<1>3. ASSUME NEW t \in Thread, RunnerStep(t) PROVE OtherTypes'
  <2>1. CASE MaybeScheduleProcessQueue(t) \/ notify(t) \/ ProcessQueue(t) \/ Synced(t) \/ CallbackDone(t)
    BY <2>1 DEF MaybeScheduleProcessQueue, notify, ProcessQueue, Synced, CallbackDone, scheduler, client
  <2>2. CASE schedule(t)
    <3> DEFINE e == [time |-> clock, f |-> "ProcessQueue"]
    <3>1. e \in Function /\ taskQueue \in Seq(Function)
      BY <1>1 DEF Function, Types
    <3>2. taskQueue' = InsertByTime(taskQueue, e)
      BY <2>2 DEF schedule
    <3> HIDE DEF e
    <3>3. Ordered(taskQueue)'
      BY <3>1, <3>2, InsertOrdered
    <3>4. UNCHANGED <<stopRequested, stopWhenEmpty, timeToWaitFor, awaiting, burst, emitted>>
      BY <2>2 DEF schedule, client
    <3> QED BY <3>3, <3>4
  <2>3. CASE RunCallback(t)
    <3>1. UNCHANGED <<stopRequested, stopWhenEmpty, taskQueue, timeToWaitFor, burst, emitted>> /\ awaiting' \subseteq awaiting
      BY <2>3 DEF RunCallback, scheduler
    <3> QED BY <3>1
  <2>4. CASE LimitInCallback(t)
    <3>1. UNCHANGED <<stopRequested, stopWhenEmpty, taskQueue, timeToWaitFor, burst, emitted>> /\ awaiting' \subseteq awaiting \cup {t}
      BY <2>4 DEF LimitInCallback, scheduler
    <3> QED BY <3>1
  <2> QED BY <1>3, <2>1, <2>2, <2>3, <2>4 DEF RunnerStep
<1>4. ASSUME NEW w \in Worker, WorkerStep(w) \/ SpuriousWakeup(w) PROVE OtherTypes'
  <2>1. CASE serviceQueue(w)
    <3>1. UNCHANGED <<stopRequested, stopWhenEmpty, taskQueue, awaiting, burst, emitted>>
      BY <2>1 DEF serviceQueue, scheduler, client
    <3>2. timeToWaitFor' \in [Worker -> 0..MaxClock]
      <4>1. CASE UNCHANGED timeToWaitFor
        BY <4>1
      <4>2. CASE taskQueue # <<>> /\ timeToWaitFor' = [timeToWaitFor EXCEPT ![w] = Head(taskQueue).time]
        <5>1. Head(taskQueue) \in Function
          BY <1>1, <4>2, SMTT(40) DEF Types
        <5>2. Head(taskQueue).time \in 0..MaxClock
          BY <5>1 DEF Function
        <5> QED BY <4>2, <5>2
      <4> QED BY <2>1, <4>1, <4>2 DEF serviceQueue
    <3> QED BY <3>1, <3>2
  <2>2. CASE Timeout(w) \/ TimerDone(w) \/ SpuriousWakeup(w)
    BY <2>2 DEF Timeout, TimerDone, SpuriousWakeup, scheduler, client
  <2>3. CASE TakeTask(w)
    <3>1. UNCHANGED <<stopRequested, stopWhenEmpty, timeToWaitFor, awaiting, burst, emitted>>
      BY <2>3 DEF TakeTask, client
    <3>2. Ordered(taskQueue)'
      <4>1. CASE UNCHANGED taskQueue
        BY <4>1
      <4>2. CASE taskQueue # <<>> /\ taskQueue' = Tail(taskQueue)
        <5>1. /\ Len(taskQueue') = Len(taskQueue) - 1
              /\ \A i \in 1 .. Len(taskQueue) - 1 : taskQueue'[i] = taskQueue[i + 1]
          BY <1>1, <4>2, SMTT(40) DEF Types
        <5>2. ASSUME NEW i \in 1 .. Len(taskQueue) - 1, NEW j \in 1 .. Len(taskQueue) - 1, i < j
              PROVE  taskQueue'[i].time <= taskQueue'[j].time
          <6>1. i + 1 \in 1 .. Len(taskQueue) /\ j + 1 \in 1 .. Len(taskQueue) /\ i + 1 < j + 1
            BY <1>1, <5>2, SMTT(40)
          <6> QED BY <5>1, <6>1 DEF Ordered
        <5> QED BY <5>1, <5>2 DEF Ordered
      <4> QED BY <2>3, <4>1, <4>2 DEF TakeTask
    <3> QED BY <3>1, <3>2
  <2> QED BY <1>3, <1>4, <2>1, <2>2, <2>3 DEF WorkerStep, Thread
<1>5. ASSUME NEW p \in Producer, ProducerStep(p) PROVE OtherTypes'
  <2>1. CASE LimitQueue(p)
    <3>1. UNCHANGED <<stopRequested, stopWhenEmpty, taskQueue, timeToWaitFor>> /\ awaiting' \subseteq awaiting \cup {p}
      BY <2>1 DEF LimitQueue, scheduler
    <3>2. PICK n \in 1..MaxBurst : /\ emitted + n <= MaxTask /\ emitted' = emitted + n
                                   /\ burst' = [burst EXCEPT ![p] = n]
      BY <2>1 DEF LimitQueue
    <3>3. emitted' \in 0..MaxTask /\ n \in 0..MaxBurst
      BY <3>2, TaskRunnerAssumption, SMTT(40)
    <3>4. burst' \in [Producer -> 0..MaxBurst]
      BY <3>2, <3>3
    <3> QED BY <3>1, <3>3, <3>4, Threads
  <2>2. CASE Enqueue(p)
    <3>1. UNCHANGED <<stopRequested, stopWhenEmpty, taskQueue, timeToWaitFor, awaiting, emitted>>
      BY <2>2 DEF Enqueue, scheduler
    <3>2. burst' \in [Producer -> 0..MaxBurst]
      <4>1. CASE UNCHANGED burst
        BY <4>1
      <4>2. CASE burst[p] > 0 /\ burst' = [burst EXCEPT ![p] = @ - 1]
        <5>1. burst[p] - 1 \in 0..MaxBurst
          BY <4>2, TaskRunnerAssumption, SMTT(40)
        <5> QED BY <4>2, <5>1
      <4> QED BY <2>2, <4>1, <4>2 DEF Enqueue
    <3> QED BY <3>1, <3>2
  <2> QED BY <1>3, <1>5, <2>1, <2>2 DEF ProducerStep, Thread
<1>6. CASE MainStep
  <2>1. CASE Stop
    BY <2>1 DEF Stop, client
  <2>2. CASE NotifyAll \/ Join \/ Flush
    BY <2>2 DEF NotifyAll, Join, Flush, scheduler, client
  <2> QED BY <1>3, <1>6, <2>1, <2>2 DEF MainStep, Thread
<1> QED BY <1>2, <1>4, <1>5, <1>6 DEF Next

\* The first callback is taken from the queue and begins.
LEMMA ProcessQueueBound ==
    ASSUME SetFacts, IInv, BInv, OtherTypes', NEW t \in Thread, ProcessQueue(t), MayProcess
    PROVE  BInv'
<1> DEFINE q == m_callbacks_pending
           r == m_callbacks_pending'
<1>1. /\ q \in Seq(Callback) /\ q # <<>> /\ r = Tail(q) /\ UNCHANGED <<burst, awaiting>>
      /\ pc' = [pc EXCEPT ![t] = "callback"] /\ "callback" \in PC
      /\ callback' = [callback EXCEPT ![t] = Head(q)]
  BY DEF IInv, Types, ProcessQueue, MayProcess, Goto, PC, client
<1>2. /\ Len(r) = Len(q) - 1 /\ Len(q) \in Nat \ {0} /\ Head(q) = q[1]
      /\ \A i \in 1 .. Len(q) - 1 : r[i] = q[i + 1]
  BY <1>1, SMTT(40)
<1>3. t \in Runner
  <2>1. pc[t] = "ProcessQueue"
    BY DEF ProcessQueue
  <2> QED BY <2>1, Threads DEF IInv, Limiting
<1>4. /\ \A u \in Runner : pc'[u] = "callback" => pc[u] = "callback" \/ u = t
      /\ \A p \in Producer : pc'[p] = pc[p]
  BY <1>1, <1>3, Moved, Threads, SMTT(40)
<1>5. callback'[t] = q[1] /\ \A u \in Runner \ {t} : callback'[u] = callback[u]
  BY <1>1, <1>2, <1>3 DEF IInv, Types
<1>6. \A k \in 0 .. Len(r) : Room(r, burst', k)
  <2>1. \A k \in 0 .. Len(q) : Room(q, burst, k)
    BY DEF BInv
  <2> HIDE DEF q, r
  <2> QED BY <1>1, <2>1, RoomTail
<1> HIDE DEF q, r
<1>7. ASSUME NEW i \in 1 .. Len(r) PROVE i + 1 \in 1 .. Len(q) /\ i + 1 # 1 /\ r[i] = q[i + 1]
  BY <1>2, SMTT(40)
<1>8. ASSUME NEW p \in Producer PROVE PromiseOK(p)'
  <2>1. PromiseOK(p)
    BY DEF BInv
  <2>2. /\ \A i \in 1 .. Len(q) : PromiseIn(q, i, p) => p \in awaiting
        /\ \A i, j \in 1 .. Len(q) : PromiseIn(q, i, p) /\ PromiseIn(q, j, p) => i = j
    BY <2>1 DEF PromiseOK, q
  <2>3. ASSUME NEW i \in 1 .. Len(r), PromiseIn(r, i, p) PROVE PromiseIn(q, i + 1, p)
    BY <1>7, <2>3 DEF PromiseIn
  <2>4. p \in awaiting' => pc'[p] \in Limiting
    BY <1>1, <1>4, <2>1 DEF PromiseOK
  <2>5. \A i \in 1 .. Len(r) : PromiseIn(r, i, p) => p \in awaiting'
    BY <1>1, <1>7, <2>2, <2>3
  <2>6. ASSUME NEW i \in 1 .. Len(r), NEW j \in 1 .. Len(r), PromiseIn(r, i, p), PromiseIn(r, j, p) PROVE i = j
    <3>1. i + 1 = j + 1
      BY <1>7, <2>2, <2>3, <2>6
    <3> QED BY <1>2, <3>1, SMTT(40)
  <2>7. ASSUME NEW u \in Runner, pc'[u] = "callback", callback'[u].kind = "promise", callback'[u].by = p
        PROVE  p \in awaiting' /\ \A i \in 1 .. Len(r) : ~ PromiseIn(r, i, p)
    <3>1. CASE u = t
      <4>1. 1 \in 1 .. Len(q) /\ PromiseIn(q, 1, p)
        BY <1>2, <1>5, <2>7, <3>1, SMTT(40) DEF PromiseIn
      <4>2. p \in awaiting
        BY <2>2, <4>1
      <4>3. ASSUME NEW i \in 1 .. Len(r), PromiseIn(r, i, p) PROVE FALSE
        BY <1>7, <2>2, <2>3, <4>1, <4>3
      <4> QED BY <1>1, <4>2, <4>3
    <3>2. CASE u # t
      <4>1. pc[u] = "callback" /\ callback[u].kind = "promise" /\ callback[u].by = p
        BY <1>4, <1>5, <2>7, <3>2
      <4>2. p \in awaiting /\ \A i \in 1 .. Len(q) : ~ PromiseIn(q, i, p)
        BY <2>1, <4>1 DEF PromiseOK, q
      <4> QED BY <1>1, <1>7, <2>3, <4>2
    <3> QED BY <3>1, <3>2
  <2> QED BY <2>4, <2>5, <2>6, <2>7 DEF PromiseOK, r
<1> QED BY <1>6, <1>8 DEF BInv, r

\* A callback returns; a promise is fulfilled.
LEMMA RunCallbackBound ==
    ASSUME IInv, BInv, OtherTypes', NEW t \in Runner, RunCallback(t)
    PROVE  BInv'
<1>1. /\ pc[t] = "callback" /\ UNCHANGED <<m_callbacks_pending, callback, burst>>
      /\ awaiting' = IF callback[t].kind = "promise" THEN awaiting \ {callback[t].by} ELSE awaiting
      /\ pc' = [pc EXCEPT ![t] = "raii"] /\ "raii" \in PC /\ t \in Thread
  BY Threads DEF RunCallback, Goto, PC, runner
<1>2. /\ \A u \in Runner : pc'[u] = "callback" => pc[u] = "callback"
      /\ \A p \in Producer : pc'[p] = pc[p]
      /\ pc'[t] = "raii"
  <2>1. pc'[t] = "raii"
    BY <1>1 DEF IInv, Types
  <2> QED BY <1>1, <2>1, Moved, Threads, SMTT(40)
<1>3. \A u \in Runner : pc[u] = "callback" => u = t
  <2>1. \A u \in Runner : pc[u] = "callback" => u \in Running
    BY DEF IInv, AtOK, Running, Runner
  <2> QED BY <1>1, <2>1 DEF IInv, RunningFlagExact
<1>4. \A u \in Runner : pc'[u] # "callback"
  BY <1>2, <1>3
<1>5. ASSUME NEW p \in Producer PROVE PromiseOK(p)'
  <2>1. PromiseOK(p)
    BY DEF BInv
  <2>2. p \in awaiting' => p \in awaiting
    BY <1>1
  <2>3. ASSUME NEW i \in 1 .. Len(m_callbacks_pending), PromiseIn(m_callbacks_pending, i, p)
        PROVE  p \in awaiting'
    <3>1. p \in awaiting
      BY <2>1, <2>3 DEF PromiseOK
    <3>2. ~ (callback[t].kind = "promise" /\ callback[t].by = p)
      BY <1>1, <2>1, <2>3 DEF PromiseOK
    <3> QED BY <1>1, <3>1, <3>2
  <2>4. p \in awaiting' => pc'[p] \in Limiting
    BY <1>2, <2>1, <2>2 DEF PromiseOK
  <2>5. \A i, j \in 1 .. Len(m_callbacks_pending) :
            PromiseIn(m_callbacks_pending, i, p) /\ PromiseIn(m_callbacks_pending, j, p) => i = j
    BY <2>1 DEF PromiseOK
  <2> QED BY <1>1, <1>4, <2>3, <2>4, <2>5 DEF PromiseOK
<1>6. (\A k \in 0 .. Len(m_callbacks_pending) : Room(m_callbacks_pending, burst, k))'
  BY <1>1 DEF BInv
<1> QED BY <1>5, <1>6 DEF BInv

\* The destructor of RAIICallbacksRunning.
LEMMA CallbackDoneBound ==
    ASSUME IInv, BInv, OtherTypes', NEW t \in Runner, CallbackDone(t)
    PROVE  BInv'
<1>1. /\ UNCHANGED <<m_callbacks_pending, awaiting, burst>> /\ t \in Thread
      /\ callback' = [callback EXCEPT ![t] = NoTask]
      /\ pc' = [pc EXCEPT ![t] = "maybe"] /\ "maybe" \in PC
  BY Threads DEF CallbackDone, AfterCallback, Goto, PC, client
<1>2. /\ \A u \in Runner : pc'[u] = "callback" => pc[u] = "callback"
      /\ \A p \in Producer : pc'[p] = pc[p]
  BY <1>1, Moved, Threads, SMTT(40)
<1>3. pc'[t] = "maybe" /\ \A u \in Runner \ {t} : callback'[u] = callback[u]
  BY <1>1 DEF IInv, Types
<1>4. \A p \in Producer : p \in awaiting => pc'[p] \in Limiting
  BY <1>2 DEF BInv, PromiseOK
<1> QED BY <1>1, <1>2, <1>3, <1>4, QuietBound

\* LimitValidationInterfaceQueue looks at the queue, and waits when it is too long.
LEMMA LimitQueueBound ==
    ASSUME SetFacts, IInv, BInv, OtherTypes', NEW p \in Producer, LimitQueue(p)
    PROVE  BInv'
<1> DEFINE q == m_callbacks_pending
<1>1. /\ q \in Seq(Callback) /\ p \in Thread /\ Len(q) \in Nat /\ pc[p] = "idle"
      /\ UNCHANGED callback /\ pc \in [Thread -> PC] /\ burst \in [Producer -> 0..MaxBurst]
  BY Threads, SMTT(40) DEF IInv, Types, LimitQueue, BInv, OtherTypes
<1>2. \A u \in Producer \ {p} : burst'[u] = burst[u]
  BY <1>1 DEF LimitQueue
<1>3. p \notin awaiting
  BY <1>1 DEF BInv, PromiseOK, Limiting
<1>4. CASE ~ QueueTooLong
  <2>1. UNCHANGED <<m_callbacks_pending, awaiting>> /\ pc' = [pc EXCEPT ![p] = "burst"]
    BY <1>4 DEF LimitQueue, Goto
  <2>2. Len(q) <= Limit /\ Limit \in Nat
    BY <1>1, <1>4, TaskRunnerAssumption, SMTT(40) DEF QueueTooLong
  <2>3. \A k \in 0 .. Len(q) : Room(q, burst', k)
    <3> SUFFICES ASSUME NEW k \in 0 .. Len(q) PROVE Room(q, burst', k)
      OBVIOUS
    <3>1. k \in Nat
      BY SMTT(40)
    <3>2. Cardinality(Events(q, k)) \in Nat /\ Cardinality(Events(q, k)) <= Len(q)
      BY <1>1, <3>1, EventsFinite
    <3>3. Cardinality(Events(q, k)) <= Limit
      BY <1>1, <2>2, <3>2, SMTT(40)
    <3> QED BY <1>1, <3>1, <3>3, RoomBelowLimit
  <2>4. /\ \A u \in Runner : pc'[u] = pc[u]
        /\ \A u \in Producer \ {p} : pc'[u] = pc[u]
    BY <1>1, <2>1, Threads
  <2>5. ASSUME NEW u \in Producer PROVE PromiseOK(u)'
    <3>1. PromiseOK(u)
      BY DEF BInv
    <3>2. u \in awaiting => u # p
      BY <1>3
    <3> QED BY <1>1, <2>1, <2>4, <3>1, <3>2 DEF PromiseOK
  <2> QED BY <2>1, <2>3, <2>5 DEF BInv
<1>5. CASE QueueTooLong
  <2> DEFINE cb == [kind |-> "promise", by |-> p]
  <2>1. cb \in Callback /\ cb.kind = "promise" /\ cb.by = p /\ cb.kind # "event"
    BY <1>1 DEF Callback
  <2>2. Insert(p, cb) /\ awaiting' = awaiting \cup {p}
    BY <1>5 DEF LimitQueue
  <2> HIDE DEF cb
  <2>3. m_callbacks_pending' = Append(q, cb)
    BY <2>2 DEF Insert
  <2>4. \A u \in Producer : burst'[u] = burst[u] \/ (cb.kind = "promise" /\ cb.by = u)
    BY <1>2, <2>1
  <2>5. \A k \in 0 .. Len(q) : Room(q, burst, k)
    BY DEF BInv
  <2>6. (\A k \in 0 .. Len(m_callbacks_pending) : Room(m_callbacks_pending, burst, k))'
    <3> HIDE DEF q
    <3> QED BY <1>1, <2>1, <2>3, <2>4, <2>5, RoomAppend
  <2> QED BY <1>1, <1>3, <2>1, <2>2, <2>6, InsertBound
<1> QED BY <1>4, <1>5

\* A producer emits an event, or its burst is over.
LEMMA EnqueueBound ==
    ASSUME SetFacts, IInv, BInv, OtherTypes', NEW p \in Producer, Enqueue(p)
    PROVE  BInv'
<1> DEFINE q == m_callbacks_pending
<1>1. /\ q \in Seq(Callback) /\ p \in Thread /\ Len(q) \in Nat /\ pc[p] = "burst"
      /\ UNCHANGED <<callback, awaiting>> /\ burst \in [Producer -> 0..MaxBurst]
  BY Threads, SMTT(40) DEF IInv, Types, Enqueue, BInv, OtherTypes
<1>2. p \notin awaiting
  BY <1>1 DEF BInv, PromiseOK, Limiting
<1>3. CASE burst[p] > 0
  <2> DEFINE cb == [kind |-> "event", by |-> p]
  <2>1. cb \in Callback /\ cb.kind = "event" /\ cb.by = p /\ cb.kind # "promise"
    BY <1>1 DEF Callback
  <2>2. Insert(p, cb) /\ burst' = [burst EXCEPT ![p] = @ - 1]
    <3>1. burst[p] # 0
      BY <1>3, SMTT(40)
    <3> QED BY <3>1 DEF Enqueue
  <2> HIDE DEF cb
  <2>3. m_callbacks_pending' = Append(q, cb)
    BY <2>2 DEF Insert
  <2>4. \A i \in 1 .. Len(q) : ~ PromiseIn(q, i, p)
    BY <1>2 DEF BInv, PromiseOK
  <2>5. \A k \in 0 .. Len(q) : Room(q, burst, k)
    BY DEF BInv
  <2>6. (\A k \in 0 .. Len(m_callbacks_pending) : Room(m_callbacks_pending, burst, k))'
    <3> HIDE DEF q
    <3> QED BY <1>1, <1>3, <2>1, <2>2, <2>3, <2>4, <2>5, RoomEvent
  <2> QED BY <1>1, <2>1, <2>2, <2>6, InsertBound
<1>4. CASE ~ (burst[p] > 0)
  <2>1. UNCHANGED <<m_callbacks_pending, burst>> /\ pc' = [pc EXCEPT ![p] = "idle"] /\ "idle" \in PC \ {"callback"}
    BY <1>4 DEF Enqueue, Goto, PC
  <2> QED BY <1>1, <1>2, <2>1, MoveBound
<1> QED BY <1>3, <1>4

\* A thread that services the queue, or the one that stops the scheduler, inserts a callback.
LEMMA RunnerInsertBound ==
    ASSUME SetFacts, IInv, BInv, OtherTypes', NEW t \in Runner, NEW cb \in Callback, cb.by = t, Insert(t, cb),
           UNCHANGED <<callback, burst>>,
           cb.kind = "promise" => awaiting' = awaiting \cup {t} /\ t \notin awaiting,
           cb.kind = "event" => UNCHANGED awaiting
    PROVE  BInv'
<1> DEFINE q == m_callbacks_pending
<1>1. q \in Seq(Callback) /\ t \in Thread /\ cb.by \notin Producer
  BY Threads DEF IInv, Types
<1>2. m_callbacks_pending' = Append(q, cb) /\ burst' = burst
  BY DEF Insert
<1>3. \A k \in 0 .. Len(q) : Room(q, burst, k)
  BY DEF BInv
<1>4. (\A k \in 0 .. Len(m_callbacks_pending) : Room(m_callbacks_pending, burst, k))'
  <2> HIDE DEF q
  <2> QED BY <1>1, <1>2, <1>3, RoomAppend
<1> QED BY <1>1, <1>4, InsertBound

\* Init establishes the invariant of the bound.
LEMMA InitBound ==
    ASSUME SetFacts
    PROVE  Init => BInv
<1> SUFFICES ASSUME Init PROVE BInv
  OBVIOUS
<1>1. OtherTypes
  <2>1. Ordered(taskQueue)
    <3> DEFINE e == [time |-> MaxClock, f |-> "timer"]
    <3>1. taskQueue \in {<<>>, <<e>>}
      BY DEF Init
    <3> HIDE DEF e
    <3>2. Len(taskQueue) \in {0, 1}
      BY <3>1, SMTT(40)
    <3>3. ASSUME NEW i \in 1 .. Len(taskQueue), NEW j \in 1 .. Len(taskQueue) PROVE ~ (i < j)
      <4>1. CASE Len(taskQueue) = 0
        BY <4>1, SMTT(40)
      <4>2. CASE Len(taskQueue) = 1
        BY <4>2, SMTT(40)
      <4> QED BY <3>2, <4>1, <4>2
    <3> QED BY <3>3 DEF Ordered
  <2>2. /\ stopRequested \in BOOLEAN /\ stopWhenEmpty \in BOOLEAN
        /\ awaiting \subseteq Thread /\ emitted \in 0..MaxTask
    <3>1. stopRequested = FALSE /\ stopWhenEmpty = FALSE /\ awaiting = {} /\ emitted = 0
      BY DEF Init
    <3>2. 0 \in 0..MaxTask
      BY TaskRunnerAssumption, SMTT(40)
    <3> QED BY <3>1, <3>2
  <2>3. timeToWaitFor \in [Worker -> 0..MaxClock] /\ burst \in [Producer -> 0..MaxBurst]
    BY TaskRunnerAssumption, SMTT(40) DEF Init
  <2> QED BY <2>1, <2>2, <2>3 DEF OtherTypes
<1>2. m_callbacks_pending = <<>> /\ awaiting = {} /\ Len(m_callbacks_pending) = 0
  BY DEF Init
<1>3. \A t \in Runner : pc[t] # "callback"
  BY Threads, TaskRunnerAssumption DEF Init, Runner
<1>4. \A p \in Producer : PromiseOK(p)
  BY <1>2, <1>3, SMTT(40) DEF PromiseOK
<1>5. ASSUME NEW k \in 0 .. Len(m_callbacks_pending) PROVE Room(m_callbacks_pending, burst, k)
  <2>1. k = 0 /\ m_callbacks_pending \in Seq(Callback)
    BY <1>2, SMTT(40)
  <2>2. Events(m_callbacks_pending, k) = {}
    BY <1>2, <2>1, SMTT(40) DEF Events
  <2>3. Cardinality(Events(m_callbacks_pending, k)) <= Limit
    BY <2>2, TaskRunnerAssumption, SMTT(40) DEF SetFacts, FiniteEmpty
  <2> QED BY <2>1, <2>3, RoomBelowLimit
<1> QED BY <1>1, <1>4, <1>5 DEF BInv

\* Every step keeps it.
LEMMA StepBound ==
    ASSUME SetFacts
    PROVE  IInv /\ BInv /\ [Next]_vars => BInv'
<1> SUFFICES ASSUME IInv, BInv, [Next]_vars PROVE BInv'
  OBVIOUS
<1>0. OtherTypes' /\ \A p \in Producer : p \in awaiting => pc[p] \in Limiting
  BY OtherTypesStep DEF BInv, PromiseOK
<1>1. CASE Tick \/ UNCHANGED vars
  <2>1. UNCHANGED <<m_callbacks_pending, callback, awaiting, burst, pc>>
    BY <1>1 DEF Tick, vars, runner, client
  <2> QED BY <1>0, <2>1, QuietBound
<1>2. ASSUME NEW t \in Thread, RunnerStep(t) PROVE BInv'
  <2>1. CASE MaybeScheduleProcessQueue(t)
    <3> DEFINE label == IF NothingToSchedule THEN Return(t) ELSE "schedule"
    <3>1. UNCHANGED <<m_callbacks_pending, callback, awaiting, burst>> /\ pc' = [pc EXCEPT ![t] = label]
      BY <2>1 DEF MaybeScheduleProcessQueue, Goto, runner, client
    <3>2. label \in PC \ {"callback"} /\ (t \in awaiting => label \in Limiting)
      BY ReturnLemma, Threads DEF PC, Limiting
    <3> HIDE DEF label
    <3> QED BY <1>0, <3>1, <3>2, MoveBound
  <2>2. CASE schedule(t)
    <3>1. UNCHANGED <<m_callbacks_pending, callback, awaiting, burst>> /\ pc' = [pc EXCEPT ![t] = "notify"]
      BY <2>2 DEF schedule, Goto, runner, client
    <3>2. "notify" \in PC \ {"callback"} /\ "notify" \in Limiting
      BY DEF PC, Limiting
    <3> QED BY <1>0, <3>1, <3>2, MoveBound
  <2>3. CASE notify(t)
    <3> DEFINE label == Return(t)
    <3>1. UNCHANGED <<m_callbacks_pending, callback, awaiting, burst>> /\ pc' \in NotifyOne([pc EXCEPT ![t] = label])
      BY <2>3 DEF notify, runner, client
    <3>2. label \in PC \ {"callback"} /\ (t \in awaiting => label \in Limiting)
      BY ReturnLemma, Threads DEF PC, Limiting
    <3> HIDE DEF label
    <3> QED BY <1>0, <3>1, <3>2, MoveBound
  <2>4. CASE ProcessQueue(t) /\ ~ MayProcess
    <3> DEFINE label == Return(t)
    <3>1. UNCHANGED <<m_callbacks_pending, callback, awaiting, burst>> /\ pc' = [pc EXCEPT ![t] = label]
      BY <2>4 DEF ProcessQueue, Goto, runner, client
    <3>2. label \in PC \ {"callback"} /\ (t \in awaiting => label \in Limiting)
      BY ReturnLemma, Threads DEF PC, Limiting
    <3> HIDE DEF label
    <3> QED BY <1>0, <3>1, <3>2, MoveBound
  <2>5. CASE ProcessQueue(t) /\ MayProcess
    BY <1>0, <2>5, ProcessQueueBound
  <2>6. CASE Synced(t)
    <3> DEFINE label == IF t \in Producer THEN "burst" ELSE "raii"
    <3>1. /\ UNCHANGED <<m_callbacks_pending, callback, awaiting, burst>> /\ pc' = [pc EXCEPT ![t] = label]
          /\ t \notin awaiting
      BY <2>6 DEF Synced, Goto, runner, client
    <3>2. label \in PC \ {"callback"}
      BY DEF PC
    <3> HIDE DEF label
    <3> QED BY <1>0, <3>1, <3>2, MoveBound
  <2>7. ASSUME t \notin Producer, RunCallback(t) \/ LimitInCallback(t) \/ CallbackDone(t) PROVE BInv'
    <3>1. t \in Runner
      BY <2>7, Threads
    <3>2. CASE LimitInCallback(t)
      <4> DEFINE cb == [kind |-> "promise", by |-> t]
      <4>1. cb \in Callback /\ cb.kind = "promise" /\ cb.by = t /\ cb.kind # "event"
        BY DEF Callback
      <4>2. Insert(t, cb) /\ awaiting' = awaiting \cup {t} /\ t \notin awaiting /\ UNCHANGED <<callback, burst>>
        BY <3>2 DEF LimitInCallback
      <4> HIDE DEF cb
      <4> QED BY <1>0, <3>1, <4>1, <4>2, RunnerInsertBound
    <3> QED BY <1>0, <2>7, <3>1, <3>2, RunCallbackBound, CallbackDoneBound
  <2> QED BY <1>2, <2>1, <2>2, <2>3, <2>4, <2>5, <2>6, <2>7 DEF RunnerStep
<1>3. ASSUME NEW w \in Worker, WorkerStep(w) \/ SpuriousWakeup(w) PROVE BInv'
  <2>1. w \in Thread /\ w \notin Producer
    BY TaskRunnerAssumption DEF Thread
  <2>2. ASSUME serviceQueue(w) \/ Timeout(w) \/ TakeTask(w) \/ TimerDone(w) \/ SpuriousWakeup(w) PROVE BInv'
    <3>1. UNCHANGED <<m_callbacks_pending, callback, awaiting, burst>>
      BY <2>2 DEF serviceQueue, Timeout, TakeTask, TimerDone, SpuriousWakeup, runner, client
    <3>2. \E label \in PC \ {"callback"} :
             pc' = [pc EXCEPT ![w] = label] \/ pc' \in NotifyOne([pc EXCEPT ![w] = label])
      <4>1. CASE serviceQueue(w)
        <5>1. \/ pc' \in NotifyOne([pc EXCEPT ![w] = "exit"])
              \/ pc' = [pc EXCEPT ![w] = "wait"] \/ pc' = [pc EXCEPT ![w] = "wait_until"]
          BY <4>1 DEF serviceQueue, Goto
        <5>2. {"exit", "wait", "wait_until"} \subseteq PC \ {"callback"}
          BY DEF PC
        <5> QED BY <5>1, <5>2
      <4>2. CASE Timeout(w) \/ TimerDone(w) \/ SpuriousWakeup(w)
        <5>1. pc' = [pc EXCEPT ![w] = "woken"] \/ pc' = [pc EXCEPT ![w] = "lock"]
          BY <4>2 DEF Timeout, TimerDone, SpuriousWakeup, Woken, Goto
        <5>2. {"woken", "lock"} \subseteq PC \ {"callback"}
          BY DEF PC
        <5> QED BY <5>1, <5>2
      <4>3. CASE TakeTask(w)
        <5>1. ASSUME taskQueue # <<>> PROVE Head(taskQueue).f \in {"ProcessQueue", "timer"}
          <6>1. Head(taskQueue) \in Function
            BY <5>1, SMTT(40) DEF IInv, Types
          <6> QED BY <6>1 DEF Function
        <5>2. \/ pc' = [pc EXCEPT ![w] = "lock"]
              \/ taskQueue # <<>> /\ pc' = [pc EXCEPT ![w] = Head(taskQueue).f]
          BY <4>3 DEF TakeTask, Goto
        <5>3. {"ProcessQueue", "timer", "lock"} \subseteq PC \ {"callback"}
          BY DEF PC
        <5> QED BY <5>1, <5>2, <5>3
      <4> QED BY <2>2, <4>1, <4>2, <4>3
    <3> QED BY <1>0, <2>1, <3>1, <3>2, MoveBound
  <2> QED BY <1>2, <1>3, <2>1, <2>2 DEF WorkerStep
<1>4. ASSUME NEW p \in Producer, ProducerStep(p) PROVE BInv'
  BY <1>0, <1>2, <1>4, LimitQueueBound, EnqueueBound, Threads DEF ProducerStep
<1>5. CASE MainStep
  <2>1. Main \in Thread /\ Main \in Runner /\ Main \notin Producer
    BY Threads DEF Runner
  <2>2. CASE Stop
    <3>1. UNCHANGED <<m_callbacks_pending, callback, awaiting, burst>> /\ pc' = [pc EXCEPT ![Main] = "notify_all"]
      BY <2>2 DEF Stop, Goto, runner, client
    <3>2. "notify_all" \in PC \ {"callback"}
      BY DEF PC
    <3> QED BY <1>0, <2>1, <3>1, <3>2, MoveBound
  <2>3. CASE NotifyAll
    <3>1. /\ UNCHANGED <<m_callbacks_pending, callback, awaiting, burst>>
          /\ \A t \in Thread : pc'[t] = IF t \in Waiting THEN Woken(t) ELSE IF t = Main THEN "join" ELSE pc[t]
      BY <2>3 DEF NotifyAll, runner, client
    <3>2. \A t \in Runner : pc'[t] = "callback" => pc[t] = "callback"
      BY <3>1, Threads DEF Woken
    <3>3. \A p \in Producer : pc'[p] = pc[p]
      BY <2>1, <3>1, Threads DEF Waiting, Runner
    <3> QED BY <1>0, <3>1, <3>2, <3>3, QuietBound
  <2>4. CASE Join
    <3>1. UNCHANGED <<callback, awaiting, burst>>
      BY <2>4 DEF Join, client
    <3>2. CASE UNCHANGED m_callbacks_pending /\ pc' = [pc EXCEPT ![Main] = "down"]
      <4>1. "down" \in PC \ {"callback"}
        BY DEF PC
      <4> QED BY <1>0, <2>1, <3>1, <3>2, <4>1, MoveBound
    <3>3. CASE Insert(Main, [kind |-> "event", by |-> Main])
      <4> DEFINE cb == [kind |-> "event", by |-> Main]
      <4>1. cb \in Callback /\ cb.kind = "event" /\ cb.by = Main /\ cb.kind # "promise"
        BY <2>1 DEF Callback
      <4>2. Insert(Main, cb)
        BY <3>3
      <4> HIDE DEF cb
      <4> QED BY <1>0, <2>1, <3>1, <4>1, <4>2, RunnerInsertBound
    <3> QED BY <2>4, <3>2, <3>3 DEF Join, Goto
  <2>5. CASE Flush
    <3> DEFINE label == IF FlushIsDone THEN "down" ELSE "ProcessQueue"
    <3>1. UNCHANGED <<m_callbacks_pending, callback, awaiting, burst>> /\ pc' = [pc EXCEPT ![Main] = label]
      BY <2>5 DEF Flush, Goto, runner, client
    <3>2. label \in PC \ {"callback"}
      BY DEF PC
    <3> HIDE DEF label
    <3> QED BY <1>0, <2>1, <3>1, <3>2, MoveBound
  <2> QED BY <1>2, <1>5, <2>1, <2>2, <2>3, <2>4, <2>5 DEF MainStep
<1> QED BY <1>1, <1>3, <1>4, <1>5 DEF Next

-----------------------------------------------------------------------------
(* The theorems                                                            *)

INSTANCE FiniteSetTheorems

\* The libraries have what is used of them.
LEMMA SetFactsHold == SetFacts
<1>1. LeastNumbers
  <2> DEFINE Less == OpToRel(<, Nat)
  <2>1. \A x, y \in Nat : <<y, x>> \in Less <=> y < x
    BY DEF OpToRel
  <2>2. IsWellFoundedOn(Less, Nat)
    BY NatLessThanWellFounded
  <2> HIDE DEF Less
  <2>3. ASSUME NEW S \in SUBSET Nat, S # {} PROVE \E x \in S : \A y \in S : x <= y
    <3>1. PICK x \in S : \A y \in S : ~ (<<y, x>> \in Less)
      BY <2>2, <2>3, WFMin
    <3>2. ASSUME NEW y \in S PROVE x <= y
      <4>1. x \in Nat /\ y \in Nat /\ ~ (y < x)
        BY <2>1, <3>1
      <4> QED BY <4>1, SMTT(40)
    <3> QED BY <3>2
  <2> QED BY <2>3 DEF LeastNumbers
<1>2. FiniteSubsets
  BY FS_CardinalityType, FS_Subset DEF FiniteSubsets
<1>3. FiniteEmpty /\ FiniteSingletons
  BY FS_EmptySet, FS_Singleton DEF FiniteEmpty, FiniteSingletons
<1>4. FiniteAdd /\ FiniteRemove
  BY FS_AddElement, FS_RemoveElement DEF FiniteAdd, FiniteRemove
<1>5. FiniteUnions /\ FiniteUNION
  BY FS_Union, FS_UNION DEF FiniteUnions, FiniteUNION
<1>6. FiniteProducts /\ FiniteIntervals
  BY FS_Product, FS_Interval DEF FiniteProducts, FiniteIntervals
<1>7. FiniteImages
  <2> SUFFICES ASSUME NEW S, NEW T, NEW f \in [S -> T], IsFiniteSet(S),
                      \A y \in T : \E x \in S : f[x] = y
               PROVE  /\ IsFiniteSet(T)
                      /\ (\A x, y \in S : f[x] = f[y] => x = y) => Cardinality(T) = Cardinality(S)
    BY DEF FiniteImages
  <2>1. f \in Surjection(S, T)
    BY DEF Surjection
  <2>2. (\A x, y \in S : f[x] = f[y] => x = y) => f \in Injection(S, T)
    BY DEF Injection, IsInjective
  <2> QED BY <2>1, <2>2, FS_Surjection
<1> QED BY <1>1, <1>2, <1>3, <1>4, <1>5, <1>6, <1>7 DEF SetFacts

\* One callback runs at a time, whichever and however many threads service the
\* scheduler, and m_are_callbacks_running says whether one does.
THEOREM TaskRunnerInvariant == Spec => []RunningFlagExact
<1>1. IInv /\ [Next]_vars => IInv'
  BY StepLemma, SetFactsHold DEF Good
<1>2. IInv => RunningFlagExact
  BY DEF IInv
<1> QED BY <1>1, <1>2, InitInv, PTL DEF Spec

\* SerialTaskRunner on CScheduler implements the serial queue of TaskQueue.
THEOREM TaskRunnerRefinement == Spec => ImplementsTaskQueue
<1>1. Init => Abstract!Init
  <2> SUFFICES ASSUME Init PROVE Abstract!Init
    OBVIOUS
  <2>1. Running = {}
    BY DEF Init, Running
  <2> QED BY <2>1 DEF Init, Abstract!Init, Current
<1>2. IInv /\ [Next]_vars => IInv' /\ [Abstract!Next]_(Abstract!queueVars)
  BY StepLemma, SetFactsHold DEF Good
<1> QED BY <1>1, <1>2, InitInv, PTL DEF Spec, ImplementsTaskQueue, Abstract!Spec

\* A callback that calls LimitValidationInterfaceQueue when the queue is too long
\* never returns, whatever the other threads do.
THEOREM ReentryDeadlocks == Spec => ReentryNeverReturns
<1>1. IInv /\ [Next]_vars => IInv'
  BY StepLemma, SetFactsHold DEF Good
<1>2. IInv /\ [Next]_vars =>
          \A t \in Running : t \in awaiting => t \in awaiting' /\ callback'[t] = callback[t]
  BY StepLemma, SetFactsHold DEF Good, Stuck, Running, Runner
<1> QED BY <1>1, <1>2, InitInv, PTL DEF Spec, ReentryNeverReturns

\* However slow the listeners are and however the threads interleave, the events of the
\* producers that wait in the queue are at most the limit and one burst of each producer;
\* and every member has its type, the queue of the scheduler being in the order of time.
THEOREM QueueStaysBounded == Spec => []QueueBounded
<1>1. IInv /\ BInv /\ [Next]_vars => IInv' /\ BInv'
  BY StepLemma, StepBound, SetFactsHold DEF Good
<1>2. IInv /\ BInv => QueueBounded
  <2> SUFFICES ASSUME IInv, BInv PROVE QueueBounded
    OBVIOUS
  <2>1. /\ taskQueue \in Seq(Function) /\ m_callbacks_pending \in Seq(Callback)
        /\ DOMAIN taskQueue = 1 .. Len(taskQueue)
        /\ DOMAIN m_callbacks_pending = 1 .. Len(m_callbacks_pending) /\ Len(m_callbacks_pending) \in Nat
    BY SMTT(40) DEF IInv, Types
  <2>2. TypeOK
    BY <2>1 DEF TypeOK, IInv, Types, BInv, OtherTypes, Ordered, Runner
  <2>3. {i \in DOMAIN m_callbacks_pending :
            m_callbacks_pending[i].kind = "event" /\ m_callbacks_pending[i].by \in Producer} = Events(m_callbacks_pending, 0)
    BY <2>1, SMTT(40) DEF Events
  <2>4. Cardinality(Events(m_callbacks_pending, 0)) <= Bound
    <3>1. Room(m_callbacks_pending, burst, 0)
      BY <2>1, SMTT(40) DEF BInv
    <3>2. /\ Cardinality(Events(m_callbacks_pending, 0)) \in Nat
          /\ Cardinality(Slots(m_callbacks_pending, burst, 0)) \in Nat
      BY <2>1, EventsFinite, SlotsFinite, SetFactsHold
    <3>3. Bound \in Nat
      <4>1. MaxBurst * Cardinality(Producer) \in Nat /\ Limit \in Nat
        BY SlotsFinite, TaskRunnerAssumption, SetFactsHold
      <4> QED BY <4>1, SMTT(40) DEF Bound
    <3> QED BY <3>1, <3>2, <3>3, SMTT(40) DEF Room
  <2> QED BY <2>2, <2>3, <2>4 DEF QueueBounded, Bound
<1> QED BY <1>1, <1>2, InitInv, InitBound, SetFactsHold, PTL DEF Spec
=============================================================================
