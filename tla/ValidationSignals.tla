------------------------- MODULE ValidationSignals -------------------------
(***************************************************************************)
(* ValidationSignals (validationinterface.cpp): the list of registered     *)
(* listeners, with its reference counts, and the delivery of events.  The  *)
(* validation thread, which holds cs_main, runs "synchronous" events       *)
(* (BlockChecked, NewPoWValidBlock, ActiveTipChange) itself and gives all  *)
(* others to the task runner: the node's SerialTaskRunner queues them for  *)
(* a background thread (the queue is that of TaskQueue, which TaskRunner   *)
(* implements), the kernel library's ImmediateTaskRunner runs them at once *)
(* (util/task_runner.h).  Meanwhile other threads register and unregister  *)
(* listeners, and so may the callbacks: m_mutex is not held while they run.*)
(***************************************************************************)
EXTENDS Naturals, FiniteSets, Sequences

CONSTANTS
    Listener,   \* CValidationInterface objects
    Thread,     \* threads that deliver events
    Validation, \* the thread in validation code
    Background, \* the thread that runs the callbacks of the queue
    NoEntry,    \* m_list.end()
    NoTask,     \* the queue runs nothing
    Runner,     \* the task runners to consider
    MaxEntry,   \* bound: registrations
    MaxEvent,   \* bound: events given to the task runner
    MaxSync     \* bound: calls of SyncWithValidationInterfaceQueue

\* New entries go to the end of m_list and nothing else moves one, so that the
\* order of m_list is the order of the entries' creation: an entry is known
\* by its number.
Entry == Nat \ {0}

\* An event for the task runner has a number, a synchronous one has 0.
Event == Nat

\* What the queue holds: an event, or the function that fulfils the promise of
\* a client that has unregistered the listener.
Task == [kind : {"event"}, n : Event] \cup [kind : {"promise"}, by : Listener]

ASSUME ValidationSignalsAssumption ==
    /\ IsFiniteSet(Thread)
    /\ Validation \in Thread /\ Background \in Thread /\ Validation # Background
    /\ NoEntry \notin Nat /\ NoTask \notin Task
    /\ Runner \subseteq {"serial", "immediate"}

VARIABLES
    runner,             \* which task runner was given to the constructor
    m_list,             \* the entries: their callbacks and count
    m_map,              \* the entry of a registered listener
    it, event,          \* Iterate: each thread's position, and its event
    pending, current,   \* the task runner's queue
    entries, events, syncs, \* how many there were so far
    synced,             \* clients of a listener: "no", "waiting" or "done"
    before,             \* history: events generated before a client waits
    got,                \* history: the last queued event given to an entry
    owed                \* history: queued events a listener is to receive

impl == <<m_list, m_map, it, event>>
queue == <<pending, current>>
vars == <<runner, impl, queue, entries, events, syncs, synced, before, got, owed>>

Queue == INSTANCE TaskQueue

Init ==
    /\ runner \in Runner
    /\ m_list = <<>>
    /\ m_map = [l \in Listener |-> NoEntry]
    /\ it = [t \in Thread |-> NoEntry]
    /\ event = [t \in Thread |-> 0]
    /\ Queue!Init
    /\ entries = 0 /\ events = 0 /\ syncs = 0
    /\ synced = [l \in Listener |-> "no"]
    /\ before = [l \in Listener |-> 0]
    /\ got = <<>>
    /\ owed = [l \in Listener |-> {}]

Registered(l) == m_map[l] # NoEntry

-----------------------------------------------------------------------------
(* The list                                                                *)

Remove(list, e) == [x \in DOMAIN list \ {e} |-> list[x]]

AddReference(list, e) == [list EXCEPT ![e].count = @ + 1]

\* Mutant: an entry is erased although a callback is executing.
DropReference_Erase(list, e) == Remove(list, e)

\* Mutant: an entry without references stays.
DropReference_Keep(list, e) == [list EXCEPT ![e].count = @ - 1]

\* if (!--it->count) m_list.erase(it)
DropReference(list, e) ==
    IF list[e].count = 1 THEN Remove(list, e)
    ELSE [list EXCEPT ![e].count = @ - 1]

\* The first entry behind e, with e = 0 the first of all.
NextEntry(list, e) ==
    LET behind == {x \in DOMAIN list : x > e}
    IN  IF behind = {} THEN NoEntry
        ELSE CHOOSE x \in behind : \A y \in behind : x <= y

IsNew(l) == ~Registered(l)

Register(l) ==
    /\ IF IsNew(l)
       THEN /\ entries < MaxEntry
            /\ entries' = entries + 1
            /\ m_list' = [x \in DOMAIN m_list \cup {entries'} |->
                             IF x = entries' THEN [callbacks |-> l, count |-> 1]
                             ELSE m_list[x]]
            /\ m_map' = [m_map EXCEPT ![l] = entries']
            /\ got' = Append(got, 0)
       ELSE UNCHANGED <<m_list, m_map, entries, got>>
    /\ synced[l] # "waiting"
    /\ synced' = [synced EXCEPT ![l] = "no"]
    /\ UNCHANGED <<runner, it, event, queue, events, syncs, before, owed>>

Unregister(l) ==
    /\ Registered(l)
    /\ m_list' = DropReference(m_list, m_map[l])
    /\ m_map' = [m_map EXCEPT ![l] = NoEntry]
    /\ owed' = [owed EXCEPT ![l] = {}]
    /\ UNCHANGED <<runner, it, event, queue, entries, events, syncs, synced, before, got>>

\* Clear: the entries that are executing stay with their executions only.
Clear ==
    /\ \E l \in Listener : Registered(l)
    /\ LET registered == {m_map[l] : l \in Listener}
           kept == {e \in DOMAIN m_list : e \notin registered \/ m_list[e].count > 1}
       IN  m_list' = [e \in kept |->
                         IF e \in registered THEN [m_list[e] EXCEPT !.count = @ - 1]
                         ELSE m_list[e]]
    /\ m_map' = [l \in Listener |-> NoEntry]
    /\ owed' = [l \in Listener |-> {}]
    /\ UNCHANGED <<runner, it, event, queue, entries, events, syncs, synced, before, got>>

-----------------------------------------------------------------------------
(* Iterate                                                                 *)

\* The event is given to the listener of entry e, or Iterate is over.
Visit(t, list, e, ev) ==
    /\ it' = [it EXCEPT ![t] = e]
    /\ event' = [event EXCEPT ![t] = IF e = NoEntry THEN 0 ELSE ev]
    /\ IF e = NoEntry
       THEN m_list' = list /\ UNCHANGED <<got, owed>>
       ELSE /\ m_list' = AddReference(list, e)
            /\ got' = IF ev = 0 THEN got ELSE [got EXCEPT ![e] = ev]
            /\ owed' = [owed EXCEPT ![list[e].callbacks] = @ \ {ev}]

\* Mutant: the position is advanced before the lock is taken back.
After_Skip(list, e) == NextEntry(list, e + 1)

After(list, e) == NextEntry(list, e)

\* A callback returns: under the lock its entry loses the reference, and the
\* next one gets one.
CallbackReturns(t) ==
    /\ it[t] # NoEntry
    /\ Visit(t, DropReference(m_list, it[t]), After(m_list, it[t]), event[t])
    /\ current' = IF t = Background /\ it'[t] = NoEntry THEN NoTask ELSE current
    /\ UNCHANGED <<runner, m_map, pending, entries, events, syncs, synced, before>>

-----------------------------------------------------------------------------
(* Events                                                                  *)

\* BlockChecked, NewPoWValidBlock, ActiveTipChange.
SynchronousEvent ==
    /\ it[Validation] = NoEntry
    /\ NextEntry(m_list, 0) # NoEntry
    /\ Visit(Validation, m_list, NextEntry(m_list, 0), 0)
    /\ UNCHANGED <<runner, m_map, queue, entries, events, syncs, synced, before>>

\* Mutant: the task runner takes the newest first.
InsertTask_Front(task) ==
    /\ pending' = <<task>> \o pending
    /\ UNCHANGED current

\* m_task_runner->insert with SerialTaskRunner
InsertTask(task) == Queue!Insert(task)

\* ENQUEUE_AND_LOG_EVENT with SerialTaskRunner.
Enqueue ==
    /\ runner = "serial"
    /\ it[Validation] = NoEntry /\ events < MaxEvent
    /\ events' = events + 1
    /\ InsertTask([kind |-> "event", n |-> events'])
    /\ owed' = [l \in Listener |-> IF Registered(l) THEN owed[l] \cup {events'}
                                   ELSE owed[l]]
    /\ UNCHANGED <<runner, impl, entries, syncs, synced, before, got>>

\* ENQUEUE_AND_LOG_EVENT with ImmediateTaskRunner.
RunAtOnce ==
    /\ runner = "immediate"
    /\ it[Validation] = NoEntry /\ events < MaxEvent
    /\ events' = events + 1
    /\ Visit(Validation, m_list, NextEntry(m_list, 0), events')
    /\ UNCHANGED <<runner, m_map, queue, entries, syncs, synced, before>>

\* The background thread begins the oldest event of the queue.
StartEvent ==
    /\ Queue!Start
    /\ current'.kind = "event"
    /\ NextEntry(m_list, 0) # NoEntry
    /\ Visit(Background, m_list, NextEntry(m_list, 0), current'.n)
    /\ UNCHANGED <<runner, m_map, entries, events, syncs, synced, before>>

\* An event nobody listens to.
SkipEvent ==
    /\ pending # <<>> /\ current = NoTask
    /\ Head(pending).kind = "event" /\ NextEntry(m_list, 0) = NoEntry
    /\ pending' = Tail(pending)
    /\ UNCHANGED <<runner, impl, current, entries, events, syncs, synced, before, got, owed>>

\* SyncWithValidationInterfaceQueue, called after l was unregistered.  With
\* ImmediateTaskRunner it returns at once.
Sync(l) ==
    /\ ~Registered(l) /\ synced[l] = "no" /\ syncs < MaxSync
    /\ syncs' = syncs + 1
    /\ before' = [before EXCEPT ![l] = events]
    /\ IF runner = "immediate"
       THEN synced' = [synced EXCEPT ![l] = "done"] /\ UNCHANGED queue
       ELSE /\ synced' = [synced EXCEPT ![l] = "waiting"]
            /\ InsertTask([kind |-> "promise", by |-> l])
    /\ UNCHANGED <<runner, impl, entries, events, got, owed>>

\* The promise is fulfilled and its client goes on.
FulfilPromise ==
    /\ pending # <<>> /\ current = NoTask
    /\ Head(pending).kind = "promise"
    /\ pending' = Tail(pending)
    /\ synced' = [synced EXCEPT ![Head(pending).by] = "done"]
    /\ UNCHANGED <<runner, impl, current, entries, events, syncs, before, got, owed>>

-----------------------------------------------------------------------------

Next ==
    \/ \E l \in Listener : Register(l) \/ Unregister(l) \/ Sync(l)
    \/ Clear
    \/ \E t \in Thread : CallbackReturns(t)
    \/ SynchronousEvent \/ Enqueue \/ RunAtOnce
    \/ StartEvent \/ SkipEvent \/ FulfilPromise

Spec == Init /\ [][Next]_vars

\* Callbacks return, and the queue's thread goes on (TaskRunner shows that).
Fairness ==
    /\ \A t \in Thread : WF_vars(CallbackReturns(t))
    /\ WF_vars(StartEvent \/ SkipEvent \/ FulfilPromise)

FairSpec == Spec /\ Fairness

-----------------------------------------------------------------------------
(* Properties                                                              *)

\* The members have their types, and no entry of m_list is without references.
TypeOK ==
    /\ runner \in {"serial", "immediate"}
    /\ DOMAIN m_list \subseteq 1..entries
    /\ \A e \in DOMAIN m_list : m_list[e] \in [callbacks : Listener, count : Nat \ {0}]
    /\ m_map \in [Listener -> 1..entries \cup {NoEntry}]
    /\ it \in [Thread -> 1..entries \cup {NoEntry}]
    /\ event \in [Thread -> Event]
    /\ pending \in Seq(Task) /\ current \in Task \cup {NoTask}
    /\ entries \in Nat /\ events \in Nat /\ syncs \in Nat
    /\ synced \in [Listener -> {"no", "waiting", "done"}]
    /\ before \in [Listener -> Event]
    /\ got \in [1..entries -> Event]
    /\ owed \in [Listener -> SUBSET Event]

Executing(e) == {t \in Thread : it[t] = e}

\* "The count is equal to the number of current executions of that entry, plus
\* 1 if it's registered": so the entry a thread is executing
\* is never erased under it, whoever unregisters the listener meanwhile.
CountExact ==
    /\ TypeOK
    /\ \A e \in DOMAIN m_list :
           m_list[e].count = Cardinality(Executing(e))
                             + (IF m_map[m_list[e].callbacks] = e THEN 1 ELSE 0)
    /\ \A t \in Thread : it[t] # NoEntry => it[t] \in DOMAIN m_list
    /\ \A l \in Listener : Registered(l) =>
           m_map[l] \in DOMAIN m_list /\ m_list[m_map[l]].callbacks = l

\* Event n is in the queue, or is being delivered and has not come to the entry of l.
IsComing(l, n) ==
    \/ \E i \in DOMAIN pending : pending[i].kind = "event" /\ pending[i].n = n
    \/ event[Background] = n /\ it[Background] < m_map[l]

GivenInOrder == \A e \in DOMAIN got : got'[e] # got[e] => got'[e] > got[e]

\* An event generated while a listener is registered reaches it, unless it is
\* unregistered before.  It receives the events in the order in which they were
\* generated, and none twice for one registration.
EventsReachListeners ==
    /\ [](\A l \in Listener, n \in 1..events : n \in owed[l] => IsComing(l, n))
    /\ [][GivenInOrder]_vars

\* CallFunctionInValidationInterfaceQueue promises that "any callbacks generated
\* prior to now are finished when the function is called".  The code keeps this
\* for the events of the queue: when SyncWithValidationInterfaceQueue has
\* returned to the client that had unregistered the listener, no earlier one
\* waits, and no thread executes one on the listener.  It does not keep it for
\* what the thread in validation code calls itself, which is not waited for:
\* synchronous events, and with ImmediateTaskRunner all of them.
SyncedMeansFinished ==
    \A l \in Listener : synced[l] = "done" =>
        /\ \A i \in DOMAIN pending : pending[i].kind = "event" => pending[i].n > before[l]
        /\ \A t \in Thread : it[t] # NoEntry /\ m_list[it[t]].callbacks = l =>
               \/ event[t] > before[l]
               \/ t = Validation /\ (event[t] = 0 \/ runner = "immediate")

\* After Unregister or Clear "the list may still contain callbacks that are
\* currently executing, but it will be cleared when they are done executing":
\* no thread begins to execute the entry of an unregistered listener.  The code
\* does not keep this: see the README.
NoNewExecution ==
    [][\A e \in DOMAIN m_list :
           m_map[m_list[e].callbacks] # e => {t \in Thread : it'[t] = e} \subseteq Executing(e)]_vars

\* An unregistered listener's entry goes away once no more events come (the
\* model has MaxEvent of them): the last execution erases it.  The client that
\* waits for the queue after it has unregistered its listener goes on.
UnregisteredGoes ==
    /\ \A e \in 1..MaxEntry :
           (e \in DOMAIN m_list /\ m_map[m_list[e].callbacks] # e) ~> (e \notin DOMAIN m_list)
    /\ \A l \in Listener : (synced[l] = "waiting") ~> (synced[l] # "waiting")
=============================================================================
