----------------------- MODULE ValidationSignalsProofs -----------------------
(***************************************************************************)
(* The reference counts of m_list are exact, an event reaches whoever was  *)
(* registered when it was generated, in order and once, and whoever has    *)
(* waited for the queue hears no earlier event of the queue: for any       *)
(* number of listeners, threads, registrations and events.                 *)
(***************************************************************************)
EXTENDS ValidationSignals, FiniteSetFacts, TLAPS

\* Executing(e), of given positions
Executions(pos, e) == {t \in Thread : pos[t] = e}

\* CountExact of a list, the map and the positions of the threads, with n entries
\* made so far
ListOK(list, map, pos, n) ==
    /\ n \in Nat
    /\ DOMAIN list \subseteq 1..n
    /\ \A e \in DOMAIN list : list[e] \in [callbacks : Listener, count : Nat \ {0}]
    /\ map \in [Listener -> 1..n \cup {NoEntry}]
    /\ pos \in [Thread -> 1..n \cup {NoEntry}]
    /\ \A e \in DOMAIN list :
           list[e].count = Cardinality(Executions(pos, e))
                           + (IF map[list[e].callbacks] = e THEN 1 ELSE 0)
    /\ \A t \in Thread : pos[t] # NoEntry => pos[t] \in DOMAIN list
    /\ \A l \in Listener : map[l] # NoEntry =>
           map[l] \in DOMAIN list /\ list[map[l]].callbacks = l

\* The types of what is not about the list
EventTypes ==
    /\ runner \in {"serial", "immediate"}
    /\ event \in [Thread -> Event]
    /\ pending \in Seq(Task) /\ current \in Task \cup {NoTask}
    /\ events \in Nat /\ syncs \in Nat
    /\ synced \in [Listener -> {"no", "waiting", "done"}]
    /\ before \in [Listener -> Event]
    /\ got \in [1..entries -> Event]
    /\ owed \in [Listener -> SUBSET Event]

\* The thread that gives the events of the task runner to the listeners
Deliverer == IF runner = "serial" THEN Background ELSE Validation

IsEvent(i) == pending[i].kind = "event"

\* The queue holds events in the order of their numbers, all younger than the one
\* being delivered; while none is, the background thread is in no callback.
QueueOK ==
    /\ current = NoTask => it[Background] = NoEntry
    /\ \A t \in Thread : it[t] = NoEntry => event[t] = 0
    /\ \A t \in Thread : event[t] # 0 => t = Deliverer /\ event[t] <= events
    /\ it[Background] # NoEntry => event[Background] # 0
    /\ runner = "immediate" => pending = <<>> /\ current = NoTask
    /\ \A i \in DOMAIN pending : IsEvent(i) =>
           pending[i].n \in 1..events /\ pending[i].n > event[Background]
    /\ \A i, j \in DOMAIN pending :
           i < j /\ IsEvent(i) /\ IsEvent(j) => pending[i].n < pending[j].n

\* No entry was given an event that is still to come to it, or a later one.
GotOK ==
    /\ \A e \in 1..entries : got[e] <= events
    /\ \A i \in DOMAIN pending, e \in 1..entries : IsEvent(i) => got[e] < pending[i].n
    /\ \A t \in Thread, e \in 1..entries : event[t] # 0 =>
           got[e] <= event[t] /\ (e > it[t] => got[e] < event[t])

\* What is still owed to a listener IsComing.
OwedIsComing ==
    \A l \in Listener, n \in 1..events : n \in owed[l] =>
        \/ \E i \in DOMAIN pending : pending[i].kind = "event" /\ pending[i].n = n
        \/ event[Background] = n /\ it[Background] < m_map[l]

\* Only registered listeners are owed events.
OwedOK ==
    /\ \A l \in Listener : owed[l] \subseteq 1..events /\ (owed[l] # {} => Registered(l))
    /\ OwedIsComing

\* A promise stands behind all events its client waits for, and once it is fulfilled
\* only later events are delivered, to whomever.
SyncOK ==
    /\ \A l \in Listener : before[l] <= events
    /\ \A i \in DOMAIN pending : ~ IsEvent(i) =>
           /\ synced[pending[i].by] = "waiting"
           /\ \A j \in DOMAIN pending : j > i =>
                  IF IsEvent(j) THEN pending[j].n > before[pending[i].by]
                  ELSE pending[j].by # pending[i].by
    /\ \A l \in Listener : synced[l] = "done" =>
           /\ \A i \in DOMAIN pending : IsEvent(i) => pending[i].n > before[l]
           /\ it[Background] # NoEntry => event[Background] > before[l]

\* The inductive invariant
IInv == ListOK(m_list, m_map, it, entries) /\ EventTypes /\ QueueOK /\ GotOK /\ OwedOK /\ SyncOK

-----------------------------------------------------------------------------
(* Lemmas on the operators                                                 *)

\* Where a proof names no prover, it is Zenon, which is given enough time.
USE ZenonT(40)

\* A set of numbers that is not empty has a least element.
LEMMA LeastElement ==
    ASSUME SetFacts, NEW S \in SUBSET Nat, S # {}
    PROVE  \E x \in S : \A y \in S : x <= y
BY DEF SetFacts, LeastNumbers

\* NextEntry is the next position of an iteration over the list.
LEMMA NextEntryLemma ==
    ASSUME SetFacts, NEW list, DOMAIN list \subseteq Nat, NEW e \in Nat
    PROVE  \/ /\ NextEntry(list, e) = NoEntry
              /\ \A y \in DOMAIN list : ~ (y > e)
           \/ /\ NextEntry(list, e) \in DOMAIN list /\ NextEntry(list, e) > e
              /\ \A y \in DOMAIN list : y > e => NextEntry(list, e) <= y
<1> DEFINE behind == {x \in DOMAIN list : x > e}
<1>1. CASE behind = {}
  BY <1>1 DEF NextEntry
<1>2. CASE behind # {}
  <2>1. \E x \in behind : \A y \in behind : x <= y
    BY <1>2, LeastElement
  <2>2. NextEntry(list, e) = CHOOSE x \in behind : \A y \in behind : x <= y
    BY <1>2 DEF NextEntry
  <2>3. NextEntry(list, e) \in behind /\ \A y \in behind : NextEntry(list, e) <= y
    BY <2>1, <2>2
  <2> QED BY <2>3
<1> QED BY <1>1, <1>2

\* The executions of an entry can be counted.
LEMMA ExecutionsFinite ==
    ASSUME SetFacts, NEW pos, NEW e
    PROVE  /\ IsFiniteSet(Executions(pos, e)) /\ Cardinality(Executions(pos, e)) \in Nat
           /\ Cardinality(Executions(pos, e)) = 0 <=> Executions(pos, e) = {}
<1>1. IsFiniteSet(Executions(pos, e))
  BY ValidationSignalsAssumption DEF Executions, SetFacts, FiniteSubsets
<1> QED BY <1>1 DEF SetFacts, FiniteEmpty, FiniteSubsets

\* Only thread t changes its place.
MovesAlone(pos, qos, t) == qos[t] # pos[t] /\ \A u \in Thread : u # t => qos[u] = pos[u]

\* A thread that goes from one entry to another is in one execution less and one more.
LEMMA ExecutionsMove ==
    ASSUME SetFacts, NEW pos, NEW qos, NEW t \in Thread, MovesAlone(pos, qos, t), NEW e
    PROVE  LET count == Cardinality(Executions(pos, e))
               moved == Cardinality(Executions(qos, e))
           IN  /\ e = qos[t] => moved = count + 1
               /\ e = pos[t] => moved = count - 1
               /\ e # qos[t] /\ e # pos[t] => moved = count
<1> DEFINE E == Executions(pos, e)
           F == Executions(qos, e)
<1>1. IsFiniteSet(E) /\ Cardinality(E) \in Nat
  BY ExecutionsFinite
<1>2. CASE e = qos[t]
  <2>1. F = E \cup {t} /\ t \notin E /\ e # pos[t]
    BY <1>2 DEF Executions, MovesAlone
  <2> HIDE DEF E, F
  <2>2. Cardinality(F) = Cardinality(E) + 1
    BY <1>1, <2>1 DEF SetFacts, FiniteAdd
  <2> QED BY <1>1, <1>2, <2>1, <2>2 DEF E, F
<1>3. CASE e = pos[t]
  <2>1. F = E \ {t} /\ t \in E /\ e # qos[t]
    BY <1>3, SMTT(40) DEF Executions, MovesAlone
  <2> HIDE DEF E, F
  <2>2. Cardinality(F) = Cardinality(E) - 1
    BY <1>1, <2>1 DEF SetFacts, FiniteRemove
  <2> QED BY <1>1, <1>3, <2>1, <2>2 DEF E, F
<1>4. CASE e # qos[t] /\ e # pos[t]
  <2>1. F = E
    BY <1>4 DEF Executions, MovesAlone
  <2> QED BY <1>1, <1>4, <2>1
<1> QED BY <1>2, <1>3, <1>4

\* A callback has returned: its entry loses the reference, and goes if it was the
\* last one.
LEMMA DropExecution ==
    ASSUME SetFacts, NEW list, NEW map, NEW pos, NEW n, ListOK(list, map, pos, n),
           NEW t \in Thread, pos[t] # NoEntry,
           NEW qos \in [Thread -> 1..n \cup {NoEntry}], qos[t] = NoEntry,
           \A u \in Thread : u # t => qos[u] = pos[u]
    PROVE  /\ ListOK(DropReference(list, pos[t]), map, qos, n)
           /\ \A e \in DOMAIN list : e # pos[t] => e \in DOMAIN DropReference(list, pos[t])
           /\ DOMAIN DropReference(list, pos[t]) \subseteq DOMAIN list
           /\ \A e \in DOMAIN DropReference(list, pos[t]) :
                  DropReference(list, pos[t])[e].callbacks = list[e].callbacks
<1> DEFINE old == pos[t]
           new == DropReference(list, old)
           C(p, e) == Cardinality(Executions(p, e))
           R(e) == IF map[list[e].callbacks] = e THEN 1 ELSE 0
<1>1. /\ n \in Nat /\ old \in DOMAIN list /\ old \in 1..n
      /\ NoEntry \notin 1..n /\ pos \in [Thread -> 1..n \cup {NoEntry}]
  BY ValidationSignalsAssumption, SMTT(40) DEF ListOK
<1>2. \A e : C(pos, e) \in Nat /\ (C(pos, e) = 0 <=> Executions(pos, e) = {})
  BY ExecutionsFinite
<1>3. \A e \in DOMAIN list :
          /\ C(qos, e) = C(pos, e) - (IF e = old THEN 1 ELSE 0)
          /\ list[e].count = C(pos, e) + R(e)
          /\ list[e] \in [callbacks : Listener, count : Nat \ {0}]
  <2> TAKE e \in DOMAIN list
  <2>1. e # NoEntry
    BY <1>1 DEF ListOK
  <2>2. /\ e = old => C(qos, e) = C(pos, e) - 1
        /\ e # old => C(qos, e) = C(pos, e)
    <3>1. MovesAlone(pos, qos, t)
      BY DEF MovesAlone
    <3> QED BY <2>1, <3>1, ExecutionsMove, SMTT(40)
  <2>3. C(qos, e) = C(pos, e) - (IF e = old THEN 1 ELSE 0)
    <3>1. C(pos, e) \in Nat
      BY <1>2
    <3> HIDE DEF C, old
    <3> QED BY <2>2, <3>1, SMTT(40)
  <2> QED BY <2>3 DEF ListOK
<1>4. C(pos, old) # 0
  BY <1>2 DEF Executions
<1>5. \A e \in DOMAIN list : R(e) \in {0, 1}
  OBVIOUS
<1>6. /\ qos \in [Thread -> 1..n \cup {NoEntry}]
      /\ \A u \in Thread : qos[u] # NoEntry => u # t /\ qos[u] = pos[u]
  BY <1>1
<1>7. CASE list[old].count = 1
  <2>1. new = [e \in DOMAIN list \ {old} |-> list[e]]
    BY <1>7 DEF DropReference, Remove
  <2>2. C(pos, old) = 1 /\ R(old) = 0
    <3>1. list[old].count = C(pos, old) + R(old) /\ C(pos, old) \in Nat /\ R(old) \in {0, 1}
      BY <1>1, <1>2, <1>3, <1>5
    <3> HIDE DEF C, R, old
    <3> QED BY <3>1, <1>4, <1>7, SMTT(40)
  <2>3. C(qos, old) = 0
    <3>1. C(qos, old) = C(pos, old) - 1
      BY <1>1, <1>3
    <3> HIDE DEF C, old
    <3> QED BY <2>2, <3>1, SMTT(40)
  <2>4. \A u \in Thread : qos[u] # old
    BY <2>3, ExecutionsFinite DEF Executions
  <2>5. \A l \in Listener : map[l] # old
    BY <1>1, <2>2, SMTT(40) DEF ListOK
  <2> HIDE DEF C, new, old
  <2>6. \A u \in Thread : qos[u] # NoEntry => qos[u] \in DOMAIN new
    BY <1>6, <2>1, <2>4 DEF ListOK
  <2>7. \A e \in DOMAIN new : /\ e # old /\ e \in DOMAIN list /\ new[e] = list[e]
                              /\ new[e].count = C(qos, e) + R(e)
    BY <1>2, <1>3, <2>1, SMTT(40)
  <2>8. \A l \in Listener : map[l] # NoEntry =>
            map[l] \in DOMAIN new /\ new[map[l]].callbacks = l
    BY <2>1, <2>5 DEF ListOK
  <2>9. ListOK(new, map, qos, n)
    BY <1>1, <1>6, <2>1, <2>6, <2>7, <2>8 DEF ListOK, C
  <2> QED BY <2>1, <2>9 DEF new, old
<1>8. CASE list[old].count # 1
  <2>1. new = [list EXCEPT ![old].count = @ - 1]
    BY <1>8 DEF DropReference
  <2>2. /\ DOMAIN new = DOMAIN list
        /\ \A e \in DOMAIN list :
              /\ new[e].callbacks = list[e].callbacks
              /\ new[e] \in [callbacks : Listener, count : Nat \ {0}]
              /\ new[e].count = list[e].count - (IF e = old THEN 1 ELSE 0)
    <3>1. \A e \in DOMAIN list : list[e] \in [callbacks : Listener, count : Nat \ {0}]
      BY <1>3
    <3> HIDE DEF C, R, new, old
    <3> QED BY <1>1, <3>1, <1>8, <2>1, SMTT(40)
  <2> HIDE DEF C, new, old
  <2>3. \A e \in DOMAIN new : new[e].count = C(qos, e) + R(e)
    BY <1>2, <1>3, <1>5, <2>2, SMTT(40)
  <2>4. ListOK(new, map, qos, n)
    BY <1>1, <1>6, <2>2, <2>3, SMTT(40) DEF ListOK, C
  <2> QED BY <2>2, <2>4 DEF new, old
<1> QED BY <1>7, <1>8

\* A thread begins to execute an entry.
LEMMA AddExecution ==
    ASSUME SetFacts, NEW list, NEW map, NEW pos, NEW n, ListOK(list, map, pos, n),
           NEW t \in Thread, pos[t] = NoEntry,
           NEW qos \in [Thread -> 1..n \cup {NoEntry}], qos[t] \in DOMAIN list,
           \A u \in Thread : u # t => qos[u] = pos[u]
    PROVE  /\ ListOK(AddReference(list, qos[t]), map, qos, n)
           /\ DOMAIN AddReference(list, qos[t]) = DOMAIN list
           /\ \A e \in DOMAIN list : AddReference(list, qos[t])[e].callbacks = list[e].callbacks
<1> DEFINE x == qos[t]
           new == AddReference(list, x)
           C(p, e) == Cardinality(Executions(p, e))
           R(e) == IF map[list[e].callbacks] = e THEN 1 ELSE 0
<1>1. /\ n \in Nat /\ x \in 1..n /\ NoEntry \notin 1..n
      /\ pos \in [Thread -> 1..n \cup {NoEntry}]
  BY ValidationSignalsAssumption, SMTT(40) DEF ListOK
<1>2. \A e : C(pos, e) \in Nat
  BY ExecutionsFinite
<1>3. \A e \in DOMAIN list :
          /\ C(qos, e) = C(pos, e) + (IF e = x THEN 1 ELSE 0)
          /\ list[e].count = C(pos, e) + R(e)
          /\ list[e] \in [callbacks : Listener, count : Nat \ {0}]
  <2> TAKE e \in DOMAIN list
  <2>1. e # NoEntry
    BY <1>1 DEF ListOK
  <2>2. /\ e = x => C(qos, e) = C(pos, e) + 1
        /\ e # x => C(qos, e) = C(pos, e)
    <3>1. MovesAlone(pos, qos, t)
      BY <1>1 DEF MovesAlone
    <3> QED BY <1>1, <2>1, <3>1, ExecutionsMove, SMTT(40)
  <2>3. C(qos, e) = C(pos, e) + (IF e = x THEN 1 ELSE 0)
    <3>1. C(pos, e) \in Nat
      BY <1>2
    <3> HIDE DEF C, x
    <3> QED BY <2>2, <3>1, SMTT(40)
  <2> QED BY <2>3 DEF ListOK
<1>4. \A e \in DOMAIN list : R(e) \in {0, 1}
  OBVIOUS
<1>5. /\ DOMAIN new = DOMAIN list
      /\ \A e \in DOMAIN list :
            /\ new[e].callbacks = list[e].callbacks
            /\ new[e] \in [callbacks : Listener, count : Nat \ {0}]
            /\ new[e].count = list[e].count + (IF e = x THEN 1 ELSE 0)
  <2>1. \A e \in DOMAIN list : list[e] \in [callbacks : Listener, count : Nat \ {0}]
    BY <1>3
  <2> HIDE DEF C, R, x
  <2> QED BY <2>1, SMTT(40) DEF AddReference
<1>6. x \in DOMAIN list
  OBVIOUS
<1> HIDE DEF C, new
<1>7. \A e \in DOMAIN new : new[e].count = C(qos, e) + R(e)
  BY <1>2, <1>3, <1>4, <1>5, SMTT(40)
<1>8. ListOK(new, map, qos, n)
  BY <1>1, <1>5, <1>6, <1>7, SMTT(40) DEF ListOK, C
<1> QED BY <1>5, <1>8 DEF new

\* UnregisterValidationInterface: the entry loses the reference of the map.
LEMMA DropRegistration ==
    ASSUME SetFacts, NEW list, NEW map, NEW pos, NEW n, ListOK(list, map, pos, n),
           NEW l \in Listener, map[l] # NoEntry,
           NEW map2 \in [Listener -> 1..n \cup {NoEntry}], map2[l] = NoEntry,
           \A k \in Listener : k # l => map2[k] = map[k]
    PROVE  /\ ListOK(DropReference(list, map[l]), map2, pos, n)
           /\ DOMAIN DropReference(list, map[l]) \subseteq DOMAIN list
           /\ \A e \in DOMAIN DropReference(list, map[l]) :
                  DropReference(list, map[l])[e].callbacks = list[e].callbacks
<1> DEFINE old == map[l]
           new == DropReference(list, old)
           C(e) == Cardinality(Executions(pos, e))
           R(m, e) == IF m[list[e].callbacks] = e THEN 1 ELSE 0
<1>1. /\ n \in Nat /\ old \in DOMAIN list /\ old \in 1..n
      /\ list[old].callbacks = l
      /\ NoEntry \notin 1..n /\ pos \in [Thread -> 1..n \cup {NoEntry}]
  BY ValidationSignalsAssumption, SMTT(40) DEF ListOK
<1>2. \A e : C(e) \in Nat /\ (C(e) = 0 <=> Executions(pos, e) = {})
  BY ExecutionsFinite
<1>3. \A e \in DOMAIN list :
          /\ list[e].count = C(e) + R(map, e)
          /\ list[e] \in [callbacks : Listener, count : Nat \ {0}]
          /\ R(map, e) = R(map2, e) + (IF e = old THEN 1 ELSE 0)
  <2> TAKE e \in DOMAIN list
  <2>1. /\ list[e].count = C(e) + R(map, e)
        /\ list[e] \in [callbacks : Listener, count : Nat \ {0}]
        /\ e # NoEntry
    BY <1>1 DEF ListOK
  <2>2. list[e].callbacks = l => map[list[e].callbacks] = old
    OBVIOUS
  <2>3. R(map, e) = R(map2, e) + (IF e = old THEN 1 ELSE 0)
    BY <1>1, <2>1, SMTT(40)
  <2> QED BY <2>1, <2>3
<1>4. \A l2 \in Listener : map2[l2] # NoEntry =>
          map2[l2] \in DOMAIN list /\ list[map2[l2]].callbacks = l2 /\ map2[l2] # old
  BY <1>1, SMTT(40) DEF ListOK
<1>5. \A e \in DOMAIN list : R(map2, e) \in {0, 1}
  OBVIOUS
<1>6. CASE list[old].count = 1
  <2>1. new = [e \in DOMAIN list \ {old} |-> list[e]]
    BY <1>6 DEF DropReference, Remove
  <2>2. C(old) = 0
    <3>1. list[old].count = C(old) + R(map2, old) + 1 /\ C(old) \in Nat /\ R(map2, old) \in {0, 1}
      BY <1>1, <1>2, <1>3, <1>5, SMTT(40)
    <3> HIDE DEF C, R, old
    <3> QED BY <3>1, <1>6, SMTT(40)
  <2>3. \A u \in Thread : pos[u] # old
    BY <1>2, <2>2 DEF Executions
  <2> HIDE DEF C, new, old
  <2>4. \A u \in Thread : pos[u] # NoEntry => pos[u] \in DOMAIN new
    BY <2>1, <2>3 DEF ListOK
  <2>5. \A e \in DOMAIN new : /\ e # old /\ e \in DOMAIN list /\ new[e] = list[e]
                              /\ new[e].count = C(e) + R(map2, e)
    BY <1>2, <1>3, <1>5, <2>1, SMTT(40)
  <2>6. ListOK(new, map2, pos, n)
    BY <1>1, <1>4, <2>1, <2>4, <2>5 DEF ListOK, C
  <2> QED BY <2>1, <2>6 DEF new, old
<1>7. CASE list[old].count # 1
  <2>1. new = [list EXCEPT ![old].count = @ - 1]
    BY <1>7 DEF DropReference
  <2>2. /\ DOMAIN new = DOMAIN list
        /\ \A e \in DOMAIN list :
              /\ new[e].callbacks = list[e].callbacks
              /\ new[e] \in [callbacks : Listener, count : Nat \ {0}]
              /\ new[e].count = list[e].count - (IF e = old THEN 1 ELSE 0)
    <3>1. \A e \in DOMAIN list : list[e] \in [callbacks : Listener, count : Nat \ {0}]
      BY <1>3
    <3> HIDE DEF C, R, new, old
    <3> QED BY <1>1, <3>1, <1>7, <2>1, SMTT(40)
  <2> HIDE DEF C, new, old
  <2>3. \A e \in DOMAIN new : new[e].count = C(e) + R(map2, e)
    BY <1>2, <1>3, <1>5, <2>2, SMTT(40)
  <2>4. ListOK(new, map2, pos, n)
    BY <1>1, <1>4, <2>2, <2>3, SMTT(40) DEF ListOK, C
  <2> QED BY <2>2, <2>4 DEF new, old
<1> QED BY <1>6, <1>7

\* RegisterValidationInterface keeps the list right.
LEMMA RegisterList ==
    ASSUME SetFacts, ListOK(m_list, m_map, it, entries), NEW l \in Listener, Register(l)
    PROVE  ListOK(m_list', m_map', it', entries')
<1> DEFINE C(e) == Cardinality(Executions(it, e))
<1>1. CASE IsNew(l)
  <2>1. /\ entries \in Nat /\ entries' = entries + 1 /\ it' = it
        /\ DOMAIN m_list \subseteq 1..entries /\ entries' \notin DOMAIN m_list
        /\ it \in [Thread -> 1..entries \cup {NoEntry}] /\ NoEntry \notin Nat
        /\ m_map' = [m_map EXCEPT ![l] = entries'] /\ m_map[l] = NoEntry
        /\ m_map \in [Listener -> 1..entries \cup {NoEntry}]
    BY <1>1, ValidationSignalsAssumption, SMTT(40) DEF ListOK, Register, IsNew, Registered
  <2>2. /\ DOMAIN m_list' = DOMAIN m_list \cup {entries'}
        /\ m_list'[entries'] = [callbacks |-> l, count |-> 1]
        /\ \A e \in DOMAIN m_list : m_list'[e] = m_list[e]
    BY <1>1, <2>1 DEF Register
  <2>3. \A u \in Thread : it[u] # entries'
    BY <2>1, SMTT(40)
  <2>4. C(entries') = 0
    BY <2>3, ExecutionsFinite DEF Executions
  <2>5. \A e \in DOMAIN m_list :
            (m_map'[m_list[e].callbacks] = e) <=> (m_map[m_list[e].callbacks] = e)
    BY <2>1, SMTT(40) DEF ListOK
  <2>6. \A e \in DOMAIN m_list : m_list[e].count = C(e) + (IF m_map[m_list[e].callbacks] = e THEN 1 ELSE 0)
    BY DEF ListOK
  <2> HIDE DEF C
  <2>7. \A e \in DOMAIN m_list' :
            m_list'[e].count = C(e) + (IF m_map'[m_list'[e].callbacks] = e THEN 1 ELSE 0)
    <3> TAKE e \in DOMAIN m_list'
    <3>1. CASE e = entries'
      BY <2>1, <2>2, <2>4, <3>1, SMTT(40)
    <3>2. CASE e \in DOMAIN m_list
      BY <2>2, <2>5, <2>6, <3>2, SMTT(40)
    <3> QED BY <2>2, <3>1, <3>2
  <2>8. \A k \in Listener : m_map'[k] # NoEntry =>
            m_map'[k] \in DOMAIN m_list' /\ m_list'[m_map'[k]].callbacks = k
    BY <2>1, <2>2, SMTT(40) DEF ListOK
  <2>9. /\ entries' \in Nat /\ DOMAIN m_list' \subseteq 1..entries'
        /\ m_map' \in [Listener -> 1..entries' \cup {NoEntry}]
        /\ it' \in [Thread -> 1..entries' \cup {NoEntry}]
    BY <2>1, <2>2, SMTT(40)
  <2>10. /\ \A e \in DOMAIN m_list' : m_list'[e] \in [callbacks : Listener, count : Nat \ {0}]
         /\ \A u \in Thread : it'[u] # NoEntry => it'[u] \in DOMAIN m_list'
    BY <2>1, <2>2, SMTT(40) DEF ListOK
  <2> QED BY <2>1, <2>7, <2>8, <2>9, <2>10 DEF ListOK, C
<1>2. CASE ~IsNew(l)
  BY <1>2 DEF Register
<1> QED BY <1>1, <1>2

\* Clear keeps the list right.
LEMMA ClearList ==
    ASSUME SetFacts, ListOK(m_list, m_map, it, entries), Clear
    PROVE  ListOK(m_list', m_map', it', entries') /\ DOMAIN m_list' \subseteq DOMAIN m_list
           /\ \A e \in DOMAIN m_list' : m_list'[e].callbacks = m_list[e].callbacks
<1> DEFINE C(e) == Cardinality(Executions(it, e))
           registered == {m_map[l] : l \in Listener}
           R(e) == IF m_map[m_list[e].callbacks] = e THEN 1 ELSE 0
<1>1. /\ entries \in Nat /\ entries' = entries /\ it' = it /\ NoEntry \notin Nat
      /\ m_map' = [l \in Listener |-> NoEntry] /\ DOMAIN m_list \subseteq 1..entries
      /\ it \in [Thread -> 1..entries \cup {NoEntry}]
  BY ValidationSignalsAssumption DEF ListOK, Clear
<1>2. \A e : C(e) \in Nat /\ (C(e) = 0 <=> Executions(it, e) = {})
  BY ExecutionsFinite
<1>3. \A e \in DOMAIN m_list : (e \in registered) <=> (R(e) = 1)
  BY <1>1, SMTT(40) DEF ListOK
<1>4. \A e \in DOMAIN m_list :
          /\ R(e) \in {0, 1} /\ m_list[e].count = C(e) + R(e)
          /\ m_list[e] \in [callbacks : Listener, count : Nat \ {0}]
  BY DEF ListOK
<1>5. /\ DOMAIN m_list' = {e \in DOMAIN m_list : e \notin registered \/ m_list[e].count > 1}
      /\ \A e \in DOMAIN m_list' :
            m_list'[e] = IF e \in registered THEN [m_list[e] EXCEPT !.count = @ - 1] ELSE m_list[e]
  BY DEF Clear
<1> HIDE DEF C, R, registered
<1>6. \A e \in DOMAIN m_list' :
          /\ e \in DOMAIN m_list /\ m_list'[e].callbacks = m_list[e].callbacks
          /\ m_list'[e] \in [callbacks : Listener, count : Nat \ {0}]
          /\ m_list'[e].count = C(e)
  <2> TAKE e \in DOMAIN m_list'
  <2>1. CASE e \in registered
    <3>1. e \in DOMAIN m_list /\ m_list[e].count > 1
          /\ m_list'[e] = [m_list[e] EXCEPT !.count = @ - 1]
      BY <1>5, <2>1
    <3>2. m_list[e].count = C(e) + 1 /\ C(e) \in Nat /\ m_list[e].callbacks \in Listener
          /\ m_list[e] \in [callbacks : Listener, count : Nat \ {0}]
      BY <1>2, <1>3, <1>4, <2>1, <3>1
    <3> QED BY <3>1, <3>2, SMTT(40)
  <2>2. CASE e \notin registered
    <3>1. e \in DOMAIN m_list /\ m_list'[e] = m_list[e]
      BY <1>5, <2>2
    <3>2. m_list[e].count = C(e) + R(e) /\ R(e) = 0 /\ C(e) \in Nat
      BY <1>2, <1>3, <1>4, <2>2, <3>1
    <3> QED BY <1>4, <3>1, <3>2, SMTT(40)
  <2> QED BY <2>1, <2>2
<1>7. \A u \in Thread : it[u] # NoEntry => it[u] \in DOMAIN m_list'
  <2> SUFFICES ASSUME NEW u \in Thread, it[u] # NoEntry
               PROVE  it[u] \in DOMAIN m_list'
    OBVIOUS
  <2>1. it[u] \in DOMAIN m_list
    BY DEF ListOK
  <2>2. C(it[u]) # 0
    BY <1>2 DEF Executions
  <2>3. it[u] \in registered => m_list[it[u]].count > 1
    BY <1>2, <1>3, <1>4, <2>1, <2>2, SMTT(40)
  <2> QED BY <1>5, <2>1, <2>3
<1>8. \A e \in DOMAIN m_list' : m_map'[m_list'[e].callbacks] = NoEntry /\ e # NoEntry
  BY <1>1, <1>6, SMTT(40)
<1>9. ListOK(m_list', m_map', it', entries')
  <2>1. \A e \in DOMAIN m_list' :
            m_list'[e].count = C(e) + (IF m_map'[m_list'[e].callbacks] = e THEN 1 ELSE 0)
    BY <1>2, <1>6, <1>8, SMTT(40)
  <2>2. /\ entries' \in Nat /\ DOMAIN m_list' \subseteq 1..entries'
        /\ m_map' \in [Listener -> 1..entries' \cup {NoEntry}]
        /\ it' \in [Thread -> 1..entries' \cup {NoEntry}]
        /\ \A l \in Listener : m_map'[l] = NoEntry
    BY <1>1, <1>6
  <2> QED BY <1>1, <1>6, <1>7, <2>1, <2>2 DEF ListOK, C
<1> QED BY <1>6, <1>9

\* Iterate goes on, from a list and positions without the thread, to the next entry
\* or to the end.
LEMMA VisitList ==
    ASSUME SetFacts, NEW list, NEW pos, ListOK(list, m_map, pos, entries), NEW t \in Thread,
           pos[t] = NoEntry, it \in [Thread -> 1..entries \cup {NoEntry}],
           \A u \in Thread : u # t => pos[u] = it[u],
           NEW e \in DOMAIN list \cup {NoEntry}, NEW ev, Visit(t, list, e, ev),
           UNCHANGED <<m_map, entries>>
    PROVE  /\ ListOK(m_list', m_map', it', entries') /\ DOMAIN m_list' = DOMAIN list
           /\ \A x \in DOMAIN list : m_list'[x].callbacks = list[x].callbacks
<1>1. /\ entries \in Nat /\ NoEntry \notin Nat /\ DOMAIN list \subseteq 1..entries
      /\ pos \in [Thread -> 1..entries \cup {NoEntry}]
  BY ValidationSignalsAssumption DEF ListOK
<1>2. /\ it' \in [Thread -> 1..entries \cup {NoEntry}] /\ it'[t] = e
      /\ \A u \in Thread : u # t => it'[u] = pos[u]
  BY <1>1 DEF Visit
<1>3. CASE e = NoEntry
  <2>1. m_list' = list /\ it' = pos
    BY <1>1, <1>2, <1>3 DEF Visit
  <2> QED BY <2>1
<1>4. CASE e # NoEntry
  <2>1. m_list' = AddReference(list, it'[t]) /\ it'[t] \in DOMAIN list
    BY <1>1, <1>2, <1>4 DEF Visit
  <2> QED BY <1>2, <2>1, AddExecution, SMTT(40)
<1> QED BY <1>3, <1>4

\* What a step of Iterate does: thread t, behind position p, gives event ev to the
\* next entry, or it is at the end.
Advanced(t, p, ev) ==
    /\ ListOK(m_list', m_map', it', entries') /\ m_map' = m_map /\ entries' = entries
    /\ \A x \in DOMAIN m_list' : x \in DOMAIN m_list /\ m_list'[x].callbacks = m_list[x].callbacks
    /\ event' \in [Thread -> Event] /\ got' \in [1..entries -> Event]
    /\ owed' \in [Listener -> SUBSET Event] /\ \A l \in Listener : owed'[l] \subseteq owed[l]
    /\ \A u \in Thread : u # t => it'[u] = it[u] /\ event'[u] = event[u]
    /\ \/ /\ it'[t] = NoEntry /\ event'[t] = 0 /\ got' = got
          /\ \A y \in DOMAIN m_list : ~ (y > p)
       \/ /\ it'[t] \in DOMAIN m_list /\ it'[t] \in 1..entries /\ it'[t] > p
          /\ \A y \in DOMAIN m_list : y > p => it'[t] <= y
          /\ event'[t] = ev
          /\ got'[it'[t]] = IF ev = 0 THEN got[it'[t]] ELSE ev
          /\ \A x \in 1..entries : x # it'[t] => got'[x] = got[x]
          /\ ev \notin owed'[m_list[it'[t]].callbacks]

\* Visit, from the list without the thread, is such a step.
LEMMA VisitAdvances ==
    ASSUME SetFacts, NEW list, NEW pos, ListOK(list, m_map, pos, entries), NEW t \in Thread,
           pos[t] = NoEntry, it \in [Thread -> 1..entries \cup {NoEntry}],
           \A u \in Thread : u # t => pos[u] = it[u],
           NEW p \in Nat, NEW ev \in Event, Visit(t, list, NextEntry(m_list, p), ev),
           DOMAIN m_list \subseteq 1..entries, EventTypes,
           DOMAIN list \subseteq DOMAIN m_list, \A y \in DOMAIN m_list : y > p => y \in DOMAIN list,
           \A x \in DOMAIN list : list[x].callbacks = m_list[x].callbacks,
           UNCHANGED <<m_map, entries>>
    PROVE  Advanced(t, p, ev)
<1> DEFINE e == NextEntry(m_list, p)
<1>1. entries \in Nat /\ NoEntry \notin Nat /\ DOMAIN m_list \subseteq Nat
  BY ValidationSignalsAssumption, SMTT(40) DEF ListOK
<1>2. \/ e = NoEntry /\ \A y \in DOMAIN m_list : ~ (y > p)
      \/ /\ e \in DOMAIN m_list /\ e > p /\ e \in DOMAIN list /\ e # NoEntry
         /\ \A y \in DOMAIN m_list : y > p => e <= y
  BY <1>1, NextEntryLemma
<1> HIDE DEF e
<1>3. e \in DOMAIN list \cup {NoEntry}
  BY <1>2
<1>4. Visit(t, list, e, ev)
  BY DEF e
<1>5. /\ ListOK(m_list', m_map', it', entries') /\ DOMAIN m_list' = DOMAIN list
      /\ \A x \in DOMAIN list : m_list'[x].callbacks = list[x].callbacks
  BY <1>3, <1>4, VisitList, SMTT(40)
<1>6. /\ event \in [Thread -> Event] /\ got \in [1..entries -> Event]
      /\ owed \in [Listener -> SUBSET Event]
  BY DEF EventTypes
<1>7. /\ it'[t] = e /\ event' \in [Thread -> Event]
      /\ event'[t] = IF e = NoEntry THEN 0 ELSE ev
      /\ \A u \in Thread : u # t => it'[u] = it[u] /\ event'[u] = event[u]
  BY <1>4, <1>6, SMTT(40) DEF Visit, Event
<1>8. CASE e = NoEntry
  BY <1>2, <1>1, <1>4, <1>5, <1>6, <1>7, <1>8 DEF Visit, Advanced
<1>9. CASE e # NoEntry
  <2>1. /\ e \in DOMAIN m_list /\ e > p /\ e \in DOMAIN list /\ e \in 1..entries
        /\ \A y \in DOMAIN m_list : y > p => e <= y
    BY <1>2, <1>9
  <2>2. list[e].callbacks \in Listener
    BY <2>1 DEF ListOK
  <2>3. /\ got' = IF ev = 0 THEN got ELSE [got EXCEPT ![e] = ev]
        /\ owed' = [owed EXCEPT ![list[e].callbacks] = @ \ {ev}]
    BY <1>4, <1>9 DEF Visit
  <2>4. /\ got' \in [1..entries -> Event]
        /\ got'[e] = IF ev = 0 THEN got[e] ELSE ev
        /\ \A x \in 1..entries : x # e => got'[x] = got[x]
    BY <1>6, <2>1, <2>3
  <2>5. /\ owed' \in [Listener -> SUBSET Event] /\ \A l \in Listener : owed'[l] \subseteq owed[l]
        /\ ev \notin owed'[m_list[e].callbacks]
    BY <1>6, <2>1, <2>2, <2>3
  <2> QED BY <1>5, <1>7, <1>9, <2>1, <2>4, <2>5 DEF Advanced
<1> QED BY <1>8, <1>9

\* Iterate begins.
LEMMA BeginAdvances ==
    ASSUME SetFacts, ListOK(m_list, m_map, it, entries), EventTypes, NEW t \in Thread, it[t] = NoEntry,
           NEW ev \in Event, Visit(t, m_list, NextEntry(m_list, 0), ev),
           UNCHANGED <<m_map, entries>>
    PROVE  Advanced(t, 0, ev)
<1>1. DOMAIN m_list \subseteq 1..entries /\ it \in [Thread -> 1..entries \cup {NoEntry}]
  BY DEF ListOK
<1> QED BY <1>1, VisitAdvances

\* Iterate goes on when a callback has returned.
LEMMA ReturnAdvances ==
    ASSUME SetFacts, ListOK(m_list, m_map, it, entries), EventTypes, NEW t \in Thread, CallbackReturns(t)
    PROVE  Advanced(t, it[t], event[t])
<1> DEFINE list == DropReference(m_list, it[t])
           pos == [it EXCEPT ![t] = NoEntry]
<1>1. /\ DOMAIN m_list \subseteq 1..entries /\ it \in [Thread -> 1..entries \cup {NoEntry}]
      /\ entries \in Nat /\ it[t] # NoEntry /\ UNCHANGED <<m_map, entries>>
      /\ event[t] \in Event /\ Visit(t, list, NextEntry(m_list, it[t]), event[t])
  BY DEF ListOK, CallbackReturns, EventTypes, After
<1>2. /\ pos \in [Thread -> 1..entries \cup {NoEntry}] /\ pos[t] = NoEntry
      /\ \A u \in Thread : u # t => pos[u] = it[u]
  BY <1>1
<1>3. it[t] \in Nat /\ \A y \in DOMAIN m_list : y > it[t] => y # it[t]
  BY <1>1, SMTT(40)
<1> HIDE DEF pos
<1>4. /\ ListOK(list, m_map, pos, entries)
      /\ \A e \in DOMAIN m_list : e # it[t] => e \in DOMAIN list
      /\ DOMAIN list \subseteq DOMAIN m_list
      /\ \A e \in DOMAIN list : list[e].callbacks = m_list[e].callbacks
  BY <1>1, <1>2, DropExecution, SMTT(40)
<1>5. \A y \in DOMAIN m_list : y > it[t] => y \in DOMAIN list
  BY <1>3, <1>4
<1> HIDE DEF list
<1> QED BY <1>1, <1>2, <1>3, <1>4, <1>5, VisitAdvances, SMTT(40)

-----------------------------------------------------------------------------
(* The actions                                                             *)

\* The first task leaves the queue.
LEMMA TailLemma ==
    ASSUME pending \in Seq(Task), pending # <<>>, pending' = Tail(pending)
    PROVE  /\ pending' \in Seq(Task) /\ Head(pending) = pending[1] /\ 1 \in DOMAIN pending
           /\ \A i \in DOMAIN pending' : /\ i \in Nat \ {0} /\ i + 1 \in DOMAIN pending
                                         /\ pending'[i] = pending[i + 1]
           /\ \A i \in DOMAIN pending : i # 1 => /\ i \in Nat /\ i > 1 /\ i - 1 \in DOMAIN pending'
                                                /\ pending'[i - 1] = pending[i]
<1>1. /\ Len(pending) \in Nat \ {0} /\ DOMAIN pending = 1..Len(pending)
      /\ pending' \in Seq(Task) /\ Len(pending') = Len(pending) - 1
      /\ \A i \in 1..Len(pending') : pending'[i] = pending[i + 1]
      /\ DOMAIN pending' = 1..Len(pending')
  BY SMTT(40)
<1>2. Head(pending) = pending[1]
  BY SMTT(40)
<1> QED BY <1>1, <1>2, SMTT(40)

\* A task is appended to the queue.
LEMMA AppendLemma ==
    ASSUME pending \in Seq(Task), NEW task \in Task, pending' = Append(pending, task)
    PROVE  LET n == Len(pending) + 1
           IN  /\ pending' \in Seq(Task) /\ n \in Nat /\ n \notin DOMAIN pending
               /\ DOMAIN pending' = DOMAIN pending \cup {n} /\ pending'[n] = task
               /\ \A i \in DOMAIN pending : i \in Nat /\ i < n /\ pending'[i] = pending[i]
  BY SMTT(40)

\* A task is an event or a promise.
LEMMA TaskLemma ==
    ASSUME NEW tasks \in Seq(Task), NEW i \in DOMAIN tasks
    PROVE  IF tasks[i].kind = "event" THEN tasks[i].n \in Nat ELSE tasks[i].by \in Listener
<1>1. tasks[i] \in Task
  BY SMTT(40)
<1> QED BY <1>1 DEF Task, Event

\* A listener is registered, or was and its entry gets no second one.
LEMMA RegisterStep ==
    ASSUME SetFacts, IInv, NEW l \in Listener, Register(l)
    PROVE  IInv' /\ GivenInOrder
<1>1. /\ UNCHANGED <<runner, it, event, pending, current, events, syncs, before, owed>>
      /\ synced[l] # "waiting" /\ synced' = [synced EXCEPT ![l] = "no"]
      /\ synced' \in [Listener -> {"no", "waiting", "done"}]
      /\ entries \in Nat
  BY DEF Register, IInv, EventTypes, queue, ListOK
<1>2. ListOK(m_list, m_map, it, entries)' 
  BY RegisterList DEF IInv
<1>3. /\ entries' \in Nat /\ got' \in [1..entries' -> Event]
      /\ \A e \in 1..entries : e \in 1..entries' /\ got'[e] = got[e]
      /\ \A e \in 1..entries' : e \in 1..entries \/ got'[e] = 0
      /\ \A k \in Listener : m_map[k] # NoEntry => m_map'[k] = m_map[k]
  <2>1. got \in [1..entries -> Event] /\ entries \in Nat
        /\ m_map \in [Listener -> 1..entries \cup {NoEntry}]
    BY DEF IInv, EventTypes, ListOK
  <2>2. CASE IsNew(l)
    <3>1. /\ entries' = entries + 1 /\ got' = Append(got, 0)
          /\ m_map' = [m_map EXCEPT ![l] = entries'] /\ m_map[l] = NoEntry
      BY <2>2 DEF Register, IsNew, Registered
    <3>2. got \in Seq(Nat) /\ Len(got) = entries
      BY <2>1, SMTT(40) DEF Event
    <3>3. /\ got' \in Seq(Nat) /\ Len(got') = entries + 1 /\ got'[entries + 1] = 0
          /\ \A e \in 1..entries : got'[e] = got[e]
      BY <2>1, <3>1, <3>2, SMTT(40)
    <3>4. got' \in [1..entries + 1 -> Nat]
      BY <3>3, SMTT(40)
    <3> QED BY <2>1, <3>1, <3>3, <3>4, SMTT(40) DEF Event
  <2>3. CASE ~IsNew(l)
    BY <2>1, <2>3 DEF Register
  <2> QED BY <2>2, <2>3
<1>4. EventTypes'
  BY <1>1, <1>3 DEF IInv, EventTypes
<1>5. QueueOK'
  BY <1>1 DEF IInv, QueueOK, Deliverer, IsEvent
<1>6. GotOK'
  <2>1. /\ events \in Nat /\ \A t \in Thread : event[t] \in Nat
        /\ \A i \in DOMAIN pending : IsEvent(i) => pending[i].n \in 1..events
    BY DEF IInv, EventTypes, QueueOK, Event
  <2>2. /\ 0 <= events /\ \A t \in Thread : event[t] # 0 => 0 <= event[t] /\ 0 < event[t]
        /\ \A i \in DOMAIN pending : IsEvent(i) => 0 < pending[i].n
    BY <2>1, SMTT(40)
  <2>3. \A e \in 1..entries' : got'[e] <= events
    BY <1>3, <2>2 DEF IInv, GotOK
  <2>4. \A i \in DOMAIN pending, e \in 1..entries' : IsEvent(i) => got'[e] < pending[i].n
    BY <1>3, <2>2 DEF IInv, GotOK
  <2>5. \A t \in Thread, e \in 1..entries' : event[t] # 0 =>
            got'[e] <= event[t] /\ (e > it[t] => got'[e] < event[t])
    BY <1>3, <2>2 DEF IInv, GotOK
  <2> QED BY <1>1, <2>3, <2>4, <2>5 DEF GotOK, IsEvent
<1>7. OwedOK'
  BY <1>1, <1>3, SMTT(40) DEF IInv, OwedOK, OwedIsComing, Registered
<1>8. SyncOK'
  <2>1. \A i \in DOMAIN pending : ~ IsEvent(i) => synced[pending[i].by] = "waiting" /\ pending[i].by # l
    BY <1>1 DEF IInv, SyncOK
  <2>2. \A i \in DOMAIN pending : ~ IsEvent(i) => pending[i].by \in Listener
    BY TaskLemma DEF IInv, EventTypes, IsEvent
  <2>3. \A k \in Listener : k # l => synced'[k] = synced[k]
    BY <1>1
  <2>4. synced \in [Listener -> {"no", "waiting", "done"}] /\ synced'[l] = "no"
    BY <1>1 DEF IInv, EventTypes
  <2> QED BY <1>1, <2>1, <2>2, <2>3, <2>4, SMTT(40) DEF IInv, SyncOK, IsEvent
<1>9. GivenInOrder
  BY <1>3 DEF GivenInOrder, IInv, EventTypes
<1> QED BY <1>2, <1>4, <1>5, <1>6, <1>7, <1>8, <1>9 DEF IInv

\* A listener is unregistered, or all are: they are owed nothing more.
LEMMA UnregisterStep ==
    ASSUME SetFacts, IInv, Clear \/ \E l \in Listener : Unregister(l)
    PROVE  IInv' /\ GivenInOrder
<1>1. UNCHANGED <<runner, it, event, pending, current, entries, events, syncs, synced, before, got>>
  BY DEF Clear, Unregister, queue
<1>2. /\ ListOK(m_list, m_map, it, entries)' 
      /\ owed' \in [Listener -> SUBSET Event]
      /\ \A l \in Listener : owed'[l] = {} \/ (owed'[l] = owed[l] /\ m_map'[l] = m_map[l])
  <2>1. owed \in [Listener -> SUBSET Event] /\ m_map \in [Listener -> 1..entries \cup {NoEntry}]
    BY DEF IInv, EventTypes, ListOK
  <2>2. CASE Clear
    <3>1. ListOK(m_list, m_map, it, entries)' 
      BY <2>2, ClearList DEF IInv
    <3> QED BY <2>2, <3>1 DEF Clear
  <2>3. ASSUME NEW l \in Listener, Unregister(l)
        PROVE  <1>2!1 /\ <1>2!2 /\ <1>2!3
    <3>1. /\ m_map[l] # NoEntry /\ m_list' = DropReference(m_list, m_map[l])
          /\ m_map' \in [Listener -> 1..entries \cup {NoEntry}] /\ m_map'[l] = NoEntry
          /\ \A k \in Listener : k # l => m_map'[k] = m_map[k]
          /\ owed' = [owed EXCEPT ![l] = {}]
      BY <2>1, <2>3 DEF Unregister, Registered
    <3>2. ListOK(m_list', m_map', it, entries)
      BY <3>1, DropRegistration DEF IInv
    <3> QED BY <1>1, <2>1, <3>1, <3>2
  <2> QED BY <2>2, <2>3
<1>3. EventTypes'
  BY <1>1, <1>2 DEF IInv, EventTypes
<1>4. QueueOK' /\ GotOK'
  BY <1>1 DEF IInv, QueueOK, GotOK, Deliverer, IsEvent
<1>5. OwedOK'
  BY <1>1, <1>2 DEF IInv, OwedOK, OwedIsComing, Registered
<1>6. SyncOK'
  BY <1>1, SMTT(40) DEF IInv, SyncOK, IsEvent
<1> QED BY <1>1, <1>2, <1>3, <1>4, <1>5, <1>6 DEF IInv, GivenInOrder

\* The types of the variables that the lemmas below reason about
LEMMA Types ==
    ASSUME IInv
    PROVE  /\ entries \in Nat /\ events \in Nat /\ NoEntry \notin Nat
           /\ DOMAIN m_list \subseteq 1..entries
           /\ m_map \in [Listener -> 1..entries \cup {NoEntry}]
           /\ it \in [Thread -> 1..entries \cup {NoEntry}]
           /\ event \in [Thread -> Nat] /\ got \in [1..entries -> Nat]
           /\ pending \in Seq(Task) /\ before \in [Listener -> Nat]
           /\ owed \in [Listener -> SUBSET Nat] /\ runner \in {"serial", "immediate"}
           /\ \A i \in DOMAIN pending : IsEvent(i) => pending[i].n \in 1..events
           /\ \A i \in DOMAIN pending : ~ IsEvent(i) => pending[i].by \in Listener
           /\ \A l \in Listener : m_map[l] # NoEntry =>
                  m_map[l] \in DOMAIN m_list /\ m_list[m_map[l]].callbacks = l
           /\ Background \in Thread /\ Validation \in Thread /\ Background # Validation
<1>1. \A i \in DOMAIN pending : ~ IsEvent(i) => pending[i].by \in Listener
  BY TaskLemma DEF IInv, EventTypes, IsEvent
<1> QED BY <1>1, ValidationSignalsAssumption DEF IInv, EventTypes, ListOK, QueueOK, Event

\* A callback returns, and Iterate goes on with the next one.
LEMMA ReturnStep ==
    ASSUME SetFacts, IInv, NEW t \in Thread, CallbackReturns(t)
    PROVE  IInv' /\ GivenInOrder
<1> DEFINE ev == event[t]
<1>1. /\ UNCHANGED <<runner, m_map, pending, entries, events, syncs, synced, before>>
      /\ it[t] # NoEntry
      /\ current' = IF t = Background /\ it'[t] = NoEntry THEN NoTask ELSE current
  BY DEF CallbackReturns
<1>2. Advanced(t, it[t], ev)
  BY ReturnAdvances DEF IInv
<1>3. it[t] \in 1..entries /\ ev \in Nat
  BY <1>1, Types
<1>4. /\ ListOK(m_list, m_map, it, entries)' 
      /\ event' \in [Thread -> Nat] /\ got' \in [1..entries -> Nat]
      /\ owed' \in [Listener -> SUBSET Nat] /\ \A l \in Listener : owed'[l] \subseteq owed[l]
      /\ \A u \in Thread : u # t => it'[u] = it[u] /\ event'[u] = event[u]
      /\ event'[t] \in {0, ev} /\ (it'[t] = NoEntry => event'[t] = 0)
      /\ (it'[t] # NoEntry => /\ event'[t] = ev /\ it'[t] \in 1..entries /\ it'[t] > it[t])
      /\ \A e \in 1..entries : got'[e] # got[e] => got'[e] = ev /\ e = it'[t] /\ e > it[t] /\ ev # 0
  <2>1. /\ <1>4!1 /\ <1>4!2 /\ <1>4!3 /\ <1>4!4
    BY <1>2 DEF Advanced, Event
  <2>2. NoEntry \notin 1..entries
    BY Types, SMTT(40)
  <2>3. /\ <1>4!5 /\ <1>4!6
    BY <1>2, <2>2 DEF Advanced
  <2> QED BY <1>2, <2>1, <2>2, <2>3 DEF Advanced
<1>5. EventTypes'
  BY <1>1, <1>4 DEF IInv, EventTypes, Event
<1>6. QueueOK'
  <2>1. /\ current' = NoTask => it'[Background] = NoEntry
        /\ \A u \in Thread : it'[u] = NoEntry => event'[u] = 0
        /\ \A u \in Thread : event'[u] # 0 => u = Deliverer /\ event'[u] <= events
    BY <1>1, <1>4, Types DEF IInv, QueueOK
  <2>2. /\ it'[Background] # NoEntry => event'[Background] # 0
        /\ runner = "immediate" => pending = <<>> /\ current' = NoTask
    BY <1>1, <1>4, Types DEF IInv, QueueOK
  <2>3. ASSUME NEW i \in DOMAIN pending, IsEvent(i)
        PROVE  pending[i].n > event'[Background]
    <3>1. event'[Background] \in {0, event[Background]}
      BY <1>4, Types
    <3>2. pending[i].n > event[Background] /\ pending[i].n \in 1..events
      BY <2>3 DEF IInv, QueueOK
    <3>3. events \in Nat /\ event[Background] \in Nat
      BY Types
    <3> QED BY <3>1, <3>2, <3>3, SMTT(40)
  <2> QED BY <1>1, <2>1, <2>2, <2>3 DEF IInv, QueueOK, Deliverer, IsEvent
<1>7. /\ ev # 0 => t = Deliverer /\ ev <= events
      /\ ev # 0 => \A i \in DOMAIN pending : IsEvent(i) => ev < pending[i].n
      /\ ev # 0 => \A e \in 1..entries : got[e] <= ev /\ (e > it[t] => got[e] < ev)
      /\ ev # 0 => \A u \in Thread : u # t => event[u] = 0
  <2>1. ev # 0 => t = Deliverer /\ ev <= events /\ \A u \in Thread : u # t => event[u] = 0
    BY DEF IInv, QueueOK
  <2>2. ev # 0 => \A i \in DOMAIN pending : IsEvent(i) => ev < pending[i].n
    BY <1>3, <2>1, Types, SMTT(40) DEF IInv, QueueOK, Deliverer
  <2>3. ev # 0 => \A e \in 1..entries : got[e] <= ev /\ (e > it[t] => got[e] < ev)
    BY DEF IInv, GotOK
  <2> QED BY <2>1, <2>2, <2>3
<1>8. GotOK'
  <2>1. \A e \in 1..entries : got'[e] <= events
    BY <1>3, <1>4, <1>7 DEF IInv, GotOK
  <2>2. \A i \in DOMAIN pending, e \in 1..entries : IsEvent(i) => got'[e] < pending[i].n
    BY <1>3, <1>4, <1>7 DEF IInv, GotOK
  <2>3. ASSUME NEW u \in Thread, NEW e \in 1..entries, event'[u] # 0
        PROVE  got'[e] <= event'[u] /\ (e > it'[u] => got'[e] < event'[u])
    <3>1. CASE u = t
      <4>1. event'[t] = ev /\ ev # 0 /\ it'[t] \in 1..entries /\ it'[t] > it[t]
        BY <1>4, <2>3, <3>1
      <4>2. got[e] <= ev /\ (e > it[t] => got[e] < ev)
        BY <1>7, <4>1
      <4> QED BY <1>3, <1>4, <3>1, <4>1, <4>2, SMTT(40)
    <3>2. CASE u # t
      <4>1. event'[u] = event[u] /\ it'[u] = it[u] /\ ev = 0
        BY <1>4, <1>7, <2>3, <3>2
      <4>2. got'[e] = got[e]
        BY <1>4, <4>1
      <4> QED BY <2>3, <4>1, <4>2 DEF IInv, GotOK
    <3> QED BY <3>1, <3>2
  <2> QED BY <1>1, <2>1, <2>2, <2>3 DEF GotOK, IsEvent
<1>9. OwedOK'
  <2>1. \A l \in Listener : owed'[l] \subseteq 1..events /\ (owed'[l] # {} => m_map[l] # NoEntry)
    BY <1>4 DEF IInv, OwedOK, Registered
  <2>2. ASSUME NEW l \in Listener, NEW n \in 1..events, n \in owed'[l]
        PROVE  \/ \E i \in DOMAIN pending : IsEvent(i) /\ pending[i].n = n
               \/ event'[Background] = n /\ it'[Background] < m_map[l]
    <3>1. CASE event[Background] = n /\ it[Background] < m_map[l] /\ t = Background
      <4>1. ev = n /\ it[t] < m_map[l] /\ m_map[l] \in DOMAIN m_list /\ m_map[l] \in 1..entries
            /\ m_list[m_map[l]].callbacks = l
        BY <2>1, <2>2, <3>1, Types
      <4>2. it'[t] \in 1..entries /\ it'[t] <= m_map[l] /\ event'[t] = ev
            /\ ev \notin owed'[m_list[it'[t]].callbacks]
        BY <1>2, <1>3, <4>1 DEF Advanced
      <4>3. it'[t] # m_map[l]
        BY <2>2, <4>1, <4>2
      <4> QED BY <3>1, <4>1, <4>2, <4>3, SMTT(40)
    <3>2. CASE event[Background] = n /\ it[Background] < m_map[l] /\ t # Background
      BY <1>4, <3>2, Types
    <3>3. CASE \E i \in DOMAIN pending : IsEvent(i) /\ pending[i].n = n
      BY <3>3
    <3>4. n \in owed[l]
      BY <1>4, <2>2
    <3> QED BY <3>1, <3>2, <3>3, <3>4 DEF IInv, OwedOK, OwedIsComing, IsEvent
  <2> QED BY <1>1, <2>1, <2>2 DEF OwedOK, OwedIsComing, Registered, IsEvent
<1>10. SyncOK'
  <2>1. it'[Background] # NoEntry => it[Background] # NoEntry /\ event'[Background] = event[Background]
    BY <1>1, <1>4, Types
  <2> QED BY <1>1, <2>1, SMTT(40) DEF IInv, SyncOK, IsEvent
<1>11. GivenInOrder
  <2>1. \A e \in 1..entries : got'[e] # got[e] => got'[e] > got[e]
    BY <1>3, <1>4, <1>7, Types
  <2> QED BY <2>1, Types DEF GivenInOrder
<1> QED BY <1>4, <1>5, <1>6, <1>8, <1>9, <1>10, <1>11 DEF IInv

\* The validation thread gives an event to the first listener itself: a synchronous
\* one, or any with ImmediateTaskRunner.
LEMMA ValidationStep ==
    ASSUME SetFacts, IInv, SynchronousEvent \/ RunAtOnce
    PROVE  IInv' /\ GivenInOrder
<1> DEFINE ev == IF SynchronousEvent THEN 0 ELSE events + 1
<1>1. /\ UNCHANGED <<runner, m_map, pending, current, entries, syncs, synced, before>>
      /\ it[Validation] = NoEntry /\ event[Validation] = 0
      /\ Visit(Validation, m_list, NextEntry(m_list, 0), ev)
  BY Types DEF SynchronousEvent, RunAtOnce, queue, IInv, QueueOK
<1>2. /\ ev \in Nat /\ events' \in Nat /\ events <= events' /\ ev <= events'
      /\ (ev # 0 => ev > events /\ runner = "immediate" /\ pending = <<>>)
  BY Types, SMTT(40) DEF SynchronousEvent, RunAtOnce, IInv, QueueOK
<1> HIDE DEF ev
<1>3. Advanced(Validation, 0, ev)
  BY <1>1, <1>2, Types, BeginAdvances DEF IInv, Event
<1>4. /\ ListOK(m_list, m_map, it, entries)'
      /\ event' \in [Thread -> Nat] /\ got' \in [1..entries -> Nat]
      /\ owed' \in [Listener -> SUBSET Nat] /\ \A l \in Listener : owed'[l] \subseteq owed[l]
      /\ \A u \in Thread : u # Validation => it'[u] = it[u] /\ event'[u] = event[u]
      /\ event'[Validation] \in {0, ev} /\ (it'[Validation] = NoEntry => event'[Validation] = 0)
      /\ (it'[Validation] # NoEntry => event'[Validation] = ev /\ it'[Validation] \in 1..entries)
      /\ \A e \in 1..entries : got'[e] # got[e] => got'[e] = ev /\ e = it'[Validation] /\ ev # 0
  <2>1. /\ <1>4!1 /\ <1>4!2 /\ <1>4!3 /\ <1>4!4
    BY <1>3 DEF Advanced, Event
  <2>2. NoEntry \notin 1..entries
    BY Types, SMTT(40)
  <2>3. /\ <1>4!5 /\ <1>4!6
    BY <1>3, <2>2 DEF Advanced
  <2> QED BY <1>3, <2>1, <2>2, <2>3 DEF Advanced
<1>5. EventTypes'
  BY <1>1, <1>2, <1>4 DEF IInv, EventTypes, Event
<1>6. it'[Background] = it[Background] /\ event'[Background] = event[Background]
  BY <1>4, Types
<1>7. QueueOK'
  <2>1. /\ current' = NoTask => it'[Background] = NoEntry
        /\ it'[Background] # NoEntry => event'[Background] # 0
        /\ runner = "immediate" => pending = <<>> /\ current' = NoTask
    BY <1>1, <1>6 DEF IInv, QueueOK
  <2>2. ASSUME NEW u \in Thread
        PROVE  (it'[u] = NoEntry => event'[u] = 0) /\ (event'[u] # 0 => u = Deliverer /\ event'[u] <= events')
    <3>1. CASE u = Validation
      <4>1. event'[u] \in {0, ev} /\ (it'[u] = NoEntry => event'[u] = 0)
        BY <1>4, <3>1
      <4> QED BY <1>2, <3>1, <4>1 DEF Deliverer
    <3>2. CASE u # Validation
      <4>1. it'[u] = it[u] /\ event'[u] = event[u]
        BY <1>4, <3>2
      <4>2. (it[u] = NoEntry => event[u] = 0) /\ (event[u] # 0 => u = Deliverer /\ event[u] <= events)
        BY DEF IInv, QueueOK
      <4>3. event[u] \in Nat /\ events \in Nat
        BY Types
      <4> QED BY <1>2, <4>1, <4>2, <4>3, SMTT(40)
    <3> QED BY <3>1, <3>2
  <2>3. ASSUME NEW i \in DOMAIN pending, IsEvent(i)
        PROVE  pending[i].n \in 1..events' /\ pending[i].n > event'[Background]
    <3>1. pending[i].n > event[Background] /\ pending[i].n \in 1..events /\ events \in Nat
      BY <2>3, Types DEF IInv, QueueOK
    <3>2. pending[i].n \in 1..events'
      BY <1>2, <3>1, SMTT(40)
    <3> QED BY <1>6, <3>1, <3>2
  <2> QED BY <1>1, <2>1, <2>2, <2>3 DEF IInv, QueueOK, Deliverer, IsEvent
<1>8. \A e \in 1..entries : got[e] <= events
  BY DEF IInv, GotOK
<1>9. GotOK'
  <2>1. \A e \in 1..entries : got'[e] <= events'
    <3> TAKE e \in 1..entries
    <3>1. got[e] \in Nat /\ got[e] <= events /\ events \in Nat
      BY <1>8, Types
    <3>2. got'[e] = got[e] \/ got'[e] = ev
      BY <1>4
    <3> QED BY <1>2, <3>1, <3>2, SMTT(40)
  <2>2. \A i \in DOMAIN pending, e \in 1..entries : IsEvent(i) => got'[e] < pending[i].n
    BY <1>2, <1>4, SMTT(40) DEF IInv, GotOK
  <2>3. ASSUME NEW u \in Thread, NEW e \in 1..entries, event'[u] # 0
        PROVE  got'[e] <= event'[u] /\ (e > it'[u] => got'[e] < event'[u])
    <3>1. CASE u = Validation
      <4>1. event'[u] = ev /\ ev # 0 /\ ev > events /\ it'[u] \in 1..entries
        BY <1>2, <1>4, <2>3, <3>1
      <4>2. got[e] \in Nat /\ got[e] <= events /\ events \in Nat
        BY <1>8, Types
      <4>3. got'[e] = got[e] \/ (got'[e] = ev /\ e = it'[u])
        BY <1>4, <3>1
      <4> QED BY <1>2, <4>1, <4>2, <4>3, SMTT(40)
    <3>2. CASE u # Validation
      <4>1. event'[u] = event[u] /\ it'[u] = it[u] /\ u = Deliverer
        BY <1>4, <2>3, <3>2 DEF IInv, QueueOK
      <4>2. ev = 0
        BY <1>2, <3>2, <4>1 DEF Deliverer
      <4>3. got'[e] = got[e]
        BY <1>4, <4>2
      <4> QED BY <2>3, <4>1, <4>3 DEF IInv, GotOK
    <3> QED BY <3>1, <3>2
  <2> QED BY <1>1, <2>1, <2>2, <2>3 DEF GotOK, IsEvent
<1>10. OwedOK'
  <2>1. \A l \in Listener : owed'[l] \subseteq 1..events' /\ (owed'[l] # {} => m_map[l] # NoEntry)
    BY <1>2, <1>4, Types, SMTT(40) DEF IInv, OwedOK, Registered
  <2>2. ASSUME NEW l \in Listener, NEW n \in 1..events', n \in owed'[l]
        PROVE  \/ \E i \in DOMAIN pending : IsEvent(i) /\ pending[i].n = n
               \/ event'[Background] = n /\ it'[Background] < m_map[l]
    <3>1. n \in owed[l] /\ n \in 1..events
      BY <1>4, <2>2 DEF IInv, OwedOK
    <3> QED BY <1>6, <3>1 DEF IInv, OwedOK, OwedIsComing, IsEvent
  <2> QED BY <1>1, <2>1, <2>2 DEF OwedOK, OwedIsComing, Registered, IsEvent
<1>11. SyncOK'
  <2>1. \A l \in Listener : before[l] <= events'
    BY <1>2, Types, SMTT(40) DEF IInv, SyncOK
  <2> QED BY <1>1, <1>6, <2>1 DEF IInv, SyncOK, IsEvent
<1>12. GivenInOrder
  <2>1. ASSUME NEW e \in 1..entries, got'[e] # got[e]
        PROVE  got'[e] > got[e]
    <3>1. got'[e] = ev /\ ev > events /\ got[e] <= events
      BY <1>2, <1>4, <1>8, <2>1
    <3>2. got[e] \in Nat /\ events \in Nat
      BY Types
    <3> QED BY <1>2, <3>1, <3>2, SMTT(40)
  <2> QED BY <2>1, Types DEF GivenInOrder
<1> QED BY <1>4, <1>5, <1>7, <1>9, <1>10, <1>11, <1>12 DEF IInv

\* The background thread takes the oldest event of the queue and gives it to the
\* first listener.
LEMMA StartStep ==
    ASSUME SetFacts, IInv, StartEvent
    PROVE  IInv' /\ GivenInOrder
<1> DEFINE ev == pending[1].n
<1>1. /\ UNCHANGED <<runner, m_map, entries, events, syncs, synced, before>>
      /\ current = NoTask /\ pending # <<>> /\ pending' = Tail(pending)
      /\ current' = Head(pending) /\ Head(pending).kind = "event"
      /\ NextEntry(m_list, 0) # NoEntry
      /\ Visit(Background, m_list, NextEntry(m_list, 0), Head(pending).n)
  BY DEF StartEvent, Queue!Start
<1>2. /\ pending' \in Seq(Task) /\ Head(pending) = pending[1] /\ 1 \in DOMAIN pending
      /\ \A i \in DOMAIN pending' : /\ i \in Nat \ {0} /\ i + 1 \in DOMAIN pending
                                    /\ pending'[i] = pending[i + 1]
      /\ \A i \in DOMAIN pending : i # 1 => /\ i \in Nat /\ i > 1 /\ i - 1 \in DOMAIN pending'
                                           /\ pending'[i - 1] = pending[i]
  BY <1>1, Types, TailLemma
<1>3. /\ it[Background] = NoEntry /\ event[Background] = 0 /\ runner = "serial"
      /\ IsEvent(1) /\ ev \in 1..events /\ current' \in Task /\ current' # NoTask
  <2>1. Head(pending) \in Task
    BY <1>1, Types, SMTT(40)
  <2>2. /\ it[Background] = NoEntry /\ event[Background] = 0 /\ runner = "serial"
        /\ IsEvent(1)
    BY <1>1, <1>2, Types DEF IInv, QueueOK, IsEvent
  <2>3. ev \in 1..events
    BY <1>2, <2>2, Types
  <2> QED BY <1>1, <2>1, <2>2, <2>3, ValidationSignalsAssumption
<1>4. /\ \A i \in DOMAIN pending' : IsEvent(i)' => pending'[i].n \in 1..events /\ pending'[i].n > ev
      /\ \A e \in 1..entries : got[e] < ev
      /\ \A u \in Thread : u # Background => event[u] = 0
  <2>1. \A i \in DOMAIN pending' : IsEvent(i)' => pending'[i].n \in 1..events /\ pending'[i].n > ev
    <3> SUFFICES ASSUME NEW i \in DOMAIN pending', pending'[i].kind = "event"
                 PROVE  pending'[i].n \in 1..events /\ pending'[i].n > ev
      BY DEF IsEvent
    <3>1. i + 1 \in DOMAIN pending /\ pending'[i] = pending[i + 1] /\ i + 1 > 1
      BY <1>2, SMTT(40)
    <3>2. pending[1].n < pending[i + 1].n /\ pending[i + 1].n \in 1..events
      BY <1>2, <1>3, <3>1, Types, SMTT(40) DEF IInv, QueueOK, IsEvent
    <3> QED BY <1>3, <3>1, <3>2, Types
  <2>2. \A e \in 1..entries : got[e] < ev
    BY <1>2, <1>3 DEF IInv, GotOK
  <2>3. \A u \in Thread : u # Background => event[u] = 0
    BY <1>3 DEF IInv, QueueOK, Deliverer
  <2> QED BY <2>1, <2>2, <2>3
<1> HIDE DEF ev
<1>5. Advanced(Background, 0, ev) /\ it'[Background] # NoEntry
  <2>1. Visit(Background, m_list, NextEntry(m_list, 0), ev)
    BY <1>1, <1>2 DEF ev
  <2>2. Advanced(Background, 0, ev)
    BY <1>1, <1>3, <2>1, Types, BeginAdvances, SMTT(40) DEF IInv, Event
  <2> QED BY <1>1, <2>1, <2>2, Types DEF Visit
<1>6. /\ ListOK(m_list, m_map, it, entries)'
      /\ event' \in [Thread -> Nat] /\ got' \in [1..entries -> Nat]
      /\ owed' \in [Listener -> SUBSET Nat] /\ \A l \in Listener : owed'[l] \subseteq owed[l]
      /\ \A u \in Thread : u # Background => it'[u] = it[u] /\ event'[u] = event[u]
      /\ event'[Background] = ev /\ it'[Background] \in 1..entries
      /\ \A y \in DOMAIN m_list : y > 0 => it'[Background] <= y
      /\ ev \notin owed'[m_list[it'[Background]].callbacks]
      /\ \A e \in 1..entries : got'[e] # got[e] => got'[e] = ev /\ e = it'[Background]
  <2>1. /\ <1>6!1 /\ <1>6!2 /\ <1>6!3 /\ <1>6!4 /\ <1>6!5 /\ <1>6!6
    BY <1>5, Types DEF Advanced, Event
  <2> QED BY <1>5, <2>1 DEF Advanced
<1>7. EventTypes'
  BY <1>1, <1>2, <1>3, <1>6 DEF IInv, EventTypes, Event
<1>8. QueueOK'
  <2>1. /\ current' # NoTask /\ it'[Background] # NoEntry /\ event'[Background] # 0
        /\ runner' = "serial"
    <3>1. ev # 0 /\ event'[Background] = ev
      <4>1. event'[Background] = ev
        BY <1>6
      <4> QED BY <1>3, <4>1, SMTT(40)
    <3> QED BY <1>1, <1>3, <1>5, <3>1
  <2>2. ASSUME NEW u \in Thread
        PROVE  (it'[u] = NoEntry => event'[u] = 0)
               /\ (event'[u] # 0 => u = Background /\ event'[u] <= events')
    <3>1. u # Background => event'[u] = 0
      BY <1>4, <1>6
    <3>2. ev <= events' /\ event'[Background] = ev
      <4>1. events \in Nat /\ events' = events /\ event'[Background] = ev
        BY <1>1, <1>6, Types
      <4> QED BY <1>3, <4>1, SMTT(40)
    <3> QED BY <2>1, <3>1, <3>2
  <2>3. \A i, j \in DOMAIN pending' : i < j /\ IsEvent(i)' /\ IsEvent(j)' => pending'[i].n < pending'[j].n
    BY <1>2, SMTT(40) DEF IInv, QueueOK, IsEvent
  <2> QED BY <1>1, <1>4, <1>6, <2>1, <2>2, <2>3 DEF QueueOK, Deliverer
<1>9. GotOK'
  <2>1. \A e \in 1..entries : got'[e] <= events /\ got'[e] <= ev /\ (e # it'[Background] => got'[e] < ev)
    <3> TAKE e \in 1..entries
    <3>1. got[e] \in Nat /\ ev \in Nat /\ events \in Nat /\ got[e] < ev /\ ev <= events
      <4>1. events \in Nat /\ got[e] \in Nat
        BY Types
      <4>2. got[e] < ev /\ ev \in 1..events
        BY <1>3, <1>4
      <4> QED BY <4>1, <4>2, SMTT(40)
    <3>2. got'[e] = got[e] \/ (got'[e] = ev /\ e = it'[Background])
      BY <1>6
    <3> QED BY <3>1, <3>2, SMTT(40)
  <2>2. \A i \in DOMAIN pending', e \in 1..entries : IsEvent(i)' => got'[e] < pending'[i].n
    <3> TAKE i \in DOMAIN pending', e \in 1..entries
    <3> HAVE IsEvent(i)'
    <3>1. pending'[i].n \in Nat /\ pending'[i].n > ev
      BY <1>4, SMTT(40)
    <3>2. got'[e] \in Nat /\ got'[e] <= ev /\ ev \in Nat
      BY <1>3, <1>6, <2>1, SMTT(40)
    <3> QED BY <3>1, <3>2, SMTT(40)
  <2>3. ASSUME NEW u \in Thread, NEW e \in 1..entries, event'[u] # 0
        PROVE  got'[e] <= event'[u] /\ (e > it'[u] => got'[e] < event'[u])
    BY <1>4, <1>6, <2>1, <2>3, SMTT(40)
  <2> QED BY <1>1, <2>1, <2>2, <2>3 DEF GotOK
<1>10. OwedOK'
  <2>1. \A l \in Listener : owed'[l] \subseteq 1..events /\ (owed'[l] # {} => m_map[l] # NoEntry)
    BY <1>6 DEF IInv, OwedOK, Registered
  <2>2. ASSUME NEW l \in Listener, NEW n \in 1..events, n \in owed'[l]
        PROVE  \/ \E i \in DOMAIN pending' : IsEvent(i)' /\ pending'[i].n = n
               \/ event'[Background] = n /\ it'[Background] < m_map[l]
    <3>1. n \in owed[l] /\ event[Background] # n
      BY <1>3, <1>6, <2>2, Types, SMTT(40)
    <3>2. PICK i \in DOMAIN pending : pending[i].kind = "event" /\ pending[i].n = n
      BY <2>2, <3>1 DEF IInv, OwedOK, OwedIsComing
    <3>3. CASE i = 1
      <4>1. n = ev /\ m_map[l] \in DOMAIN m_list /\ m_map[l] \in 1..entries
            /\ m_list[m_map[l]].callbacks = l
        BY <2>1, <2>2, <3>2, <3>3, Types DEF ev
      <4>2. it'[Background] <= m_map[l] /\ it'[Background] # m_map[l]
        BY <1>6, <2>2, <4>1, SMTT(40)
      <4> QED BY <1>6, <4>1, <4>2, SMTT(40)
    <3>4. CASE i # 1
      BY <1>2, <3>2, <3>4, SMTT(40) DEF IsEvent
    <3> QED BY <3>3, <3>4
  <2> QED BY <1>1, <2>1, <2>2 DEF OwedOK, OwedIsComing, Registered, IsEvent
<1>11. SyncOK'
  <2>1. \A i \in DOMAIN pending' : ~ IsEvent(i)' =>
           /\ synced[pending'[i].by] = "waiting"
           /\ \A j \in DOMAIN pending' : j > i =>
                  IF IsEvent(j)' THEN pending'[j].n > before[pending'[i].by]
                  ELSE pending'[j].by # pending'[i].by
    <3> SUFFICES ASSUME NEW i \in DOMAIN pending', ~ (pending'[i].kind = "event")
                 PROVE  <2>1!(i)!2
      BY DEF IsEvent
    <3>1. i \in Nat /\ i + 1 \in DOMAIN pending /\ pending'[i] = pending[i + 1]
      BY <1>2
    <3>2. \A j \in DOMAIN pending' : j > i => j \in Nat /\ j + 1 \in DOMAIN pending /\ j + 1 > i + 1
                                            /\ pending'[j] = pending[j + 1]
      BY <1>2, <3>1, SMTT(40)
    <3> QED BY <3>1, <3>2, SMTT(40) DEF IInv, SyncOK, IsEvent
  <2>2. \A l \in Listener : synced[l] = "done" =>
           /\ \A i \in DOMAIN pending' : IsEvent(i)' => pending'[i].n > before[l]
           /\ ev > before[l]
    BY <1>2, <1>3, SMTT(40) DEF IInv, SyncOK, IsEvent, ev
  <2> QED BY <1>1, <1>6, <2>1, <2>2 DEF IInv, SyncOK
<1>12. GivenInOrder
  <2>1. \A e \in 1..entries : got'[e] # got[e] => got'[e] > got[e]
    BY <1>3, <1>4, <1>6, Types
  <2> QED BY <2>1, Types DEF GivenInOrder
<1> QED BY <1>6, <1>7, <1>8, <1>9, <1>10, <1>11, <1>12 DEF IInv

\* An event goes to the end of the queue, and is owed to all who are registered.
LEMMA EnqueueStep ==
    ASSUME IInv, Enqueue
    PROVE  IInv' /\ GivenInOrder
<1> DEFINE n == Len(pending) + 1
           task == [kind |-> "event", n |-> events']
<1>1. /\ UNCHANGED <<runner, m_list, m_map, it, event, current, entries, syncs, synced, before, got>>
      /\ events' = events + 1 /\ runner = "serial" /\ pending' = Append(pending, task)
      /\ owed' = [l \in Listener |-> IF Registered(l) THEN owed[l] \cup {events'} ELSE owed[l]]
  BY DEF Enqueue, InsertTask, Queue!Insert, impl
<1>2. events' \in Nat /\ events' > events /\ events' \in 1..events' /\ events' # 0
  BY <1>1, Types, SMTT(40)
<1>3. task \in Task /\ task.kind = "event" /\ task.n = events'
  BY <1>2 DEF Task, Event
<1> HIDE DEF task
<1>4. /\ pending' \in Seq(Task) /\ n \in Nat /\ n \notin DOMAIN pending
      /\ DOMAIN pending' = DOMAIN pending \cup {n} /\ pending'[n] = task
      /\ \A i \in DOMAIN pending : i \in Nat /\ i < n /\ pending'[i] = pending[i]
  BY <1>1, <1>3, Types, AppendLemma
<1> HIDE DEF n
<1>5. ListOK(m_list, m_map, it, entries)'
  BY <1>1 DEF IInv
<1>6. EventTypes'
  BY <1>1, <1>2, <1>4 DEF IInv, EventTypes, Event
<1>7. \A t \in Thread : event[t] \in Nat /\ event[t] <= events
  BY Types, SMTT(40) DEF IInv, QueueOK
<1>8. QueueOK'
  <2>1. \A i \in DOMAIN pending' : IsEvent(i)' =>
            pending'[i].n \in 1..events' /\ pending'[i].n > event[Background]
    <3> SUFFICES ASSUME NEW i \in DOMAIN pending', pending'[i].kind = "event"
                 PROVE  pending'[i].n \in 1..events' /\ pending'[i].n > event[Background]
      BY DEF IsEvent
    <3>1. events \in Nat /\ event[Background] \in Nat /\ event[Background] <= events
          /\ events' = events + 1
      BY <1>1, <1>7, Types
    <3>2. CASE i = n
      <4>1. pending'[i].n = events'
        BY <1>3, <1>4, <3>2
      <4> QED BY <3>1, <4>1, SMTT(40)
    <3>3. CASE i # n
      <4>1. pending'[i] = pending[i] /\ pending[i].n \in 1..events /\ pending[i].n > event[Background]
        BY <1>4, <3>3 DEF IInv, QueueOK, IsEvent
      <4> QED BY <3>1, <4>1, SMTT(40)
    <3> QED BY <3>2, <3>3
  <2>2. \A i, j \in DOMAIN pending' :
            i < j /\ IsEvent(i)' /\ IsEvent(j)' => pending'[i].n < pending'[j].n
    <3> SUFFICES ASSUME NEW i \in DOMAIN pending', NEW j \in DOMAIN pending', i < j,
                        pending'[i].kind = "event", pending'[j].kind = "event"
                 PROVE  pending'[i].n < pending'[j].n
      BY DEF IsEvent
    <3>1. i \in DOMAIN pending
      <4>1. \A k \in DOMAIN pending : k \in Nat /\ k < n
        BY <1>4
      <4>2. DOMAIN pending' = DOMAIN pending \cup {n} /\ n \in Nat
        BY <1>4
      <4> QED BY <4>1, <4>2, SMTT(40)
    <3>2. CASE j = n
      BY <1>1, <1>3, <1>4, <3>1, <3>2, Types, SMTT(40) DEF IsEvent
    <3>3. CASE j # n
      BY <1>4, <3>1, <3>3 DEF IInv, QueueOK, IsEvent
    <3> QED BY <3>2, <3>3
  <2>3. \A t \in Thread : event[t] # 0 => t = Deliverer /\ event[t] <= events'
    <3> SUFFICES ASSUME NEW t \in Thread, event[t] # 0
                 PROVE  t = Deliverer /\ event[t] <= events'
      OBVIOUS
    <3>1. t = Deliverer /\ event[t] <= events /\ event[t] \in Nat /\ events \in Nat
      BY <1>7, Types DEF IInv, QueueOK
    <3>2. events' = events + 1
      BY <1>1
    <3> QED BY <3>1, <3>2, SMTT(40)
  <2> QED BY <1>1, <2>1, <2>2, <2>3 DEF IInv, QueueOK, Deliverer
<1>9. GotOK'
  <2>1. \A e \in 1..entries : got[e] \in Nat /\ got[e] <= events
    BY Types DEF IInv, GotOK
  <2>2. \A e \in 1..entries : got[e] < events'
    <3>1. events \in Nat /\ events' = events + 1
      BY <1>1, Types
    <3> QED BY <2>1, <3>1, SMTT(40)
  <2>3. \A i \in DOMAIN pending', e \in 1..entries : IsEvent(i)' => got[e] < pending'[i].n
    BY <1>3, <1>4, <2>2 DEF IInv, GotOK, IsEvent
  <2>4. \A e \in 1..entries : got[e] <= events'
    <3>1. events \in Nat /\ events' = events + 1
      BY <1>1, Types
    <3> QED BY <2>1, <3>1, SMTT(40)
  <2> QED BY <1>1, <2>3, <2>4 DEF IInv, GotOK
<1>10. OwedOK'
  <2>1. \A l \in Listener : owed'[l] \subseteq 1..events' /\ (owed'[l] # {} => m_map[l] # NoEntry)
    BY <1>1, <1>2, Types, SMTT(40) DEF IInv, OwedOK, Registered
  <2>2. ASSUME NEW l \in Listener, NEW k \in 1..events', k \in owed'[l]
        PROVE  \/ \E i \in DOMAIN pending' : IsEvent(i)' /\ pending'[i].n = k
               \/ event[Background] = k /\ it[Background] < m_map[l]
    <3>1. CASE k = events'
      BY <1>3, <1>4, <3>1 DEF IsEvent
    <3>2. CASE k # events'
      <4>1. k \in owed[l] /\ k \in 1..events
        <5>1. events \in Nat /\ events' = events + 1
          BY <1>1, Types
        <5>2. k \in 1..events
          BY <3>2, <5>1, SMTT(40)
        <5> QED BY <1>1, <2>2, <3>2, <5>2, Types
      <4> QED BY <1>4, <4>1, SMTT(40) DEF IInv, OwedOK, OwedIsComing, IsEvent
    <3> QED BY <3>1, <3>2
  <2> QED BY <1>1, <2>1, <2>2 DEF OwedOK, OwedIsComing, Registered, IsEvent
<1>11. SyncOK'
  <2>1. \A l \in Listener : before[l] \in Nat /\ before[l] <= events /\ before[l] < events'
    BY <1>1, Types, SMTT(40) DEF IInv, SyncOK
  <2>2. \A i \in DOMAIN pending' : ~ IsEvent(i)' =>
           /\ synced[pending'[i].by] = "waiting"
           /\ \A j \in DOMAIN pending' : j > i =>
                  IF IsEvent(j)' THEN pending'[j].n > before[pending'[i].by]
                  ELSE pending'[j].by # pending'[i].by
    <3> SUFFICES ASSUME NEW i \in DOMAIN pending', ~ (pending'[i].kind = "event")
                 PROVE  <2>2!(i)!2
      BY DEF IsEvent
    <3>1. i \in DOMAIN pending /\ i < n /\ pending'[i] = pending[i] /\ pending[i].by \in Listener
      BY <1>3, <1>4, Types DEF IsEvent
    <3>2. synced[pending'[i].by] = "waiting"
      BY <3>1 DEF IInv, SyncOK, IsEvent
    <3>3. ASSUME NEW j \in DOMAIN pending', j > i
          PROVE  IF pending'[j].kind = "event" THEN pending'[j].n > before[pending'[i].by]
                 ELSE pending'[j].by # pending'[i].by
      <4>1. CASE j = n
        BY <1>3, <1>4, <2>1, <3>1, <4>1
      <4>2. CASE j # n
        BY <1>4, <3>1, <3>3, <4>2, SMTT(40) DEF IInv, SyncOK, IsEvent
      <4> QED BY <4>1, <4>2
    <3> QED BY <3>2, <3>3 DEF IsEvent
  <2>3. \A l \in Listener : synced[l] = "done" =>
            \A i \in DOMAIN pending' : IsEvent(i)' => pending'[i].n > before[l]
    BY <1>3, <1>4, <2>1 DEF IInv, SyncOK, IsEvent
  <2>4. \A l \in Listener : before[l] <= events'
    <3>1. events \in Nat /\ events' = events + 1
      BY <1>1, Types
    <3> QED BY <2>1, <3>1, SMTT(40)
  <2> QED BY <1>1, <2>2, <2>3, <2>4 DEF IInv, SyncOK
<1> QED BY <1>1, <1>5, <1>6, <1>8, <1>9, <1>10, <1>11 DEF IInv, GivenInOrder

\* A client waits for the queue; with ImmediateTaskRunner it need not.
LEMMA SyncStep ==
    ASSUME IInv, NEW l \in Listener, Sync(l)
    PROVE  IInv' /\ GivenInOrder
<1> DEFINE n == Len(pending) + 1
           task == [kind |-> "promise", by |-> l]
<1>1. /\ UNCHANGED <<runner, m_list, m_map, it, event, current, entries, events, got, owed>>
      /\ before' = [before EXCEPT ![l] = events] /\ synced[l] = "no" /\ syncs' = syncs + 1
  BY DEF Sync, InsertTask, Queue!Insert, impl, queue
<1>2. /\ before' \in [Listener -> Nat] /\ before'[l] = events
      /\ \A k \in Listener : k # l => before'[k] = before[k]
  BY <1>1, Types
<1>3. \A i \in DOMAIN pending : ~ IsEvent(i) => pending[i].by # l
  BY <1>1 DEF IInv, SyncOK
<1>4. ListOK(m_list, m_map, it, entries)'
  BY <1>1 DEF IInv
<1>5. synced \in [Listener -> {"no", "waiting", "done"}]
  BY DEF IInv, EventTypes
<1>5a. syncs' \in Nat
  <2>1. syncs \in Nat /\ syncs' = syncs + 1
    BY <1>1 DEF IInv, EventTypes
  <2> QED BY <2>1, SMTT(40)
<1>6. CASE runner = "immediate"
  <2>1. UNCHANGED <<pending, current>> /\ synced' = [synced EXCEPT ![l] = "done"]
        /\ pending = <<>> /\ it[Background] = NoEntry
    BY <1>6 DEF Sync, queue, IInv, QueueOK
  <2>2. EventTypes'
    <3>1. synced' \in [Listener -> {"no", "waiting", "done"}]
      BY <1>5, <2>1
    <3> QED BY <1>1, <1>2, <1>5a, <2>1, <3>1 DEF IInv, EventTypes, Event
  <2>3. QueueOK' /\ GotOK' /\ OwedOK'
    BY <1>1, <2>1, SMTT(40) DEF IInv, QueueOK, GotOK, OwedOK, OwedIsComing, Deliverer, IsEvent, Registered
  <2>4. SyncOK'
    <3>1. \A k \in Listener : before'[k] <= events'
      BY <1>1, <1>2, Types, SMTT(40) DEF IInv, SyncOK
    <3>2. it'[Background] = NoEntry /\ DOMAIN pending' = {}
      BY <1>1, <2>1, SMTT(40)
    <3> QED BY <3>1, <3>2 DEF SyncOK
  <2> QED BY <1>1, <1>4, <2>2, <2>3, <2>4 DEF IInv, GivenInOrder
<1>7. CASE runner = "serial"
  <2>1. /\ synced' = [synced EXCEPT ![l] = "waiting"] /\ pending' = Append(pending, task)
        /\ task \in Task /\ task.kind # "event" /\ task.by = l
    BY <1>7 DEF Sync, InsertTask, Queue!Insert, Task
  <2> HIDE DEF task
  <2>2. /\ pending' \in Seq(Task) /\ n \in Nat /\ n \notin DOMAIN pending
        /\ DOMAIN pending' = DOMAIN pending \cup {n} /\ pending'[n] = task
        /\ \A i \in DOMAIN pending : i \in Nat /\ i < n /\ pending'[i] = pending[i]
    BY <2>1, Types, AppendLemma
  <2> HIDE DEF n
  <2>3. EventTypes'
    <3>1. synced' \in [Listener -> {"no", "waiting", "done"}]
      BY <1>5, <2>1
    <3> QED BY <1>1, <1>2, <1>5a, <2>2, <3>1 DEF IInv, EventTypes, Event
  <2>4. QueueOK' /\ GotOK'
    <3>1. \A i \in DOMAIN pending' : IsEvent(i)' => i \in DOMAIN pending /\ IsEvent(i)
                                                    /\ pending'[i] = pending[i]
      BY <2>1, <2>2 DEF IsEvent
    <3> QED BY <1>1, <1>7, <3>1 DEF IInv, QueueOK, GotOK, Deliverer
  <2>5. OwedOK'
    BY <1>1, <2>2, SMTT(40) DEF IInv, OwedOK, OwedIsComing, Registered
  <2>6. SyncOK'
    <3>1. \A k \in Listener : before'[k] <= events'
      BY <1>1, <1>2, Types, SMTT(40) DEF IInv, SyncOK
    <3>2. synced'[l] = "waiting" /\ \A k \in Listener : k # l => synced'[k] = synced[k]
      BY <1>5, <2>1
    <3>3. ASSUME NEW i \in DOMAIN pending', pending'[i].kind # "event"
          PROVE  /\ synced'[pending'[i].by] = "waiting"
                 /\ \A j \in DOMAIN pending' : j > i =>
                        IF pending'[j].kind = "event" THEN pending'[j].n > before'[pending'[i].by]
                        ELSE pending'[j].by # pending'[i].by
      <4>1. CASE i = n
        <5>1. pending'[i].by = l /\ n \in Nat
          BY <2>1, <2>2, <4>1
        <5>2. \A j \in DOMAIN pending' : j = n \/ (j \in Nat /\ j < n)
          BY <2>2
        <5>3. \A j \in DOMAIN pending' : ~ (j > n)
          BY <5>1, <5>2, SMTT(40)
        <5> QED BY <3>2, <4>1, <5>1, <5>3
      <4>2. CASE i # n
        <5>1. i \in DOMAIN pending /\ pending'[i] = pending[i] /\ pending[i].by \in Listener
              /\ pending[i].by # l
          BY <1>3, <2>2, <3>3, <4>2, Types DEF IsEvent
        <5> QED BY <1>2, <2>1, <2>2, <3>2, <3>3, <5>1, SMTT(40) DEF IInv, SyncOK, IsEvent
      <4> QED BY <4>1, <4>2
    <3>4. \A k \in Listener : synced'[k] = "done" =>
           /\ \A i \in DOMAIN pending' : pending'[i].kind = "event" => pending'[i].n > before'[k]
           /\ it[Background] # NoEntry => event[Background] > before'[k]
      BY <1>2, <2>1, <2>2, <3>2, SMTT(40) DEF IInv, SyncOK, IsEvent
    <3> QED BY <1>1, <3>1, <3>3, <3>4 DEF SyncOK, IsEvent
  <2> QED BY <1>1, <1>4, <2>3, <2>4, <2>5, <2>6 DEF IInv, GivenInOrder
<1> QED BY <1>6, <1>7, Types

\* The background thread passes over an event nobody listens to, or fulfils a promise.
LEMMA PassStep ==
    ASSUME SetFacts, IInv, SkipEvent \/ FulfilPromise
    PROVE  IInv' /\ GivenInOrder
<1>1. /\ UNCHANGED <<runner, m_list, m_map, it, event, current, entries, events, syncs, before, got, owed>>
      /\ current = NoTask /\ pending # <<>> /\ pending' = Tail(pending)
  BY DEF SkipEvent, FulfilPromise, impl
<1>2. /\ pending' \in Seq(Task) /\ Head(pending) = pending[1] /\ 1 \in DOMAIN pending
      /\ \A i \in DOMAIN pending' : /\ i \in Nat \ {0} /\ i + 1 \in DOMAIN pending
                                    /\ pending'[i] = pending[i + 1]
      /\ \A i \in DOMAIN pending : i # 1 => /\ i \in Nat /\ i > 1 /\ i - 1 \in DOMAIN pending'
                                           /\ pending'[i - 1] = pending[i]
  BY <1>1, Types, TailLemma
<1>3. it[Background] = NoEntry /\ event[Background] = 0
  BY <1>1, Types DEF IInv, QueueOK
<1>4. \/ /\ IsEvent(1) /\ NextEntry(m_list, 0) = NoEntry /\ synced' = synced
      \/ /\ ~ IsEvent(1) /\ synced' = [synced EXCEPT ![pending[1].by] = "done"]
  BY <1>2 DEF SkipEvent, FulfilPromise, IsEvent
<1>5. /\ synced \in [Listener -> {"no", "waiting", "done"}]
      /\ synced' \in [Listener -> {"no", "waiting", "done"}]
  BY <1>4 DEF IInv, EventTypes
<1>6. ListOK(m_list, m_map, it, entries)'
  BY <1>1 DEF IInv
<1>7. EventTypes'
  BY <1>1, <1>2, <1>5 DEF IInv, EventTypes
<1>8. QueueOK' /\ GotOK'
  <2>1. \A i \in DOMAIN pending' : IsEvent(i)' => i + 1 \in DOMAIN pending /\ IsEvent(i + 1)
                                                  /\ pending'[i].n = pending[i + 1].n
    BY <1>2 DEF IsEvent
  <2>2. \A i, j \in DOMAIN pending' : i < j => i + 1 < j + 1
    BY <1>2, SMTT(40)
  <2>3. runner = "serial"
    BY <1>1, Types DEF IInv, QueueOK
  <2>4. \A i, j \in DOMAIN pending' : i < j /\ IsEvent(i)' /\ IsEvent(j)' => pending'[i].n < pending'[j].n
    BY <2>1, <2>2 DEF IInv, QueueOK
  <2>5. \A i \in DOMAIN pending' : IsEvent(i)' =>
           pending'[i].n \in 1..events /\ pending'[i].n > event[Background]
    BY <2>1 DEF IInv, QueueOK
  <2>6. QueueOK'
    BY <1>1, <2>3, <2>4, <2>5 DEF IInv, QueueOK, Deliverer
  <2>7. GotOK'
    BY <1>1, <2>1 DEF IInv, GotOK
  <2> QED BY <2>6, <2>7
<1>9. OwedOK'
  <2>1. ASSUME NEW l \in Listener, NEW n \in 1..events, n \in owed[l]
        PROVE  \E i \in DOMAIN pending' : pending'[i].kind = "event" /\ pending'[i].n = n
    <3>1. PICK i \in DOMAIN pending : pending[i].kind = "event" /\ pending[i].n = n
      <4>1. OwedIsComing
        BY DEF IInv, OwedOK
      <4>2. event[Background] # n
        BY <1>3, SMTT(40)
      <4> QED BY <1>3, <2>1, <4>1, <4>2 DEF OwedIsComing
    <3>2. m_map[l] \in DOMAIN m_list /\ m_map[l] \in 1..entries
      BY <2>1, Types DEF IInv, OwedOK, Registered
    <3>3. NextEntry(m_list, 0) # NoEntry
      <4>1. DOMAIN m_list \subseteq Nat /\ 0 \in Nat /\ m_map[l] > 0
        BY <3>2, Types, SMTT(40)
      <4> QED BY <3>2, <4>1, Types, NextEntryLemma, SMTT(40)
    <3>4. i # 1
      BY <1>4, <3>1, <3>3 DEF IsEvent
    <3> QED BY <1>2, <3>1, <3>4
  <2> QED BY <1>1, <2>1 DEF IInv, OwedOK, OwedIsComing, Registered
<1>10. SyncOK'
  <2>1. ASSUME NEW i \in DOMAIN pending', pending'[i].kind # "event"
        PROVE  /\ synced'[pending'[i].by] = "waiting"
               /\ \A j \in DOMAIN pending' : j > i =>
                      IF pending'[j].kind = "event" THEN pending'[j].n > before[pending'[i].by]
                      ELSE pending'[j].by # pending'[i].by
    <3>1. /\ i \in Nat /\ i + 1 > 1 /\ i + 1 \in DOMAIN pending /\ pending'[i] = pending[i + 1]
          /\ ~ IsEvent(i + 1)
      BY <1>2, <2>1, SMTT(40) DEF IsEvent
    <3>2. \A j \in DOMAIN pending' : j > i => j \in Nat /\ j + 1 \in DOMAIN pending /\ j + 1 > i + 1
                                            /\ pending'[j] = pending[j + 1]
      BY <1>2, <3>1, SMTT(40)
    <3>3. synced[pending[i + 1].by] = "waiting" /\ (~ IsEvent(1) => pending[i + 1].by # pending[1].by)
      BY <1>2, <3>1 DEF IInv, SyncOK
    <3>4. pending[i + 1].by \in Listener
      BY <3>1, Types
    <3>5. synced'[pending[i + 1].by] = "waiting"
      BY <1>4, <1>5, <3>3, <3>4
    <3>6. ASSUME NEW j \in DOMAIN pending', j > i
          PROVE  IF pending'[j].kind = "event" THEN pending'[j].n > before[pending'[i].by]
                 ELSE pending'[j].by # pending'[i].by
      BY <3>1, <3>2, <3>6, SMTT(40) DEF IInv, SyncOK, IsEvent
    <3> QED BY <3>1, <3>5, <3>6
  <2>2. ASSUME NEW l \in Listener, synced'[l] = "done", NEW i \in DOMAIN pending', pending'[i].kind = "event"
        PROVE  pending'[i].n > before[l]
    <3>1. /\ i \in Nat /\ i + 1 > 1 /\ i + 1 \in DOMAIN pending /\ pending'[i] = pending[i + 1]
          /\ IsEvent(i + 1)
      BY <1>2, <2>2, SMTT(40) DEF IsEvent
    <3>2. CASE synced[l] = "done"
      BY <3>1, <3>2 DEF IInv, SyncOK
    <3>3. CASE synced[l] # "done"
      <4>1. ~ IsEvent(1) /\ l = pending[1].by
        BY <1>4, <1>5, <2>2, <3>3
      <4> QED BY <1>2, <3>1, <4>1 DEF IInv, SyncOK
    <3> QED BY <3>2, <3>3
  <2> QED BY <1>1, <1>3, <2>1, <2>2, SMTT(40) DEF IInv, SyncOK, IsEvent
<1> QED BY <1>1, <1>6, <1>7, <1>8, <1>9, <1>10 DEF IInv, GivenInOrder

-----------------------------------------------------------------------------
(* Theorems                                                                *)

\* The invariant holds at first.
LEMMA InitIInv == Init => IInv
<1> SUFFICES ASSUME Init PROVE IInv
  OBVIOUS
<1>1. /\ DOMAIN m_list = {} /\ entries = 0 /\ pending = <<>> /\ current = NoTask
      /\ DOMAIN pending = {} /\ pending \in Seq(Task)
  <2>1. m_list = <<>> /\ entries = 0 /\ pending = <<>> /\ current = NoTask
    BY DEF Init, Queue!Init
  <2>2. DOMAIN << >> = {} /\ << >> \in Seq(Task)
    BY SMTT(40)
  <2> QED BY <2>1, <2>2
<1>2. ListOK(m_list, m_map, it, entries)
  BY <1>1, SMTT(40) DEF Init, ListOK
<1>3. EventTypes
  BY <1>1, ValidationSignalsAssumption, SMTT(40) DEF Init, EventTypes, Event
<1>4. QueueOK /\ GotOK /\ OwedOK /\ SyncOK
  BY <1>1, ValidationSignalsAssumption, SMTT(40)
     DEF Init, QueueOK, GotOK, OwedOK, OwedIsComing, SyncOK
<1> QED BY <1>2, <1>3, <1>4 DEF IInv

\* Every step keeps the invariant, and gives no entry an old event.
LEMMA NextIInv ==
    ASSUME SetFacts
    PROVE  IInv /\ [Next]_vars => IInv' /\ [GivenInOrder]_vars
<1> SUFFICES ASSUME IInv, [Next]_vars
             PROVE  IInv' /\ [GivenInOrder]_vars
  OBVIOUS
<1>1. ASSUME NEW l \in Listener, Register(l) PROVE IInv' /\ GivenInOrder
  BY <1>1, RegisterStep
<1>2. ASSUME Clear \/ \E l \in Listener : Unregister(l) PROVE IInv' /\ GivenInOrder
  BY <1>2, UnregisterStep
<1>3. ASSUME NEW l \in Listener, Sync(l) PROVE IInv' /\ GivenInOrder
  BY <1>3, SyncStep
<1>4. ASSUME NEW t \in Thread, CallbackReturns(t) PROVE IInv' /\ GivenInOrder
  BY <1>4, ReturnStep
<1>5. CASE SynchronousEvent \/ RunAtOnce
  BY <1>5, ValidationStep
<1>6. CASE Enqueue
  BY <1>6, EnqueueStep
<1>7. CASE StartEvent
  BY <1>7, StartStep
<1>8. CASE SkipEvent \/ FulfilPromise
  BY <1>8, PassStep
<1>9. CASE UNCHANGED vars
  <2>1. IInv'
    <3>1. /\ runner' = runner /\ m_list' = m_list /\ m_map' = m_map /\ it' = it /\ event' = event
          /\ pending' = pending /\ current' = current /\ entries' = entries /\ events' = events
          /\ syncs' = syncs /\ synced' = synced /\ before' = before /\ got' = got /\ owed' = owed
      BY <1>9 DEF vars, impl, queue
    <3>2. ListOK(m_list, m_map, it, entries)' /\ EventTypes'
      BY <3>1 DEF IInv, EventTypes
    <3>3. QueueOK' /\ GotOK'
      BY <3>1 DEF IInv, QueueOK, GotOK, Deliverer, IsEvent
    <3>4. OwedOK'
      BY <3>1 DEF IInv, OwedOK, OwedIsComing, Registered
    <3>5. SyncOK'
      BY <3>1 DEF IInv, SyncOK, IsEvent
    <3> QED BY <3>2, <3>3, <3>4, <3>5 DEF IInv
  <2> QED BY <1>9, <2>1
<1> QED BY <1>1, <1>2, <1>3, <1>4, <1>5, <1>6, <1>7, <1>8, <1>9 DEF Next

-----------------------------------------------------------------------------
(* The theorems                                                            *)

INSTANCE FiniteSetTheorems

\* The libraries have what is used of them.
LEMMA SetFactsHold == SetFacts
<1>1. LeastNumbers
  <2> DEFINE Less == OpToRel(<, Nat)
  <2>1. \A x, y \in Nat : <<y, x>> \in Less <=> y < x
    BY DEF OpToRel
  <2>2. IsWellFoundedOn(Less, Nat)
    BY NatLessThanWellFounded
  <2> HIDE DEF Less
  <2>3. ASSUME NEW S \in SUBSET Nat, S # {} PROVE \E x \in S : \A y \in S : x <= y
    <3>1. PICK x \in S : \A y \in S : ~ (<<y, x>> \in Less)
      BY <2>2, <2>3, WFMin
    <3>2. ASSUME NEW y \in S PROVE x <= y
      <4>1. x \in Nat /\ y \in Nat /\ ~ (y < x)
        BY <2>1, <3>1
      <4> QED BY <4>1, SMTT(40)
    <3> QED BY <3>2
  <2> QED BY <2>3 DEF LeastNumbers
<1>2. FiniteSubsets
  BY FS_CardinalityType, FS_Subset DEF FiniteSubsets
<1>3. FiniteEmpty /\ FiniteSingletons
  BY FS_EmptySet, FS_Singleton DEF FiniteEmpty, FiniteSingletons
<1>4. FiniteAdd /\ FiniteRemove
  BY FS_AddElement, FS_RemoveElement DEF FiniteAdd, FiniteRemove
<1>5. FiniteUnions /\ FiniteUNION
  BY FS_Union, FS_UNION DEF FiniteUnions, FiniteUNION
<1>6. FiniteProducts /\ FiniteIntervals
  BY FS_Product, FS_Interval DEF FiniteProducts, FiniteIntervals
<1>7. FiniteImages
  <2> SUFFICES ASSUME NEW S, NEW T, NEW f \in [S -> T], IsFiniteSet(S),
                      \A y \in T : \E x \in S : f[x] = y
               PROVE  /\ IsFiniteSet(T)
                      /\ (\A x, y \in S : f[x] = f[y] => x = y) => Cardinality(T) = Cardinality(S)
    BY DEF FiniteImages
  <2>1. f \in Surjection(S, T)
    BY DEF Surjection
  <2>2. (\A x, y \in S : f[x] = f[y] => x = y) => f \in Injection(S, T)
    BY DEF Injection, IsInjective
  <2> QED BY <2>1, <2>2, FS_Surjection
<1> QED BY <1>1, <1>2, <1>3, <1>4, <1>5, <1>6, <1>7 DEF SetFacts

\* The invariant of ValidationSignals, in all behaviours
LEMMA AlwaysIInv == Spec => []IInv
  BY InitIInv, NextIInv, SetFactsHold, PTL DEF Spec

\* The count of an entry of m_list is the number of its executions, plus one while
\* its listener is registered: no thread is ever in an entry that was erased.
THEOREM CountIsExact == Spec => []CountExact
<1>1. IInv => CountExact
  BY DEF IInv, ListOK, EventTypes, CountExact, TypeOK, Executions, Executing, Registered
<1> QED BY <1>1, AlwaysIInv, SetFactsHold, PTL

\* Events reach the listeners registered when they were generated, in order and at
\* most once.
THEOREM EventsAreDelivered == Spec => EventsReachListeners
<1>1. IInv => \A l \in Listener, n \in 1..events : n \in owed[l] => IsComing(l, n)
  BY DEF IInv, OwedOK, OwedIsComing, IsComing
<1> QED BY <1>1, InitIInv, NextIInv, SetFactsHold, PTL DEF Spec, EventsReachListeners

\* Only the thread in validation code and that of the queue iterate over the list.
TwoIterate == \A t \in Thread : it[t] # NoEntry => t \in {Validation, Background}

\* No other thread begins to.
LEMMA NextTwoIterate == IInv /\ TwoIterate /\ [Next]_vars => TwoIterate'
<1> SUFFICES ASSUME IInv, TwoIterate, [Next]_vars, NEW s \in Thread, it'[s] # NoEntry
             PROVE  s \in {Validation, Background}
  BY DEF TwoIterate
<1>1. it \in [Thread -> 1..entries \cup {NoEntry}]
  BY DEF IInv, ListOK
<1>2. ASSUME NEW t \in {Validation, Background}, NEW e, it' = [it EXCEPT ![t] = e]
      PROVE  s \in {Validation, Background}
  BY <1>1, <1>2 DEF TwoIterate
<1>3. CASE it' = it
  BY <1>3 DEF TwoIterate
<1>4. ASSUME NEW t \in Thread, CallbackReturns(t) PROVE s \in {Validation, Background}
  <2>1. t \in {Validation, Background}
    BY <1>4 DEF CallbackReturns, TwoIterate
  <2> QED BY <1>2, <1>4, <2>1 DEF CallbackReturns, Visit
<1>5. CASE SynchronousEvent \/ RunAtOnce
  BY <1>2, <1>5 DEF SynchronousEvent, RunAtOnce, Visit
<1>6. CASE StartEvent
  BY <1>2, <1>6 DEF StartEvent, Visit
<1>7. ASSUME NEW l \in Listener, Register(l) \/ Unregister(l) \/ Sync(l) PROVE it' = it
  BY <1>7 DEF Register, Unregister, Sync, impl
<1>8. ASSUME Clear \/ Enqueue \/ SkipEvent \/ FulfilPromise \/ UNCHANGED vars PROVE it' = it
  BY <1>8 DEF Clear, Enqueue, SkipEvent, FulfilPromise, impl, vars
<1> QED BY <1>3, <1>4, <1>5, <1>6, <1>7, <1>8 DEF Next

\* When a client that has unregistered its listener has waited for the queue, no
\* thread executes an earlier event of the queue on the listener, and none is left:
\* the only callbacks on it that may still be executing are those of the thread in
\* validation code for events that do not go through the queue.
THEOREM SyncWaitsForTheQueue == Spec => []SyncedMeansFinished
<1>1. Init => TwoIterate
  BY DEF Init, TwoIterate
<1>2. ASSUME IInv, TwoIterate, NEW l \in Listener, synced[l] = "done",
             NEW t \in Thread, it[t] # NoEntry
      PROVE  \/ event[t] > before[l]
             \/ t = Validation /\ (event[t] = 0 \/ runner = "immediate")
  <2>1. CASE t = Background
    <3>1. it[Background] # NoEntry => event[Background] > before[l]
      BY <1>2 DEF IInv, SyncOK
    <3> QED BY <1>2, <2>1, <3>1
  <2>2. CASE t = Validation
    <3>1. event[t] # 0 => Validation = Deliverer
      BY <1>2, <2>2 DEF IInv, QueueOK
    <3>2. runner # "immediate" => Deliverer = Background
      BY <1>2 DEF Deliverer, IInv, EventTypes
    <3> QED BY <2>2, <3>1, <3>2, ValidationSignalsAssumption
  <2> QED BY <1>2, <2>1, <2>2 DEF TwoIterate
<1>3. IInv /\ TwoIterate => SyncedMeansFinished
  BY <1>2 DEF IInv, SyncOK, SyncedMeansFinished, IsEvent
<1> QED BY <1>1, <1>3, NextTwoIterate, AlwaysIInv, SetFactsHold, PTL DEF Spec
=============================================================================
