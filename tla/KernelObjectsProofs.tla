------------------------ MODULE KernelObjectsProofs ------------------------
(***************************************************************************)
(* user_data_destroy is called once for each user data, exactly when no    *)
(* options and no context in use hold it any more, and callbacks get user  *)
(* data that is alive: for any number of objects, threads and interfaces.  *)
(*                                                                         *)
(* The counts of the shared_ptrs are exact: refs[u] is the number of       *)
(* places that hold interface u, and ctx[c].use the number of objects that *)
(* share context c.  A call of a manager rests on one of these objects:    *)
(* on the options while the manager is loading, on the manager after that. *)
(***************************************************************************)
EXTENDS KernelObjects, FiniteSetFacts, TLAPS

\* How often options and contexts hold interface u
OptionRefs(opts, u) ==
    Cardinality({o \in Option : opts[o].n = u}) + Cardinality({o \in Option : opts[o].v = u})

ContextRefs(cs, u) ==
    Cardinality({c \in Ctx : cs[c].n = u}) + 2 * Cardinality({c \in Ctx : cs[c].v = u})

\* The count of an interface is exact, and it was destroyed if it is zero.
CountOK(u) ==
    /\ refs[u] = OptionRefs(options, u) + ContextRefs(ctx, u)
    /\ destroyed[u] = IF u <= given /\ refs[u] = 0 THEN 1 ELSE 0

\* Only what was given is held; what is not in use holds nothing.
InterfacesOK ==
    /\ \A o \in Option : /\ options[o].n \in 1 .. given \cup {None}
                         /\ options[o].v \in 1 .. given \cup {None}
                         /\ ~ options[o].live => options[o].n = None /\ options[o].v = None
    /\ \A c \in Ctx : /\ ctx[c].n \in 1 .. given \cup {None}
                      /\ ctx[c].v \in 1 .. given \cup {None}
                      /\ ctx[c].use = 0 => ctx[c].n = None /\ ctx[c].v = None
    /\ \A u \in Data : CountOK(u)

\* The count of a context is exact.
UsesOK == \A c \in Ctx : ctx[c].use = SharersOf(c)

\* What a call rests on, at each of its places
CallOK(t) ==
    IF thread[t].at = "idle"
    THEN thread[t] = NoCall
    ELSE /\ thread[t].manager \in Manager
         /\ ContextOf(t) \in Ctx
         /\ \/ /\ thread[t].kind = "create" /\ thread[t].at \in {"signal", "notify", "turn"}
               /\ managers[thread[t].manager].stage = "loading"
               /\ thread[t].option \in ManagerOption
               /\ managerOptions[thread[t].option] = ContextOf(t)
            \/ /\ thread[t].kind = "process" /\ thread[t].at \in {"signal", "notify", "turn"}
               /\ managers[thread[t].manager].stage = "ready" /\ thread[t].option = None
            \/ /\ thread[t].kind = "import" /\ thread[t].at \in {"signal", "notify", "turn", "flush"}
               /\ managers[thread[t].manager].stage = "ready" /\ thread[t].option = None
            \/ /\ thread[t].kind = "destroy" /\ thread[t].at \in {"flush", "release"}
               /\ managers[thread[t].manager].stage = "ready" /\ thread[t].option = None
            \/ /\ thread[t].kind = "destroy" /\ thread[t].at = "delete"
               /\ managers[thread[t].manager].stage = "closing" /\ thread[t].option = None

\* The calls that make or destroy a manager are alone with it.
CallsOK ==
    /\ \A t \in Thread : CallOK(t)
    /\ \A s, t \in Thread :
           s # t /\ thread[s].manager = thread[t].manager /\ thread[s].manager # None =>
               thread[s].kind \in {"process", "import"}
    /\ \A m \in Manager : managers[m].stage = "ready" => managers[m].ctx \in Ctx

\* A callback has the user data that the context holds.
CallbackOK(t) ==
    thread[t].callback # None =>
        /\ thread[t].at \in {"signal", "notify", "flush"}
        /\ thread[t].callback = IF thread[t].at = "signal" THEN ctx[ContextOf(t)].v
                                                          ELSE ctx[ContextOf(t)].n

\* The inductive invariant
IInv == TypeOK /\ InterfacesOK /\ UsesOK /\ CallsOK /\ \A t \in Thread : CallbackOK(t)

-----------------------------------------------------------------------------
(* Lemmas on the counts                                                    *)

\* Where a proof names no prover, it is Zenon, which is given enough time.
USE ZenonT(40)

\* Sets that differ in one element at most
LEMMA CountChange ==
    ASSUME SetFacts, NEW X, IsFiniteSet(X), NEW S \in SUBSET X, NEW T \in SUBSET X, NEW x \in X,
           \A y \in X : y # x => (y \in S <=> y \in T)
    PROVE  /\ Cardinality(S) \in Nat /\ Cardinality(T) \in Nat
           /\ x \in S /\ x \notin T => Cardinality(T) = Cardinality(S) - 1
           /\ x \notin S /\ x \in T => Cardinality(T) = Cardinality(S) + 1
           /\ (x \in S <=> x \in T) => Cardinality(T) = Cardinality(S)
<1>1. IsFiniteSet(S) /\ IsFiniteSet(T)
  BY DEF SetFacts, FiniteSubsets
<1>2. Cardinality(S) \in Nat /\ Cardinality(T) \in Nat
  BY <1>1 DEF SetFacts, FiniteSubsets
<1>3. x \in S /\ x \notin T => T = S \ {x}
  OBVIOUS
<1>4. x \notin S /\ x \in T => T = S \cup {x}
  OBVIOUS
<1>5. (x \in S <=> x \in T) => T = S
  BY SMTT(40)
<1>6. ASSUME x \in S, x \notin T PROVE Cardinality(T) = Cardinality(S) - 1
  <2>1. Cardinality(S \ {x}) = Cardinality(S) - 1
    BY <1>1, <1>6 DEF SetFacts, FiniteRemove
  <2> QED BY <1>3, <1>6, <2>1
<1>7. ASSUME x \notin S, x \in T PROVE Cardinality(T) = Cardinality(S) + 1
  <2>1. Cardinality(S \cup {x}) = Cardinality(S) + 1
    BY <1>1, <1>7 DEF SetFacts, FiniteAdd
  <2> QED BY <1>4, <1>7, <2>1
<1> QED BY <1>2, <1>5, <1>6, <1>7

\* A finite set is counted as zero exactly if it is empty.
LEMMA CountZero ==
    ASSUME SetFacts, NEW X, IsFiniteSet(X), NEW S \in SUBSET X
    PROVE  Cardinality(S) \in Nat /\ (Cardinality(S) = 0 <=> S = {})
BY DEF SetFacts, FiniteEmpty, FiniteSubsets

\* g is f except perhaps at x.
DiffersAt(f, g, S, x) == \A y \in S : y # x => g[y] = f[y]

\* The options in one place change.
LEMMA OptionsChange ==
    ASSUME SetFacts, NEW opts, NEW opts2, NEW o \in Option, DiffersAt(opts, opts2, Option, o),
           NEW u \in Data
    PROVE  /\ OptionRefs(opts, u) \in Nat /\ OptionRefs(opts2, u) \in Nat
           /\ OptionRefs(opts2, u) = OptionRefs(opts, u)
                - One(u, opts[o].n) - One(u, opts[o].v) + One(u, opts2[o].n) + One(u, opts2[o].v)
<1> DEFINE N == {p \in Option : opts[p].n = u}
           V == {p \in Option : opts[p].v = u}
           N2 == {p \in Option : opts2[p].n = u}
           V2 == {p \in Option : opts2[p].v = u}
<1>1. /\ N \in SUBSET Option /\ V \in SUBSET Option /\ N2 \in SUBSET Option /\ V2 \in SUBSET Option
      /\ \A p \in Option : p # o => (p \in N <=> p \in N2) /\ (p \in V <=> p \in V2)
  BY DEF DiffersAt
<1>2. /\ o \in N <=> u = opts[o].n
      /\ o \in V <=> u = opts[o].v
      /\ o \in N2 <=> u = opts2[o].n
      /\ o \in V2 <=> u = opts2[o].v
  OBVIOUS
<1>3. /\ OptionRefs(opts, u) = Cardinality(N) + Cardinality(V)
      /\ OptionRefs(opts2, u) = Cardinality(N2) + Cardinality(V2)
  BY DEF OptionRefs
<1> HIDE DEF N, V, N2, V2
<1>4. /\ Cardinality(N) \in Nat /\ Cardinality(N2) \in Nat
      /\ o \in N /\ o \notin N2 => Cardinality(N2) = Cardinality(N) - 1
      /\ o \notin N /\ o \in N2 => Cardinality(N2) = Cardinality(N) + 1
      /\ (o \in N <=> o \in N2) => Cardinality(N2) = Cardinality(N)
  BY <1>1, CountChange, KernelObjectsAssumption, SMTT(40)
<1>5. /\ Cardinality(V) \in Nat /\ Cardinality(V2) \in Nat
      /\ o \in V /\ o \notin V2 => Cardinality(V2) = Cardinality(V) - 1
      /\ o \notin V /\ o \in V2 => Cardinality(V2) = Cardinality(V) + 1
      /\ (o \in V <=> o \in V2) => Cardinality(V2) = Cardinality(V)
  BY <1>1, CountChange, KernelObjectsAssumption, SMTT(40)
<1>6. Cardinality(N2) = Cardinality(N) - One(u, opts[o].n) + One(u, opts2[o].n)
  BY <1>2, <1>4, SMTT(40) DEF One
<1>7. Cardinality(V2) = Cardinality(V) - One(u, opts[o].v) + One(u, opts2[o].v)
  BY <1>2, <1>5, SMTT(40) DEF One
<1> QED BY <1>3, <1>4, <1>5, <1>6, <1>7, SMTT(40) DEF One

\* One context changes.
LEMMA ContextsChange ==
    ASSUME SetFacts, NEW cs, NEW cs2, NEW c \in Ctx, DiffersAt(cs, cs2, Ctx, c),
           NEW u \in Data
    PROVE  /\ ContextRefs(cs, u) \in Nat /\ ContextRefs(cs2, u) \in Nat
           /\ ContextRefs(cs2, u) = ContextRefs(cs, u)
                - One(u, cs[c].n) - 2 * One(u, cs[c].v) + One(u, cs2[c].n) + 2 * One(u, cs2[c].v)
<1> DEFINE N == {p \in Ctx : cs[p].n = u}
           V == {p \in Ctx : cs[p].v = u}
           N2 == {p \in Ctx : cs2[p].n = u}
           V2 == {p \in Ctx : cs2[p].v = u}
<1>1. /\ N \in SUBSET Ctx /\ V \in SUBSET Ctx /\ N2 \in SUBSET Ctx /\ V2 \in SUBSET Ctx
      /\ \A p \in Ctx : p # c => (p \in N <=> p \in N2) /\ (p \in V <=> p \in V2)
  BY DEF DiffersAt
<1>2. /\ c \in N <=> u = cs[c].n
      /\ c \in V <=> u = cs[c].v
      /\ c \in N2 <=> u = cs2[c].n
      /\ c \in V2 <=> u = cs2[c].v
  OBVIOUS
<1>3. /\ ContextRefs(cs, u) = Cardinality(N) + 2 * Cardinality(V)
      /\ ContextRefs(cs2, u) = Cardinality(N2) + 2 * Cardinality(V2)
  BY DEF ContextRefs
<1> HIDE DEF N, V, N2, V2
<1>4. /\ Cardinality(N) \in Nat /\ Cardinality(N2) \in Nat
      /\ c \in N /\ c \notin N2 => Cardinality(N2) = Cardinality(N) - 1
      /\ c \notin N /\ c \in N2 => Cardinality(N2) = Cardinality(N) + 1
      /\ (c \in N <=> c \in N2) => Cardinality(N2) = Cardinality(N)
  BY <1>1, CountChange, KernelObjectsAssumption, SMTT(40)
<1>5. /\ Cardinality(V) \in Nat /\ Cardinality(V2) \in Nat
      /\ c \in V /\ c \notin V2 => Cardinality(V2) = Cardinality(V) - 1
      /\ c \notin V /\ c \in V2 => Cardinality(V2) = Cardinality(V) + 1
      /\ (c \in V <=> c \in V2) => Cardinality(V2) = Cardinality(V)
  BY <1>1, CountChange, KernelObjectsAssumption, SMTT(40)
<1>6. Cardinality(N2) = Cardinality(N) - One(u, cs[c].n) + One(u, cs2[c].n)
  BY <1>2, <1>4, SMTT(40) DEF One
<1>7. Cardinality(V2) = Cardinality(V) - One(u, cs[c].v) + One(u, cs2[c].v)
  BY <1>2, <1>5, SMTT(40) DEF One
<1> QED BY <1>3, <1>4, <1>5, <1>6, <1>7, SMTT(40) DEF One

\* Nobody holds u exactly if it is counted as zero.
LEMMA RefsZero ==
    ASSUME SetFacts, NEW opts, NEW cs, NEW u \in Data
    PROVE  /\ OptionRefs(opts, u) \in Nat /\ ContextRefs(cs, u) \in Nat
           /\ OptionRefs(opts, u) = 0 <=> \A o \in Option : u # opts[o].n /\ u # opts[o].v
           /\ ContextRefs(cs, u) = 0 <=> \A c \in Ctx : u # cs[c].n /\ u # cs[c].v
<1> DEFINE N == {o \in Option : opts[o].n = u}
           V == {o \in Option : opts[o].v = u}
           CN == {c \in Ctx : cs[c].n = u}
           CV == {c \in Ctx : cs[c].v = u}
<1>1. /\ Cardinality(N) \in Nat /\ (Cardinality(N) = 0 <=> N = {})
      /\ Cardinality(V) \in Nat /\ (Cardinality(V) = 0 <=> V = {})
  <2>1. N \in SUBSET Option /\ V \in SUBSET Option
    OBVIOUS
  <2> HIDE DEF N, V
  <2> QED BY <2>1, CountZero, KernelObjectsAssumption
<1>2. /\ Cardinality(CN) \in Nat /\ (Cardinality(CN) = 0 <=> CN = {})
      /\ Cardinality(CV) \in Nat /\ (Cardinality(CV) = 0 <=> CV = {})
  <2>1. CN \in SUBSET Ctx /\ CV \in SUBSET Ctx
    OBVIOUS
  <2> HIDE DEF CN, CV
  <2> QED BY <2>1, CountZero, KernelObjectsAssumption
<1>3. /\ N = {} /\ V = {} <=> \A o \in Option : u # opts[o].n /\ u # opts[o].v
      /\ CN = {} /\ CV = {} <=> \A c \in Ctx : u # cs[c].n /\ u # cs[c].v
  OBVIOUS
<1>4. /\ OptionRefs(opts, u) = Cardinality(N) + Cardinality(V)
      /\ ContextRefs(cs, u) = Cardinality(CN) + 2 * Cardinality(CV)
  BY DEF OptionRefs, ContextRefs
<1> HIDE DEF N, V, CN, CV
<1>5. /\ OptionRefs(opts, u) \in Nat /\ ContextRefs(cs, u) \in Nat
      /\ OptionRefs(opts, u) = 0 <=> N = {} /\ V = {}
      /\ ContextRefs(cs, u) = 0 <=> CN = {} /\ CV = {}
  BY <1>1, <1>2, <1>4, SMTT(40)
<1> QED BY <1>3, <1>5

\* A context is in use as long as something shares it.
LEMMA SharersZero ==
    ASSUME SetFacts, NEW c \in Ctx, handles \in [Ctx -> 0 .. MaxHandle]
    PROVE  /\ SharersOf(c) \in Nat
           /\ SharersOf(c) = 0 <=> /\ handles[c] = 0
                                   /\ \A k \in ManagerOption : managerOptions[k] # c
                                   /\ \A m \in Manager : ~ (managers[m].stage = "ready" /\ managers[m].ctx = c)
<1> DEFINE K == {k \in ManagerOption : managerOptions[k] = c}
           M == {m \in Manager : managers[m].stage = "ready" /\ managers[m].ctx = c}
<1>1. /\ Cardinality(K) \in Nat /\ (Cardinality(K) = 0 <=> K = {})
      /\ Cardinality(M) \in Nat /\ (Cardinality(M) = 0 <=> M = {})
  <2>1. K \in SUBSET ManagerOption /\ M \in SUBSET Manager
    OBVIOUS
  <2> HIDE DEF K, M
  <2> QED BY <2>1, CountZero, KernelObjectsAssumption
<1>2. /\ K = {} <=> \A k \in ManagerOption : managerOptions[k] # c
      /\ M = {} <=> \A m \in Manager : ~ (managers[m].stage = "ready" /\ managers[m].ctx = c)
  OBVIOUS
<1>3. SharersOf(c) = handles[c] + Cardinality(K) + Cardinality(M) /\ handles[c] \in Nat
  BY KernelObjectsAssumption, SMTT(40) DEF SharersOf
<1> HIDE DEF K, M
<1>4. SharersOf(c) \in Nat /\ (SharersOf(c) = 0 <=> handles[c] = 0 /\ K = {} /\ M = {})
  BY <1>1, <1>3, SMTT(40)
<1> QED BY <1>2, <1>4

\* What a manager adds to the count of context c
Share(manager, c) == IF manager.stage = "ready" /\ manager.ctx = c THEN 1 ELSE 0

\* The sharers of context c, when handles, the options of a manager, or a manager change
LEMMA HandlesChange ==
    ASSUME SetFacts, NEW c \in Ctx, handles \in [Ctx -> 0 .. MaxHandle], handles' \in [Ctx -> 0 .. MaxHandle],
           UNCHANGED <<managerOptions, managers>>
    PROVE  SharersOf(c)' = SharersOf(c) - handles[c] + handles'[c]
<1> DEFINE K == {k \in ManagerOption : managerOptions[k] = c}
           M == {m \in Manager : managers[m].stage = "ready" /\ managers[m].ctx = c}
<1>1. Cardinality(K) \in Nat /\ Cardinality(M) \in Nat
  <2>1. K \in SUBSET ManagerOption /\ M \in SUBSET Manager
    OBVIOUS
  <2> HIDE DEF K, M
  <2> QED BY <2>1, CountZero, KernelObjectsAssumption
<1>2. /\ SharersOf(c) = handles[c] + Cardinality(K) + Cardinality(M)
      /\ SharersOf(c)' = handles'[c] + Cardinality(K) + Cardinality(M)
      /\ handles[c] \in Nat /\ handles'[c] \in Nat
  BY KernelObjectsAssumption, SMTT(40) DEF SharersOf
<1> HIDE DEF K, M
<1> QED BY <1>1, <1>2, SMTT(40)

\* Options that let go of a context, or take one, change how many share it by one.
LEMMA ManagerOptionsChange ==
    ASSUME SetFacts, NEW c \in Ctx, NEW k \in ManagerOption, handles \in [Ctx -> 0 .. MaxHandle],
           UNCHANGED <<handles, managers>>, DiffersAt(managerOptions, managerOptions', ManagerOption, k)
    PROVE  SharersOf(c)' = SharersOf(c) - One(c, managerOptions[k]) + One(c, managerOptions'[k])
<1> DEFINE K == {j \in ManagerOption : managerOptions[j] = c}
           K2 == {j \in ManagerOption : managerOptions'[j] = c}
           M == {m \in Manager : managers[m].stage = "ready" /\ managers[m].ctx = c}
<1>1. Cardinality(M) \in Nat
  <2>1. M \in SUBSET Manager
    OBVIOUS
  <2> HIDE DEF M
  <2> QED BY <2>1, CountZero, KernelObjectsAssumption
<1>2. /\ SharersOf(c) = handles[c] + Cardinality(K) + Cardinality(M)
      /\ SharersOf(c)' = handles[c] + Cardinality(K2) + Cardinality(M)
      /\ handles[c] \in Nat
  BY KernelObjectsAssumption, SMTT(40) DEF SharersOf
<1>3. /\ K \in SUBSET ManagerOption /\ K2 \in SUBSET ManagerOption
      /\ \A j \in ManagerOption : j # k => (j \in K <=> j \in K2)
      /\ k \in K <=> c = managerOptions[k]
      /\ k \in K2 <=> c = managerOptions'[k]
  BY DEF DiffersAt
<1> HIDE DEF K, K2, M
<1>4. /\ Cardinality(K) \in Nat /\ Cardinality(K2) \in Nat
      /\ k \in K /\ k \notin K2 => Cardinality(K2) = Cardinality(K) - 1
      /\ k \notin K /\ k \in K2 => Cardinality(K2) = Cardinality(K) + 1
      /\ (k \in K <=> k \in K2) => Cardinality(K2) = Cardinality(K)
  BY <1>3, CountChange, KernelObjectsAssumption, SMTT(40)
<1> QED BY <1>1, <1>2, <1>3, <1>4, SMTT(40) DEF One

\* A manager that lets go of a context, or takes one, does so too.
LEMMA ManagersChange ==
    ASSUME SetFacts, NEW c \in Ctx, NEW m \in Manager, handles \in [Ctx -> 0 .. MaxHandle],
           UNCHANGED <<handles, managerOptions>>, DiffersAt(managers, managers', Manager, m)
    PROVE  SharersOf(c)' = SharersOf(c) - Share(managers[m], c) + Share(managers'[m], c)
<1> DEFINE K == {k \in ManagerOption : managerOptions[k] = c}
           M == {j \in Manager : managers[j].stage = "ready" /\ managers[j].ctx = c}
           M2 == {j \in Manager : managers'[j].stage = "ready" /\ managers'[j].ctx = c}
<1>1. Cardinality(K) \in Nat
  <2>1. K \in SUBSET ManagerOption
    OBVIOUS
  <2> HIDE DEF K
  <2> QED BY <2>1, CountZero, KernelObjectsAssumption
<1>2. /\ SharersOf(c) = handles[c] + Cardinality(K) + Cardinality(M)
      /\ SharersOf(c)' = handles[c] + Cardinality(K) + Cardinality(M2)
      /\ handles[c] \in Nat
  BY KernelObjectsAssumption, SMTT(40) DEF SharersOf
<1>3. /\ M \in SUBSET Manager /\ M2 \in SUBSET Manager
      /\ \A j \in Manager : j # m => (j \in M <=> j \in M2)
      /\ m \in M <=> managers[m].stage = "ready" /\ managers[m].ctx = c
      /\ m \in M2 <=> managers'[m].stage = "ready" /\ managers'[m].ctx = c
  BY DEF DiffersAt
<1> HIDE DEF K, M, M2
<1>4. /\ Cardinality(M) \in Nat /\ Cardinality(M2) \in Nat
      /\ m \in M /\ m \notin M2 => Cardinality(M2) = Cardinality(M) - 1
      /\ m \notin M /\ m \in M2 => Cardinality(M2) = Cardinality(M) + 1
      /\ (m \in M <=> m \in M2) => Cardinality(M2) = Cardinality(M)
  BY <1>3, CountChange, KernelObjectsAssumption, SMTT(40)
<1> QED BY <1>1, <1>2, <1>3, <1>4, SMTT(40) DEF Share

\* Shared pointers come and go as the holders do: a count that was zero grows only if
\* the interface is new, so that none is destroyed twice.
LEMMA CountsKept ==
    ASSUME SetFacts, InterfacesOK, TypeOK, NEW fresh, NEW lost, Shared(fresh, lost), NEW u \in Data,
           fresh[u] \in Nat, lost[u] \in Nat,
           OptionRefs(options', u) + ContextRefs(ctx', u) =
               OptionRefs(options, u) + ContextRefs(ctx, u) + fresh[u] - lost[u],
           OptionRefs(options', u) \in Nat, ContextRefs(ctx', u) \in Nat,
           fresh[u] > 0 => lost[u] = 0 /\ (refs[u] > 0 \/ u > given),
           \/ given' = given
           \/ given' = given + 1 /\ (u = given' => fresh[u] > 0)
    PROVE  CountOK(u)' /\ refs'[u] \in Nat /\ destroyed'[u] \in Nat
<1>1. /\ OptionRefs(options, u) \in Nat /\ ContextRefs(ctx, u) \in Nat
      /\ refs[u] = OptionRefs(options, u) + ContextRefs(ctx, u)
      /\ destroyed[u] = IF u <= given /\ refs[u] = 0 THEN 1 ELSE 0
      /\ u \in Nat /\ given \in Nat
  BY RefsZero, SMTT(40) DEF InterfacesOK, CountOK, Data, TypeOK
<1>2. u > given => refs[u] = 0
  <2> SUFFICES ASSUME u > given PROVE refs[u] = 0
    OBVIOUS
  <2>1. /\ \A o \in Option : u # options[o].n /\ u # options[o].v
        /\ \A c \in Ctx : u # ctx[c].n /\ u # ctx[c].v
    BY <1>1, KernelObjectsAssumption, SMTT(40) DEF InterfacesOK
  <2>2. OptionRefs(options, u) = 0 /\ ContextRefs(ctx, u) = 0
    BY <2>1, RefsZero
  <2> QED BY <1>1, <2>2, SMTT(40)
<1>3. /\ refs'[u] = refs[u] + fresh[u] - lost[u]
      /\ destroyed'[u] = destroyed[u] + (IF lost[u] > 0 /\ refs[u] = lost[u] THEN 1 ELSE 0)
  BY DEF Shared
<1>4. /\ refs'[u] = OptionRefs(options', u) + ContextRefs(ctx', u) /\ refs'[u] \in Nat
      /\ refs[u] \in Nat
  BY <1>1, <1>3, SMTT(40)
<1>5. destroyed'[u] = IF u <= given' /\ refs'[u] = 0 THEN 1 ELSE 0
  <2>1. given' \in Nat /\ (u <= given => u <= given')
    BY <1>1, SMTT(40)
  <2>2. CASE lost[u] > 0
    <3>1. fresh[u] = 0 /\ refs[u] > 0
      BY <1>3, <1>4, <2>2, SMTT(40)
    <3>2. destroyed[u] = 0 /\ u <= given'
      BY <1>1, <1>2, <2>1, <3>1, SMTT(40)
    <3>3. refs'[u] = 0 <=> refs[u] = lost[u]
      BY <1>3, <1>4, <3>1, SMTT(40)
    <3>4. destroyed'[u] = IF refs[u] = lost[u] THEN 1 ELSE 0
      <4>1. destroyed'[u] = 0 + (IF lost[u] > 0 /\ refs[u] = lost[u] THEN 1 ELSE 0)
        BY <1>3, <3>2
      <4>2. lost[u] > 0 /\ refs[u] = lost[u] <=> refs[u] = lost[u]
        BY <2>2
      <4>3. CASE refs[u] = lost[u]
        BY <2>2, <4>1, <4>3, SMTT(40)
      <4>4. CASE refs[u] # lost[u]
        BY <4>1, <4>4, SMTT(40)
      <4> QED BY <4>3, <4>4
    <3> QED BY <3>2, <3>3, <3>4
  <2>3. CASE lost[u] = 0 /\ fresh[u] = 0
    <3>1. refs'[u] = refs[u] /\ destroyed'[u] = destroyed[u]
      BY <1>1, <1>3, <1>4, <2>3, SMTT(40)
    <3>2. u <= given <=> u <= given'
      BY <1>1, <2>3, SMTT(40)
    <3> QED BY <1>1, <3>1, <3>2
  <2>4. CASE lost[u] = 0 /\ fresh[u] > 0
    <3>1. refs'[u] > 0 /\ destroyed'[u] = destroyed[u] /\ destroyed[u] = 0
      BY <1>1, <1>3, <1>4, <2>4, SMTT(40)
    <3> QED BY <1>4, <3>1, SMTT(40)
  <2> QED BY <2>2, <2>3, <2>4, SMTT(40)
<1>6. /\ OptionRefs(options, u)' = OptionRefs(options', u)
      /\ ContextRefs(ctx, u)' = ContextRefs(ctx', u)
  BY DEF OptionRefs, ContextRefs
<1> QED BY <1>4, <1>5, <1>6, SMTT(40) DEF CountOK

-----------------------------------------------------------------------------
(* The steps                                                               *)

\* A call that has not let go of the context of its manager finds it in use.
InUse == \A t \in Thread : thread[t].at \notin {"idle", "delete"} => ctx[ContextOf(t)].use > 0

\* A call that is running uses a context that someone shares.
LEMMA CallsFindContext ==
    ASSUME SetFacts
    PROVE  TypeOK /\ UsesOK /\ CallsOK => InUse
<1> SUFFICES ASSUME TypeOK, UsesOK, CallsOK, NEW t \in Thread, thread[t].at \notin {"idle", "delete"}
             PROVE  ctx[ContextOf(t)].use > 0
  BY DEF InUse
<1> DEFINE c == ContextOf(t)
<1>1. /\ CallOK(t) /\ c \in Ctx
      /\ handles \in [Ctx -> 0 .. MaxHandle]
  BY DEF CallsOK, CallOK, TypeOK
<1>2. \/ \E k \in ManagerOption : managerOptions[k] = c
      \/ \E m \in Manager : managers[m].stage = "ready" /\ managers[m].ctx = c
  BY <1>1 DEF CallOK, ContextOf
<1> HIDE DEF c
<1>3. SharersOf(c) \in Nat /\ SharersOf(c) # 0
  BY <1>1, <1>2, SharersZero
<1>4. ctx[c].use > 0
  BY <1>1, <1>3, SMTT(40) DEF UsesOK
<1> QED BY <1>4 DEF c

\* So does it after a step that keeps what this follows from.
LEMMA CallsFindContextNext ==
    ASSUME SetFacts
    PROVE  (TypeOK /\ UsesOK /\ CallsOK => InUse)'
BY CallsFindContext, PTL

\* A context that stays in use keeps its interfaces.
SameHeld ==
    \A c \in Ctx : ctx[c].use > 0 /\ ctx'[c].use > 0 => ctx'[c].n = ctx[c].n /\ ctx'[c].v = ctx[c].v

\* A call that does not move keeps its user data.
LEMMA CallbackKept ==
    ASSUME SetFacts, IInv, TypeOK', UsesOK', CallsOK', SameHeld, NEW t \in Thread, thread'[t] = thread[t],
           ContextOf(t)' = ContextOf(t)
    PROVE  CallbackOK(t)'
<1> SUFFICES ASSUME thread[t].callback # None PROVE CallbackOK(t)'
  BY DEF CallbackOK
<1>1. thread[t].at \in {"signal", "notify", "flush"} /\ CallbackOK(t)
  BY DEF IInv, CallbackOK
<1>2. ContextOf(t) \in Ctx
  BY <1>1 DEF IInv, CallsOK, CallOK
<1>3. ctx[ContextOf(t)].use > 0
  BY <1>1, CallsFindContext DEF IInv, InUse
<1>4. ctx'[ContextOf(t)].use > 0
  BY <1>1, CallsFindContextNext DEF InUse
<1>5. ctx'[ContextOf(t)].n = ctx[ContextOf(t)].n /\ ctx'[ContextOf(t)].v = ctx[ContextOf(t)].v
  BY <1>2, <1>3, <1>4 DEF SameHeld
<1> QED BY <1>1, <1>5 DEF CallbackOK

\* What only changes elsewhere leaves alone
LEMMA UsesUnchanged ==
    ASSUME UsesOK, UNCHANGED <<ctx, handles, managerOptions, managers>>
    PROVE  UsesOK'
<1>1. \A c \in Ctx : SharersOf(c)' = SharersOf(c)
  BY DEF SharersOf
<1> QED BY <1>1 DEF UsesOK

\* A thread that does nothing is in the call it was in.
LEMMA CallUnchanged ==
    ASSUME NEW t \in Thread, CallOK(t), thread'[t] = thread[t], UNCHANGED <<managerOptions, managers>>
    PROVE  CallOK(t)' /\ ContextOf(t)' = ContextOf(t)
<1>1. ContextOf(t)' = ContextOf(t)
  BY DEF ContextOf
<1> QED BY <1>1 DEF CallOK

\* So are all threads when none does anything.
LEMMA CallsUnchanged ==
    ASSUME CallsOK, UNCHANGED <<managerOptions, managers, thread>>
    PROVE  CallsOK'
<1>1. ASSUME NEW t \in Thread PROVE CallOK(t)'
  BY CallUnchanged DEF CallsOK
<1> QED BY <1>1 DEF CallsOK

\* And they find the callbacks that they found.
LEMMA CallbacksUnchanged ==
    ASSUME \A t \in Thread : CallbackOK(t), UNCHANGED <<ctx, managers, thread>>
    PROVE  \A t \in Thread : CallbackOK(t)'
<1>1. \A t \in Thread : ContextOf(t)' = ContextOf(t)
  BY DEF ContextOf
<1> QED BY <1>1 DEF CallbackOK

\* A shared_ptr to context c goes.
LEMMA Released ==
    ASSUME SetFacts, TypeOK, InterfacesOK, NEW c \in Ctx, ctx[c].use # 0, ReleaseContext(c),
           UNCHANGED <<given, options>>
    PROVE  /\ ctx' \in [Ctx -> [n : MaybeData, v : MaybeData, use : Nat]]
           /\ refs' \in [Data -> Nat] /\ destroyed' \in [Data -> Nat]
           /\ InterfacesOK' /\ SameHeld
           /\ ctx'[c].use = ctx[c].use - 1 /\ \A d \in Ctx : d # c => ctx'[d] = ctx[d]
<1>1. /\ ctx \in [Ctx -> [n : MaybeData, v : MaybeData, use : Nat]]
      /\ refs \in [Data -> Nat] /\ destroyed \in [Data -> Nat]
  BY DEF TypeOK
<1>2. CASE ctx[c].use # 1
  <2>1. /\ ctx' = [ctx EXCEPT ![c].use = @ - 1] /\ UNCHANGED <<refs, destroyed>>
    BY <1>2 DEF ReleaseContext
  <2>2. ctx[c].use - 1 \in Nat /\ ctx[c].use - 1 # 0
    BY <1>1, <1>2, SMTT(40)
  <2>3. /\ ctx' \in [Ctx -> [n : MaybeData, v : MaybeData, use : Nat]]
        /\ ctx'[c].use = ctx[c].use - 1 /\ \A d \in Ctx : d # c => ctx'[d] = ctx[d]
        /\ \A d \in Ctx : ctx'[d].n = ctx[d].n /\ ctx'[d].v = ctx[d].v
    BY <1>1, <2>1, <2>2
  <2>4. \A d \in Ctx : ctx'[d].use = 0 <=> ctx[d].use = 0
    BY <1>1, <2>2, <2>3
  <2>5. \A u \in Data : ContextRefs(ctx', u) = ContextRefs(ctx, u)
    BY <2>3 DEF ContextRefs
  <2>6. \A u \in Data : CountOK(u)'
    <3> SUFFICES ASSUME NEW u \in Data PROVE CountOK(u)'
      OBVIOUS
    <3>1. ContextRefs(ctx, u)' = ContextRefs(ctx, u) /\ OptionRefs(options, u)' = OptionRefs(options, u)
      BY <2>5 DEF ContextRefs, OptionRefs
    <3> QED BY <2>1, <3>1 DEF CountOK, InterfacesOK
  <2>7. InterfacesOK'
    BY <2>3, <2>4, <2>6 DEF InterfacesOK
  <2> QED BY <1>1, <2>1, <2>3, <2>7 DEF SameHeld
<1>3. CASE ctx[c].use = 1
  <2> DEFINE lost == ReleasedByContext(ctx[c].n, ctx[c].v)
  <2>1. /\ ctx' = [ctx EXCEPT ![c] = NoContext] /\ Shared(Nothing, lost)
    BY <1>3 DEF ReleaseContext
  <2>2. /\ ctx' \in [Ctx -> [n : MaybeData, v : MaybeData, use : Nat]]
        /\ ctx'[c].use = 0 /\ ctx'[c].n = None /\ ctx'[c].v = None
        /\ \A d \in Ctx : d # c => ctx'[d] = ctx[d]
    BY <1>1, <2>1 DEF NoContext, MaybeData
  <2>3. ASSUME NEW u \in Data PROVE CountOK(u)' /\ refs'[u] \in Nat /\ destroyed'[u] \in Nat
    <3>1. /\ ContextRefs(ctx, u) \in Nat /\ ContextRefs(ctx', u) \in Nat
          /\ ContextRefs(ctx', u) = ContextRefs(ctx, u)
                - One(u, ctx[c].n) - 2 * One(u, ctx[c].v) + One(u, ctx'[c].n) + 2 * One(u, ctx'[c].v)
      <4>1. DiffersAt(ctx, ctx', Ctx, c)
        BY <2>2 DEF DiffersAt
      <4> QED BY <4>1, ContextsChange
    <3>2. u # None /\ Nothing[u] = 0 /\ lost[u] = One(u, ctx[c].n) + 2 * One(u, ctx[c].v)
      BY KernelObjectsAssumption, SMTT(40) DEF Data, Nothing, ReleasedByContext, HeldByContext
    <3> HIDE DEF lost
    <3>3. OptionRefs(options', u) = OptionRefs(options, u) /\ OptionRefs(options, u) \in Nat
      BY RefsZero
    <3>4. ContextRefs(ctx', u) = ContextRefs(ctx, u) + Nothing[u] - lost[u] /\ lost[u] \in Nat
      BY <2>2, <3>1, <3>2, SMTT(40) DEF One
    <3>5. OptionRefs(options', u) + ContextRefs(ctx', u) =
               OptionRefs(options, u) + ContextRefs(ctx, u) + Nothing[u] - lost[u]
      BY <3>1, <3>2, <3>3, <3>4, SMTT(40)
    <3>6. Nothing[u] \in Nat /\ ~ (Nothing[u] > 0) /\ given' = given
      BY <3>2, SMTT(40)
    <3> HIDE DEF Nothing
    <3> QED BY <2>1, <3>1, <3>3, <3>4, <3>5, <3>6, CountsKept
  <2>4. refs' \in [Data -> Nat] /\ destroyed' \in [Data -> Nat]
    <3>1. /\ refs' = [u \in Data |-> refs'[u]] /\ destroyed' = [u \in Data |-> destroyed'[u]]
      BY <2>1 DEF Shared
    <3> QED BY <2>3, <3>1
  <2>5. InterfacesOK'
    BY <2>2, <2>3, SMTT(40) DEF InterfacesOK
  <2> QED BY <1>3, <2>2, <2>4, <2>5, SMTT(40) DEF SameHeld
<1> QED BY <1>2, <1>3

OptionsType == [Option -> [n : MaybeData, v : MaybeData, live : BOOLEAN]]

\* The options in one place change, and with them the counts.
LEMMA OptionsMove ==
    ASSUME SetFacts, IInv, NEW o \in Option, NEW fresh, NEW lost, Shared(fresh, lost),
           options' \in OptionsType, \A p \in Option : p # o => options'[p] = options[p],
           given' \in 0 .. MaxData, given' = given \/ given' = given + 1,
           options'[o].n \in 1 .. given' \cup {None}, options'[o].v \in 1 .. given' \cup {None},
           ~ options'[o].live => options'[o].n = None /\ options'[o].v = None,
           \A u \in Data :
               /\ fresh[u] \in Nat /\ lost[u] \in Nat
               /\ fresh[u] - lost[u] = One(u, options'[o].n) + One(u, options'[o].v)
                                        - One(u, options[o].n) - One(u, options[o].v)
               /\ fresh[u] > 0 => lost[u] = 0 /\ (refs[u] > 0 \/ u > given)
               /\ u > given /\ u = given' => fresh[u] > 0,
           UNCHANGED <<ctx, handles, managerOptions, managers, thread>>
    PROVE  IInv'
<1>1. ASSUME NEW u \in Data PROVE CountOK(u)' /\ refs'[u] \in Nat /\ destroyed'[u] \in Nat
  <2>1. /\ OptionRefs(options, u) \in Nat /\ OptionRefs(options', u) \in Nat
        /\ OptionRefs(options', u) = OptionRefs(options, u)
             - One(u, options[o].n) - One(u, options[o].v) + One(u, options'[o].n) + One(u, options'[o].v)
    <3>1. DiffersAt(options, options', Option, o)
      BY DEF DiffersAt
    <3> QED BY <3>1, OptionsChange, SMTT(40)
  <2>2. ContextRefs(ctx', u) = ContextRefs(ctx, u) /\ ContextRefs(ctx, u) \in Nat
    BY RefsZero
  <2>3. OptionRefs(options', u) + ContextRefs(ctx', u) =
               OptionRefs(options, u) + ContextRefs(ctx, u) + fresh[u] - lost[u]
    BY <2>1, <2>2, SMTT(40) DEF One
  <2>4. given' = given \/ (given' = given + 1 /\ (u = given' => fresh[u] > 0))
    BY SMTT(40) DEF IInv, TypeOK
  <2>5. TypeOK /\ InterfacesOK /\ fresh[u] \in Nat /\ lost[u] \in Nat
        /\ (fresh[u] > 0 => lost[u] = 0 /\ (refs[u] > 0 \/ u > given))
    BY DEF IInv
  <2> QED BY <2>1, <2>2, <2>3, <2>4, <2>5, CountsKept
<1>2. refs' \in [Data -> Nat] /\ destroyed' \in [Data -> Nat]
  <2>1. /\ refs' = [u \in Data |-> refs'[u]] /\ destroyed' = [u \in Data |-> destroyed'[u]]
    BY DEF Shared
  <2> QED BY <1>1, <2>1
<1>3. TypeOK'
  BY <1>2 DEF IInv, TypeOK, OptionsType
<1>4. 1 .. given \cup {None} \subseteq 1 .. given' \cup {None}
  BY SMTT(40) DEF IInv, TypeOK
<1>5. InterfacesOK'
  <2>1. \A p \in Option : /\ options'[p].n \in 1 .. given' \cup {None}
                          /\ options'[p].v \in 1 .. given' \cup {None}
                          /\ ~ options'[p].live => options'[p].n = None /\ options'[p].v = None
    BY <1>4 DEF IInv, InterfacesOK
  <2>2. \A c \in Ctx : /\ ctx'[c].n \in 1 .. given' \cup {None}
                       /\ ctx'[c].v \in 1 .. given' \cup {None}
                       /\ ctx'[c].use = 0 => ctx'[c].n = None /\ ctx'[c].v = None
    BY <1>4 DEF IInv, InterfacesOK
  <2> QED BY <1>1, <2>1, <2>2 DEF InterfacesOK
<1>6. UsesOK' /\ CallsOK' /\ \A t \in Thread : CallbackOK(t)'
  BY UsesUnchanged, CallsUnchanged, CallbacksUnchanged DEF IInv
<1> QED BY <1>3, <1>5, <1>6 DEF IInv

\* The options' actions
LEMMA OptionsStep ==
    ASSUME SetFacts, IInv, NEW o \in Option,
           \/ ContextOptionsCreate(o) \/ ContextOptionsDestroy(o)
           \/ \E u \in Data : SetNotifications(o, u) \/ SetValidationInterface(o, u)
    PROVE  IInv'
<1>1. /\ options \in OptionsType /\ given \in 0 .. MaxData /\ MaxData \in Nat
      /\ options[o].n \in 1 .. given \cup {None} /\ options[o].v \in 1 .. given \cup {None}
      /\ ~ options[o].live => options[o].n = None /\ options[o].v = None
      /\ \A u \in Data : u \in Nat /\ u # None /\ refs[u] \in Nat
  BY KernelObjectsAssumption, SMTT(40) DEF IInv, TypeOK, OptionsType, InterfacesOK, Data
<1>2. ASSUME ContextOptionsCreate(o) PROVE IInv'
  <2>1. /\ options' \in OptionsType /\ \A p \in Option : p # o => options'[p] = options[p]
        /\ options'[o].n = None /\ options'[o].v = None /\ options'[o].live
        /\ UNCHANGED <<given, refs, destroyed, ctx, handles, managerOptions, managers, thread>>
        /\ options[o].n = None /\ options[o].v = None
    BY <1>1, <1>2 DEF ContextOptionsCreate, OptionsType, NoOptions, MaybeData, interfaces
  <2>2. Shared(Nothing, Nothing) /\ \A u \in Data : Nothing[u] = 0
    <3>1. \A u \in Data : refs[u] + Nothing[u] - Nothing[u] = refs[u] /\ Nothing[u] = 0
      BY <1>1, SMTT(40) DEF Nothing
    <3>2. refs' = [u \in Data |-> refs[u] + Nothing[u] - Nothing[u]]
      BY <2>1, <3>1 DEF IInv, TypeOK
    <3>3. \A u \in Data : destroyed[u] = destroyed[u]
                    + (IF Nothing[u] > 0 /\ refs[u] = Nothing[u] THEN 1 ELSE 0)
      BY <3>1, SMTT(40) DEF IInv, TypeOK
    <3>4. destroyed' = [u \in Data |-> destroyed[u]
                    + (IF Nothing[u] > 0 /\ refs[u] = Nothing[u] THEN 1 ELSE 0)]
      BY <2>1, <3>3 DEF IInv, TypeOK
    <3> QED BY <3>1, <3>2, <3>4 DEF Shared
  <2>3. \A u \in Data : /\ One(u, options'[o].n) + One(u, options'[o].v)
                             - One(u, options[o].n) - One(u, options[o].v) = 0
                        /\ ~ (u > given /\ u = given')
    BY <1>1, <2>1, SMTT(40) DEF One
  <2> HIDE DEF Nothing
  <2> QED BY <1>1, <2>1, <2>2, <2>3, OptionsMove, SMTT(40)
<1>3. ASSUME ContextOptionsDestroy(o) PROVE IInv'
  <2>1. /\ options' \in OptionsType /\ \A p \in Option : p # o => options'[p] = options[p]
        /\ options'[o].n = None /\ options'[o].v = None
        /\ UNCHANGED <<given, ctx, handles, managerOptions, managers, thread>>
        /\ Shared(Nothing, HeldByOptions(o))
    BY <1>1, <1>3 DEF ContextOptionsDestroy, OptionsType, NoOptions, MaybeData
  <2>2. \A u \in Data : Nothing[u] = 0 /\ HeldByOptions(o)[u] = One(u, options[o].n) + One(u, options[o].v)
    BY DEF Nothing, HeldByOptions
  <2>3. \A u \in Data : /\ HeldByOptions(o)[u] \in Nat /\ Nothing[u] \in Nat
                        /\ ~ (Nothing[u] > 0) /\ ~ (u > given /\ u = given')
                        /\ Nothing[u] - HeldByOptions(o)[u] = One(u, options'[o].n) + One(u, options'[o].v)
                             - One(u, options[o].n) - One(u, options[o].v)
    BY <1>1, <2>1, <2>2, SMTT(40) DEF One
  <2> HIDE DEF Nothing, HeldByOptions
  <2> QED BY <1>1, <2>1, <2>3, OptionsMove, SMTT(40)
<1>4. ASSUME NEW u \in Data, SetNotifications(o, u) PROVE IInv'
  <2> DEFINE fresh == [x \in Data |-> One(x, u)]
             lost == [x \in Data |-> One(x, options[o].n)]
  <2>1. /\ options' \in OptionsType /\ \A p \in Option : p # o => options'[p] = options[p]
        /\ options'[o].n = u /\ options'[o].v = options[o].v /\ options'[o].live
        /\ UNCHANGED <<ctx, handles, managerOptions, managers, thread>>
        /\ Shared(fresh, lost) /\ u = given + 1 /\ given' = u
    BY <1>1, <1>4 DEF SetNotifications, OptionsType, MaybeData
  <2>2. \A x \in Data : fresh[x] = One(x, u) /\ lost[x] = One(x, options[o].n)
    OBVIOUS
  <2> HIDE DEF fresh, lost
  <2>3. given' \in 0 .. MaxData /\ options'[o].n \in 1 .. given' /\ options'[o].v \in 1 .. given' \cup {None}
    BY <1>1, <2>1, SMTT(40) DEF Data
  <2>4. \A x \in Data : /\ fresh[x] \in Nat /\ lost[x] \in Nat
                        /\ fresh[x] - lost[x] = One(x, options'[o].n) + One(x, options'[o].v)
                             - One(x, options[o].n) - One(x, options[o].v)
    BY <2>1, <2>2, SMTT(40) DEF One
  <2>5. \A x \in Data : /\ fresh[x] > 0 => lost[x] = 0 /\ x > given
                        /\ x > given /\ x = given' => fresh[x] > 0
    BY <1>1, <2>1, <2>2, SMTT(40) DEF One
  <2> QED BY <2>1, <2>3, <2>4, <2>5, OptionsMove, SMTT(40)
<1>5. ASSUME NEW u \in Data, SetValidationInterface(o, u) PROVE IInv'
  <2> DEFINE fresh == [x \in Data |-> One(x, u)]
             lost == [x \in Data |-> One(x, options[o].v)]
  <2>1. /\ options' \in OptionsType /\ \A p \in Option : p # o => options'[p] = options[p]
        /\ options'[o].v = u /\ options'[o].n = options[o].n /\ options'[o].live
        /\ UNCHANGED <<ctx, handles, managerOptions, managers, thread>>
        /\ Shared(fresh, lost) /\ u = given + 1 /\ given' = u
    BY <1>1, <1>5, SMTT(40) DEF SetValidationInterface, OptionsType, MaybeData
  <2>2. \A x \in Data : fresh[x] = One(x, u) /\ lost[x] = One(x, options[o].v)
    OBVIOUS
  <2> HIDE DEF fresh, lost
  <2>3. given' \in 0 .. MaxData /\ options'[o].v \in 1 .. given' /\ options'[o].n \in 1 .. given' \cup {None}
    BY <1>1, <2>1, SMTT(40) DEF Data
  <2>4. \A x \in Data : /\ fresh[x] \in Nat /\ lost[x] \in Nat
                        /\ fresh[x] - lost[x] = One(x, options'[o].n) + One(x, options'[o].v)
                             - One(x, options[o].n) - One(x, options[o].v)
    BY <2>1, <2>2, SMTT(40) DEF One
  <2>5. \A x \in Data : /\ fresh[x] > 0 => lost[x] = 0 /\ x > given
                        /\ x > given /\ x = given' => fresh[x] > 0
    BY <1>1, <2>1, <2>2, SMTT(40) DEF One
  <2> QED BY <2>1, <2>3, <2>4, <2>5, OptionsMove, SMTT(40)
<1> QED BY <1>2, <1>3, <1>4, <1>5

CtxType == [Ctx -> [n : MaybeData, v : MaybeData, use : Nat]]

\* The contexts keep their interfaces.
LEMMA InterfacesKept ==
    ASSUME InterfacesOK, UNCHANGED <<given, refs, destroyed, options>>,
           \A c \in Ctx : /\ ctx'[c].n = ctx[c].n /\ ctx'[c].v = ctx[c].v
                          /\ ctx'[c].use = 0 => ctx[c].use = 0
    PROVE  InterfacesOK' /\ SameHeld
<1>1. ASSUME NEW u \in Data PROVE CountOK(u)'
  <2>1. ContextRefs(ctx, u)' = ContextRefs(ctx, u) /\ OptionRefs(options, u)' = OptionRefs(options, u)
    BY DEF ContextRefs, OptionRefs
  <2> QED BY <2>1 DEF CountOK, InterfacesOK
<1> QED BY <1>1 DEF InterfacesOK, SameHeld

\* Contexts, handles and options of managers change; the calls do not.
LEMMA ContextsMove ==
    ASSUME SetFacts, IInv, ctx' \in CtxType, handles' \in [Ctx -> 0 .. MaxHandle],
           refs' \in [Data -> Nat], destroyed' \in [Data -> Nat],
           managerOptions' \in [ManagerOption -> Ctx \cup {None}],
           InterfacesOK', SameHeld, UsesOK', CallsOK', UNCHANGED <<given, options, managers, thread>>
    PROVE  IInv'
<1>1. TypeOK'
  BY DEF IInv, TypeOK, CtxType
<1>2. ASSUME NEW t \in Thread PROVE CallbackOK(t)'
  <2>1. thread'[t] = thread[t] /\ ContextOf(t)' = ContextOf(t)
    BY DEF ContextOf
  <2> QED BY <1>1, <2>1, CallbackKept
<1> QED BY <1>1, <1>2 DEF IInv

\* A context is created.
LEMMA ContextCreateStep ==
    ASSUME SetFacts, IInv, NEW c \in Ctx, NEW opts, ContextCreate(c, opts),
           opts = NoOptions \/ \E o \in Option : opts = options[o]
    PROVE  IInv'
<1>1. /\ ctx \in CtxType /\ handles \in [Ctx -> 0 .. MaxHandle] /\ MaxHandle \in Nat \ {0}
      /\ refs \in [Data -> Nat] /\ destroyed \in [Data -> Nat] /\ options \in OptionsType
      /\ TypeOK /\ InterfacesOK /\ UsesOK
  BY KernelObjectsAssumption DEF IInv, TypeOK, CtxType, OptionsType
<1>2. /\ opts.n \in MaybeData /\ opts.v \in MaybeData
      /\ opts.n \in 1 .. given \cup {None} /\ opts.v \in 1 .. given \cup {None}
  BY <1>1, SMTT(40) DEF OptionsType, InterfacesOK, NoOptions, MaybeData
<1>3. /\ ctx[c].use = 0 /\ ctx[c].n = None /\ ctx[c].v = None /\ handles[c] = 0
  <2>1. SharersOf(c) = 0
    BY <1>1 DEF ContextCreate, UsesOK
  <2>2. handles[c] = 0
    BY <1>1, <2>1, SharersZero
  <2> QED BY <1>1, <2>2 DEF ContextCreate, InterfacesOK
<1>4. /\ ctx' \in CtxType /\ ctx'[c].n = opts.n /\ ctx'[c].v = opts.v /\ ctx'[c].use = 1
      /\ \A d \in Ctx : d # c => ctx'[d] = ctx[d]
      /\ handles' \in [Ctx -> 0 .. MaxHandle] /\ handles'[c] = 1 /\ \A d \in Ctx : d # c => handles'[d] = handles[d]
      /\ Shared(HeldByContext(opts.n, opts.v), Nothing)
      /\ UNCHANGED <<given, options, managerOptions, managers, thread>>
  BY <1>1, <1>2, SMTT(40) DEF ContextCreate, CtxType
<1>5. ASSUME NEW u \in Data PROVE CountOK(u)' /\ refs'[u] \in Nat /\ destroyed'[u] \in Nat
  <2> DEFINE fresh == HeldByContext(opts.n, opts.v)
  <2>1. /\ ContextRefs(ctx, u) \in Nat /\ ContextRefs(ctx', u) \in Nat
        /\ ContextRefs(ctx', u) = ContextRefs(ctx, u)
              - One(u, ctx[c].n) - 2 * One(u, ctx[c].v) + One(u, ctx'[c].n) + 2 * One(u, ctx'[c].v)
    <3>1. DiffersAt(ctx, ctx', Ctx, c)
      BY <1>4 DEF DiffersAt
    <3> QED BY <3>1, ContextsChange, SMTT(40)
  <2>2. u # None /\ Nothing[u] = 0 /\ fresh[u] = One(u, opts.n) + 2 * One(u, opts.v)
    BY KernelObjectsAssumption, SMTT(40) DEF Data, Nothing, HeldByContext
  <2>3. Shared(fresh, Nothing)
    BY <1>4
  <2> HIDE DEF fresh, Nothing
  <2>4. OptionRefs(options', u) = OptionRefs(options, u) /\ OptionRefs(options, u) \in Nat
    BY <1>4, RefsZero
  <2>5. ContextRefs(ctx', u) = ContextRefs(ctx, u) + fresh[u] - Nothing[u] /\ fresh[u] \in Nat
    BY <1>3, <1>4, <2>1, <2>2, SMTT(40) DEF One
  <2>6. OptionRefs(options', u) + ContextRefs(ctx', u) =
             OptionRefs(options, u) + ContextRefs(ctx, u) + fresh[u] - Nothing[u]
    BY <2>1, <2>2, <2>4, <2>5, SMTT(40)
  <2>7. fresh[u] > 0 => refs[u] > 0
    <3> SUFFICES ASSUME fresh[u] > 0 PROVE refs[u] > 0
      OBVIOUS
    <3>1. u = opts.n \/ u = opts.v
      BY <2>2, SMTT(40) DEF One
    <3>2. \E o \in Option : u = options[o].n \/ u = options[o].v
      BY <2>2, <3>1, SMTT(40) DEF NoOptions
    <3>3. OptionRefs(options, u) # 0
      <4>1. OptionRefs(options, u) = 0 <=> \A o \in Option : u # options[o].n /\ u # options[o].v
        BY RefsZero
      <4> QED BY <3>2, <4>1
    <3>4. refs[u] = OptionRefs(options, u) + ContextRefs(ctx, u)
      BY <1>1 DEF InterfacesOK, CountOK
    <3> QED BY <2>1, <2>4, <3>3, <3>4, SMTT(40)
  <2>8. Nothing[u] \in Nat /\ Nothing[u] = 0 /\ given' = given
    BY <1>4, <2>2, SMTT(40)
  <2> QED BY <1>1, <2>1, <2>3, <2>4, <2>5, <2>6, <2>7, <2>8, CountsKept
<1>6. refs' \in [Data -> Nat] /\ destroyed' \in [Data -> Nat]
  <2>1. /\ refs' = [u \in Data |-> refs'[u]] /\ destroyed' = [u \in Data |-> destroyed'[u]]
    BY <1>4 DEF Shared
  <2> QED BY <1>5, <2>1
<1>7. InterfacesOK' /\ SameHeld
  <2>1. ASSUME NEW d \in Ctx
        PROVE  /\ ctx'[d].n \in 1 .. given' \cup {None} /\ ctx'[d].v \in 1 .. given' \cup {None}
               /\ ctx'[d].use = 0 => ctx'[d].n = None /\ ctx'[d].v = None
    <3>1. CASE d = c
      BY <1>2, <1>4, <3>1, SMTT(40)
    <3>2. CASE d # c
      BY <1>1, <1>4, <3>2, SMTT(40) DEF InterfacesOK
    <3> QED BY <3>1, <3>2
  <2>2. \A o \in Option : /\ options'[o].n \in 1 .. given' \cup {None}
                          /\ options'[o].v \in 1 .. given' \cup {None}
                          /\ ~ options'[o].live => options'[o].n = None /\ options'[o].v = None
    BY <1>1, <1>4 DEF InterfacesOK
  <2>3. InterfacesOK'
    BY <1>5, <2>1, <2>2 DEF InterfacesOK
  <2>4. SameHeld
    BY <1>3, <1>4, SMTT(40) DEF SameHeld
  <2> QED BY <2>3, <2>4
<1>8. UsesOK'
  <2>1. ASSUME NEW d \in Ctx PROVE ctx'[d].use = SharersOf(d)'
    <3>1. SharersOf(d)' = SharersOf(d) - handles[d] + handles'[d] /\ SharersOf(d) \in Nat
      BY <1>1, <1>4, HandlesChange, SharersZero
    <3>2. ctx[d].use = SharersOf(d) /\ handles[d] \in Nat /\ handles'[d] \in Nat
      BY <1>1, <1>4, SMTT(40) DEF UsesOK
    <3>3. CASE d = c
      BY <1>3, <1>4, <3>1, <3>2, <3>3, SMTT(40)
    <3>4. CASE d # c
      BY <1>4, <3>1, <3>2, <3>4, SMTT(40)
    <3> QED BY <3>3, <3>4
  <2> QED BY <2>1 DEF UsesOK
<1>9. CallsOK'
  BY <1>4, CallsUnchanged DEF IInv
<1>10. managerOptions' \in [ManagerOption -> Ctx \cup {None}]
  BY <1>4 DEF IInv, TypeOK
<1> QED BY <1>4, <1>6, <1>7, <1>8, <1>9, <1>10, ContextsMove

\* Copying a handle
LEMMA ContextUseStep ==
    ASSUME SetFacts, IInv, NEW c \in Ctx, ContextCopy(c)
    PROVE  IInv'
<1>1. /\ ctx \in CtxType /\ handles \in [Ctx -> 0 .. MaxHandle] /\ MaxHandle \in Nat \ {0}
      /\ refs \in [Data -> Nat] /\ destroyed \in [Data -> Nat] /\ InterfacesOK /\ UsesOK
      /\ managerOptions \in [ManagerOption -> Ctx \cup {None}]
  BY KernelObjectsAssumption DEF IInv, TypeOK, CtxType
<1>2. UNCHANGED <<given, refs, destroyed, options, managerOptions, managers, thread>>
  BY DEF ContextCopy, interfaces
<1>3. /\ ctx' \in CtxType /\ handles' \in [Ctx -> 0 .. MaxHandle]
      /\ \A d \in Ctx : /\ ctx'[d].n = ctx[d].n /\ ctx'[d].v = ctx[d].v
                        /\ ctx'[d].use = ctx[d].use - handles[d] + handles'[d]
                        /\ handles'[d] >= handles[d]
  <2>1. handles[c] + 1 \in 0 .. MaxHandle
    BY <1>1, SMTT(40) DEF ContextCopy
  <2>2. /\ ctx' \in CtxType /\ handles' \in [Ctx -> 0 .. MaxHandle]
        /\ ctx'[c].use = ctx[c].use + 1 /\ handles'[c] = handles[c] + 1
        /\ \A d \in Ctx : /\ ctx'[d].n = ctx[d].n /\ ctx'[d].v = ctx[d].v
                          /\ d # c => ctx'[d].use = ctx[d].use /\ handles'[d] = handles[d]
    BY <1>1, <2>1, SMTT(40) DEF ContextCopy, CtxType
  <2>3. \A d \in Ctx : ctx[d].use \in Nat /\ handles[d] \in Nat
    BY <1>1, SMTT(40) DEF CtxType
  <2> QED BY <2>2, <2>3, SMTT(40)
<1>4. \A d \in Ctx : ctx'[d].use = SharersOf(d)'
  <2>1. ASSUME NEW d \in Ctx PROVE ctx'[d].use = SharersOf(d)'
    <3>1. SharersOf(d)' = SharersOf(d) - handles[d] + handles'[d]
      BY <1>1, <1>2, <1>3, HandlesChange
    <3> QED BY <1>1, <1>3, <3>1 DEF UsesOK
  <2> QED BY <2>1
<1>5. InterfacesOK' /\ SameHeld
  <2>1. \A d \in Ctx : ctx[d].use \in Nat /\ handles[d] \in Nat /\ handles'[d] \in Nat
    BY <1>1, <1>3, SMTT(40) DEF CtxType
  <2>2. ASSUME NEW d \in Ctx, ctx'[d].use = 0 PROVE ctx[d].use = 0
    <3>1. ctx[d].use - handles[d] + handles'[d] = 0 /\ handles'[d] >= handles[d]
      BY <1>3, <2>2
    <3> QED BY <2>1, <3>1, SMTT(40)
  <2> QED BY <1>1, <1>2, <1>3, <2>2, InterfacesKept
<1>6. CallsOK' /\ UsesOK'
  BY <1>2, <1>4, CallsUnchanged DEF IInv, UsesOK
<1> QED BY <1>1, <1>2, <1>3, <1>5, <1>6, ContextsMove

\* A handle of a context is destroyed, and with the last share the context.
LEMMA ContextDestroyStep ==
    ASSUME SetFacts, IInv, NEW c \in Ctx, ContextDestroy(c)
    PROVE  IInv'
<1>1. /\ ctx \in CtxType /\ handles \in [Ctx -> 0 .. MaxHandle] /\ MaxHandle \in Nat \ {0}
      /\ managerOptions \in [ManagerOption -> Ctx \cup {None}] /\ UsesOK /\ TypeOK /\ InterfacesOK
  BY KernelObjectsAssumption DEF IInv, TypeOK, CtxType
<1>2. /\ handles' \in [Ctx -> 0 .. MaxHandle] /\ handles'[c] = handles[c] - 1
      /\ \A d \in Ctx : d # c => handles'[d] = handles[d]
      /\ handles[c] > 0 /\ ReleaseContext(c)
      /\ UNCHANGED <<given, options, managerOptions, managers, thread>>
  BY <1>1, SMTT(40) DEF ContextDestroy
<1>3. ctx[c].use # 0
  <2>1. SharersOf(c) # 0
    BY <1>1, <1>2, SharersZero, SMTT(40)
  <2> QED BY <1>1, <2>1 DEF UsesOK
<1>4. /\ ctx' \in CtxType /\ refs' \in [Data -> Nat] /\ destroyed' \in [Data -> Nat]
      /\ InterfacesOK' /\ SameHeld
      /\ ctx'[c].use = ctx[c].use - 1 /\ \A d \in Ctx : d # c => ctx'[d] = ctx[d]
  BY <1>1, <1>2, <1>3, Released DEF CtxType
<1>5. UsesOK'
  <2>1. ASSUME NEW d \in Ctx PROVE ctx'[d].use = SharersOf(d)'
    <3>1. SharersOf(d)' = SharersOf(d) - handles[d] + handles'[d] /\ SharersOf(d) \in Nat
      BY <1>1, <1>2, HandlesChange, SharersZero
    <3>2. ctx[d].use = SharersOf(d) /\ handles[d] \in Nat /\ handles'[d] \in Nat
      BY <1>1, <1>2, SMTT(40) DEF UsesOK
    <3> QED BY <1>2, <1>4, <3>1, <3>2, SMTT(40)
  <2> QED BY <2>1 DEF UsesOK
<1>6. CallsOK'
  BY <1>2, CallsUnchanged DEF IInv
<1> QED BY <1>1, <1>2, <1>4, <1>5, <1>6, ContextsMove

CallType == [at : At, kind : Kind, manager : Manager \cup {None}, option : ManagerOption \cup {None},
             callback : MaybeData]

\* The options of a manager are made or destroyed.
LEMMA ManagerOptionsStep ==
    ASSUME SetFacts, IInv, NEW k \in ManagerOption,
           (\E c \in Ctx : ManagerOptionsCreate(k, c)) \/ ManagerOptionsDestroy(k)
    PROVE  IInv'
<1>1. /\ ctx \in CtxType /\ handles \in [Ctx -> 0 .. MaxHandle] /\ MaxHandle \in Nat \ {0}
      /\ refs \in [Data -> Nat] /\ destroyed \in [Data -> Nat] /\ UsesOK /\ TypeOK /\ InterfacesOK
      /\ managerOptions \in [ManagerOption -> Ctx \cup {None}] /\ CallsOK
      /\ \A d \in Ctx : d # None /\ ctx[d].use \in Nat
  BY KernelObjectsAssumption DEF IInv, TypeOK, CtxType
<1>2. ASSUME NEW c \in Ctx, ManagerOptionsCreate(k, c) PROVE IInv'
  <2>1. /\ managerOptions' \in [ManagerOption -> Ctx \cup {None}] /\ managerOptions[k] = None
        /\ managerOptions'[k] = c /\ \A j \in ManagerOption : j # k => managerOptions'[j] = managerOptions[j]
        /\ ctx' \in CtxType /\ ctx'[c].use = ctx[c].use + 1
        /\ \A d \in Ctx : /\ ctx'[d].n = ctx[d].n /\ ctx'[d].v = ctx[d].v
                          /\ d # c => ctx'[d].use = ctx[d].use
        /\ UNCHANGED <<given, refs, destroyed, options, handles, managers, thread>>
    BY <1>1, <1>2, SMTT(40) DEF ManagerOptionsCreate, CtxType, interfaces
  <2>2. ASSUME NEW d \in Ctx PROVE ctx'[d].use = SharersOf(d)'
    <3>1. SharersOf(d)' = SharersOf(d) - One(d, managerOptions[k]) + One(d, managerOptions'[k])
      <4>1. DiffersAt(managerOptions, managerOptions', ManagerOption, k)
        BY <2>1 DEF DiffersAt
      <4> QED BY <1>1, <2>1, <4>1, ManagerOptionsChange
    <3>2. ctx[d].use = SharersOf(d) /\ One(d, managerOptions[k]) = 0
          /\ One(d, managerOptions'[k]) = IF d = c THEN 1 ELSE 0
      BY <1>1, <2>1 DEF UsesOK, One
    <3>3. SharersOf(d)' = ctx[d].use + (IF d = c THEN 1 ELSE 0)
      BY <1>1, <3>1, <3>2, SMTT(40)
    <3>4. CASE d = c
      BY <2>1, <3>3, <3>4
    <3>5. CASE d # c
      BY <1>1, <2>1, <3>3, <3>5, SMTT(40)
    <3> QED BY <3>4, <3>5
  <2>3. InterfacesOK' /\ SameHeld
    <3>1. \A d \in Ctx : ctx'[d].use = 0 => ctx[d].use = 0
      BY <1>1, <2>1, SMTT(40)
    <3> QED BY <1>1, <2>1, <3>1, InterfacesKept
  <2>4. \A t \in Thread : CallOK(t)'
    <3>1. ASSUME NEW t \in Thread PROVE CallOK(t)'
      <4>1. CallOK(t) /\ (thread[t].at # "idle" => ContextOf(t) \in Ctx)
        BY <1>1 DEF CallsOK, CallOK
      <4>2. thread[t].option = k => thread[t].kind # "create" \/ thread[t].at = "idle"
        BY <1>1, <2>1, <4>1 DEF CallOK
      <4>3. ContextOf(t)' = ContextOf(t)
        BY <2>1 DEF ContextOf
      <4> QED BY <2>1, <4>1, <4>2, <4>3 DEF CallOK
    <3> QED BY <3>1
  <2>5. CallsOK'
    BY <1>1, <2>1, <2>4 DEF CallsOK
  <2>6. UsesOK'
    BY <2>2 DEF UsesOK
  <2> QED BY <1>1, <2>1, <2>3, <2>5, <2>6, ContextsMove
<1>3. ASSUME ManagerOptionsDestroy(k) PROVE IInv'
  <2> DEFINE c == managerOptions[k]
  <2>1. /\ managerOptions' \in [ManagerOption -> Ctx \cup {None}] /\ c \in Ctx
        /\ managerOptions'[k] = None /\ \A j \in ManagerOption : j # k => managerOptions'[j] = managerOptions[j]
        /\ \A t \in Thread : thread[t].option # k
        /\ ReleaseContext(c)
        /\ UNCHANGED <<given, options, handles, managers, thread>>
    BY <1>1, <1>3 DEF ManagerOptionsDestroy
  <2>2. ctx[c].use # 0
    <3>1. \E j \in ManagerOption : managerOptions[j] = c
      OBVIOUS
    <3>2. c \in Ctx
      BY <2>1
    <3> HIDE DEF c
    <3> QED BY <1>1, <3>1, <3>2, SharersZero DEF UsesOK
  <2>3. managerOptions[k] = c
    OBVIOUS
  <2> HIDE DEF c
  <2>4. /\ ctx' \in CtxType /\ refs' \in [Data -> Nat] /\ destroyed' \in [Data -> Nat]
        /\ InterfacesOK' /\ SameHeld
        /\ ctx'[c].use = ctx[c].use - 1 /\ \A d \in Ctx : d # c => ctx'[d] = ctx[d]
    BY <1>1, <2>1, <2>2, Released DEF CtxType
  <2>5. ASSUME NEW d \in Ctx PROVE ctx'[d].use = SharersOf(d)'
    <3>1. SharersOf(d)' = SharersOf(d) - One(d, managerOptions[k]) + One(d, managerOptions'[k])
      <4>1. DiffersAt(managerOptions, managerOptions', ManagerOption, k)
        BY <2>1 DEF DiffersAt
      <4> QED BY <1>1, <2>1, <4>1, ManagerOptionsChange
    <3>2. ctx[d].use = SharersOf(d) /\ One(d, managerOptions'[k]) = 0
          /\ One(d, managerOptions[k]) = IF d = c THEN 1 ELSE 0
      BY <1>1, <2>1, <2>3 DEF UsesOK, One
    <3>3. SharersOf(d)' = ctx[d].use - (IF d = c THEN 1 ELSE 0)
      BY <1>1, <3>1, <3>2, SMTT(40)
    <3>4. CASE d = c
      BY <2>4, <3>3, <3>4
    <3>5. CASE d # c
      BY <1>1, <2>4, <3>3, <3>5, SMTT(40)
    <3> QED BY <3>4, <3>5
  <2>6. \A t \in Thread : CallOK(t)'
    <3>1. ASSUME NEW t \in Thread PROVE CallOK(t)'
      <4>1. CallOK(t)
        BY <1>1 DEF CallsOK
      <4>2. ContextOf(t)' = ContextOf(t)
        BY <2>1 DEF ContextOf
      <4> QED BY <2>1, <4>1, <4>2 DEF CallOK
    <3> QED BY <3>1
  <2>7. CallsOK'
    BY <1>1, <2>1, <2>6 DEF CallsOK
  <2>8. UsesOK' /\ handles' \in [Ctx -> 0 .. MaxHandle]
    BY <1>1, <2>1, <2>5 DEF UsesOK
  <2> QED BY <2>1, <2>4, <2>7, <2>8, ContextsMove
<1> QED BY <1>2, <1>3

\* Only a thread's place changes.
LEMMA ThreadMoves ==
    ASSUME IInv, NEW t \in Thread, thread' \in [Thread -> CallType],
           \A s \in Thread : s # t => thread'[s] = thread[s],
           CallOK(t)', CallbackOK(t)',
           \A s \in Thread : s # t /\ thread[s].manager = thread'[t].manager /\ thread[s].manager # None =>
               thread[s].kind \in {"process", "import"} /\ thread'[t].kind \in {"process", "import"},
           UNCHANGED <<interfaces, options, ctx, handles, managerOptions, managers>>
    PROVE  IInv'
<1>1. UNCHANGED <<given, refs, destroyed, options, ctx, handles, managerOptions, managers>>
  BY DEF interfaces
<1>2. TypeOK'
  BY <1>1 DEF IInv, TypeOK, CallType
<1>3. UsesOK'
  BY <1>1, UsesUnchanged DEF IInv
<1>4. InterfacesOK'
  <2>1. \A c \in Ctx : ctx'[c].n = ctx[c].n /\ ctx'[c].v = ctx[c].v /\ ctx'[c].use = ctx[c].use
    BY <1>1
  <2> QED BY <1>1, <2>1, InterfacesKept DEF IInv
<1>5. ASSUME NEW s \in Thread, s # t PROVE CallOK(s)' /\ CallbackOK(s)'
  <2>1. thread'[s] = thread[s] /\ ContextOf(s)' = ContextOf(s) /\ CallOK(s) /\ CallbackOK(s)
    BY <1>1, <1>5 DEF ContextOf, IInv, CallsOK
  <2>2. CallOK(s)'
    BY <1>1, <2>1 DEF CallOK
  <2>3. CallbackOK(s)'
    BY <1>1, <2>1 DEF CallbackOK
  <2> QED BY <2>2, <2>3
<1>6. ASSUME NEW s \in Thread, NEW u \in Thread, s # u,
             thread'[s].manager = thread'[u].manager, thread'[s].manager # None
      PROVE  thread'[s].kind \in {"process", "import"}
  <2>1. CASE s # t /\ u # t
    BY <1>6, <2>1 DEF IInv, CallsOK
  <2>2. CASE s = t
    BY <1>6, <2>2
  <2>3. CASE u = t
    BY <1>6, <2>3
  <2> QED BY <2>1, <2>2, <2>3
<1>7. CallsOK'
  BY <1>1, <1>5, <1>6 DEF IInv, CallsOK
<1> QED BY <1>2, <1>3, <1>4, <1>5, <1>7 DEF IInv

\* The thread goes on to another place of its call, or returns.
LEMMA GoesOn ==
    ASSUME IInv, NEW t \in Thread, thread[t].at # "idle", NEW a \in At, GoOn(t, a)
    PROVE  /\ thread' \in [Thread -> CallType]
           /\ \A s \in Thread : s # t => thread'[s] = thread[s]
           /\ a = "idle" => thread'[t] = NoCall /\ thread'[t].at = "idle" /\ thread'[t].manager = None
           /\ a # "idle" => /\ thread'[t].at = a /\ thread'[t].kind = thread[t].kind
                            /\ thread'[t].manager = thread[t].manager
                            /\ thread'[t].option = thread[t].option
           /\ thread'[t].callback = None
<1>1. thread \in [Thread -> CallType]
  BY DEF IInv, TypeOK, CallType
<1>2. NoCall \in CallType
  BY DEF NoCall, CallType, At, Kind, MaybeData
<1>3. CASE a = "idle"
  <2>1. thread' = [thread EXCEPT ![t] = NoCall]
    BY <1>3 DEF GoOn
  <2> QED BY <1>1, <1>2, <1>3, <2>1 DEF NoCall
<1>4. CASE a # "idle"
  <2>1. thread' = [thread EXCEPT ![t] = [@ EXCEPT !.at = a, !.callback = None]]
    BY <1>4 DEF GoOn
  <2> QED BY <1>1, <1>4, <2>1 DEF CallType, MaybeData
<1> QED BY <1>3, <1>4

\* A callback begins.
LEMMA CallBackStep ==
    ASSUME IInv, NEW t \in Thread, CallBack(t)
    PROVE  IInv'
<1> DEFINE c == ContextOf(t)
           u == IF thread[t].at = "signal" THEN ctx[c].v ELSE ctx[c].n
<1>1. /\ thread[t].at \in {"signal", "notify", "flush"} /\ u # None
      /\ thread' = [thread EXCEPT ![t].callback = u]
      /\ UNCHANGED <<interfaces, options, ctx, handles, managerOptions, managers>>
  BY DEF CallBack
<1>2. thread \in [Thread -> CallType] /\ ctx \in CtxType /\ CallOK(t)
  BY DEF IInv, TypeOK, CallType, CtxType, CallsOK
<1>3. c \in Ctx
  BY <1>1, <1>2 DEF CallOK
<1>4. u \in MaybeData
  BY <1>2, <1>3 DEF CtxType
<1>5. /\ thread' \in [Thread -> CallType] /\ \A s \in Thread : s # t => thread'[s] = thread[s]
      /\ thread'[t].at = thread[t].at /\ thread'[t].kind = thread[t].kind
      /\ thread'[t].manager = thread[t].manager /\ thread'[t].option = thread[t].option
      /\ thread'[t].callback = u
  <2> HIDE DEF u
  <2> QED BY <1>1, <1>2, <1>4 DEF CallType
<1>6. ContextOf(t)' = c
  BY <1>1, <1>5 DEF ContextOf
<1>7. CallOK(t)'
  BY <1>1, <1>2, <1>5, <1>6, SMTT(40) DEF CallOK
<1>8. CallbackOK(t)'
  BY <1>1, <1>5, <1>6 DEF CallbackOK
<1>9. \A s \in Thread : s # t /\ thread[s].manager = thread'[t].manager /\ thread[s].manager # None =>
               thread[s].kind \in {"process", "import"} /\ thread'[t].kind \in {"process", "import"}
  BY <1>5 DEF IInv, CallsOK
<1> HIDE DEF c, u
<1> QED BY <1>1, <1>5, <1>7, <1>8, <1>9, ThreadMoves

\* A call goes on without touching an object.
LEMMA ProceedStep ==
    ASSUME IInv, NEW t \in Thread, Proceed(t) \/ Again(t) \/ Leave(t)
    PROVE  IInv'
<1>1. CallOK(t) /\ UNCHANGED <<interfaces, options, ctx, handles, managerOptions, managers>>
  BY DEF IInv, CallsOK, Proceed, Again, Leave
<1>2. PICK a \in At :
          /\ thread[t].at # "idle" /\ GoOn(t, a)
          /\ a # "idle" => \/ thread[t].kind \in {"create", "process"} /\ a \in {"signal", "notify", "turn"}
                                /\ thread[t].at \in {"signal", "notify", "turn"}
                           \/ thread[t].kind = "import" /\ a \in {"signal", "notify", "turn", "flush"}
                           \/ thread[t].kind = "destroy" /\ a = "release" /\ thread[t].at = "flush"
  <2>1. CASE Proceed(t)
    <3>1. thread[t].at \in {"signal", "notify", "flush"} /\ GoOn(t, After(t))
      BY <2>1 DEF Proceed
    <3>2. CASE thread[t].at = "signal"
      <4>1. After(t) = "notify"
        BY <3>2 DEF After
      <4> QED BY <1>1, <3>1, <3>2, <4>1 DEF CallOK, At
    <3>3. CASE thread[t].at = "notify"
      <4>1. After(t) = "turn"
        BY <3>3 DEF After
      <4> QED BY <1>1, <3>1, <3>3, <4>1 DEF CallOK, At
    <3>4. CASE thread[t].at = "flush" /\ thread[t].kind = "import"
      <4>1. After(t) = "idle"
        BY <3>4 DEF After
      <4> QED BY <3>1, <3>4, <4>1 DEF At
    <3>5. CASE thread[t].at = "flush" /\ thread[t].kind = "destroy"
      <4>1. After(t) = "release"
        BY <3>5 DEF After
      <4> QED BY <3>1, <3>5, <4>1 DEF At
    <3> QED BY <1>1, <3>1, <3>2, <3>3, <3>4, <3>5 DEF CallOK
  <2>2. CASE Again(t)
    BY <1>1, <2>2 DEF Again, CallOK, At
  <2>3. CASE Leave(t)
    BY <1>1, <2>3 DEF Leave, CallOK, At
  <2> QED BY <2>1, <2>2, <2>3
<1>3. /\ thread' \in [Thread -> CallType]
      /\ \A s \in Thread : s # t => thread'[s] = thread[s]
      /\ a = "idle" => thread'[t] = NoCall /\ thread'[t].at = "idle" /\ thread'[t].manager = None
      /\ a # "idle" => /\ thread'[t].at = a /\ thread'[t].kind = thread[t].kind
                       /\ thread'[t].manager = thread[t].manager
                       /\ thread'[t].option = thread[t].option
      /\ thread'[t].callback = None
  BY <1>2, GoesOn
<1>4. CallOK(t)'
  <2>1. CASE a = "idle"
    BY <1>3, <2>1 DEF CallOK, NoCall
  <2>2. CASE a # "idle"
    <3>1. ContextOf(t)' = ContextOf(t) /\ UNCHANGED <<managerOptions, managers>>
      BY <1>1, <1>3, <2>2 DEF ContextOf
    <3> QED BY <1>1, <1>2, <1>3, <2>2, <3>1 DEF CallOK
  <2> QED BY <2>1, <2>2
<1>5. CallbackOK(t)'
  BY <1>3 DEF CallbackOK
<1>6. \A s \in Thread : s # t /\ thread[s].manager = thread'[t].manager /\ thread[s].manager # None =>
               thread[s].kind \in {"process", "import"} /\ thread'[t].kind \in {"process", "import"}
  BY <1>3 DEF IInv, CallsOK
<1> QED BY <1>1, <1>3, <1>4, <1>5, <1>6, ThreadMoves

\* A call of a manager begins.
LEMMA CallStarts ==
    ASSUME IInv, NEW t \in Thread, NEW m \in Manager,
           (\E kind \in {"process", "import"} : ManagerCall(t, m, kind)) \/ ManagerDestroy(t, m)
    PROVE  IInv'
<1>1. /\ thread \in [Thread -> CallType] /\ CallsOK /\ None \notin Manager
  BY KernelObjectsAssumption DEF IInv, TypeOK, CallType
<1>2. PICK kind \in {"process", "import", "destroy"} :
          /\ thread' = [thread EXCEPT ![t] = [NoCall EXCEPT
                    !.at = IF kind = "destroy" THEN "flush" ELSE "signal", !.kind = kind, !.manager = m]]
          /\ managers[m].stage = "ready" /\ thread[t].at = "idle"
          /\ kind = "destroy" => \A s \in Thread : thread[s].manager # m
          /\ \A s \in Thread : thread[s].manager = m => thread[s].kind # "destroy"
          /\ UNCHANGED <<interfaces, options, ctx, handles, managerOptions, managers>>
  BY DEF ManagerCall, ManagerDestroy
<1>3. /\ thread' \in [Thread -> CallType]
      /\ \A s \in Thread : s # t => thread'[s] = thread[s]
      /\ thread'[t].at = IF kind = "destroy" THEN "flush" ELSE "signal"
      /\ thread'[t].kind = kind /\ thread'[t].manager = m /\ thread'[t].option = None
      /\ thread'[t].callback = None
  BY <1>1, <1>2 DEF CallType, NoCall, At, Kind, MaybeData
<1>4. CallOK(t)'
  <2>1. ContextOf(t)' \in Ctx
    BY <1>1, <1>2, <1>3 DEF ContextOf, CallsOK
  <2> QED BY <1>2, <1>3, <2>1, SMTT(40) DEF CallOK
<1>5. CallbackOK(t)'
  BY <1>3 DEF CallbackOK
<1>6. ASSUME NEW s \in Thread, s # t, thread[s].manager = thread'[t].manager, thread[s].manager # None
      PROVE  thread[s].kind \in {"process", "import"} /\ thread'[t].kind \in {"process", "import"}
  <2>1. thread[s].manager = m /\ thread[s].kind # "destroy" /\ kind # "destroy"
    BY <1>2, <1>3, <1>6, SMTT(40)
  <2>2. CallOK(s) /\ thread[s] # NoCall
    BY <1>1, <2>1, SMTT(40) DEF CallsOK, NoCall
  <2>3. thread[s].at # "idle"
    BY <2>2 DEF CallOK
  <2> QED BY <1>2, <1>3, <2>1, <2>2, <2>3 DEF CallOK
<1> QED BY <1>2, <1>3, <1>4, <1>5, <1>6, ThreadMoves

ManagersType == [Manager -> [stage : Stage, ctx : Ctx \cup {None}]]

\* A manager changes that no other thread is calling.
LEMMA ManagerMoves ==
    ASSUME SetFacts, IInv, NEW t \in Thread, NEW m \in Manager, thread' \in [Thread -> CallType],
           \A s \in Thread : s # t => thread'[s] = thread[s] /\ thread[s].manager # m,
           managers' \in ManagersType, \A j \in Manager : j # m => managers'[j] = managers[j],
           managers'[m].stage = "ready" => managers'[m].ctx \in Ctx,
           thread'[t].manager \in {m, None}, CallOK(t)', CallbackOK(t)',
           ctx' \in CtxType, refs' \in [Data -> Nat], destroyed' \in [Data -> Nat],
           InterfacesOK', SameHeld, UsesOK', UNCHANGED <<given, options, handles, managerOptions>>
    PROVE  IInv'
<1>1. TypeOK'
  BY DEF IInv, TypeOK, CallType, CtxType, ManagersType
<1>2. ASSUME NEW s \in Thread, s # t PROVE CallOK(s)' /\ (thread[s].at # "idle" => ContextOf(s)' = ContextOf(s))
  <2>1. thread'[s] = thread[s] /\ CallOK(s) /\ thread[s].manager # m
    BY <1>2 DEF IInv, CallsOK
  <2>2. CASE thread[s].at = "idle"
    BY <2>1, <2>2 DEF CallOK
  <2>3. CASE thread[s].at # "idle"
    <3>1. thread[s].manager \in Manager
      BY <2>1, <2>3 DEF CallOK
    <3>2. managers'[thread[s].manager] = managers[thread[s].manager] /\ ContextOf(s)' = ContextOf(s)
      BY <2>1, <3>1 DEF ContextOf
    <3> QED BY <2>1, <2>3, <3>1, <3>2 DEF CallOK
  <2> QED BY <2>2, <2>3
<1>3. ASSUME NEW s \in Thread, NEW u \in Thread, s # u,
             thread'[s].manager = thread'[u].manager, thread'[s].manager # None
      PROVE  thread'[s].kind \in {"process", "import"}
  <2>1. CASE s # t /\ u # t
    BY <1>3, <2>1 DEF IInv, CallsOK
  <2>2. CASE s = t
    BY <1>3, <2>2
  <2>3. CASE u = t
    BY <1>3, <2>3
  <2> QED BY <2>1, <2>2, <2>3
<1>4. CallsOK'
  <2>1. \A j \in Manager : managers'[j].stage = "ready" => managers'[j].ctx \in Ctx
    BY DEF IInv, CallsOK
  <2> QED BY <1>2, <1>3, <2>1 DEF CallsOK
<1>5. ASSUME NEW s \in Thread, s # t PROVE CallbackOK(s)'
  <2>1. thread'[s] = thread[s] /\ CallOK(s)
    BY <1>5 DEF IInv, CallsOK
  <2>2. CASE thread[s].at = "idle"
    <3>1. thread[s] = NoCall
      BY <2>1, <2>2 DEF CallOK
    <3>2. thread'[s].callback = None
      BY <2>1, <3>1, SMTT(40) DEF NoCall
    <3> QED BY <3>2 DEF CallbackOK
  <2>3. CASE thread[s].at # "idle"
    <3>1. ContextOf(s)' = ContextOf(s)
      BY <1>2, <1>5, <2>3
    <3> QED BY <1>1, <1>4, <2>1, <3>1, CallbackKept
  <2> QED BY <2>2, <2>3
<1> QED BY <1>1, <1>4, <1>5 DEF IInv

\* A manager is being made, or one is deleted that does not share its context.
LEMMA ManagerStep ==
    ASSUME SetFacts, IInv, NEW t \in Thread,
           \/ \E k \in ManagerOption, m \in Manager : ManagerCreate(t, k, m)
           \/ CreateFails(t) \/ DeleteManager(t)
    PROVE  IInv'
<1>1. /\ thread \in [Thread -> CallType] /\ CallsOK /\ None \notin Manager /\ UsesOK /\ InterfacesOK
      /\ managers \in ManagersType /\ ctx \in CtxType /\ refs \in [Data -> Nat] /\ destroyed \in [Data -> Nat]
      /\ handles \in [Ctx -> 0 .. MaxHandle] /\ managerOptions \in [ManagerOption -> Ctx \cup {None}]
      /\ \A c \in Ctx : ctx[c].use \in Nat
  BY KernelObjectsAssumption DEF IInv, TypeOK, CallType, ManagersType, CtxType
<1>2. UNCHANGED <<given, refs, destroyed, options, ctx, handles, managerOptions>>
  BY DEF ManagerCreate, CreateFails, DeleteManager, interfaces
<1>3. InterfacesOK' /\ SameHeld
  <2>1. \A c \in Ctx : ctx'[c].n = ctx[c].n /\ ctx'[c].v = ctx[c].v /\ ctx'[c].use = ctx[c].use
    BY <1>2
  <2> QED BY <1>1, <1>2, <2>1, InterfacesKept
<1>4. ASSUME NEW m \in Manager, \A j \in Manager : j # m => managers'[j] = managers[j],
             managers[m].stage # "ready", managers'[m].stage # "ready"
      PROVE  UsesOK'
  <2>1. ASSUME NEW c \in Ctx PROVE ctx'[c].use = SharersOf(c)'
    <3>1. SharersOf(c)' = SharersOf(c) - Share(managers[m], c) + Share(managers'[m], c)
      <4>1. DiffersAt(managers, managers', Manager, m)
        BY <1>4 DEF DiffersAt
      <4> QED BY <1>1, <1>2, <4>1, ManagersChange
    <3>2. /\ Share(managers[m], c) = 0 /\ Share(managers'[m], c) = 0
          /\ ctx'[c].use = SharersOf(c) /\ SharersOf(c) \in Nat
      BY <1>1, <1>2, <1>4 DEF Share, UsesOK
    <3> QED BY <3>1, <3>2, SMTT(40)
  <2> QED BY <2>1 DEF UsesOK
<1>5. ASSUME NEW k \in ManagerOption, NEW m \in Manager, ManagerCreate(t, k, m) PROVE IInv'
  <2>1. /\ managers' \in ManagersType /\ \A j \in Manager : j # m => managers'[j] = managers[j]
        /\ managers[m].stage = "none" /\ managers'[m].stage = "loading"
        /\ managers'[m].ctx = managerOptions[k] /\ managerOptions[k] \in Ctx
    BY <1>1, <1>5 DEF ManagerCreate, ManagersType, Stage
  <2>2. /\ thread' \in [Thread -> CallType] /\ \A s \in Thread : s # t => thread'[s] = thread[s]
        /\ thread'[t].at = "signal" /\ thread'[t].kind = "create" /\ thread'[t].manager = m
        /\ thread'[t].option = k /\ thread'[t].callback = None
    BY <1>1, <1>5 DEF ManagerCreate, CallType, NoCall, At, Kind, MaybeData
  <2>3. ASSUME NEW s \in Thread PROVE thread[s].manager # m
    <3>1. CallOK(s)
      BY <1>1 DEF CallsOK
    <3>2. CASE thread[s].at = "idle"
      <4>1. thread[s] = NoCall
        BY <3>1, <3>2 DEF CallOK
      <4> QED BY <1>1, <4>1, SMTT(40) DEF NoCall
    <3>3. CASE thread[s].at # "idle"
      <4>1. managers[thread[s].manager].stage # "none"
        BY <3>1, <3>3 DEF CallOK
      <4> QED BY <2>1, <4>1
    <3> QED BY <3>2, <3>3
  <2>4. CallOK(t)' /\ CallbackOK(t)'
    <3>1. ContextOf(t)' = managerOptions[k]
      BY <2>1, <2>2 DEF ContextOf
    <3> QED BY <1>2, <2>1, <2>2, <3>1 DEF CallOK, CallbackOK
  <2>5. UsesOK'
    BY <1>4, <2>1
  <2> QED BY <1>1, <1>2, <1>3, <2>1, <2>2, <2>3, <2>4, <2>5, ManagerMoves
<1>6. ASSUME CreateFails(t) \/ DeleteManager(t) PROVE IInv'
  <2> DEFINE m == thread[t].manager
  <2>1. /\ CallOK(t) /\ thread[t].at # "idle" /\ thread[t].kind \in {"create", "destroy"}
        /\ thread[t].at \in {"delete"} \/ thread[t].kind = "create"
        /\ managers' = [managers EXCEPT ![m] = NoManager] /\ GoOn(t, "idle")
    BY <1>1, <1>6 DEF CreateFails, DeleteManager, CallsOK, CallOK
  <2>2. m \in Manager /\ managers[m].stage \in {"loading", "closing"}
    BY <2>1 DEF CallOK
  <2>3. /\ managers' \in ManagersType /\ \A j \in Manager : j # m => managers'[j] = managers[j]
        /\ managers'[m].stage = "none"
    BY <1>1, <2>1, <2>2 DEF ManagersType, NoManager, Stage
  <2>4. /\ thread' \in [Thread -> CallType] /\ \A s \in Thread : s # t => thread'[s] = thread[s]
        /\ thread'[t] = NoCall /\ thread'[t].at = "idle" /\ thread'[t].manager = None
        /\ thread'[t].callback = None
    BY <2>1, GoesOn DEF At
  <2>5. \A s \in Thread : s # t => thread[s].manager # m
    BY <1>1, <2>1, <2>2 DEF CallsOK
  <2>6. CallOK(t)' /\ CallbackOK(t)'
    BY <2>4 DEF CallOK, CallbackOK, NoCall
  <2> HIDE DEF m
  <2>7. UsesOK'
    BY <1>4, <2>2, <2>3
  <2> QED BY <1>1, <1>2, <1>3, <2>2, <2>3, <2>4, <2>5, <2>6, <2>7, ManagerMoves
<1> QED BY <1>5, <1>6

\* The new ChainMan takes its share of the context.
LEMMA CreateSucceedsStep ==
    ASSUME SetFacts, IInv, NEW t \in Thread, CreateSucceeds(t)
    PROVE  IInv'
<1> DEFINE m == thread[t].manager
           c == managers[m].ctx
<1>1. /\ thread \in [Thread -> CallType] /\ CallsOK /\ None \notin Manager /\ UsesOK /\ InterfacesOK
      /\ managers \in ManagersType /\ ctx \in CtxType /\ refs \in [Data -> Nat] /\ destroyed \in [Data -> Nat]
      /\ handles \in [Ctx -> 0 .. MaxHandle]
      /\ \A d \in Ctx : ctx[d].use \in Nat
  BY KernelObjectsAssumption DEF IInv, TypeOK, CallType, ManagersType, CtxType
<1>2. /\ thread[t].at = "turn" /\ thread[t].kind = "create"
      /\ managers' = [managers EXCEPT ![m].stage = "ready"]
      /\ ctx' = [ctx EXCEPT ![c].use = @ + 1]
      /\ GoOn(t, "idle") /\ UNCHANGED <<given, refs, destroyed, options, handles, managerOptions>>
  BY DEF CreateSucceeds, ContextOf, ManagerShares, interfaces
<1>3. m \in Manager /\ c \in Ctx /\ managers[m].stage = "loading" /\ m # None
  BY <1>1, <1>2 DEF CallsOK, CallOK, ContextOf
<1>4. /\ managers' \in ManagersType /\ \A j \in Manager : j # m => managers'[j] = managers[j]
      /\ managers'[m].stage = "ready" /\ managers'[m].ctx = c
  BY <1>1, <1>2, <1>3 DEF ManagersType, Stage
<1>5. /\ thread' \in [Thread -> CallType] /\ \A s \in Thread : s # t => thread'[s] = thread[s]
      /\ thread'[t] = NoCall /\ thread'[t].at = "idle" /\ thread'[t].manager = None
      /\ thread'[t].callback = None
  BY <1>2, GoesOn DEF At
<1>6. \A s \in Thread : s # t => thread[s].manager # m
  BY <1>1, <1>2, <1>3 DEF CallsOK
<1>7. CallOK(t)' /\ CallbackOK(t)'
  BY <1>5 DEF CallOK, CallbackOK, NoCall
<1>8. managers[m].ctx = c
  OBVIOUS
<1> HIDE DEF m, c
<1>9. /\ ctx' \in CtxType /\ ctx'[c].use = ctx[c].use + 1
      /\ \A d \in Ctx : /\ ctx'[d].n = ctx[d].n /\ ctx'[d].v = ctx[d].v
                        /\ d # c => ctx'[d].use = ctx[d].use
  BY <1>1, <1>2, <1>3, SMTT(40) DEF CtxType
<1>10. InterfacesOK' /\ SameHeld
  <2>1. \A d \in Ctx : ctx'[d].use = 0 => ctx[d].use = 0
    BY <1>1, <1>3, <1>9, SMTT(40)
  <2> QED BY <1>1, <1>2, <1>9, <2>1, InterfacesKept
<1>11. UsesOK'
  <2>1. ASSUME NEW d \in Ctx PROVE ctx'[d].use = SharersOf(d)'
    <3>1. SharersOf(d)' = SharersOf(d) - Share(managers[m], d) + Share(managers'[m], d)
      <4>1. DiffersAt(managers, managers', Manager, m)
        BY <1>4 DEF DiffersAt
      <4> QED BY <1>1, <1>2, <1>3, <4>1, ManagersChange
    <3>2. ctx[d].use = SharersOf(d) /\ Share(managers[m], d) = 0
          /\ Share(managers'[m], d) = IF d = c THEN 1 ELSE 0
      BY <1>1, <1>3, <1>4 DEF UsesOK, Share
    <3>3. SharersOf(d)' = ctx[d].use + (IF d = c THEN 1 ELSE 0)
      BY <1>1, <3>1, <3>2, SMTT(40)
    <3>4. CASE d = c
      BY <1>9, <3>3, <3>4
    <3>5. CASE d # c
      BY <1>1, <1>9, <3>3, <3>5, SMTT(40)
    <3> QED BY <3>4, <3>5
  <2> QED BY <2>1 DEF UsesOK
<1> QED BY <1>1, <1>2, <1>3, <1>4, <1>5, <1>6, <1>7, <1>9, <1>10, <1>11, ManagerMoves

\* ~ChainMan lets go of the context.
LEMMA ReleaseManagersContextStep ==
    ASSUME SetFacts, IInv, NEW t \in Thread, ReleaseManagersContext(t)
    PROVE  IInv'
<1> DEFINE m == thread[t].manager
           c == managers[m].ctx
<1>1. /\ thread \in [Thread -> CallType] /\ CallsOK /\ None \notin Manager /\ UsesOK /\ InterfacesOK /\ TypeOK
      /\ managers \in ManagersType /\ ctx \in CtxType
      /\ handles \in [Ctx -> 0 .. MaxHandle]
      /\ \A d \in Ctx : ctx[d].use \in Nat
  BY KernelObjectsAssumption DEF IInv, TypeOK, CallType, ManagersType, CtxType
<1>2. /\ thread[t].at = "release"
      /\ managers' = [managers EXCEPT ![m].stage = "closing"]
      /\ ReleaseContext(c)
      /\ GoOn(t, "delete") /\ UNCHANGED <<given, options, handles, managerOptions>>
  BY DEF ReleaseManagersContext, ContextOf
<1>3. /\ m \in Manager /\ c \in Ctx /\ managers[m].stage = "ready" /\ m # None
      /\ thread[t].kind = "destroy" /\ thread[t].option = None
  BY <1>1, <1>2 DEF CallsOK, CallOK, ContextOf
<1>4. /\ managers' \in ManagersType /\ \A j \in Manager : j # m => managers'[j] = managers[j]
      /\ managers'[m].stage = "closing" /\ managers'[m].ctx = c
  BY <1>1, <1>2, <1>3 DEF ManagersType, Stage
<1>5. /\ thread' \in [Thread -> CallType] /\ \A s \in Thread : s # t => thread'[s] = thread[s]
      /\ thread'[t].at = "delete" /\ thread'[t].kind = "destroy" /\ thread'[t].manager = m
      /\ thread'[t].option = None /\ thread'[t].callback = None
  BY <1>2, <1>3, GoesOn DEF At
<1>6. \A s \in Thread : s # t => thread[s].manager # m
  BY <1>1, <1>3 DEF CallsOK
<1>7. CallOK(t)' /\ CallbackOK(t)'
  <2>1. ContextOf(t)' = c
    BY <1>4, <1>5 DEF ContextOf
  <2> QED BY <1>3, <1>4, <1>5, <2>1 DEF CallOK, CallbackOK
<1>8. managers[m].ctx = c
  OBVIOUS
<1> HIDE DEF m, c
<1>9. ctx[c].use # 0
  <2>1. \E j \in Manager : managers[j].stage = "ready" /\ managers[j].ctx = c
    BY <1>3, <1>8
  <2> QED BY <1>1, <1>3, <2>1, SharersZero DEF UsesOK
<1>10. /\ ctx' \in CtxType /\ refs' \in [Data -> Nat] /\ destroyed' \in [Data -> Nat]
       /\ InterfacesOK' /\ SameHeld
       /\ ctx'[c].use = ctx[c].use - 1 /\ \A d \in Ctx : d # c => ctx'[d] = ctx[d]
  BY <1>1, <1>2, <1>3, <1>9, Released DEF CtxType
<1>11. UsesOK'
  <2>1. ASSUME NEW d \in Ctx PROVE ctx'[d].use = SharersOf(d)'
    <3>1. SharersOf(d)' = SharersOf(d) - Share(managers[m], d) + Share(managers'[m], d)
      <4>1. DiffersAt(managers, managers', Manager, m)
        BY <1>4 DEF DiffersAt
      <4> QED BY <1>1, <1>2, <1>3, <4>1, ManagersChange
    <3>2. ctx[d].use = SharersOf(d) /\ Share(managers'[m], d) = 0
          /\ Share(managers[m], d) = IF d = c THEN 1 ELSE 0
      BY <1>1, <1>3, <1>4, <1>8 DEF UsesOK, Share
    <3>3. SharersOf(d)' = ctx[d].use - (IF d = c THEN 1 ELSE 0)
      BY <1>1, <3>1, <3>2, SMTT(40)
    <3>4. CASE d = c
      BY <1>10, <3>3, <3>4
    <3>5. CASE d # c
      BY <1>1, <1>10, <3>3, <3>5, SMTT(40)
    <3> QED BY <3>4, <3>5
  <2> QED BY <2>1 DEF UsesOK
<1>12. managers'[m].stage # "ready"
  BY <1>4
<1> QED BY <1>2, <1>3, <1>4, <1>5, <1>6, <1>7, <1>10, <1>11, <1>12, ManagerMoves

-----------------------------------------------------------------------------
(* The theorems                                                            *)

\* In the beginning there is nothing.
LEMMA InitIInv ==
    ASSUME SetFacts
    PROVE  Init => IInv
<1> SUFFICES ASSUME Init PROVE IInv
  OBVIOUS
<1>1. TypeOK
  <2>1. /\ given \in 0 .. MaxData /\ refs \in [Data -> Nat] /\ destroyed \in [Data -> Nat]
        /\ handles \in [Ctx -> 0 .. MaxHandle] /\ managerOptions \in [ManagerOption -> Ctx \cup {None}]
    BY KernelObjectsAssumption, SMTT(40) DEF Init
  <2>2. /\ NoOptions \in [n : MaybeData, v : MaybeData, live : BOOLEAN]
        /\ NoContext \in [n : MaybeData, v : MaybeData, use : Nat]
    BY DEF NoOptions, NoContext, MaybeData
  <2>3. /\ NoManager \in [stage : Stage, ctx : Ctx \cup {None}]
        /\ NoCall \in CallType
    BY DEF NoManager, NoCall, MaybeData, Stage, At, Kind, CallType
  <2> QED BY <2>1, <2>2, <2>3 DEF Init, TypeOK, CallType
<1>2. InterfacesOK
  <2>1. ASSUME NEW u \in Data PROVE CountOK(u)
    <3>1. u \in Nat /\ u > 0 /\ u # None
      BY KernelObjectsAssumption, SMTT(40) DEF Data
    <3>2. /\ \A o \in Option : u # options[o].n /\ u # options[o].v
          /\ \A c \in Ctx : u # ctx[c].n /\ u # ctx[c].v
      BY <3>1 DEF Init, NoOptions, NoContext
    <3>3. OptionRefs(options, u) = 0 /\ ContextRefs(ctx, u) = 0
      BY <3>2, RefsZero
    <3> QED BY <3>1, <3>3, SMTT(40) DEF Init, CountOK
  <2> QED BY <2>1 DEF Init, InterfacesOK, NoOptions, NoContext
<1>3. UsesOK
  <2>1. ASSUME NEW c \in Ctx PROVE ctx[c].use = SharersOf(c)
    <3>1. /\ handles[c] = 0 /\ \A k \in ManagerOption : managerOptions[k] # c
          /\ \A m \in Manager : ~ (managers[m].stage = "ready" /\ managers[m].ctx = c)
          /\ ctx[c].use = 0
      BY KernelObjectsAssumption DEF Init, NoManager, NoContext
    <3>2. handles \in [Ctx -> 0 .. MaxHandle]
      BY <1>1 DEF TypeOK
    <3> QED BY <3>1, <3>2, SharersZero
  <2> QED BY <2>1 DEF UsesOK
<1>4. CallsOK /\ \A t \in Thread : CallbackOK(t)
  BY DEF Init, CallsOK, CallOK, NoCall, CallbackOK, NoManager
<1> QED BY <1>1, <1>2, <1>3, <1>4 DEF IInv

\* Every step keeps the invariant.
LEMMA NextIInv ==
    ASSUME SetFacts
    PROVE  IInv /\ [Next]_vars => IInv'
<1> SUFFICES ASSUME IInv, [Next]_vars PROVE IInv'
  OBVIOUS
<1>1. ASSUME NEW o \in Option,
             \/ ContextOptionsCreate(o) \/ ContextOptionsDestroy(o)
             \/ \E u \in Data : SetNotifications(o, u) \/ SetValidationInterface(o, u)
      PROVE  IInv'
  BY <1>1, OptionsStep
<1>2. ASSUME NEW c \in Ctx, NEW opts, ContextCreate(c, opts),
             opts = NoOptions \/ \E o \in Option : opts = options[o]
      PROVE  IInv'
  BY <1>2, ContextCreateStep
<1>3. ASSUME NEW c \in Ctx, ContextCopy(c) \/ ContextDestroy(c) PROVE IInv'
  BY <1>3, ContextUseStep, ContextDestroyStep
<1>4. ASSUME NEW k \in ManagerOption,
             (\E c \in Ctx : ManagerOptionsCreate(k, c)) \/ ManagerOptionsDestroy(k)
      PROVE  IInv'
  BY <1>4, ManagerOptionsStep
<1>5. ASSUME NEW t \in Thread, NEW m \in Manager,
             \/ \E k \in ManagerOption : ManagerCreate(t, k, m)
             \/ \E kind \in {"process", "import"} : ManagerCall(t, m, kind)
             \/ ManagerDestroy(t, m)
      PROVE  IInv'
  BY <1>5, ManagerStep, CallStarts
<1>6. ASSUME NEW t \in Thread, CallStep(t) PROVE IInv'
  BY <1>6, CallBackStep, ProceedStep, CreateSucceedsStep, ManagerStep, ReleaseManagersContextStep
  DEF CallStep
<1>7. ASSUME UNCHANGED vars PROVE IInv'
  <2>1. UNCHANGED <<given, refs, destroyed, options, ctx, handles, managerOptions, managers, thread>>
    BY <1>7 DEF vars, interfaces
  <2>2. TypeOK' /\ UsesOK' /\ CallsOK' /\ \A t \in Thread : CallbackOK(t)'
    <3>1. TypeOK'
      BY <2>1 DEF IInv, TypeOK
    <3> QED BY <2>1, <3>1, UsesUnchanged, CallsUnchanged, CallbacksUnchanged DEF IInv
  <2>3. InterfacesOK'
    <3>1. \A c \in Ctx : ctx'[c].n = ctx[c].n /\ ctx'[c].v = ctx[c].v /\ ctx'[c].use = ctx[c].use
      BY <2>1
    <3> QED BY <2>1, <3>1, InterfacesKept DEF IInv
  <2> QED BY <2>2, <2>3 DEF IInv
<1> QED BY <1>1, <1>2, <1>3, <1>4, <1>5, <1>6, <1>7 DEF Next

-----------------------------------------------------------------------------
(* The theorems                                                            *)

INSTANCE FiniteSetTheorems

\* The libraries have what is used of them.
LEMMA SetFactsHold == SetFacts
<1>1. LeastNumbers
  <2> DEFINE Less == OpToRel(<, Nat)
  <2>1. \A x, y \in Nat : <<y, x>> \in Less <=> y < x
    BY DEF OpToRel
  <2>2. IsWellFoundedOn(Less, Nat)
    BY NatLessThanWellFounded
  <2> HIDE DEF Less
  <2>3. ASSUME NEW S \in SUBSET Nat, S # {} PROVE \E x \in S : \A y \in S : x <= y
    <3>1. PICK x \in S : \A y \in S : ~ (<<y, x>> \in Less)
      BY <2>2, <2>3, WFMin
    <3>2. ASSUME NEW y \in S PROVE x <= y
      <4>1. x \in Nat /\ y \in Nat /\ ~ (y < x)
        BY <2>1, <3>1
      <4> QED BY <4>1, SMTT(40)
    <3> QED BY <3>2
  <2> QED BY <2>3 DEF LeastNumbers
<1>2. FiniteSubsets
  BY FS_CardinalityType, FS_Subset DEF FiniteSubsets
<1>3. FiniteEmpty /\ FiniteSingletons
  BY FS_EmptySet, FS_Singleton DEF FiniteEmpty, FiniteSingletons
<1>4. FiniteAdd /\ FiniteRemove
  BY FS_AddElement, FS_RemoveElement DEF FiniteAdd, FiniteRemove
<1>5. FiniteUnions /\ FiniteUNION
  BY FS_Union, FS_UNION DEF FiniteUnions, FiniteUNION
<1>6. FiniteProducts /\ FiniteIntervals
  BY FS_Product, FS_Interval DEF FiniteProducts, FiniteIntervals
<1>7. FiniteImages
  <2> SUFFICES ASSUME NEW S, NEW T, NEW f \in [S -> T], IsFiniteSet(S),
                      \A y \in T : \E x \in S : f[x] = y
               PROVE  /\ IsFiniteSet(T)
                      /\ (\A x, y \in S : f[x] = f[y] => x = y) => Cardinality(T) = Cardinality(S)
    BY DEF FiniteImages
  <2>1. f \in Surjection(S, T)
    BY DEF Surjection
  <2>2. (\A x, y \in S : f[x] = f[y] => x = y) => f \in Injection(S, T)
    BY DEF Injection, IsInjective
  <2> QED BY <2>1, <2>2, FS_Surjection
<1> QED BY <1>1, <1>2, <1>3, <1>4, <1>5, <1>6, <1>7, SMTT(40) DEF SetFacts

\* The invariant always holds.
LEMMA AlwaysIInv == Spec => []IInv
BY InitIInv, NextIInv, SetFactsHold, PTL DEF Spec

\* The counts of contexts are exact, and user_data_destroy is called once, exactly for
\* what no options and no context in use hold, for any number of objects and threads.
THEOREM UserDataIsDestroyedWhenUnused == Spec => []DestroyedWhenUnused
<1> DEFINE Used(u) == \/ \E o \in Option : options[o].live /\ u \in {options[o].n, options[o].v}
                      \/ \E c \in Ctx : SharersOf(c) > 0 /\ u \in {ctx[c].n, ctx[c].v}
<1>1. ASSUME IInv, NEW u \in Data PROVE refs[u] = 0 <=> ~ Used(u)
  <2>1. /\ TypeOK /\ InterfacesOK /\ UsesOK
        /\ refs[u] = OptionRefs(options, u) + ContextRefs(ctx, u) /\ u # None
    BY <1>1, KernelObjectsAssumption, SMTT(40) DEF IInv, InterfacesOK, CountOK, Data
  <2>2. /\ OptionRefs(options, u) \in Nat /\ ContextRefs(ctx, u) \in Nat
        /\ OptionRefs(options, u) = 0 <=> \A o \in Option : u # options[o].n /\ u # options[o].v
        /\ ContextRefs(ctx, u) = 0 <=> \A c \in Ctx : u # ctx[c].n /\ u # ctx[c].v
    BY RefsZero, SetFactsHold
  <2>3. refs[u] = 0 <=> OptionRefs(options, u) = 0 /\ ContextRefs(ctx, u) = 0
    BY <2>1, <2>2, SMTT(40)
  <2>4. \A o \in Option : u \in {options[o].n, options[o].v} => options[o].live
    BY <2>1, SMTT(40) DEF InterfacesOK
  <2>5. \A c \in Ctx : u \in {ctx[c].n, ctx[c].v} => SharersOf(c) > 0
    <3>1. ASSUME NEW c \in Ctx, u \in {ctx[c].n, ctx[c].v} PROVE SharersOf(c) > 0
      <4>1. ctx[c].use # 0 /\ ctx[c].use \in Nat /\ ctx[c].use = SharersOf(c)
        BY <2>1, <3>1, SMTT(40) DEF InterfacesOK, TypeOK, UsesOK
      <4> QED BY <4>1, SMTT(40)
    <3> QED BY <3>1
  <2> QED BY <2>2, <2>3, <2>4, <2>5
<1>2. IInv => DestroyedWhenUnused
  <2> SUFFICES ASSUME IInv PROVE DestroyedWhenUnused
    OBVIOUS
  <2>1. \A u \in Data : destroyed[u] = IF u <= given /\ ~ Used(u) THEN 1 ELSE 0
    <3>1. \A u \in Data : destroyed[u] = IF u <= given /\ refs[u] = 0 THEN 1 ELSE 0
      BY DEF IInv, InterfacesOK, CountOK
    <3> HIDE DEF Used
    <3> QED BY <1>1, <3>1
  <2> QED BY <2>1 DEF IInv, UsesOK, DestroyedWhenUnused
<1> QED BY <1>2, AlwaysIInv, SetFactsHold, PTL

\* Callbacks get live user data, and calls of a manager find their context in use.
THEOREM CallbacksFindTheirData == Spec => []UserDataAlive
<1>1. IInv => UserDataAlive
  <2> SUFFICES ASSUME IInv, NEW t \in Thread
               PROVE  /\ thread[t].callback # None => destroyed[thread[t].callback] = 0
                      /\ thread[t].at \in At \ {"idle", "delete"} => ctx[ContextOf(t)].use > 0
    BY DEF UserDataAlive
  <2>1. thread[t].at \notin {"idle", "delete"} => ctx[ContextOf(t)].use > 0
    BY CallsFindContext, SetFactsHold DEF IInv, InUse
  <2>2. ASSUME thread[t].callback # None PROVE destroyed[thread[t].callback] = 0
    <3> DEFINE u == thread[t].callback
               c == ContextOf(t)
    <3>1. u \in Data /\ thread[t].at \in {"signal", "notify", "flush"} /\ u \in {ctx[c].n, ctx[c].v}
      BY <2>2 DEF IInv, TypeOK, MaybeData, CallbackOK
    <3>2. c \in Ctx
      BY <3>1 DEF IInv, CallsOK, CallOK
    <3> HIDE DEF u, c
    <3>3. ContextRefs(ctx, u) # 0 /\ ContextRefs(ctx, u) \in Nat /\ OptionRefs(options, u) \in Nat
      <4>0. u \in Data
        BY <3>1
      <4>1. /\ OptionRefs(options, u) \in Nat /\ ContextRefs(ctx, u) \in Nat
            /\ ContextRefs(ctx, u) = 0 <=> \A d \in Ctx : u # ctx[d].n /\ u # ctx[d].v
        BY <4>0, RefsZero, SetFactsHold
      <4> QED BY <3>1, <3>2, <4>1
    <3>4. CountOK(u)
      BY <3>1 DEF IInv, InterfacesOK
    <3>5. destroyed[u] = 0
      BY <3>3, <3>4, SMTT(40) DEF CountOK
    <3> QED BY <3>5 DEF u
  <2> QED BY <2>1, <2>2
<1> QED BY <1>1, AlwaysIInv, SetFactsHold, PTL
=============================================================================
