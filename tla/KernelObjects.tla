--------------------------- MODULE KernelObjects ---------------------------
(***************************************************************************)
(* The objects of the C API (kernel/bitcoinkernel.cpp) and who keeps whom  *)
(* alive.  Context options hold the interfaces with the user's callbacks,  *)
(* a context shares them, and handles, the options of a chainstate manager *)
(* and the manager share the context.  A manager has plain pointers into   *)
(* its context.                                                            *)
(*                                                                         *)
(* shared_ptr is modelled by its count: what it points to is destroyed     *)
(* when the count becomes zero, and destroying an interface calls          *)
(* user_data_destroy.  Calls of a manager take many steps, in which other  *)
(* threads make and destroy objects; all other functions are one step.     *)
(*                                                                         *)
(* btck_context_interrupt is left out: a call may end after any turn of    *)
(* its loops, interrupted or not.                                          *)
(*                                                                         *)
(* The caller keeps to the conventions of the header: it destroys an object*)
(* once, does not use it afterwards, and does not destroy it while another *)
(* of its calls uses it.  Its callbacks return.                            *)
(***************************************************************************)
EXTENDS Naturals, FiniteSets

CONSTANTS
    MaxData,        \* bound on the interfaces the caller makes
    Option,         \* addresses for ContextOptions
    Ctx,            \* addresses for Context
    ManagerOption,  \* addresses for ChainstateManagerOptions
    Manager,        \* addresses for ChainMan and its ChainstateManager
    Thread,         \* threads that call a manager
    None,
    MaxHandle       \* bound on the handles of a context

ASSUME KernelObjectsAssumption ==
    /\ MaxHandle \in Nat \ {0} /\ MaxData \in Nat
    /\ IsFiniteSet(Option) /\ IsFiniteSet(Ctx)
    /\ IsFiniteSet(ManagerOption) /\ IsFiniteSet(Manager)
    /\ None \notin Nat \cup Option \cup Ctx \cup ManagerOption \cup Manager

\* The user data passed with the callbacks of one interface, in this order
Data == 1 .. MaxData

VARIABLES
    given,          \* the last user data passed to an interface
    refs,           \* use_count() of each interface
    destroyed,      \* calls of user_data_destroy
    options,        \* the two interfaces of each ContextOptions, or NoOptions
    ctx,            \* use_count() and interfaces of each Context
    handles,        \* how many btck_Context of each Context the caller has
    managerOptions, \* m_context of each ChainstateManagerOptions, or None
    managers,       \* the context of each ChainMan, and who holds it: see Stage
    thread          \* the call each thread is in, and its callback

interfaces == <<given, refs, destroyed>>
vars == <<interfaces, options, ctx, handles, managerOptions, managers, thread>>

MaybeData == Data \cup {None}

NoOptions == [n |-> None, v |-> None, live |-> FALSE]

NoContext == [n |-> None, v |-> None, use |-> 0]

\* "loading": the manager has pointers into the context, and the options hold it.
\* "ready": ChainMan shares it.  "closing": ~ChainMan has let go of it.
Stage == {"none", "loading", "ready", "closing"}

NoManager == [stage |-> "none", ctx |-> None]

\* Where a call is: "signal", "notify" and "flush" may call back, "turn" is the end
\* of a turn of one of its loops; "release" and "delete" are steps of ~ChainMan.
At == {"idle", "signal", "notify", "turn", "flush", "release", "delete"}

Kind == {"create", "process", "import", "destroy"}

NoCall == [at |-> "idle", kind |-> "process", manager |-> None, option |-> None,
           callback |-> None]

Init ==
    /\ given = 0
    /\ refs = [u \in Data |-> 0] /\ destroyed = [u \in Data |-> 0]
    /\ options = [o \in Option |-> NoOptions]
    /\ ctx = [c \in Ctx |-> NoContext] /\ handles = [c \in Ctx |-> 0]
    /\ managerOptions = [k \in ManagerOption |-> None]
    /\ managers = [m \in Manager |-> NoManager]
    /\ thread = [t \in Thread |-> NoCall]

-----------------------------------------------------------------------------
(* Shared interfaces *)

One(u, x) == IF u = x THEN 1 ELSE 0

\* More and fewer shared_ptr to the interfaces, by fresh[u] and lost[u]
Shared(fresh, lost) ==
    /\ refs' = [u \in Data |-> refs[u] + fresh[u] - lost[u]]
    /\ destroyed' = [u \in Data |-> destroyed[u] +
                        (IF lost[u] > 0 /\ refs[u] = lost[u] THEN 1 ELSE 0)]

Nothing == [u \in Data |-> 0]

HeldByOptions(o) == [u \in Data |-> One(u, options[o].n) + One(u, options[o].v)]

\* A context has the validation interface twice, as its member and in the list of
\* its ValidationSignals; ~Context unregisters it.
HeldByContext(n, v) == [u \in Data |-> One(u, n) + 2 * One(u, v)]

ReleasedByContext_Member(n, v) == [u \in Data |-> One(u, n) + One(u, v)]
ReleasedByContext(n, v) == HeldByContext(n, v)

\* A shared_ptr to the context goes.
ReleaseContext(c) ==
    IF ctx[c].use = 1
    THEN /\ ctx' = [ctx EXCEPT ![c] = NoContext]
         /\ Shared(Nothing, ReleasedByContext(ctx[c].n, ctx[c].v))
    ELSE /\ ctx' = [ctx EXCEPT ![c].use = @ - 1]
         /\ UNCHANGED <<refs, destroyed>>

-----------------------------------------------------------------------------
(* Context options and contexts *)

ContextOptionsCreate(o) ==
    /\ ~ options[o].live
    /\ options' = [options EXCEPT ![o] = [NoOptions EXCEPT !.live = TRUE]]
    /\ UNCHANGED <<interfaces, ctx, handles, managerOptions, managers, thread>>

SetNotifications(o, u) ==
    /\ options[o].live /\ u = given + 1
    /\ given' = u
    /\ options' = [options EXCEPT ![o].n = u]
    /\ Shared([x \in Data |-> One(x, u)], [x \in Data |-> One(x, options[o].n)])
    /\ UNCHANGED <<ctx, handles, managerOptions, managers, thread>>

SetValidationInterface(o, u) ==
    /\ options[o].live /\ u = given + 1
    /\ given' = u
    /\ options' = [options EXCEPT ![o].v = u]
    /\ Shared([x \in Data |-> One(x, u)], [x \in Data |-> One(x, options[o].v)])
    /\ UNCHANGED <<ctx, handles, managerOptions, managers, thread>>

ContextOptionsDestroy(o) ==
    /\ options[o].live
    /\ options' = [options EXCEPT ![o] = NoOptions]
    /\ Shared(Nothing, HeldByOptions(o))
    /\ UNCHANGED <<given, ctx, handles, managerOptions, managers, thread>>

\* With options or, as NoOptions says, without.  If the sanity checks fail, the
\* context is destroyed again and nothing has changed.
ContextCreate(c, opts) ==
    /\ ctx[c].use = 0
    /\ ctx' = [ctx EXCEPT ![c] = [n |-> opts.n, v |-> opts.v, use |-> 1]]
    /\ handles' = [handles EXCEPT ![c] = 1]
    /\ Shared(HeldByContext(opts.n, opts.v), Nothing)
    /\ UNCHANGED <<given, options, managerOptions, managers, thread>>

ContextCopy(c) ==
    /\ handles[c] \in 1 .. MaxHandle - 1
    /\ handles' = [handles EXCEPT ![c] = @ + 1]
    /\ ctx' = [ctx EXCEPT ![c].use = @ + 1]
    /\ UNCHANGED <<interfaces, options, managerOptions, managers, thread>>

ContextDestroy(c) ==
    /\ handles[c] > 0
    /\ handles' = [handles EXCEPT ![c] = @ - 1]
    /\ ReleaseContext(c)
    /\ UNCHANGED <<given, options, managerOptions, managers, thread>>

-----------------------------------------------------------------------------
(* Chainstate managers and their options *)

\* (If the directories cannot be made, nothing has changed.)
ManagerOptionsCreate(k, c) ==
    /\ managerOptions[k] = None /\ handles[c] > 0
    /\ managerOptions' = [managerOptions EXCEPT ![k] = c]
    /\ ctx' = [ctx EXCEPT ![c].use = @ + 1]
    /\ UNCHANGED <<interfaces, options, handles, managers, thread>>

ManagerOptionsDestroy(k) ==
    /\ managerOptions[k] # None
    /\ \A t \in Thread : thread[t].option # k
    /\ managerOptions' = [managerOptions EXCEPT ![k] = None]
    /\ ReleaseContext(managerOptions[k])
    /\ UNCHANGED <<given, options, handles, managers, thread>>

\* The ChainstateManager is made; loading it ends in ActivateBestChain.
ManagerCreate(t, k, m) ==
    /\ thread[t].at = "idle"
    /\ managerOptions[k] # None /\ managers[m].stage = "none"
    /\ managers' = [managers EXCEPT ![m] = [stage |-> "loading",
                                            ctx |-> managerOptions[k]]]
    /\ thread' = [thread EXCEPT ![t] = [NoCall EXCEPT
                    !.at = "signal", !.kind = "create", !.manager = m, !.option = k]]
    /\ UNCHANGED <<interfaces, options, ctx, handles, managerOptions>>

\* process_block or import_blocks
ManagerCall(t, m, kind) ==
    /\ thread[t].at = "idle"
    /\ managers[m].stage = "ready"
    /\ \A s \in Thread : thread[s].manager = m => thread[s].kind # "destroy"
    /\ thread' = [thread EXCEPT ![t] = [NoCall EXCEPT
                    !.at = "signal", !.kind = kind, !.manager = m]]
    /\ UNCHANGED <<interfaces, options, ctx, handles, managerOptions, managers>>

\* It flushes, which may end in flushError or fatalError.
ManagerDestroy(t, m) ==
    /\ thread[t].at = "idle"
    /\ managers[m].stage = "ready"
    /\ \A s \in Thread : thread[s].manager # m
    /\ thread' = [thread EXCEPT ![t] = [NoCall EXCEPT
                    !.at = "flush", !.kind = "destroy", !.manager = m]]
    /\ UNCHANGED <<interfaces, options, ctx, handles, managerOptions, managers>>

ContextOf(t) == managers[thread[t].manager].ctx

-----------------------------------------------------------------------------
(* Calls of a manager, step by step *)

\* Where the call goes on after a place that may call back
After(t) == CASE thread[t].at = "signal" -> "notify"
              [] thread[t].at = "notify" -> "turn"
              [] thread[t].at = "flush" /\ thread[t].kind = "import" -> "idle"
              [] thread[t].at = "flush" /\ thread[t].kind = "destroy" -> "release"

GoOn(t, at) == thread' = [thread EXCEPT ![t] =
    IF at = "idle" THEN NoCall ELSE [@ EXCEPT !.at = at, !.callback = None]]

\* An event of the validation interface, a notification, or an error of a flush:
\* the manager finds the interface through its pointers, alive or not.
CallBack(t) ==
    LET c == ctx[ContextOf(t)]
        u == IF thread[t].at = "signal" THEN c.v ELSE c.n
    IN  /\ thread[t].at \in {"signal", "notify", "flush"}
        /\ thread[t].callback = None /\ u # None
        /\ thread' = [thread EXCEPT ![t].callback = u]
        /\ UNCHANGED <<interfaces, options, ctx, handles, managerOptions, managers>>

\* The callback returns, or there was nothing to call back for.
Proceed(t) ==
    /\ thread[t].at \in {"signal", "notify", "flush"}
    /\ GoOn(t, After(t))
    /\ UNCHANGED <<interfaces, options, ctx, handles, managerOptions, managers>>

\* One more turn of a loop of ActivateBestChain, LoadExternalBlockFile, ImportBlocks
\* or ReplayBlocks.  How many there are depends on the blocks, and on m_interrupt,
\* which some of the loops look at and some do not: any number is possible here.
Again(t) ==
    /\ thread[t].at = "turn"
    /\ GoOn(t, "signal")
    /\ UNCHANGED <<interfaces, options, ctx, handles, managerOptions, managers>>

\* process_block returns, import_blocks flushes first.
Leave(t) ==
    /\ thread[t].at = "turn" /\ thread[t].kind \in {"process", "import"}
    /\ GoOn(t, IF thread[t].kind = "import" THEN "flush" ELSE "idle")
    /\ UNCHANGED <<interfaces, options, ctx, handles, managerOptions, managers>>

\* What the new ChainMan adds to the count of the context
ManagerShares_Pointer == 0
ManagerShares == 1

CreateSucceeds(t) ==
    /\ thread[t].at = "turn" /\ thread[t].kind = "create"
    /\ managers' = [managers EXCEPT ![thread[t].manager].stage = "ready"]
    /\ ctx' = [ctx EXCEPT ![ContextOf(t)].use = @ + ManagerShares]
    /\ GoOn(t, "idle")
    /\ UNCHANGED <<interfaces, options, handles, managerOptions>>

\* The constructor throws, or loading, verifying or activating fails: the
\* ChainstateManager is destroyed, and null is returned.
CreateFails(t) ==
    /\ thread[t].at \in {"signal", "turn"} /\ thread[t].kind = "create"
    /\ thread[t].callback = None
    /\ managers' = [managers EXCEPT ![thread[t].manager] = NoManager]
    /\ GoOn(t, "idle")
    /\ UNCHANGED <<interfaces, options, ctx, handles, managerOptions>>

\* ~ChainMan destroys its members from the last to the first: m_context, ...
ReleaseManagersContext(t) ==
    /\ thread[t].at = "release"
    /\ managers' = [managers EXCEPT ![thread[t].manager].stage = "closing"]
    /\ ReleaseContext(ContextOf(t))
    /\ GoOn(t, "delete")
    /\ UNCHANGED <<given, options, handles, managerOptions>>

\* ... then m_chainman
DeleteManager(t) ==
    /\ thread[t].at = "delete"
    /\ managers' = [managers EXCEPT ![thread[t].manager] = NoManager]
    /\ GoOn(t, "idle")
    /\ UNCHANGED <<interfaces, options, ctx, handles, managerOptions>>

-----------------------------------------------------------------------------
CallStep(t) ==
    \/ CallBack(t) \/ Proceed(t) \/ Again(t) \/ Leave(t)
    \/ CreateSucceeds(t) \/ CreateFails(t)
    \/ ReleaseManagersContext(t) \/ DeleteManager(t)

Next ==
    \/ \E o \in Option : ContextOptionsCreate(o) \/ ContextOptionsDestroy(o)
    \/ \E o \in Option, u \in Data : SetNotifications(o, u) \/ SetValidationInterface(o, u)
    \/ \E c \in Ctx : \/ ContextCreate(c, NoOptions)
                      \/ \E o \in Option : options[o].live /\ ContextCreate(c, options[o])
                      \/ ContextCopy(c) \/ ContextDestroy(c)
    \/ \E k \in ManagerOption : \/ \E c \in Ctx : ManagerOptionsCreate(k, c)
                                \/ ManagerOptionsDestroy(k)
    \/ \E t \in Thread, m \in Manager :
          \/ \E k \in ManagerOption : ManagerCreate(t, k, m)
          \/ \E kind \in {"process", "import"} : ManagerCall(t, m, kind)
          \/ ManagerDestroy(t, m)
    \/ \E t \in Thread : CallStep(t)

Spec == Init /\ [][Next]_vars

-----------------------------------------------------------------------------
(* Properties *)

\* The members have their types, and no count is less than zero.
TypeOK ==
    /\ given \in 0 .. MaxData
    /\ refs \in [Data -> Nat] /\ destroyed \in [Data -> Nat]
    /\ options \in [Option -> [n : MaybeData, v : MaybeData, live : BOOLEAN]]
    /\ ctx \in [Ctx -> [n : MaybeData, v : MaybeData, use : Nat]]
    /\ handles \in [Ctx -> 0 .. MaxHandle]
    /\ managerOptions \in [ManagerOption -> Ctx \cup {None}]
    /\ managers \in [Manager -> [stage : Stage, ctx : Ctx \cup {None}]]
    /\ thread \in [Thread -> [at : At, kind : Kind, manager : Manager \cup {None},
                              option : ManagerOption \cup {None},
                              callback : MaybeData]]

\* The objects that share context c: handles, options of managers, managers
SharersOf(c) ==
    handles[c] + Cardinality({k \in ManagerOption : managerOptions[k] = c})
               + Cardinality({m \in Manager : managers[m].stage = "ready"
                                              /\ managers[m].ctx = c})

\* However handles are copied and destroyed between the steps of calls, the count
\* of a context is the number of handles, options and managers that share it, and
\* user_data_destroy has been called, once, exactly for the user data that no
\* options and no context in use hold: not while a manager can still pass it to a
\* callback, not twice because options and contexts share it, and not never.
DestroyedWhenUnused ==
    LET Used(u) == \/ \E o \in Option : options[o].live /\ u \in {options[o].n, options[o].v}
                   \/ \E c \in Ctx : SharersOf(c) > 0 /\ u \in {ctx[c].n, ctx[c].v}
    IN  /\ TypeOK
        /\ \A c \in Ctx : ctx[c].use = SharersOf(c)
        /\ \A u \in Data : destroyed[u] = IF u <= given /\ ~ Used(u) THEN 1 ELSE 0

\* A callback gets user data that has not been destroyed, and a call of a manager
\* that has not let go of its context finds it in use.
UserDataAlive == \A t \in Thread :
    /\ thread[t].callback # None => destroyed[thread[t].callback] = 0
    /\ thread[t].at \in At \ {"idle", "delete"} => ctx[ContextOf(t)].use > 0
=============================================================================
