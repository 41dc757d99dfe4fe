----------------------------- MODULE TaskQueue -----------------------------
(***************************************************************************)
(* What a serial task runner promises to the code that inserts callbacks   *)
(* (util/task_runner.h, and the comment of SerialTaskRunner::insert):      *)
(* "callbacks can behave as if they are executed in order by a single      *)
(* thread".  There are no threads, no scheduler and no locks here:         *)
(* TaskRunner implements this specification.                               *)
(***************************************************************************)
EXTENDS Sequences

CONSTANTS
    Task,       \* callbacks
    NoTask      \* no callback is running

VARIABLES
    pending,    \* callbacks that were inserted and not started, oldest first
    current     \* the callback that is running

queueVars == <<pending, current>>

Init ==
    /\ pending = <<>>
    /\ current = NoTask

Insert(task) ==
    /\ pending' = Append(pending, task)
    /\ UNCHANGED current

\* The oldest callback starts, and only when no other one runs.
Start ==
    /\ current = NoTask
    /\ pending # <<>>
    /\ current' = Head(pending)
    /\ pending' = Tail(pending)

Finish ==
    /\ current # NoTask
    /\ current' = NoTask
    /\ UNCHANGED pending

Next == Start \/ Finish \/ \E task \in Task : Insert(task)

Spec == Init /\ [][Next]_queueVars
=============================================================================
