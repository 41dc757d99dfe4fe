---------------------------- MODULE MCCheckQueue ----------------------------
(* CheckQueue with two workers and one controller, which is the master of   *)
(* one round after the other: m_control_mutex lets only one be active.      *)
EXTENDS CheckQueue
=============================================================================
