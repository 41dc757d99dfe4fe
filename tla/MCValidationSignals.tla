------------------------ MODULE MCValidationSignals ------------------------
(* ValidationSignals for TLC: one thread in validation, one for the queue. *)
EXTENDS ValidationSignals

CONSTANTS v, b

MCThread == {v, b}

MCRunner == {"serial", "immediate"}
=============================================================================
