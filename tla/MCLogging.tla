----------------------------- MODULE MCLogging -----------------------------
(* An instance of Logging.                                                  *)
EXTENDS Logging
=============================================================================
