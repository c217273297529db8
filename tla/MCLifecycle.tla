----------------------------- MODULE MCLifecycle -----------------------------
(* Small instances of the life cycle for TLC. *)
EXTENDS Lifecycle

CONSTANTS t1, t2, t3
=============================================================================
