------------------------- MODULE MCFragmentCompiler -------------------------
(* Small instances of the fragment compiler for TLC. *)
EXTENDS FragmentCompiler

CONSTANTS t1, t2, t3, k1, k2, c1, c2

TwoSources == {[key |-> k1, code |-> c1], [key |-> k2, code |-> c2]}
=============================================================================
