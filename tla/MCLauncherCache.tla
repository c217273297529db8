--------------------------- MODULE MCLauncherCache ---------------------------
(* Small instances of the launcher cache for TLC. *)
EXTENDS LauncherCache

CONSTANTS t1, t2, t3, l1, l2, l3

Plan(entrypoint, fragments) ==
  [entrypoint |-> entrypoint, fragments |-> fragments]

(* Two plans that share their first fragment; a key is a sequence of marks. *)
TwoPlans ==
  {Plan("filter", << <<"a">> >>), Plan("filter", << <<"a">>, <<"b">> >>)}
=============================================================================
