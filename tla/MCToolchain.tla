----------------------------- MODULE MCToolchain -----------------------------
(* Small instances of the toolchain and its life cycle for TLC. *)
EXTENDS Toolchain

CONSTANTS t1, t2, t3, m1, m2

CompileOf(target, names) ==
  [op |-> "compile", named |-> TRUE, source |-> TRUE, names |-> names,
   target |-> target]
LinkOf(output, files, data) ==
  [op |-> "link", named |-> TRUE, output |-> output, files |-> files,
   data |-> data]
LaunchOf(op, grid, block) ==
  [op |-> op, grid |-> grid, block |-> block, params |-> TRUE]
File == [path |-> TRUE]
Bytes(n) == [size |-> n]
One == <<1, 1, 1>>

(* Every function, with arguments that take every branch. *)
EveryFunction ==
  {CompileOf("LTO_IR", 1), CompileOf("FATBIN", 0),
   [CompileOf("PTX", 0) EXCEPT !.source = FALSE],
   LinkOf("CUBIN", <<File>>, <<Bytes(1)>>), LinkOf("LTO_IR", <<>>, <<Bytes(1)>>),
   [op |-> "load"], [op |-> "load_file", path |-> FALSE],
   [op |-> "load_file", path |-> TRUE], [op |-> "kernel"],
   [op |-> "occupancy"], [op |-> "nvrtc_version"], [op |-> "nvjitlink_version"],
   LaunchOf("launch", One, One),
   LaunchOf("launch_cooperative", One, <<1, 0, 1>>)}
=============================================================================
