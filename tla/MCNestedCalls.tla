---------------------------- MODULE MCNestedCalls ----------------------------
(* Small instances of nested calls for TLC. *)
EXTENDS NestedCalls

CONSTANTS t1, t2, h1, h2

(* The library of each hash is made of both blobs. *)
LibrariesOfBlobs ==
  [o \in Objects |-> IF o.kind = "library" THEN [kind : {"blob"}, hash : Hashes] ELSE {}]

RankOfKind == [o \in Objects |-> IF o.kind = "library" THEN 1 ELSE 0]
=============================================================================
