------------------------------- MODULE MCCache -------------------------------
(* Small instances of the compile cache for TLC. *)
EXTENDS CacheProperties, TLC

CONSTANTS p1, p2, t1, t2, h1, h2

BlobA == [kind |-> "blob", hash |-> h1]
BlobB == [kind |-> "blob", hash |-> h2]
LibA == [kind |-> "library", hash |-> h1]
LibB == [kind |-> "library", hash |-> h2]

OneBlob == {BlobA}
BlobAndLibrary == {BlobA, LibA}
TwoBlobsAndLibrary == {BlobA, BlobB, LibA}
TwoLibrariesAndBlob == {BlobA, LibA, LibB}

OneProcess == [t \in {t1, t2} |-> p1]
TwoProcesses == t1 :> p1 @@ t2 :> p2

LimitOne == [k \in Kinds |-> 1]

(* Room for every blob and one more, and for one library. *)
LimitMixed == [k \in Kinds |-> IF k = "blob" THEN 3 ELSE 1]

ThreadSymmetry == Permutations({t1, t2})
=============================================================================
