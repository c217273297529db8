----------------------------- MODULE MCCacheStats -----------------------------
(* Small instances of the cache with its statistics for TLC. *)
EXTENDS CacheStats, TLC

CONSTANTS p1, t1, t2, h1, h2

Blob(h) == [kind |-> "blob", hash |-> h]
Library(h) == [kind |-> "library", hash |-> h]

BlobAndLibrary == {Blob(h1), Library(h1)}

OneProcess == [t \in {t1, t2} |-> p1]

LibraryCounters == {"library"} \X Events

LimitOne == [k \in Kinds |-> 1]

ThreadSymmetry == Permutations({t1, t2})
=============================================================================
