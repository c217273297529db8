------------------------------ MODULE MCCacheLru ------------------------------
(* Small instances of the compile cache with its history of uses. *)
EXTENDS CacheLru, TLC

CONSTANTS p1, t1, h1, h2, h3

Blobs(H) == {[kind |-> "blob", hash |-> h] : h \in H}
ThreeBlobs == Blobs({h1, h2, h3})

OneThread == t1 :> p1

LimitThree == [k \in Kinds |-> 3]
=============================================================================
