------------------------------- MODULE OnceMap -------------------------------
(* What a cache of things that are expensive to build promises to its      *)
(* clients: of one key they all get one value, for as long as the cache    *)
(* lives, and a client is sent away empty-handed only where there is none. *)
(* How clients exclude one another, look twice and build is not seen here. *)
CONSTANTS Clients, Keys, Values, None

VARIABLES
  store,  \* store[k]: the value of key k, or None
  want,   \* want[c]: the key client c waits for, or None
  got     \* got[c]: the value client c holds, or None

vars == <<store, want, got>>

Init ==
  /\ store = [k \in Keys |-> None]
  /\ want = [c \in Clients |-> None]
  /\ got = [c \in Clients |-> None]

Ask(c, k) ==
  /\ want[c] = None
  /\ got[c] = None
  /\ want' = [want EXCEPT ![c] = k]
  /\ UNCHANGED <<store, got>>

Find(c) ==
  /\ want[c] # None
  /\ store[want[c]] # None
  /\ got' = [got EXCEPT ![c] = store[want[c]]]
  /\ want' = [want EXCEPT ![c] = None]
  /\ UNCHANGED store

(* A value is built for one key, and never given out again. *)
Create(c, v) ==
  /\ want[c] # None
  /\ store[want[c]] = None
  /\ \A k \in Keys : store[k] # v
  /\ \A d \in Clients : got[d] # v
  /\ store' = [store EXCEPT ![want[c]] = v]
  /\ got' = [got EXCEPT ![c] = v]
  /\ want' = [want EXCEPT ![c] = None]

Fail(c) ==
  /\ want[c] # None
  /\ store[want[c]] = None
  /\ want' = [want EXCEPT ![c] = None]
  /\ UNCHANGED <<store, got>>

Drop(c) ==
  /\ got[c] # None
  /\ got' = [got EXCEPT ![c] = None]
  /\ UNCHANGED <<store, want>>

(* The cache is destroyed, and another one takes its place. *)
Forget ==
  /\ \A c \in Clients : want[c] = None
  /\ store' = [k \in Keys |-> None]
  /\ UNCHANGED <<want, got>>

Next ==
  \/ \E c \in Clients :
       \/ \E k \in Keys : Ask(c, k)
       \/ Find(c) \/ Fail(c) \/ Drop(c)
       \/ \E v \in Values : Create(c, v)
  \/ Forget

Spec == Init /\ [][Next]_vars
=============================================================================
