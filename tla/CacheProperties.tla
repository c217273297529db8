--------------------------- MODULE CacheProperties ---------------------------
(* What the compile cache promises to the threads that use it, and the     *)
(* statement of its documentation that the code does not keep.             *)
EXTENDS Cache

(* The table of neither kind ever holds more entries than cache_limits     *)
(* allows, pending reservations included: insert() makes room first        *)
(* (rtcx.hpp, lru_memory_cache::insert and purge).                         *)
CapacityRespected ==
  \A p \in Procs, k \in Kinds : Cardinality(Cached(lru[p][k])) <= Limit[k]

(* "Writing to disk is atomic to prevent corruption from concurrent writes *)
(* or process interruptions": every file under its final name, every       *)
(* ready future and every result is the whole binary of the object it was  *)
(* asked for, whatever writes were short, failed, raced or were cut off by *)
(* the death of a process (cache_blob_to_disk, get_or_add, preload).     *)
FutureIntact(f, o) == f.state = "ready" => f.value = Whole(o)

DiskIntact == \A o \in Objects : disk[o] \in {None, Whole(o)}

EntriesIntact ==
  \A p \in Procs, k \in Kinds, h \in Hashes :
    lru[p][k][h] # None =>
      FutureIntact(lru[p][k][h].value, [kind |-> k, hash |-> h])

HeldIntact == \A t \in Threads : held[t] # None => FutureIntact(held[t], req[t])

ContentIntact == DiskIntact /\ EntriesIntact /\ HeldIntact

(* A future that is still pending, in a table or with a waiting thread,    *)
(* has a thread of the same process that works on the very same object and *)
(* is about to set its promise; so nobody waits for a call that is over,   *)
(* failed or was for something else (get_or_add, from insert to          *)
(* set_value).                                                             *)
Produced(f, p, o) ==
  f.state = "pending" =>
    /\ f.by \in Threads
    /\ ProcOf[f.by] = p
    /\ req[f.by] = o
    /\ pc[f.by] \in {"compile", "publish"}

EntriesProduced ==
  \A p \in Procs, k \in Kinds, h \in Hashes :
    lru[p][k][h] # None =>
      Produced(lru[p][k][h].value, p, [kind |-> k, hash |-> h])

HeldProduced ==
  \A t \in Threads : held[t] # None => Produced(held[t], ProcOf[t], req[t])

FuturesHaveProducers == EntriesProduced /\ HeldProduced

(* Where the limit exceeds the number of hashes, so that nothing evicts a  *)
(* reservation, two threads of a process never compile the same object at  *)
(* the same time: the second one finds the pending future of the first     *)
(* (get_or_add).  Checked for enabled caches whose memory is not cleared.  *)
SingleFlight ==
  \A t, u \in Threads :
    /\ t # u
    /\ ProcOf[t] = ProcOf[u]
    /\ pc[t] = "compile"
    /\ pc[u] = "compile"
    /\ enabled[ProcOf[t]]
    /\ Limit[req[t].kind] > Cardinality(Hashes)
    => req[t] # req[u]

(* What a process has in memory is on disk, or is just being written: an   *)
(* eviction, a clear_memory_store or a crash after a call has returned     *)
(* never costs a second compile ("without losing the benefits of the       *)
(* on-disk cache").  Checked where system calls do not fail and the disk   *)
(* store is not cleared.                                                   *)
Storing(p, o) ==
  \E t \in Threads : ProcOf[t] = p /\ req[t] = o /\ pc[t] \in {"mkstemp", "write"}

EveryResultStored ==
  \A p \in Procs, k \in Kinds, h \in Hashes :
    LET o == [kind |-> k, hash |-> h] IN
    /\ lru[p][k][h] # None
    /\ lru[p][k][h].value.state = "ready"
    => disk[o] # None \/ Storing(p, o)

-----------------------------------------------------------------------------
(* The cache as its callers see it.  Of the futures of a process, those of *)
(* its tables are what it remembers, as far as they are settled, and so is *)
(* a library that has been loaded and is not published yet.  A caller is   *)
(* told when it has its future and that is settled.                        *)
Outcome(o, value) == [obj |-> o, value |-> value]

ASSUME OutcomeAssumption == None \notin [obj : Objects, value : Content \cup {None}]

Settled(p) ==
  {Outcome(o, lru[p][o.kind][o.hash].value.value) :
     o \in {x \in Objects : /\ lru[p][x.kind][x.hash] # None
                           /\ lru[p][x.kind][x.hash].value.state # "pending"}}

Publishing(p) == {t \in Threads : ProcOf[t] = p /\ pc[t] = "publish"}

Remembered ==
  [p \in Procs |-> Settled(p) \cup {Outcome(req[t], result[t]) : t \in Publishing(p)}]

Told ==
  [t \in Threads |->
     IF pc[t] = "wait" /\ held[t].state # "pending"
     THEN Outcome(req[t], held[t].value) ELSE None]

Saving == {t \in Threads : pc[t] \in {"mkstemp", "write"}}

Memo == INSTANCE SharedMemo WITH
  Clients <- Threads, Value <- [o \in Objects |-> Whole(o)],
  store <- disk, memory <- Remembered, want <- req, got <- Told,
  saving <- Saving

(* get_or_add is a memo: a caller is told what its own process remembers,  *)
(* what the directory has, or how a compile of that very object ended, and *)
(* never anything of another process or of one that is dead; the directory *)
(* gets what somebody has compiled, whole, before who compiled it goes on, *)
(* and loses it to clear_disk_store only (get_or_add_blob,                 *)
(* get_or_add_library, cache_blob_to_disk, preload_from_disk).             *)
IsSharedMemo == Memo!Spec

-----------------------------------------------------------------------------
(* Liveness.  A thread inside an operation is scheduled in the end, and a  *)
(* blocked mutex is handed on; a caller that is outside need not call, and *)
(* a compile may go on for ever.                                           *)

FairSpec == Spec /\ \A t \in Threads : WF_vars(Advance(t))

CompilesEnd == \A t \in Threads : WF_vars(EndCompile(t))

(* Every operation ends, provided that every compile does: in particular   *)
(* every thread that waits for the compile of another one is released,     *)
(* also when that compile throws (get_or_add).                             *)
CallsReturn == CompilesEnd => \A t \in Threads : pc[t] # "idle" ~> pc[t] = "idle"

(* A compile that goes on for ever keeps no thread away from the cache:    *)
(* every call still gets past the mutex ("we can release the lock while    *)
(* calling the maker function since it may be expensive").                 *)
SlowCompileBlocksNobody ==
  \A t \in Threads :
    pc[t] = "lock" ~> pc[t] \notin {"lock", "open", "exists", "load", "reserve"}

-----------------------------------------------------------------------------
(* A statement of the documentation.                                       *)

(* "@return A shared future that will hold the compiled blob once it's     *)
(* available" (rtcx.hpp, get_or_add_blob): no call returns a future that   *)
(* can never hold one.                                                     *)
ReturnedFuturesHold ==
  \A t \in Threads : pc[t] = "wait" => held[t].state # "broken"
=============================================================================
