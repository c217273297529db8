-------------------------------- MODULE Cache --------------------------------
(* The compile cache of rtcx: cache_t of rtcx.hpp and rtcx.cpp.            *)
(*                                                                         *)
(* Several processes share one cache directory.  Each has a cache_t of its *)
(* own: two LRU tables of shared futures, one for blobs and one for        *)
(* libraries, behind one mutex, with an atomic tick that ranks the uses.   *)
(* The threads of a process call get_or_add_blob and get_or_add_library,   *)
(* and, where Admin allows it, the maintenance operations.                 *)
(*                                                                         *)
(* A step is what the code does between two points where another thread    *)
(* can see the difference: the atomic fetch_add, a section under the       *)
(* mutex, one system call on the shared directory, the end of a compile.   *)
(*                                                                         *)
(* A compiled object is determined by its hash, so its content is the      *)
(* object itself; a file also has a length, for writes may be short.       *)
EXTENDS LruMemoryCache

CONSTANTS
  Procs,     \* processes that share the cache directory
  Threads,   \* all their threads
  ProcOf,    \* the process of each thread
  Requests,  \* the objects the threads ask for
  Limit,     \* cache_limits, by kind
  Chunks,    \* length of a whole file, in units of write()
  MaxTick,   \* bound on the tick, and so on the calls of a process
  Admin,     \* the maintenance operations the threads may call
  Faults     \* what may go wrong

Kinds == {"blob", "library"}

Objects == [kind : Kinds, hash : Hashes]

(* What a file holds: a prefix of the object's binary. *)
Content == [obj : Objects, len : 0..Chunks]

Whole(o) == [obj |-> o, len |-> Chunks]

(* A shared future is pending until the thread that owns the promise has   *)
(* set its value; a promise destroyed without one leaves it broken.        *)
Pending(t) == [state |-> "pending", by |-> t, value |-> None]
Ready(c) == [state |-> "ready", by |-> None, value |-> c]
Broken == [state |-> "broken", by |-> None, value |-> None]

Future ==
  {Pending(t) : t \in Threads} \cup {Ready(c) : c \in Content} \cup {Broken}

Entry == [last_touched_tick : Nat, value : Future]

ASSUME CacheAssumption ==
  /\ ProcOf \in [Threads -> Procs]
  /\ Requests \subseteq Objects
  /\ Limit \in [Kinds -> Nat]
  /\ Chunks \in Nat
  /\ MaxTick \in Nat
  /\ Admin \subseteq {"clear_memory", "clear_disk", "preload", "enable"}
  /\ Faults \subseteq {"compile", "io", "crash"}

ASSUME NoneAssumption ==
  /\ None \notin Threads
  /\ None \notin Objects
  /\ None \notin Content
  /\ None \notin Future
  /\ None \notin Entry

VARIABLES
  enabled,  \* enabled[p]: enabled_
  lru,      \* lru[p][k]: blobs_cache_ and libraries_cache_
  tick,     \* tick[p]: tick_
  lock,     \* lock[p]: the thread that holds lock_, or None
  disk,     \* disk[o]: the file of object o in the cache directory, or None
  tmp,      \* tmp[t]: the temporary file of thread t, or None
  pc,       \* pc[t]: where thread t is
  req,      \* req[t]: the object it was called for
  mytick,   \* mytick[t]: its current_tick
  held,     \* held[t]: its copy of the shared future, or None
  result,   \* result[t]: what it has loaded or compiled itself, or None
  todo      \* todo[t]: the directory entries it still has to visit

procVars == <<enabled, lru, tick, lock>>
diskVars == <<disk, tmp>>
threadVars == <<pc, req, mytick, held, result, todo>>
vars == <<procVars, diskVars, threadVars>>

(* The steps a thread can be at.  idle: outside the cache; lock .. publish *)
(* and mkstemp, write: in get_or_add; wait: with the future it was given;  *)
(* unlink: in clear_disk_store; plock, ptick, pload: in preload_from_disk. *)
Steps == {"idle", "lock", "open", "exists", "load", "reserve", "compile",
          "publish", "mkstemp", "write", "wait",
          "unlink", "plock", "ptick", "pload"}

TypeOK ==
  /\ enabled \in [Procs -> BOOLEAN]
  /\ lru \in [Procs -> [Kinds -> [Hashes -> Entry \cup {None}]]]
  /\ tick \in [Procs -> Nat]
  /\ lock \in [Procs -> Threads \cup {None}]
  /\ disk \in [Objects -> Content \cup {None}]
  /\ tmp \in [Threads -> Content \cup {None}]
  /\ pc \in [Threads -> Steps]
  /\ req \in [Threads -> Objects \cup {None}]
  /\ mytick \in [Threads -> Nat]
  /\ held \in [Threads -> Future \cup {None}]
  /\ result \in [Threads -> Content \cup {None}]
  /\ todo \in [Threads -> SUBSET Objects]

(* A process may start with the cache disabled, on a directory that holds  *)
(* files of processes that ran before.                                     *)
Init ==
  /\ enabled \in [Procs -> BOOLEAN]
  /\ lru = [p \in Procs |-> [k \in Kinds |-> EmptyTable]]
  /\ tick = [p \in Procs |-> 0]
  /\ lock = [p \in Procs |-> None]
  /\ \E S \in SUBSET Requests :
       disk = [o \in Objects |-> IF o \in S THEN Whole(o) ELSE None]
  /\ tmp = [t \in Threads |-> None]
  /\ pc = [t \in Threads |-> "idle"]
  /\ req = [t \in Threads |-> None]
  /\ mytick = [t \in Threads |-> 0]
  /\ held = [t \in Threads |-> None]
  /\ result = [t \in Threads |-> None]
  /\ todo = [t \in Threads |-> {}]

-----------------------------------------------------------------------------
(* Steps of every operation.                                               *)

Goto(t, step) == pc' = [pc EXCEPT ![t] = step]

\* A mutex that is also held while a thread of the process compiles.
FreeOfCompiles(p) ==
  lock[p] = None /\ \A t \in Threads : ProcOf[t] = p => pc[t] # "compile"

LockFree(p) == lock[p] = None

Unlock(t) == lock' = [lock EXCEPT ![ProcOf[t]] = None]

(* The call is over, by a return or an exception; futures is the heap of   *)
(* futures the other threads go on with.                                   *)
Return(t, futures) ==
  /\ Goto(t, "idle")
  /\ req' = [req EXCEPT ![t] = None]
  /\ mytick' = [mytick EXCEPT ![t] = 0]
  /\ held' = [futures EXCEPT ![t] = None]
  /\ result' = [result EXCEPT ![t] = None]
  /\ todo' = [todo EXCEPT ![t] = {}]

(* The entry req[t] asks for, in the table of its kind. *)
Table(t) == lru[ProcOf[t]][req[t].kind]
MyEntry(t) == Table(t)[req[t].hash]

\* File names that do not tell the kinds apart.
FileOfHash(t) == [kind |-> "blob", hash |-> req[t].hash]

(* The file name is made of the hash and the tag of the kind.              *)
FileOf(t) == req[t]

\* An insert that is left out.
InsertNothing(t, f) == UNCHANGED lru

(* insert() of future f under the request of t, stamped with its tick. *)
InsertFuture(t, f) ==
  \E E \in Insert(Table(t), req[t].hash,
                  [last_touched_tick |-> mytick[t], value |-> f],
                  Limit[req[t].kind]) :
    lru' = [lru EXCEPT ![ProcOf[t]][req[t].kind] = E]

(* The promise of thread t gets its outcome: every copy of its future,     *)
(* in a table or held by a thread, changes with it.                        *)
Settle(f, t, outcome) == IF f = Pending(t) THEN outcome ELSE f

SettleHeld(t, outcome) ==
  [u \in Threads |-> Settle(held[u], t, outcome)]

SettleEntry(e, t, outcome) ==
  IF e = None THEN None
  ELSE [e EXCEPT !.value = Settle(e.value, t, outcome)]

SettleTables(t, outcome) ==
  lru' = [p \in Procs |-> [k \in Kinds |-> [h \in Hashes |->
            SettleEntry(lru[p][k][h], t, outcome)]]]

-----------------------------------------------------------------------------
(* get_or_add_blob and get_or_add_library.                                 *)

(* The tick is fetched before the mutex is taken. *)
Call(t) ==
  LET p == ProcOf[t] IN
  /\ pc[t] = "idle"
  /\ tick[p] < MaxTick
  /\ \E o \in Requests : req' = [req EXCEPT ![t] = o]
  /\ mytick' = [mytick EXCEPT ![t] = tick[p]]
  /\ tick' = [tick EXCEPT ![p] = @ + 1]
  /\ Goto(t, "lock")
  /\ UNCHANGED <<enabled, lru, lock, diskVars, held, result, todo>>

MemHit(t) ==
  LET p == ProcOf[t] IN
  /\ pc[t] = "lock"
  /\ LockFree(p)
  /\ enabled[p]
  /\ MyEntry(t) # None
  /\ lru' = [lru EXCEPT ![p][req[t].kind] = Hit(@, req[t].hash, mytick[t])]
  /\ held' = [held EXCEPT ![t] = MyEntry(t).value]
  /\ Goto(t, "wait")
  /\ UNCHANGED <<enabled, tick, lock, diskVars, req, mytick, result, todo>>

(* A disabled cache is not looked up, neither in memory nor on disk. *)
MemMiss(t) ==
  LET p == ProcOf[t] IN
  /\ pc[t] = "lock"
  /\ LockFree(p)
  /\ enabled[p] => MyEntry(t) = None
  /\ lock' = [lock EXCEPT ![p] = t]
  /\ Goto(t, IF ~enabled[p] THEN "reserve"
             ELSE IF req[t].kind = "blob" THEN "open" ELSE "exists")
  /\ UNCHANGED <<enabled, lru, tick, diskVars,
                 req, mytick, held, result, todo>>

(* blob_t::from_file: the mapping keeps the file, whatever becomes of its  *)
(* name afterwards.  The promise is set before the mutex is released.      *)
OpenBlob(t) ==
  /\ pc[t] = "open"
  /\ disk[FileOf(t)] # None
  /\ InsertFuture(t, Ready(disk[FileOf(t)]))
  /\ held' = [held EXCEPT ![t] = Ready(disk[FileOf(t)])]
  /\ Unlock(t)
  /\ Goto(t, "wait")
  /\ UNCHANGED <<enabled, tick, diskVars, req, mytick, result, todo>>

(* get_disk_library asks for the file's existence before the driver opens  *)
(* it; it can go in between.                                               *)
LibraryExists(t) ==
  /\ pc[t] = "exists"
  /\ disk[FileOf(t)] # None
  /\ Goto(t, "load")
  /\ UNCHANGED <<procVars, diskVars, req, mytick, held, result, todo>>

(* The future is in the table, still pending, when the mutex is released.  *)
LoadLibrary(t) ==
  /\ pc[t] = "load"
  /\ disk[FileOf(t)] # None
  /\ InsertFuture(t, Pending(t))
  /\ held' = [held EXCEPT ![t] = Pending(t)]
  /\ result' = [result EXCEPT ![t] = disk[FileOf(t)]]
  /\ Unlock(t)
  /\ Goto(t, "publish")
  /\ UNCHANGED <<enabled, tick, diskVars, req, mytick, todo>>

PublishLibrary(t) ==
  LET outcome == Ready(result[t]) IN
  /\ pc[t] = "publish"
  /\ SettleTables(t, outcome)
  /\ held' = SettleHeld(t, outcome)
  /\ result' = [result EXCEPT ![t] = None]
  /\ Goto(t, "wait")
  /\ UNCHANGED <<enabled, tick, lock, diskVars, req, mytick, todo>>

DiskMiss(t) ==
  /\ pc[t] \in {"open", "exists", "load"}
  /\ disk[FileOf(t)] = None
  /\ Goto(t, "reserve")
  /\ UNCHANGED <<procVars, diskVars, req, mytick, held, result, todo>>

(* The pending future goes into the table, and the compile runs without    *)
(* the mutex.                                                              *)
Reserve(t) ==
  /\ pc[t] = "reserve"
  /\ InsertFuture(t, Pending(t))
  /\ held' = [held EXCEPT ![t] = Pending(t)]
  /\ Unlock(t)
  /\ Goto(t, "compile")
  /\ UNCHANGED <<enabled, tick, diskVars, req, mytick, result, todo>>

\* A result that goes to disk only if the cache is enabled by then.
StoreIfEnabled(t) == IF enabled[ProcOf[t]] THEN "mkstemp" ELSE "wait"

(* Every compiled object goes to disk, whether the cache is enabled or not. *)
StoreResult(t) == "mkstemp"

CompileReturns(t) ==
  LET outcome == Ready(Whole(req[t])) IN
  /\ pc[t] = "compile"
  /\ SettleTables(t, outcome)
  /\ held' = SettleHeld(t, outcome)
  /\ result' = [result EXCEPT ![t] = Whole(req[t])]
  /\ Goto(t, StoreResult(t))
  /\ UNCHANGED <<enabled, tick, lock, diskVars, req, mytick, todo>>

\* An exception that leaves the promise neither set nor destroyed.
ExceptionOutcomeLost(t) == Pending(t)

(* What becomes of the future when an exception leaves get_or_add before   *)
(* set_value: the promise is destroyed on the way.                         *)
ExceptionOutcome(t) == Broken

CompileThrows(t) ==
  /\ "compile" \in Faults
  /\ pc[t] = "compile"
  /\ SettleTables(t, ExceptionOutcome(t))
  /\ Return(t, SettleHeld(t, ExceptionOutcome(t)))
  /\ UNCHANGED <<enabled, tick, lock, diskVars>>

-----------------------------------------------------------------------------
(* cache_blob_to_disk                                                      *)

MakeTemp(t) ==
  /\ pc[t] = "mkstemp"
  /\ tmp' = [tmp EXCEPT ![t] = [obj |-> req[t], len |-> 0]]
  /\ Goto(t, "write")
  /\ UNCHANGED <<procVars, disk, req, mytick, held, result, todo>>

\* A loop that asks for the whole binary again after a short write.
WriteSizesFromStart(t) == 1..Chunks

(* write() may take less than it is given. *)
WriteSizes(t) == 1..(Chunks - tmp[t].len)

Write(t) ==
  /\ pc[t] = "write"
  /\ \E n \in WriteSizes(t) : tmp' = [tmp EXCEPT ![t].len = @ + n]
  /\ UNCHANGED <<procVars, disk, threadVars>>

\* A single write() that is not checked for a short count.
WrittenOnce(t) == tmp[t].len > 0

(* The loop ends when nothing remains. *)
Written(t) == tmp[t].len = Chunks

(* rename() replaces the file that is there, whole.  The EEXIST branch     *)
(* keeps that file and removes the temporary one.                          *)
Rename(t) ==
  /\ pc[t] = "write"
  /\ Written(t)
  /\ \/ disk' = [disk EXCEPT ![FileOf(t)] = tmp[t]]
     \/ disk[FileOf(t)] # None /\ UNCHANGED disk
  /\ tmp' = [tmp EXCEPT ![t] = None]
  /\ result' = [result EXCEPT ![t] = None]
  /\ Goto(t, "wait")
  /\ UNCHANGED <<procVars, req, mytick, held, todo>>

(* A system call fails: the exception releases the mutex where it is held, *)
(* and leaves a temporary file behind that nothing looks at again.         *)
IOThrows(t) ==
  LET p == ProcOf[t] IN
  /\ "io" \in Faults
  /\ pc[t] \in {"open", "exists", "load", "mkstemp", "write"}
  /\ lock' = [lock EXCEPT ![p] = IF @ = t THEN None ELSE @]
  /\ tmp' = [tmp EXCEPT ![t] = None]
  /\ Return(t, held)
  /\ UNCHANGED <<enabled, lru, tick, disk>>

(* The caller's get() on the future it was given. *)
Await(t) ==
  /\ pc[t] = "wait"
  /\ held[t].state # "pending"
  /\ Return(t, held)
  /\ UNCHANGED <<procVars, diskVars>>

-----------------------------------------------------------------------------
(* The maintenance operations.                                             *)

ClearMemory(t) ==
  LET p == ProcOf[t] IN
  /\ "clear_memory" \in Admin
  /\ pc[t] = "idle"
  /\ LockFree(p)
  /\ lru' = [lru EXCEPT ![p] = [k \in Kinds |-> EmptyTable]]
  /\ UNCHANGED <<enabled, tick, lock, diskVars, threadVars>>

Enable(t) ==
  LET p == ProcOf[t] IN
  /\ "enable" \in Admin
  /\ pc[t] = "idle"
  /\ LockFree(p)
  /\ enabled' = [enabled EXCEPT ![p] = ~@]
  /\ UNCHANGED <<lru, tick, lock, diskVars, threadVars>>

DiskEntries == {o \in Objects : disk[o] # None}

(* clear_disk_store lists the directory once and takes no lock. *)
ListForClear(t) ==
  /\ "clear_disk" \in Admin
  /\ pc[t] = "idle"
  /\ todo' = [todo EXCEPT ![t] = DiskEntries]
  /\ Goto(t, "unlink")
  /\ UNCHANGED <<procVars, diskVars, req, mytick, held, result>>

(* An error of remove() is logged and the loop goes on. *)
Unlink(t) ==
  /\ pc[t] = "unlink"
  /\ \E o \in todo[t] :
       /\ todo' = [todo EXCEPT ![t] = @ \ {o}]
       /\ \/ disk' = [disk EXCEPT ![o] = None]
          \/ "io" \in Faults /\ UNCHANGED disk
  /\ UNCHANGED <<procVars, tmp, pc, req, mytick, held, result>>

ClearDiskDone(t) ==
  /\ pc[t] = "unlink"
  /\ todo[t] = {}
  /\ Return(t, held)
  /\ UNCHANGED <<procVars, diskVars>>

LoadCount(n) ==
  LET room == Limit["blob"] + Limit["library"]
  IN  IF n < room THEN n ELSE room

(* preload_from_disk: the directory order is arbitrary, and resize() keeps *)
(* as many of its entries as the two tables together may hold.             *)
ListForPreload(t) ==
  /\ "preload" \in Admin
  /\ pc[t] = "idle"
  /\ tick[ProcOf[t]] < MaxTick
  /\ \E S \in SUBSET DiskEntries :
       /\ Cardinality(S) = LoadCount(Cardinality(DiskEntries))
       /\ todo' = [todo EXCEPT ![t] = S]
  /\ Goto(t, "plock")
  /\ UNCHANGED <<procVars, diskVars, req, mytick, held, result>>

(* tick_++ is a plain increment, not an atomic one: a load ... *)
PreloadLock(t) ==
  LET p == ProcOf[t] IN
  /\ pc[t] = "plock"
  /\ LockFree(p)
  /\ lock' = [lock EXCEPT ![p] = t]
  /\ mytick' = [mytick EXCEPT ![t] = tick[p]]
  /\ Goto(t, "ptick")
  /\ UNCHANGED <<enabled, lru, tick, diskVars, req, held, result, todo>>

(* ... and a store, with the fetch_add of other threads in between. *)
PreloadTick(t) ==
  /\ pc[t] = "ptick"
  /\ tick' = [tick EXCEPT ![ProcOf[t]] = mytick[t] + 1]
  /\ mytick' = [mytick EXCEPT ![t] = @ + 1]
  /\ Goto(t, "pload")
  /\ UNCHANGED <<enabled, lru, lock, diskVars, req, held, result, todo>>

(* Each insert is stamped with tick_, read again or kept in a register. A  *)
(* file that is gone, or that cannot be read, is passed over.              *)
PreloadFile(t) ==
  LET p == ProcOf[t] IN
  /\ pc[t] = "pload"
  /\ \E o \in todo[t] :
       /\ todo' = [todo EXCEPT ![t] = @ \ {o}]
       /\ \/ /\ disk[o] # None
             /\ \E now \in {mytick[t], tick[p]} :
                \E E \in Insert(lru[p][o.kind], o.hash,
                                [last_touched_tick |-> now,
                                 value |-> Ready(disk[o])],
                                Limit[o.kind]) :
                  lru' = [lru EXCEPT ![p][o.kind] = E]
          \/ /\ disk[o] = None \/ "io" \in Faults
             /\ UNCHANGED lru
  /\ UNCHANGED <<enabled, tick, lock, diskVars, pc, req, mytick, held, result>>

PreloadDone(t) ==
  /\ pc[t] = "pload"
  /\ todo[t] = {}
  /\ Unlock(t)
  /\ Return(t, held)
  /\ UNCHANGED <<enabled, lru, tick, diskVars>>

-----------------------------------------------------------------------------
(* A process dies, at any point, and is started again: the directory stays *)
(* as it is, the temporary files of its threads are never looked at again. *)
Mine(p, f, gone) == [t \in Threads |-> IF ProcOf[t] = p THEN gone ELSE f[t]]

Crash(p) ==
  /\ "crash" \in Faults
  /\ enabled' \in {[enabled EXCEPT ![p] = b] : b \in BOOLEAN}
  /\ lru' = [lru EXCEPT ![p] = [k \in Kinds |-> EmptyTable]]
  /\ tick' = [tick EXCEPT ![p] = 0]
  /\ lock' = [lock EXCEPT ![p] = None]
  /\ tmp' = Mine(p, tmp, None)
  /\ pc' = Mine(p, pc, "idle")
  /\ req' = Mine(p, req, None)
  /\ mytick' = Mine(p, mytick, 0)
  /\ held' = Mine(p, held, None)
  /\ result' = Mine(p, result, None)
  /\ todo' = Mine(p, todo, {})
  /\ UNCHANGED disk

(* The calls the bound allows are all over. *)
Quiescent ==
  /\ \A t \in Threads : pc[t] = "idle" /\ tick[ProcOf[t]] >= MaxTick
  /\ UNCHANGED vars

(* The compile function ends, one way or the other. *)
EndCompile(t) == CompileReturns(t) \/ CompileThrows(t)

(* What a thread inside an operation does next, a compile apart. *)
Advance(t) ==
  \/ MemHit(t) \/ MemMiss(t)
  \/ OpenBlob(t) \/ LibraryExists(t) \/ LoadLibrary(t) \/ PublishLibrary(t)
  \/ DiskMiss(t) \/ Reserve(t)
  \/ MakeTemp(t) \/ Write(t) \/ Rename(t) \/ IOThrows(t) \/ Await(t)
  \/ Unlink(t) \/ ClearDiskDone(t)
  \/ PreloadLock(t) \/ PreloadTick(t) \/ PreloadFile(t) \/ PreloadDone(t)

(* A thread outside begins an operation. *)
Begin(t) ==
  \/ Call(t) \/ ClearMemory(t) \/ Enable(t)
  \/ ListForClear(t) \/ ListForPreload(t)

Next ==
  \/ \E t \in Threads : Begin(t) \/ Advance(t) \/ EndCompile(t)
  \/ \E p \in Procs : Crash(p)
  \/ Quiescent

Spec == Init /\ [][Next]_vars
=============================================================================
