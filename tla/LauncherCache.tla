---------------------------- MODULE LauncherCache ----------------------------
(* The launcher cache of the algorithm planners: algorithm_planner.cpp,    *)
(* algorithm_launcher.cpp and launcher_jit_cache of algorithm_planner.hpp. *)
(*                                                                         *)
(* A planner turns its plan into a key, looks it up behind a shared mutex, *)
(* looks again behind the exclusive one, and links and loads the launcher  *)
(* while it holds it.  Launchers are shared: the cache and its callers     *)
(* each own one, and the last owner unloads the CUDA library.              *)
EXTENDS Naturals, FiniteSets, SequencesExt

CONSTANTS
  Threads,    \* threads that call get_launcher
  Plans,      \* entrypoint, fragment keys and link options of a planner
  Launchers,  \* launchers that may be built: a bound
  None,
  MaxCalls,   \* bound on the calls of each thread
  Faults      \* the steps of build() that may fail

BuildSteps == {"link", "load", "kernel"}

\* A key that stops at the first fragment.
LaunchKeyFirst(p) == FlattenSeq(SubSeq(p.fragments, 1, 1))

(* get_fragments_key: the keys of the fragments, one after the other, with *)
(* nothing between them, and neither the entrypoint nor the options.       *)
LaunchKey(p) == FlattenSeq(p.fragments)

Keys == {LaunchKey(p) : p \in Plans}

ASSUME LauncherAssumption ==
  /\ None \notin Threads
  /\ None \notin Plans
  /\ None \notin Launchers
  /\ None \notin Keys
  /\ MaxCalls \in Nat
  /\ Faults \subseteq BuildSteps

VARIABLES
  launchers,  \* launchers[k]: jit_cache_.launchers
  readers,    \* the threads that hold jit_cache_.mutex shared,
  writer,     \* and the one that holds it exclusively, or None
  pc,         \* pc[t]: where thread t is
  plan,       \* plan[t]: the plan of its planner, or None
  got,        \* got[t]: the launcher it was given, or None
  built,      \* built[t]: the library its build() has loaded, or None
  origin,     \* origin[l]: the plan launcher l was built for, or None
  lib,        \* lib[l]: the CUDA library of launcher l
  lost,       \* the launchers whose library a failing build() has lost
  calls       \* calls[t]: the calls of thread t so far

lockVars == <<readers, writer>>
vars == <<launchers, lockVars, pc, plan, got, built, origin, lib, lost, calls>>

Key(t) == LaunchKey(plan[t])

(* read, find: in read_cache; write, recheck: at the exclusive lock; the   *)
(* BuildSteps and store: under it; hold: with the launcher.                *)
Steps == {"idle", "read", "find", "write", "recheck"} \cup BuildSteps
         \cup {"store", "hold"}

TypeOK ==
  /\ launchers \in [Keys -> Launchers \cup {None}]
  /\ readers \subseteq Threads
  /\ writer \in Threads \cup {None}
  /\ pc \in [Threads -> Steps]
  /\ plan \in [Threads -> Plans \cup {None}]
  /\ got \in [Threads -> Launchers \cup {None}]
  /\ built \in [Threads -> Launchers \cup {None}]
  /\ origin \in [Launchers -> Plans \cup {None}]
  /\ lib \in [Launchers -> {"none", "loaded", "unloaded"}]
  /\ lost \subseteq Launchers
  /\ calls \in [Threads -> Nat]
  /\ \A t \in Threads :
       /\ plan[t] = None <=> pc[t] = "idle"
       /\ got[t] = None <=> pc[t] # "hold"
       /\ built[t] = None <=> pc[t] \notin {"kernel", "store"}

EmptyCache == [k \in Keys |-> None]

Init ==
  /\ launchers = EmptyCache
  /\ readers = {}
  /\ writer = None
  /\ pc = [t \in Threads |-> "idle"]
  /\ plan = [t \in Threads |-> None]
  /\ got = [t \in Threads |-> None]
  /\ built = [t \in Threads |-> None]
  /\ origin = [l \in Launchers |-> None]
  /\ lib = [l \in Launchers |-> "none"]
  /\ lost = {}
  /\ calls = [t \in Threads |-> 0]

Goto(t, step) == pc' = [pc EXCEPT ![t] = step]

-----------------------------------------------------------------------------
(* get_launcher and read_cache.                                            *)

GetLauncher(t) ==
  /\ pc[t] = "idle"
  /\ calls[t] < MaxCalls
  /\ calls' = [calls EXCEPT ![t] = @ + 1]
  /\ \E p \in Plans : plan' = [plan EXCEPT ![t] = p]
  /\ Goto(t, "read")
  /\ UNCHANGED <<launchers, lockVars, got, built, origin, lib, lost>>

(* The shared mutex lets readers in past a writer that waits. *)
ReadLock(t) ==
  /\ pc[t] = "read"
  /\ writer = None
  /\ readers' = readers \cup {t}
  /\ Goto(t, "find")
  /\ UNCHANGED <<launchers, writer, plan, got, built, origin, lib, lost, calls>>

\* A lookup that does not compare with end().
FoundAlways(t) == TRUE

Found(t) == launchers[Key(t)] # None

ReadHit(t) ==
  /\ pc[t] = "find"
  /\ Found(t)
  /\ got' = [got EXCEPT ![t] = launchers[Key(t)]]
  /\ readers' = readers \ {t}
  /\ Goto(t, "hold")
  /\ UNCHANGED <<launchers, writer, plan, built, origin, lib, lost, calls>>

ReadMiss(t) ==
  /\ pc[t] = "find"
  /\ ~Found(t)
  /\ readers' = readers \ {t}
  /\ Goto(t, "write")
  /\ UNCHANGED <<launchers, writer, plan, got, built, origin, lib, lost, calls>>

Free == writer = None /\ readers = {}

WriteLock(t) ==
  /\ pc[t] = "write"
  /\ Free
  /\ writer' = t
  /\ Goto(t, "recheck")
  /\ UNCHANGED <<launchers, readers, plan, got, built, origin, lib, lost, calls>>

WriteHit(t) ==
  /\ pc[t] = "recheck"
  /\ Found(t)
  /\ got' = [got EXCEPT ![t] = launchers[Key(t)]]
  /\ writer' = None
  /\ Goto(t, "hold")
  /\ UNCHANGED <<launchers, readers, plan, built, origin, lib, lost, calls>>

\* Without the second look, whatever the first one missed is built.
MissedOnce(t) == TRUE

(* Another thread may have stored the launcher since the first look. *)
StillMissing(t) == launchers[Key(t)] = None

WriteMiss(t) ==
  /\ pc[t] = "recheck"
  /\ StillMissing(t)
  /\ Goto(t, "link")
  /\ UNCHANGED <<launchers, lockVars, plan, got, built, origin, lib, lost, calls>>

-----------------------------------------------------------------------------
(* build(): everything up to the cubin, from the queries of the device and *)
(* nvJitLinkCreate to nvJitLinkDestroy; then the library and its kernel.   *)

Link(t) ==
  /\ pc[t] = "link"
  /\ Goto(t, "load")
  /\ UNCHANGED <<launchers, lockVars, plan, got, built, origin, lib, lost, calls>>

Load(t) ==
  /\ pc[t] = "load"
  /\ \E l \in Launchers :
       /\ lib[l] = "none"
       /\ lib' = [lib EXCEPT ![l] = "loaded"]
       /\ origin' = [origin EXCEPT ![l] = plan[t]]
       /\ built' = [built EXCEPT ![t] = l]
  /\ Goto(t, "kernel")
  /\ UNCHANGED <<launchers, lockVars, plan, got, lost, calls>>

Kernel(t) ==
  /\ pc[t] = "kernel"
  /\ Goto(t, "store")
  /\ UNCHANGED <<launchers, lockVars, plan, got, built, origin, lib, lost, calls>>

\* A mutex that is not unlocked when an exception passes.
UnwoundLocked(t) == t

(* Who holds the mutex after an exception of thread t. *)
Unwound(t) == None

(* An exception unlocks the mutex.  It leaves behind what build() has open *)
(* at that point: the nvJitLink handle, which is not modelled, or the      *)
(* library, which nobody owns yet.                                         *)
BuildFails(t) ==
  /\ pc[t] \in Faults
  /\ writer' = Unwound(t)
  /\ plan' = [plan EXCEPT ![t] = None]
  /\ lost' = lost \cup ({built[t]} \ {None})
  /\ built' = [built EXCEPT ![t] = None]
  /\ Goto(t, "idle")
  /\ UNCHANGED <<launchers, readers, got, origin, lib, calls>>

Store(t) ==
  /\ pc[t] = "store"
  /\ launchers' = [launchers EXCEPT ![Key(t)] = built[t]]
  /\ got' = [got EXCEPT ![t] = built[t]]
  /\ built' = [built EXCEPT ![t] = None]
  /\ writer' = None
  /\ Goto(t, "hold")
  /\ UNCHANGED <<readers, plan, origin, lib, lost, calls>>

-----------------------------------------------------------------------------
(* The shared pointers.                                                    *)

(* The launchers that have an owner when the cache holds those of store    *)
(* and the callers those of held.                                          *)
Owned(store, held) ==
  {store[k] : k \in Keys} \cup {held[t] : t \in Threads}
    \cup {built[t] : t \in Threads}

\* Every launcher that loses an owner, the last one or not.
UnownedFirst(L, store, held) == L

(* ~algorithm_launcher: of the launchers L that lose an owner, those that  *)
(* had no other one.                                                       *)
Unowned(L, store, held) == L \ Owned(store, held)

Unload(L) ==
  lib' = [l \in Launchers |-> IF l \in L THEN "unloaded" ELSE lib[l]]

(* The caller is done with its launcher. *)
Release(t) ==
  /\ pc[t] = "hold"
  /\ got' = [got EXCEPT ![t] = None]
  /\ Unload(Unowned({got[t]}, launchers, [got EXCEPT ![t] = None]))
  /\ plan' = [plan EXCEPT ![t] = None]
  /\ Goto(t, "idle")
  /\ UNCHANGED <<launchers, lockVars, built, origin, lost, calls>>

(* The owner of the cache destroys it and makes another one, while nobody  *)
(* is inside; callers keep the launchers they hold.                        *)
Renew ==
  /\ \A t \in Threads : pc[t] \in {"idle", "hold"}
  /\ launchers' = EmptyCache
  /\ Unload(Unowned({launchers[k] : k \in Keys}, EmptyCache, got))
  /\ UNCHANGED <<lockVars, pc, plan, got, built, origin, lost, calls>>

(* The calls the bounds allow are all over. *)
Quiescent ==
  /\ \A t \in Threads : pc[t] = "idle" /\ calls[t] = MaxCalls
  /\ UNCHANGED vars

Advance(t) ==
  \/ ReadLock(t) \/ ReadHit(t) \/ ReadMiss(t)
  \/ WriteLock(t) \/ WriteHit(t) \/ WriteMiss(t)
  \/ Link(t) \/ Load(t) \/ Kernel(t) \/ BuildFails(t) \/ Store(t)

Next ==
  \/ \E t \in Threads : GetLauncher(t) \/ Advance(t) \/ Release(t)
  \/ Renew
  \/ Quiescent

Spec == Init /\ [][Next]_vars

(* A thread inside get_launcher is scheduled in the end, and the mutex is  *)
(* handed on.                                                              *)
FairSpec == Spec /\ \A t \in Threads : WF_vars(Advance(t))

-----------------------------------------------------------------------------
(* What the mutex protects: nobody reads the map while the thread that     *)
(* holds the mutex exclusively links, loads and stores, and a thread that  *)
(* is past the mutex holds it (read_cache, get_launcher).                  *)
Inside == {"recheck", "store"} \cup BuildSteps

MutexHeld ==
  /\ writer # None => readers = {}
  /\ \A t \in Threads : t \in readers <=> pc[t] = "find"
  /\ \A t \in Threads : t = writer <=> pc[t] \in Inside

(* "shared_ptr<algorithm_launcher>": the CUDA library of a launcher is     *)
(* loaded exactly as long as the cache, a caller or the build that made it *)
(* still owns it; nobody launches a kernel of an unloaded library, and     *)
(* none stays behind but those that build() loses when it fails to get the *)
(* kernel (~algorithm_launcher).                                           *)
LibraryLifetime ==
  \A l \in Launchers : lib[l] = "loaded" <=> l \in Owned(launchers, got) \cup lost

(* A caller gets a launcher that was linked from its own fragments, with   *)
(* its own entrypoint and options (get_launcher).  Checked for plans that  *)
(* get_fragments_key tells apart.                                          *)
RightLauncher ==
  \A t \in Threads : got[t] # None => origin[got[t]] = plan[t]

(* Every call of get_launcher ends, provided that every build does.        *)
CallsReturn ==
  \A t \in Threads : pc[t] \notin {"idle", "hold"} ~> pc[t] \in {"idle", "hold"}

(* To its callers the cache is a OnceMap: one launcher per key while it    *)
(* lives, whatever they do at the same time, and an exception only where   *)
(* there is no launcher.                                                   *)
Waiting == [t \in Threads |->
              IF pc[t] \in {"idle", "hold"} THEN None ELSE Key(t)]

Once == INSTANCE OnceMap WITH Clients <- Threads, Values <- Launchers,
                              store <- launchers, want <- Waiting

IsOnceMap == Once!Spec
=============================================================================
