--------------------------- MODULE FragmentCompiler ---------------------------
(* nvrtc_lto_fragment_compiler: one compiler for the whole process, that   *)
(* turns the source of a user's function into an LTO fragment and keeps    *)
(* what it has compiled by key.  compile() looks a key up behind a shared  *)
(* mutex, looks again behind the exclusive one, and runs NVRTC, whose      *)
(* program it destroys by hand, while it holds it.                         *)
EXTENDS Naturals, FiniteSets

CONSTANTS
  Threads,   \* threads that call nvrtc_compiler().compile
  Requests,  \* the keys and sources they pass
  Archs,     \* the architectures of the devices they may be on
  None,
  MaxCalls,  \* bound on the calls of each thread
  Faults     \* what may fail

Keys == {r.key : r \in Requests}

(* A fragment is known by the key it is stored under and by what it was    *)
(* compiled from.  Callers are given copies.                               *)
Fragments == [key : Keys, code : {r.code : r \in Requests}, arch : Archs]

ASSUME FragmentAssumption ==
  /\ None \notin Threads
  /\ None \notin Requests
  /\ None \notin Keys
  /\ None \notin Archs
  /\ None \notin Fragments
  /\ MaxCalls \in Nat
  /\ Faults \subseteq {"device", "create", "compile", "log", "code", "destroy"}

VARIABLES
  arch,     \* the one of standard_compile_opts, or None before construction
  cache,    \* cache[k]: the fragment of key k, or None
  readers,  \* the threads that hold cache_mutex_ shared,
  writer,   \* and the one that holds it exclusively, or None
  pc,       \* pc[t]: where thread t is
  req,      \* req[t]: what it was called with, or None
  new,      \* new[t]: the fragment it is about to store, or None
  got,      \* got[t]: the fragment it was given, or None
  programs, \* the NVRTC programs that are open,
  lost,     \* and those of them that nobody will destroy
  calls     \* calls[t]: the calls of thread t so far

lockVars == <<readers, writer>>
programVars == <<programs, lost>>
vars == <<arch, cache, lockVars, pc, req, new, got, programVars, calls>>

(* static: at the construction of the compiler; find: in read_cache;       *)
(* compile, log, code, destroy: with a program; hold: with the fragment.   *)
Owning == {"compile", "log", "code", "destroy"}
Writing == {"recheck", "create", "store"} \cup Owning
Inside == {"static", "read", "find", "write"} \cup Writing

TypeOK ==
  /\ arch \in Archs \cup {None}
  /\ cache \in [Keys -> Fragments \cup {None}]
  /\ readers \subseteq Threads
  /\ writer \in Threads \cup {None}
  /\ pc \in [Threads -> Inside \cup {"idle", "hold"}]
  /\ req \in [Threads -> Requests \cup {None}]
  /\ new \in [Threads -> Fragments \cup {None}]
  /\ got \in [Threads -> Fragments \cup {None}]
  /\ programs \in Nat
  /\ lost \in Nat
  /\ calls \in [Threads -> Nat]
  /\ \A t \in Threads :
       /\ req[t] = None <=> pc[t] = "idle"
       /\ got[t] = None <=> pc[t] # "hold"
       /\ new[t] = None <=> pc[t] \notin {"destroy", "store"}

Init ==
  /\ arch = None
  /\ cache = [k \in Keys |-> None]
  /\ readers = {}
  /\ writer = None
  /\ pc = [t \in Threads |-> "idle"]
  /\ req = [t \in Threads |-> None]
  /\ new = [t \in Threads |-> None]
  /\ got = [t \in Threads |-> None]
  /\ programs = 0
  /\ lost = 0
  /\ calls = [t \in Threads |-> 0]

Goto(t, step) == pc' = [pc EXCEPT ![t] = step]

Give(t, fragment) ==
  /\ got' = [got EXCEPT ![t] = fragment]
  /\ Goto(t, "hold")

\* A key that two sources share.
SharedKey(t) == CHOOSE k \in Keys : TRUE

(* The key is the caller's alone: neither source nor options are in it.    *)
Key(t) == req[t].key

-----------------------------------------------------------------------------
(* nvrtc_compiler(): a local static, constructed by the first call.        *)

Begin(t) ==
  /\ pc[t] = "idle"
  /\ calls[t] < MaxCalls
  /\ calls' = [calls EXCEPT ![t] = @ + 1]
  /\ \E r \in Requests : req' = [req EXCEPT ![t] = r]
  /\ Goto(t, "static")
  /\ UNCHANGED <<arch, cache, lockVars, new, got, programVars>>

\* A compiler that each call makes anew.
ConstructedByEach == TRUE

NotConstructed == arch = None

(* The first call constructs the compiler, the others wait until it is     *)
(* done, so it is one step.  The options have the architecture of the      *)
(* device that is current for the thread that constructs it.               *)
Construct(t) ==
  /\ pc[t] = "static"
  /\ IF NotConstructed THEN arch' \in Archs ELSE UNCHANGED arch
  /\ Goto(t, "read")
  /\ UNCHANGED <<cache, lockVars, req, new, got, programVars, calls>>

(* An exception in the constructor: the next call constructs it.           *)
ConstructFails(t) ==
  /\ "device" \in Faults
  /\ pc[t] = "static"
  /\ NotConstructed
  /\ req' = [req EXCEPT ![t] = None]
  /\ Goto(t, "idle")
  /\ UNCHANGED <<arch, cache, lockVars, new, got, programVars, calls>>

-----------------------------------------------------------------------------
(* compile() and read_cache()                                              *)

ReadLock(t) ==
  /\ pc[t] = "read"
  /\ writer = None
  /\ readers' = readers \cup {t}
  /\ Goto(t, "find")
  /\ UNCHANGED <<arch, cache, writer, req, new, got, programVars, calls>>

\* A lookup that does not compare with end().
FoundAlways(t) == TRUE

Found(t) == cache[Key(t)] # None

ReadCache(t) ==
  /\ pc[t] = "find"
  /\ readers' = readers \ {t}
  /\ IF Found(t)
     THEN Give(t, cache[Key(t)])
     ELSE Goto(t, "write") /\ UNCHANGED got
  /\ UNCHANGED <<arch, cache, writer, req, new, programVars, calls>>

WriteLock(t) ==
  /\ pc[t] = "write"
  /\ writer = None /\ readers = {}
  /\ writer' = t
  /\ Goto(t, "recheck")
  /\ UNCHANGED <<arch, cache, readers, req, new, got, programVars, calls>>

FoundNow(t) ==
  /\ pc[t] = "recheck"
  /\ Found(t)
  /\ Give(t, cache[Key(t)])
  /\ writer' = None
  /\ UNCHANGED <<arch, cache, readers, req, new, programVars, calls>>

\* The second look that is not taken.
MissingBefore(t) == TRUE

StillMissing(t) == cache[Key(t)] = None

MissingStill(t) ==
  /\ pc[t] = "recheck"
  /\ StillMissing(t)
  /\ Goto(t, "create")
  /\ UNCHANGED <<arch, cache, lockVars, req, new, got, programVars, calls>>

CreateProgram(t) ==
  /\ pc[t] = "create"
  /\ programs' = programs + 1
  /\ Goto(t, "compile")
  /\ UNCHANGED <<arch, cache, lockVars, req, new, got, lost, calls>>

CompileProgram(t) ==
  /\ pc[t] = "compile"
  /\ \/ Goto(t, "code")
     \/ "compile" \in Faults /\ Goto(t, "log")
  /\ UNCHANGED <<arch, cache, lockVars, req, new, got, programVars, calls>>

GetLTOIR(t) ==
  /\ pc[t] = "code"
  /\ new' = [new EXCEPT ![t] = [key |-> Key(t), code |-> req[t].code, arch |-> arch]]
  /\ Goto(t, "destroy")
  /\ UNCHANGED <<arch, cache, lockVars, req, got, programVars, calls>>

DestroyProgram(t) ==
  /\ pc[t] = "destroy"
  /\ programs' = programs - 1
  /\ Goto(t, "store")
  /\ UNCHANGED <<arch, cache, lockVars, req, new, got, lost, calls>>

Store(t) ==
  /\ pc[t] = "store"
  /\ cache' = [cache EXCEPT ![Key(t)] = new[t]]
  /\ Give(t, new[t])
  /\ new' = [new EXCEPT ![t] = None]
  /\ writer' = None
  /\ UNCHANGED <<arch, readers, req, programVars, calls>>

\* A mutex that an exception leaves locked.
WriterAfterThrowSame(t) == t

WriterAfterThrow(t) == None

Throw(t) ==
  /\ writer' = WriterAfterThrow(t)
  /\ req' = [req EXCEPT ![t] = None]
  /\ new' = [new EXCEPT ![t] = None]
  /\ Goto(t, "idle")
  /\ UNCHANGED <<arch, cache, readers, got, calls>>

CreateFails(t) ==
  /\ "create" \in Faults
  /\ pc[t] = "create"
  /\ Throw(t)
  /\ UNCHANGED programVars

\* A handler that only throws again.
ProgramsAfterLogSame == programs

ProgramsAfterLog == programs - 1

(* The log is read, or cannot be read; either way the program is destroyed *)
(* and the call throws.                                                    *)
LogThrows(t) ==
  /\ pc[t] = "log"
  /\ Throw(t)
  /\ programs' = ProgramsAfterLog
  /\ UNCHANGED lost

(* Outside the try block a failing call leaves the program open, and so    *)
(* does nvrtcDestroyProgram when it fails itself.                          *)
LosesProgram(t) ==
  /\ \/ "code" \in Faults /\ pc[t] = "code"
     \/ "destroy" \in Faults /\ pc[t] \in {"destroy", "log"}
  /\ Throw(t)
  /\ lost' = lost + 1
  /\ UNCHANGED programs

(* The caller is done with its copy. *)
Release(t) ==
  /\ pc[t] = "hold"
  /\ got' = [got EXCEPT ![t] = None]
  /\ req' = [req EXCEPT ![t] = None]
  /\ Goto(t, "idle")
  /\ UNCHANGED <<arch, cache, lockVars, new, programVars, calls>>

(* The calls the bound allows are all over. *)
Quiescent ==
  /\ \A t \in Threads : pc[t] = "idle" /\ calls[t] = MaxCalls
  /\ UNCHANGED vars

Advance(t) ==
  \/ Construct(t) \/ ConstructFails(t)
  \/ ReadLock(t) \/ ReadCache(t) \/ WriteLock(t) \/ FoundNow(t) \/ MissingStill(t)
  \/ CreateProgram(t) \/ CompileProgram(t) \/ GetLTOIR(t) \/ DestroyProgram(t)
  \/ Store(t) \/ CreateFails(t) \/ LogThrows(t) \/ LosesProgram(t)

Next ==
  \/ \E t \in Threads : Begin(t) \/ Advance(t) \/ Release(t)
  \/ Quiescent

Spec == Init /\ [][Next]_vars

(* A thread inside compile() is scheduled in the end, and the mutex is     *)
(* handed on.                                                              *)
FairSpec == Spec /\ \A t \in Threads : WF_vars(Advance(t))

-----------------------------------------------------------------------------
(* At most one program is in use at any time, that of the thread that      *)
(* holds the mutex, and every other open one was lost by a call that       *)
(* failed after the try block, or by a destruction that failed (compile).  *)
ProgramsReleased ==
  programs = lost + Cardinality({t \in Threads : pc[t] \in Owning})

(* All fragments of a process, which are linked with each other, were      *)
(* compiled for one architecture, whichever devices the threads were on    *)
(* and whichever of them came first, failed to construct the compiler, or  *)
(* waited for it (nvrtc_compiler, and the constructor).                    *)
OneArch ==
  \A t \in Threads, k \in Keys :
    /\ cache[k] # None => cache[k].arch = arch
    /\ got[t] # None => got[t].arch = arch

(* Where a key stands for one source, a caller gets the fragment of the    *)
(* source it has passed, whoever compiled it (compile, read_cache).        *)
KeysTellSources == \A r, s \in Requests : r.key = s.key => r = s

RightFragment ==
  KeysTellSources =>
    \A t \in Threads : got[t] # None => got[t].code = req[t].code

(* Nobody runs NVRTC for a key that is compiled already: what was stored   *)
(* while a thread waited for the mutex is found by its second look, and    *)
(* nothing is ever overwritten (compile).                                  *)
CompiledOnce ==
  \A t \in Threads :
    pc[t] \in {"create", "store"} \cup Owning => cache[Key(t)] = None

(* Every call ends, with a fragment or an exception, also those that wait  *)
(* behind compiles that fail.                                              *)
CallsReturn == \A t \in Threads : pc[t] \in Inside ~> pc[t] \in {"idle", "hold"}

(* To its callers the compiler is a OnceMap that never forgets: each key   *)
(* has one fragment for good, and a call fails only while there is none.   *)
Waiting == [t \in Threads |-> IF pc[t] \in Inside THEN Key(t) ELSE None]

Once == INSTANCE OnceMap WITH Clients <- Threads, Values <- Fragments,
                              store <- cache, want <- Waiting

IsOnceMap == Once!Spec
=============================================================================
