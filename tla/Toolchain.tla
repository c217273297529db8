------------------------------ MODULE Toolchain ------------------------------
(* The functions of rtcx.cpp that call NVRTC, nvJitLink and the driver     *)
(* through the libraries initialize() has opened: compile, link_library,   *)
(* load_library, load_library_from_file, the two version queries, and what *)
(* one does with a library_t: get_kernel, the launches and its release.    *)
(*                                                                         *)
(* A function is the sequence of the calls it makes; each may fail, and an *)
(* exception or a return runs the deferred destruction of what is open.    *)
(* Callers keep to the documentation: nothing is used before initialize()  *)
(* has returned, or from a teardown() until it has returned again.         *)
EXTENDS Lifecycle, Sequences

CONSTANTS
  None,
  Requests,  \* the calls the threads may make, with their arguments
  Modules,   \* the CUlibrary handles the driver gives: a bound
  MaxUses,   \* bound on the calls of these functions, for each thread
  CallFaults \* "call": any call; "memory": make_shared; "unload": the driver's

Produces == {"CUBIN", "LTO_IR", "PTX"}
Launches == {"launch", "launch_cooperative"}
Loads == {"load", "load_file"}
OnModule == Launches \cup {"kernel", "occupancy"}
Versions == {"nvrtc_version", "nvjitlink_version"}

ASSUME ToolchainAssumption ==
  /\ None \notin Modules
  /\ None \notin Requests
  /\ \A r \in Requests :
       /\ r.op \in {"compile", "link"} \cup Loads \cup OnModule \cup Versions
       /\ r.op = "compile" => r.names \in Nat
       /\ r.op = "link" => r.files \in Seq([path : BOOLEAN]) /\ r.data \in Seq([size : Nat])
  /\ MaxUses \in Nat
  /\ CallFaults \subseteq {"call", "memory", "unload"}

Nonzero(dim) == \A i \in 1..3 : dim[i] > 0

(* The arguments that are not refused before anything is called. *)
Accepted(r) ==
  /\ r.op = "compile" => r.named /\ r.source
  /\ r.op = "link" =>
       /\ r.named
       /\ r.output \in {"CUBIN", "PTX"}
       /\ r.files # <<>> \/ r.data # <<>>
       /\ \A i \in DOMAIN r.files : r.files[i].path
       /\ \A i \in DOMAIN r.data : r.data[i].size > 0
  /\ r.op = "load_file" => r.path
  /\ r.op \in Launches => Nonzero(r.grid) /\ Nonzero(r.block) /\ r.params

Times(call, n) == [i \in 1..n |-> call]

Retrieve(type, size, get) ==
  IF type \in Produces THEN <<size, get>> ELSE <<"Unsupported">>

CompileScript(r) ==
  <<"CreateProgram">> \o Times("AddNameExpression", r.names)
  \o <<"CompileProgram", "GetProgramLogSize", "GetProgramLog", "CheckCompile">>
  \o Retrieve(r.target, "GetCodeSize", "GetCode")

LinkScript(r) ==
  <<"Create">> \o Times("AddFile", Len(r.files)) \o Times("AddData", Len(r.data))
  \o <<"Complete", "GetInfoLogSize", "GetInfoLog",
       "GetErrorLogSize", "GetErrorLog", "CheckLink">>
  \o Retrieve(r.output, "GetLinkedSize", "GetLinked")

(* The calls of a function, in their order; a Check.. throws what the call *)
(* before the logs has reported, and Unsupported always throws.            *)
Script(r) ==
  CASE r.op = "compile" -> CompileScript(r)
    [] r.op = "link" -> LinkScript(r)
    [] r.op = "load" -> <<"LibraryLoadData", "make_shared">>
    [] r.op = "load_file" -> <<"LibraryLoadFromFile", "make_shared">>
    [] r.op = "kernel" -> <<"LibraryGetKernel">>
    [] r.op = "occupancy" -> <<"OccupancyMaxPotentialBlockSize">>
    [] r.op = "launch" -> <<"LaunchKernelEx">>
    [] r.op = "launch_cooperative" -> <<"LaunchCooperativeKernel">>
    [] r.op = "nvrtc_version" -> <<"nvrtcVersion">>
    [] r.op = "nvjitlink_version" -> <<"nvJitLinkVersion">>

NvrtcCalls ==
  {"CreateProgram", "AddNameExpression", "CompileProgram", "GetProgramLogSize",
   "GetProgramLog", "GetCodeSize", "GetCode", "nvrtcVersion"}
LinkCalls ==
  {"Create", "AddFile", "AddData", "Complete", "GetInfoLogSize", "GetInfoLog",
   "GetErrorLogSize", "GetErrorLog", "GetLinkedSize", "GetLinked",
   "nvJitLinkVersion"}
ModuleCalls ==
  {"LibraryGetKernel", "OccupancyMaxPotentialBlockSize", "LaunchKernelEx",
   "LaunchCooperativeKernel"}
LoadCalls == {"LibraryLoadData", "LibraryLoadFromFile"}
Verdicts == {"CompileProgram", "Complete"}
Checks == {"CheckCompile", "CheckLink"}
LogSizes == {"GetProgramLogSize", "GetInfoLogSize", "GetErrorLogSize"}
Creates == {"CreateProgram", "Create"}
External == NvrtcCalls \cup LinkCalls \cup ModuleCalls \cup LoadCalls

(* The library whose optional a call goes through. *)
LibOf(call) ==
  IF call \in NvrtcCalls THEN "nvrtc"
  ELSE IF call \in LinkCalls THEN "nvjitlink" ELSE "cuda"

VARIABLES
  job,      \* job[t]: the call thread t is in
  handles,  \* the threads whose NVRTC program or nvJitLink handle is open
  modules,  \* the CUlibrary handles that are loaded
  refs,     \* refs[m]: the threads that own the library_t of handle m
  ready,    \* initialize() has returned since the last teardown()
  dead,     \* std::terminate was called
  uses      \* uses[t]: the calls of these functions by thread t so far

toolVars == <<job, handles, modules, refs, ready, dead, uses>>
allVars == <<vars, toolVars>>

Job(at, r, todo, m) ==
  [at |-> at, req |-> r, todo |-> todo, verdict |-> "ok", failed |-> FALSE,
   module |-> m]

Idle == Job("idle", None, <<>>, None)

ToolchainInit ==
  /\ Init
  /\ job = [t \in Threads |-> Idle]
  /\ handles = {}
  /\ modules = {}
  /\ refs = [m \in Modules |-> {}]
  /\ ready = FALSE
  /\ dead = FALSE
  /\ uses = [t \in Threads |-> 0]

NextCall(t) == Head(job[t].todo)
InCall(t) == job[t].at = "running" /\ job[t].todo # <<>>
Busy(t) == job[t].at = "running"

(* The CUlibrary handle that a call of load_library has not yet put into a *)
(* library_t, for its deferred destruction to unload.                      *)
Unwrapped(t) == Busy(t) /\ job[t].req.op \in Loads /\ job[t].module # None

-----------------------------------------------------------------------------
(* The life cycle, as the callers use it.                                  *)

Returned(t) == pc[t] # "out" /\ pc'[t] = "out" /\ once' = "done"

InitializeStep(t) ==
  /\ job[t].at = "idle"
  /\ Initialize(t) \/ Advance(t)
  /\ ready' = (ready \/ Returned(t))
  /\ UNCHANGED <<job, handles, modules, refs, dead, uses>>

TeardownStep(t) ==
  /\ \A u \in Threads : job[u].at = "idle"
  /\ Teardown(t) \/ TeardownSkipped(t)
  /\ ready' = FALSE
  /\ UNCHANGED <<job, handles, modules, refs, dead, uses>>

-----------------------------------------------------------------------------
(* A call of one of the functions.                                         *)

Start(t) ==
  /\ pc[t] = "out"
  /\ ready
  /\ job[t].at = "idle"
  /\ uses[t] < MaxUses
  /\ uses' = [uses EXCEPT ![t] = @ + 1]
  /\ \E r \in Requests, m \in Modules \cup {None} :
       /\ IF r.op \in OnModule THEN m # None /\ t \in refs[m] ELSE m = None
       /\ job' = [job EXCEPT ![t] =
            IF Accepted(r) THEN Job("running", r, Script(r), m)
                           ELSE Job("threw", r, <<>>, None)]
  /\ UNCHANGED <<vars, handles, modules, refs, ready, dead>>

Proceed(t, j) == job' = [job EXCEPT ![t] = [j EXCEPT !.todo = Tail(@)]]

(* A call that succeeds; a program or a handle is open from its creation.  *)
Call(t) ==
  /\ InCall(t)
  /\ NextCall(t) \in External \ LoadCalls
  /\ Proceed(t, job[t])
  /\ handles' = IF NextCall(t) \in Creates THEN handles \cup {t} ELSE handles
  /\ UNCHANGED <<vars, modules, refs, ready, dead, uses>>

(* A compile or a link that fails: the logs are read before it is checked. *)
Reports(t) ==
  /\ "call" \in CallFaults
  /\ InCall(t)
  /\ NextCall(t) \in Verdicts
  /\ Proceed(t, [job[t] EXCEPT !.verdict = "error", !.failed = TRUE])
  /\ UNCHANGED <<vars, handles, modules, refs, ready, dead, uses>>

(* A log that is empty but for its NUL is not fetched. *)
EmptyLog(t) ==
  /\ InCall(t)
  /\ NextCall(t) \in LogSizes
  /\ job' = [job EXCEPT ![t].todo = Tail(Tail(@))]
  /\ UNCHANGED <<vars, handles, modules, refs, ready, dead, uses>>

\* A result that nobody looks at once the logs have been written.
CheckForgotten(t) == TRUE

CheckPasses(t) == job[t].verdict = "ok"

Check(t) ==
  /\ InCall(t)
  /\ NextCall(t) \in Checks
  /\ CheckPasses(t)
  /\ Proceed(t, job[t])
  /\ UNCHANGED <<vars, handles, modules, refs, ready, dead, uses>>

LoadModule(t) ==
  /\ InCall(t)
  /\ NextCall(t) \in LoadCalls
  /\ \E m \in Modules \ modules :
       /\ refs[m] = {}
       /\ modules' = modules \cup {m}
       /\ Proceed(t, [job[t] EXCEPT !.module = m])
  /\ UNCHANGED <<vars, handles, refs, ready, dead, uses>>

(* The handle passes from the call to the new library_t. *)
Wrap(t) ==
  /\ InCall(t)
  /\ NextCall(t) = "make_shared"
  /\ refs' = [refs EXCEPT ![job[t].module] = {t}]
  /\ Proceed(t, [job[t] EXCEPT !.module = None])
  /\ UNCHANGED <<vars, handles, modules, ready, dead, uses>>

\* A destruction that only the normal way out runs.
HandlesAfterThrowKept(t) == handles

(* RTCX_DEFER: whichever way the scope is left. *)
HandlesAfter(t) == handles \ {t}
HandlesAfterThrow(t) == HandlesAfter(t)

Return(t) ==
  /\ Busy(t)
  /\ job[t].todo = <<>>
  /\ job' = [job EXCEPT ![t].at = "returned"]
  /\ handles' = HandlesAfter(t)
  /\ UNCHANGED <<vars, modules, refs, ready, dead, uses>>

(* A failing call, the report of an earlier one, or a type without a case. *)
CallFails(t) ==
  \/ "call" \in CallFaults /\ NextCall(t) \in External \ Verdicts
  \/ "memory" \in CallFaults /\ NextCall(t) = "make_shared"

Thrown(t) ==
  [job[t] EXCEPT !.at = "threw", !.todo = <<>>, !.module = None,
                 !.failed = @ \/ CallFails(t) \/ NextCall(t) = "Unsupported"]

Throws(t) ==
  /\ InCall(t)
  /\ \/ CallFails(t)
     \/ NextCall(t) \in Checks /\ ~CheckPasses(t)
     \/ NextCall(t) = "Unsupported"
  /\ job' = [job EXCEPT ![t] = Thrown(t)]
  /\ handles' = HandlesAfterThrow(t)
  /\ modules' = IF Unwrapped(t) THEN modules \ {job[t].module} ELSE modules
  /\ UNCHANGED <<vars, refs, ready, dead, uses>>

(* The deferred unload checks its own result, in a destructor: an error is *)
(* an exception nobody can catch.                                          *)
Terminates(t) ==
  /\ "unload" \in CallFaults
  /\ InCall(t)
  /\ CallFails(t)
  /\ Unwrapped(t)
  /\ dead' = TRUE
  /\ UNCHANGED <<vars, job, handles, modules, refs, ready, uses>>

(* The caller takes the value or the exception. *)
Collect(t) ==
  /\ job[t].at \in {"returned", "threw"}
  /\ job' = [job EXCEPT ![t] = Idle]
  /\ UNCHANGED <<vars, handles, modules, refs, ready, dead, uses>>

-----------------------------------------------------------------------------
(* The shared pointers to library_t.                                       *)

Share(t, u) ==
  /\ ready
  /\ job[t].at = "idle"
  /\ \E m \in Modules :
       /\ t \in refs[m] /\ u \notin refs[m]
       /\ refs' = [refs EXCEPT ![m] = @ \cup {u}]
  /\ UNCHANGED <<vars, job, handles, modules, ready, dead, uses>>

\* An owner that unloads the library whoever else has it.
UnloadedAlways(m, owners) == TRUE

(* ~library_t runs with the last owner. *)
Unloaded(m, owners) == owners = {}

Drop(t) ==
  /\ ready
  /\ job[t].at = "idle"
  /\ \E m \in Modules :
       /\ t \in refs[m]
       /\ refs' = [refs EXCEPT ![m] = @ \ {t}]
       /\ modules' = IF Unloaded(m, refs[m] \ {t}) THEN modules \ {m} ELSE modules
  /\ UNCHANGED <<vars, job, handles, ready, dead, uses>>

(* Nothing runs after std::terminate, or once the calls the bound allows   *)
(* are over.                                                               *)
Stopped ==
  /\ \/ dead
     \/ \A t \in Threads :
          pc[t] = "out" /\ calls[t] = MaxCalls /\ job[t].at = "idle"
  /\ UNCHANGED allVars

JobStep(t) ==
  \/ Call(t) \/ Reports(t) \/ EmptyLog(t) \/ Check(t) \/ LoadModule(t)
  \/ Wrap(t) \/ Return(t) \/ Throws(t) \/ Terminates(t) \/ Collect(t)

ToolchainNext ==
  \/ /\ ~dead
     /\ \E t \in Threads :
          \/ InitializeStep(t) \/ TeardownStep(t) \/ Start(t) \/ JobStep(t)
          \/ Drop(t)
          \/ \E u \in Threads : Share(t, u)
  \/ Stopped

ToolchainSpec == ToolchainInit /\ [][ToolchainNext]_allVars

(* A thread inside initialize() is scheduled in the end, while the process *)
(* lives.                                                                  *)
ToolchainFairSpec ==
  /\ ToolchainSpec
  /\ \A t \in Threads : WF_allVars(~dead /\ pc[t] # "out" /\ InitializeStep(t))

-----------------------------------------------------------------------------
ToolchainTypeOK ==
  /\ TypeOK
  /\ handles \subseteq Threads
  /\ modules \subseteq Modules
  /\ refs \in [Modules -> SUBSET Threads]
  /\ {ready, dead} \subseteq BOOLEAN
  /\ uses \in [Threads -> Nat]
  /\ \A t \in Threads :
       /\ job[t].at \in {"idle", "running", "returned", "threw"}
       /\ job[t].req \in Requests \cup {None}
       /\ job[t].verdict \in {"ok", "error"}
       /\ job[t].failed \in BOOLEAN
       /\ job[t].module \in Modules \cup {None}

(* Every call into NVRTC, nvJitLink or the driver, and every release of a  *)
(* library_t, finds its library in the optional it goes through, and what  *)
(* it works on open: through failed and repeated initializations and       *)
(* teardowns, for callers that use nothing between a teardown() and the    *)
(* return of the next initialize().                                        *)
CallsFindTheirTargets ==
  /\ \A t \in Threads : InCall(t) /\ NextCall(t) \in External =>
       /\ engaged[LibOf(NextCall(t))]
       /\ job[t].req.op \in {"compile", "link"} /\ NextCall(t) \notin Creates
            => t \in handles
       /\ NextCall(t) \in ModuleCalls => job[t].module \in modules
  /\ ready => engaged["cuda"]

(* An NVRTC program or nvJitLink handle is open only inside the call that  *)
(* has made it, and a CUlibrary exactly while a library_t or the call that *)
(* is about to make one owns it: no failing call and no exception, be it   *)
(* from reading a log, leaves anything behind (compile, link_library,      *)
(* load_library, load_library_from_file, ~library_t).                      *)
NothingLeftOpen ==
  /\ \A t \in handles : Busy(t) /\ job[t].req.op \in {"compile", "link"}
  /\ modules = {m \in Modules : refs[m] # {}}
               \cup {job[t].module : t \in {u \in Threads : Unwrapped(u)}}

(* A call returns a value only if everything it has called succeeded, and  *)
(* throws only where something failed or was asked for that it does not    *)
(* do: the logs that are read between a compile or a link and the check of *)
(* its result do not cover it up (log_nvrtc_result, log_nvJitLink_result). *)
AnswersTrue ==
  \A t \in Threads :
    /\ job[t].at = "returned" => ~job[t].failed
    /\ job[t].at = "threw" => job[t].failed \/ ~Accepted(job[t].req)

(* Every call of initialize() ends, also of those that wait for the one    *)
(* that runs the initialization when that one throws, unless the process   *)
(* is terminated.                                                          *)
InitializeReturns ==
  \A t \in Threads : pc[t] # "out" ~> pc[t] = "out" \/ dead

=============================================================================
