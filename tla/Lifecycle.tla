------------------------------ MODULE Lifecycle ------------------------------
(* initialize() and teardown() of rtcx.cpp: the three libraries rtcx opens *)
(* with dlopen, the optionals that hold them, and the two once-flags.      *)
(*                                                                         *)
(* Any thread may call initialize() at any time.  teardown() is documented *)
(* as not thread-safe, so it is called while nobody else is inside.        *)
EXTENDS Naturals

CONSTANTS
  Threads,
  MaxCalls,  \* bound on the calls of each thread
  Faults     \* what may fail: dlopen, dlsym and cuInit

Libs == {"cuda", "nvrtc", "nvjitlink"}

ASSUME LifecycleAssumption ==
  /\ MaxCalls \in Nat
  /\ Faults \subseteq {"open", "symbols", "init"}

VARIABLES
  once,     \* init_libraries_flag: "fresh", "running" or "done"
  down,     \* teardown_libraries_flag: "fresh" or "done"
  engaged,  \* engaged[l]: the optional of library l holds an instance
  opened,   \* opened[l]: the calls of dlopen on l that no dlclose has undone
  lost,     \* lost[l]: those of them that no instance will ever close
  pc,       \* pc[t]: where thread t is
  calls     \* calls[t]: the calls of thread t so far

vars == <<once, down, engaged, opened, lost, pc, calls>>

(* flag: at call_once; a library: about to load it; start: at cu->Init.    *)
Running == Libs \cup {"start"}
Steps == {"out", "flag"} \cup Running

TypeOK ==
  /\ once \in {"fresh", "running", "done"}
  /\ down \in {"fresh", "done"}
  /\ engaged \in [Libs -> BOOLEAN]
  /\ opened \in [Libs -> Nat]
  /\ lost \in [Libs -> Nat]
  /\ pc \in [Threads -> Steps]
  /\ calls \in [Threads -> Nat]

Init ==
  /\ once = "fresh"
  /\ down = "fresh"
  /\ engaged = [l \in Libs |-> FALSE]
  /\ opened = [l \in Libs |-> 0]
  /\ lost = [l \in Libs |-> 0]
  /\ pc = [t \in Threads |-> "out"]
  /\ calls = [t \in Threads |-> 0]

Goto(t, step) == pc' = [pc EXCEPT ![t] = step]

CountCall(t) ==
  /\ calls[t] < MaxCalls
  /\ calls' = [calls EXCEPT ![t] = @ + 1]

-----------------------------------------------------------------------------
(* initialize() *)

Initialize(t) ==
  /\ pc[t] = "out"
  /\ CountCall(t)
  /\ Goto(t, "flag")
  /\ UNCHANGED <<once, down, engaged, opened, lost>>

(* call_once: the first one runs the initialization, the others wait for   *)
(* it, and where it has been done before they return.                      *)
RunOnce(t) ==
  /\ pc[t] = "flag"
  /\ once = "fresh"
  /\ once' = "running"
  /\ Goto(t, "cuda")
  /\ UNCHANGED <<down, engaged, opened, lost, calls>>

AlreadyDone(t) ==
  /\ pc[t] = "flag"
  /\ once = "done"
  /\ Goto(t, "out")
  /\ UNCHANGED <<once, down, engaged, opened, lost, calls>>

\* A flag that an exception leaves behind as if it were still running.
FlagAfterThrowRunning == "running"

(* An exception leaves the flag as it was: another caller may try again.   *)
FlagAfterThrow == "fresh"

Throw(t) ==
  /\ once' = FlagAfterThrow
  /\ Goto(t, "out")

(* What follows once library l is there. *)
After == [cuda |-> "start", nvrtc |-> "nvjitlink", nvjitlink |-> "out"]

\* A new instance that forgets the handle of the one it replaces.
HandlesOnEmplaceKept(l) == opened[l] + 1

(* The new handle is opened before emplace() destroys the instance that an *)
(* earlier, failed initialization has left, and closes its handle.         *)
HandlesOnEmplace(l) == IF engaged[l] THEN opened[l] ELSE opened[l] + 1

LoadLib(t, l) ==
  /\ pc[t] = l
  /\ engaged' = [engaged EXCEPT ![l] = TRUE]
  /\ opened' = [opened EXCEPT ![l] = HandlesOnEmplace(l)]
  /\ Goto(t, After[l])
  /\ once' = IF After[l] = "out" THEN "done" ELSE once
  /\ UNCHANGED <<down, lost, calls>>

(* load_dso finds no file of that name, or not of the expected version. *)
OpenFails(t, l) ==
  /\ "open" \in Faults
  /\ pc[t] = l
  /\ Throw(t)
  /\ UNCHANGED <<down, engaged, opened, lost, calls>>

(* A symbol is missing: the constructor throws, so the destructor does not *)
(* run, and the new handle stays open with nobody to close it.             *)
SymbolMissing(t, l) ==
  /\ "symbols" \in Faults
  /\ pc[t] = l
  /\ engaged' = [engaged EXCEPT ![l] = FALSE]
  /\ opened' = [opened EXCEPT ![l] = HandlesOnEmplace(l)]
  /\ lost' = [lost EXCEPT ![l] = @ + 1]
  /\ Throw(t)
  /\ UNCHANGED <<down, calls>>

StartCuda(t) ==
  /\ pc[t] = "start"
  /\ \/ Goto(t, "nvrtc") /\ UNCHANGED once
     \/ "init" \in Faults /\ Throw(t)
  /\ UNCHANGED <<down, engaged, opened, lost, calls>>

-----------------------------------------------------------------------------
(* teardown() *)

\* A handle that is closed whether there is an instance or not.
HandlesAfterResetAlways(l) == opened[l] - 1

(* reset() of an optional; an empty one stays as it is. *)
HandlesAfterReset(l) == IF engaged[l] THEN opened[l] - 1 ELSE opened[l]

\* A teardown after which initialize() thinks that everything is there.
InitFlagAfterTeardownKept == once

InitFlagAfterTeardown == "fresh"

(* The flag is destroyed and made anew inside the call_once that uses it,  *)
(* which the standard leaves undefined; in the usual implementations       *)
(* call_once then marks the new flag, at the old address, as done.         *)
TeardownFlags == {"fresh", "done"}

Teardown(t) ==
  /\ \A u \in Threads : pc[u] = "out"
  /\ CountCall(t)
  /\ down = "fresh"
  /\ engaged' = [l \in Libs |-> FALSE]
  /\ opened' = [l \in Libs |-> HandlesAfterReset(l)]
  /\ once' = InitFlagAfterTeardown
  /\ down' \in TeardownFlags
  /\ UNCHANGED <<lost, pc>>

(* call_once with a flag that is done already. *)
TeardownSkipped(t) ==
  /\ \A u \in Threads : pc[u] = "out"
  /\ CountCall(t)
  /\ down = "done"
  /\ UNCHANGED <<once, down, engaged, opened, lost, pc>>

(* The calls the bound allows are all over. *)
Quiescent ==
  /\ \A t \in Threads : pc[t] = "out" /\ calls[t] = MaxCalls
  /\ UNCHANGED vars

Advance(t) ==
  \/ RunOnce(t) \/ AlreadyDone(t) \/ StartCuda(t)
  \/ \E l \in Libs : LoadLib(t, l) \/ OpenFails(t, l) \/ SymbolMissing(t, l)

Next ==
  \/ \E t \in Threads :
       Initialize(t) \/ Advance(t) \/ Teardown(t) \/ TeardownSkipped(t)
  \/ Quiescent

Spec == Init /\ [][Next]_vars

(* A thread inside initialize() is scheduled in the end. *)
FairSpec == Spec /\ \A t \in Threads : WF_vars(Advance(t))

-----------------------------------------------------------------------------
(* Whenever the flag lets a call of initialize() return at once, all three *)
(* libraries are there, through failed and repeated initializations and    *)
(* through teardowns ("other RTCX functions should not be used unless      *)
(* initialize() is called again"): no caller goes on without them.         *)
DoneMeansLoaded == once = "done" => \A l \in Libs : engaged[l]

(* Every handle that dlopen gave is owned by the one instance that will    *)
(* close it, also when an initialization stops half-way and is tried       *)
(* again, save those that a missing symbol has left behind (LibCuda,       *)
(* LibNVRTC, LibNVJitLink).                                                *)
HandlesBalanced ==
  \A l \in Libs : opened[l] = lost[l] + IF engaged[l] THEN 1 ELSE 0

(* Every call of initialize() ends: those that wait for the one that runs  *)
(* the initialization take over when it throws.                            *)
CallsReturn == \A t \in Threads : pc[t] # "out" ~> pc[t] = "out"

(* "Teardown the RTCX library, releasing any resources" (rtcx.hpp,         *)
(* teardown): after each call of teardown() no library is loaded.          *)
TeardownReleases ==
  [][(\E t \in Threads : Teardown(t) \/ TeardownSkipped(t))
       => \A l \in Libs : ~engaged'[l]]_vars
=============================================================================
