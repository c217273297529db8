--------------------------- MODULE ToolchainProofs ---------------------------
(* Proofs about the life cycle and about the toolchain that uses it, for   *)
(* any number of threads and calls, any arguments and any handles of the   *)
(* driver.                                                                 *)
EXTENDS Toolchain, SequenceTheorems, TLAPS

-----------------------------------------------------------------------------
(* The life cycle by itself.                                               *)

(* What the thread that runs the initialization has loaded before the step *)
(* it is at.                                                               *)
Loaded(l, step) ==
  \/ l = "cuda" /\ step \in {"start", "nvrtc", "nvjitlink"}
  \/ l = "nvrtc" /\ step = "nvjitlink"

(* One thread runs the initialization, and only while the flag says so.    *)
OneRunner ==
  /\ \A t \in Threads : pc[t] \in Running => once = "running"
  /\ \A t, u \in Threads : pc[t] \in Running /\ pc[u] \in Running => t = u

LoadedSoFar ==
  \A t \in Threads, l \in Libs :
    pc[t] \in Running /\ Loaded(l, pc[t]) => engaged[l]

(* An instance in an optional has its handle. *)
EngagedOpen == \A l \in Libs : engaged[l] => opened[l] > 0

IInv == TypeOK /\ OneRunner /\ LoadedSoFar /\ EngagedOpen /\ DoneMeansLoaded

LEMMA InvariantInit == Init => IInv
BY DEF Init, IInv, TypeOK, OneRunner, LoadedSoFar, EngagedOpen, DoneMeansLoaded,
       Steps, Running, Libs

LEMMA InvariantNext == IInv /\ [Next]_vars => IInv'
<1> SUFFICES ASSUME IInv, [Next]_vars PROVE IInv'
  OBVIOUS
<1> USE LifecycleAssumption
    DEF IInv, TypeOK, OneRunner, LoadedSoFar, EngagedOpen, DoneMeansLoaded, Steps,
        Running, Goto, CountCall, Throw, FlagAfterThrow
<1>1. ASSUME NEW t \in Threads, Initialize(t) PROVE IInv'
  BY <1>1 DEF Initialize, Libs, Loaded
<1>2. ASSUME NEW t \in Threads, RunOnce(t) PROVE IInv'
  BY <1>2 DEF RunOnce, Libs, Loaded
<1>3. ASSUME NEW t \in Threads, AlreadyDone(t) PROVE IInv'
  BY <1>3 DEF AlreadyDone, Libs, Loaded
<1>4. ASSUME NEW t \in Threads, StartCuda(t) PROVE IInv'
  BY <1>4 DEF StartCuda, Libs, Loaded
<1>5. ASSUME NEW t \in Threads, NEW l \in Libs, LoadLib(t, l) PROVE IInv'
  BY <1>5 DEF LoadLib, HandlesOnEmplace, After, Libs, Loaded
<1>6. ASSUME NEW t \in Threads, NEW l \in Libs, OpenFails(t, l) PROVE IInv'
  BY <1>6 DEF OpenFails, Libs, Loaded
<1>7. ASSUME NEW t \in Threads, NEW l \in Libs, SymbolMissing(t, l) PROVE IInv'
  BY <1>7 DEF SymbolMissing, HandlesOnEmplace, Libs, Loaded
<1>8. ASSUME NEW t \in Threads, Teardown(t) PROVE IInv'
  BY <1>8 DEF Teardown, HandlesAfterReset, InitFlagAfterTeardown, TeardownFlags, Libs, Loaded
<1>9. ASSUME NEW t \in Threads, TeardownSkipped(t) PROVE IInv'
  BY <1>9 DEF TeardownSkipped, Libs, Loaded
<1>10. CASE UNCHANGED vars
  BY <1>10 DEF vars
<1> QED
  BY <1>1, <1>2, <1>3, <1>4, <1>5, <1>6, <1>7, <1>8, <1>9, <1>10
  DEF Next, Advance, Quiescent

LEMMA Invariance == Spec => []IInv
BY InvariantInit, InvariantNext, PTL DEF Spec

(* The state is well typed; in particular no library is closed more often  *)
(* than it was opened.                                                     *)
THEOREM TypeCorrect == Spec => []TypeOK
<1>1. IInv => TypeOK
  BY DEF IInv
<1> QED BY <1>1, Invariance, PTL

(* No call of initialize() returns normally without the three libraries.   *)
THEOREM InitializedMeansLoaded == Spec => []DoneMeansLoaded
<1>1. IInv => DoneMeansLoaded
  BY DEF IInv
<1> QED BY <1>1, Invariance, PTL

(* Every open handle has its one instance, or was lost to a missing symbol. *)
THEOREM HandlesOwned == Spec => []HandlesBalanced
<1>1. Init => HandlesBalanced
  BY DEF Init, HandlesBalanced
<1>2. TypeOK /\ HandlesBalanced /\ [Next]_vars => HandlesBalanced'
  BY DEF HandlesBalanced, TypeOK, Next, Advance, Initialize, RunOnce, AlreadyDone,
         StartCuda, LoadLib, HandlesOnEmplace, OpenFails, SymbolMissing, Teardown,
         HandlesAfterReset, TeardownSkipped, Quiescent, vars
<1> QED BY <1>1, <1>2, TypeCorrect, PTL DEF Spec

-----------------------------------------------------------------------------
(* The toolchain uses initialize() and teardown() as the life cycle has    *)
(* them, and does nothing to what they keep.                               *)

LEMMA StepIsLifecycles ==
  ASSUME [ToolchainNext]_allVars PROVE [Next]_vars
BY DEF ToolchainNext, InitializeStep, TeardownStep, Start, JobStep, Call, Reports,
       EmptyLog, Check, LoadModule, Wrap, Return, Throws, Terminates, Collect,
       Share, Drop, Stopped, Next, allVars

(* What holds of every history of the life cycle holds of the toolchain's. *)
THEOREM UsesTheLifecycle == ToolchainSpec => Spec
<1>1. ToolchainInit => Init
  BY DEF ToolchainInit
<1> QED BY <1>1, StepIsLifecycles, PTL DEF ToolchainSpec, Spec

(* Whoever is let through by initialize() finds all three libraries, with  *)
(* the functions of the toolchain in use between teardowns.                *)
THEOREM UsersFindLibraries == ToolchainSpec => []DoneMeansLoaded
BY UsesTheLifecycle, InitializedMeansLoaded, PTL

(* No handle of dlopen is closed twice or forgotten, but for those that a  *)
(* missing symbol leaves behind (load_dso, teardown).                      *)
THEOREM UsersLoseNoHandle == ToolchainSpec => []HandlesBalanced
BY UsesTheLifecycle, HandlesOwned, PTL

-----------------------------------------------------------------------------
(* Sequences of calls                                                      *)

Logs == {"GetProgramLog", "GetInfoLog", "GetErrorLog"}
Calls == External \cup Checks \cup {"make_shared", "Unsupported"}

(* The size of a log is followed by the log, a compile or a link by its    *)
(* check, and nothing is created but by the first call.                    *)
WellFormed(s) ==
  /\ s \in Seq(Calls)
  /\ \A i \in 1..Len(s) : s[i] \in LogSizes => i < Len(s) /\ s[i + 1] \in Logs
  /\ \A i \in 1..Len(s) :
       s[i] \in Verdicts => \E j \in 1..Len(s) : j > i /\ s[j] \in Checks
  /\ \A i \in 1..Len(s) : i > 1 => s[i] \notin Creates

CreatesNothing(s) == \A i \in 1..Len(s) : s[i] \notin Creates
IsChecked(s) == \E i \in 1..Len(s) : s[i] \in Checks

(* What a function of each kind calls. *)
Belongs(call, op) ==
  /\ call \in ModuleCalls => op \in OnModule
  /\ call \in LoadCalls \cup {"make_shared"} => op \in Loads
  /\ call \in Creates \cup Verdicts \cup Checks => op \in {"compile", "link"}

AllBelong(s, op) == \A i \in 1..Len(s) : Belongs(s[i], op)

LEMMA WellFormedConcat ==
  ASSUME NEW a, NEW b, WellFormed(a), WellFormed(b), CreatesNothing(b)
  PROVE  WellFormed(a \o b)
<1> DEFINE c == a \o b
<1>1. /\ a \in Seq(Calls) /\ b \in Seq(Calls) /\ c \in Seq(Calls)
      /\ Len(a) \in Nat /\ Len(b) \in Nat /\ Len(c) = Len(a) + Len(b)
      /\ \A i \in 1..Len(a) : c[i] = a[i]
      /\ \A i \in 1..Len(b) : c[Len(a) + i] = b[i]
  BY DEF WellFormed
<1>2. \A i \in 1..Len(c) : i <= Len(a) \/ \E j \in 1..Len(b) : i = Len(a) + j
  <2> SUFFICES ASSUME NEW i \in 1..Len(c), ~ (i <= Len(a))
               PROVE  \E j \in 1..Len(b) : i = Len(a) + j
    OBVIOUS
  <2>1. i - Len(a) \in 1..Len(b) /\ i = Len(a) + (i - Len(a))
    BY <1>1
  <2> QED BY <2>1
<1> HIDE DEF c
<1>3. ASSUME NEW i \in 1..Len(c), c[i] \in LogSizes
      PROVE  i < Len(c) /\ c[i + 1] \in Logs
  <2>1. CASE i <= Len(a)
    <3>1. a[i] \in LogSizes /\ i \in 1..Len(a)
      BY <2>1, <1>1, <1>3
    <3>2. i < Len(a) /\ a[i + 1] \in Logs
      BY <3>1 DEF WellFormed
    <3> QED BY <3>2, <1>1
  <2>2. ASSUME NEW j \in 1..Len(b), i = Len(a) + j PROVE i < Len(c) /\ c[i + 1] \in Logs
    <3>1. b[j] \in LogSizes
      BY <2>2, <1>1, <1>3
    <3>2. j < Len(b) /\ b[j + 1] \in Logs
      BY <3>1 DEF WellFormed
    <3>3. j + 1 \in 1..Len(b) /\ i + 1 = Len(a) + (j + 1) /\ i < Len(c)
      BY <2>2, <3>2, <1>1
    <3> QED BY <3>2, <3>3, <1>1
  <2> QED BY <2>1, <2>2, <1>2
<1>4. ASSUME NEW i \in 1..Len(c), c[i] \in Verdicts
      PROVE  \E j \in 1..Len(c) : j > i /\ c[j] \in Checks
  <2>1. CASE i <= Len(a)
    <3>1. a[i] \in Verdicts /\ i \in 1..Len(a)
      BY <2>1, <1>1, <1>4
    <3>2. PICK j \in 1..Len(a) : j > i /\ a[j] \in Checks
      BY <3>1 DEF WellFormed
    <3>3. j \in 1..Len(c) /\ c[j] = a[j]
      BY <3>2, <1>1
    <3> QED BY <3>2, <3>3
  <2>2. ASSUME NEW k \in 1..Len(b), i = Len(a) + k
        PROVE  \E j \in 1..Len(c) : j > i /\ c[j] \in Checks
    <3>1. b[k] \in Verdicts
      BY <2>2, <1>1, <1>4
    <3>2. PICK j \in 1..Len(b) : j > k /\ b[j] \in Checks
      BY <3>1 DEF WellFormed
    <3>3. Len(a) + j \in 1..Len(c) /\ Len(a) + j > i /\ c[Len(a) + j] = b[j]
      BY <2>2, <3>2, <1>1
    <3> QED BY <3>2, <3>3
  <2> QED BY <2>1, <2>2, <1>2
<1>5. ASSUME NEW i \in 1..Len(c), i > 1 PROVE c[i] \notin Creates
  <2>1. CASE i <= Len(a)
    BY <2>1, <1>1, <1>5 DEF WellFormed
  <2>2. ASSUME NEW j \in 1..Len(b), i = Len(a) + j PROVE c[i] \notin Creates
    BY <2>2, <1>1 DEF CreatesNothing
  <2> QED BY <2>1, <2>2, <1>2
<1>6. WellFormed(c)
  BY <1>1, <1>3, <1>4, <1>5 DEF WellFormed
<1> QED BY <1>6 DEF c

LEMMA WellFormedOne ==
  ASSUME NEW c \in Calls, c \notin LogSizes, c \notin Verdicts
  PROVE  WellFormed(<<c>>)
BY DEF WellFormed

LEMMA WellFormedTimes ==
  ASSUME NEW c \in Calls, c \notin LogSizes, c \notin Verdicts, c \notin Creates,
         NEW n \in Nat
  PROVE  /\ WellFormed(Times(c, n))
         /\ CreatesNothing(Times(c, n))
         /\ \A op : Belongs(c, op) => AllBelong(Times(c, n), op)
<1>1. /\ Times(c, n) \in Seq(Calls)
      /\ Len(Times(c, n)) = n
      /\ \A i \in 1..n : Times(c, n)[i] = c
  BY DEF Times
<1> QED BY <1>1 DEF WellFormed, CreatesNothing, AllBelong

LEMMA AllBelongConcat ==
  ASSUME NEW a \in Seq(Calls), NEW b \in Seq(Calls), NEW op,
         AllBelong(a, op), AllBelong(b, op)
  PROVE  AllBelong(a \o b, op)
<1>1. ASSUME NEW i \in 1..Len(a \o b) PROVE Belongs((a \o b)[i], op)
  <2>1. CASE i <= Len(a)
    <3>1. i \in 1..Len(a) /\ (a \o b)[i] = a[i]
      BY <2>1, <1>1
    <3> QED BY <3>1 DEF AllBelong
  <2>2. CASE ~ (i <= Len(a))
    <3>1. i - Len(a) \in 1..Len(b) /\ (a \o b)[i] = b[i - Len(a)]
      BY <2>2, <1>1
    <3> QED BY <3>1 DEF AllBelong
  <2> QED BY <2>1, <2>2
<1> QED BY <1>1 DEF AllBelong

LEMMA WellFormedTail ==
  ASSUME NEW s, WellFormed(s), s # <<>>
  PROVE  /\ WellFormed(Tail(s))
         /\ CreatesNothing(Tail(s))
         /\ IsChecked(s) /\ Head(s) \notin Checks => IsChecked(Tail(s))
         /\ Head(s) \in Verdicts => IsChecked(Tail(s))
         /\ Head(s) \in LogSizes => Tail(s) # <<>> /\ Head(Tail(s)) \in Logs
         /\ \A op : AllBelong(s, op) => AllBelong(Tail(s), op)
<1> DEFINE r == Tail(s)
<1>1. /\ s \in Seq(Calls) /\ r \in Seq(Calls)
      /\ Len(s) \in Nat /\ Len(s) > 0 /\ Len(r) = Len(s) - 1
      /\ Head(s) = s[1]
      /\ \A i \in 1..Len(r) : r[i] = s[i + 1]
  BY DEF WellFormed
<1>2. \A i \in 1..Len(r) : i + 1 \in 1..Len(s)
  BY <1>1
<1>3. ASSUME NEW j \in 1..Len(s), j > 1
      PROVE  j - 1 \in 1..Len(r) /\ r[j - 1] = s[j]
  BY <1>1, <1>3
<1>4. r # <<>> => Head(r) = r[1] /\ Len(r) > 0
  BY <1>1
<1>5. r = <<>> <=> Len(r) = 0
  BY <1>1, EmptySeq
<1> HIDE DEF r
<1>6. ASSUME NEW i \in 1..Len(r), r[i] \in LogSizes
      PROVE  i < Len(r) /\ r[i + 1] \in Logs
  <2>1. i + 1 < Len(s) /\ s[i + 2] \in Logs
    BY <1>1, <1>2, <1>6 DEF WellFormed
  <2>2. i < Len(r) /\ i + 1 \in 1..Len(r)
    BY <2>1, <1>1
  <2> QED BY <2>1, <2>2, <1>1
<1>7. ASSUME NEW i \in 1..Len(r), r[i] \in Verdicts
      PROVE  \E j \in 1..Len(r) : j > i /\ r[j] \in Checks
  <2>1. PICK j \in 1..Len(s) : j > i + 1 /\ s[j] \in Checks
    BY <1>1, <1>2, <1>7 DEF WellFormed
  <2>2. j - 1 \in 1..Len(r) /\ r[j - 1] \in Checks /\ j - 1 > i
    BY <2>1, <1>3
  <2> QED BY <2>2
<1>8. \A i \in 1..Len(r) : r[i] \notin Creates
  BY <1>1, <1>2 DEF WellFormed
<1>9. ASSUME NEW j \in 1..Len(s), j > 1, s[j] \in Checks
      PROVE  IsChecked(r)
  BY <1>3, <1>9 DEF IsChecked
<1>10. IsChecked(s) /\ Head(s) \notin Checks => IsChecked(r)
  <2> SUFFICES ASSUME IsChecked(s), Head(s) \notin Checks PROVE IsChecked(r)
    OBVIOUS
  <2>1. PICK j \in 1..Len(s) : s[j] \in Checks
    BY DEF IsChecked
  <2>2. j > 1
    BY <2>1, <1>1
  <2> QED BY <2>1, <2>2, <1>9
<1>11. Head(s) \in Verdicts => IsChecked(r)
  BY <1>1, <1>9 DEF WellFormed
<1>12. Head(s) \in LogSizes => r # <<>> /\ Head(r) \in Logs
  <2> SUFFICES ASSUME Head(s) \in LogSizes PROVE r # <<>> /\ Head(r) \in Logs
    OBVIOUS
  <2>1. 1 < Len(s) /\ s[2] \in Logs
    BY <1>1 DEF WellFormed
  <2>2. Len(r) > 0 /\ r[1] = s[2]
    BY <2>1, <1>1
  <2> QED BY <2>1, <2>2, <1>4, <1>5
<1>13. \A op : AllBelong(s, op) => AllBelong(r, op)
  BY <1>1, <1>2 DEF AllBelong
<1>14. WellFormed(r)
  BY <1>1, <1>6, <1>7, <1>8 DEF WellFormed
<1> QED BY <1>8, <1>10, <1>11, <1>12, <1>13, <1>14 DEF CreatesNothing, r

(* The sequences of the functions.                                         *)
CompileMiddle == <<"CompileProgram", "GetProgramLogSize", "GetProgramLog", "CheckCompile">>
LinkMiddle == <<"Complete", "GetInfoLogSize", "GetInfoLog",
                "GetErrorLogSize", "GetErrorLog", "CheckLink">>

LEMMA Middles ==
  /\ WellFormed(CompileMiddle) /\ CreatesNothing(CompileMiddle)
  /\ AllBelong(CompileMiddle, "compile")
  /\ WellFormed(LinkMiddle) /\ CreatesNothing(LinkMiddle)
  /\ AllBelong(LinkMiddle, "link")
<1> USE DEF Calls, External, NvrtcCalls, LinkCalls, Checks, LogSizes, Logs, Verdicts,
            Creates, LoadCalls, ModuleCalls
<1>1. CompileMiddle \in Seq(Calls) /\ LinkMiddle \in Seq(Calls)
  BY DEF CompileMiddle, LinkMiddle
<1>2. /\ Len(CompileMiddle) = 4
      /\ CompileMiddle[1] = "CompileProgram" /\ CompileMiddle[2] = "GetProgramLogSize"
      /\ CompileMiddle[3] = "GetProgramLog" /\ CompileMiddle[4] = "CheckCompile"
  BY DEF CompileMiddle
<1>3. /\ Len(LinkMiddle) = 6
      /\ LinkMiddle[1] = "Complete" /\ LinkMiddle[2] = "GetInfoLogSize"
      /\ LinkMiddle[3] = "GetInfoLog" /\ LinkMiddle[4] = "GetErrorLogSize"
      /\ LinkMiddle[5] = "GetErrorLog" /\ LinkMiddle[6] = "CheckLink"
  BY DEF LinkMiddle
<1>4. 1..4 = {1, 2, 3, 4} /\ 1..6 = {1, 2, 3, 4, 5, 6}
  OBVIOUS
<1>5. WellFormed(CompileMiddle) /\ CreatesNothing(CompileMiddle)
  BY <1>1, <1>2, <1>4 DEF WellFormed, CreatesNothing
<1>6. WellFormed(LinkMiddle) /\ CreatesNothing(LinkMiddle)
  BY <1>1, <1>3, <1>4 DEF WellFormed, CreatesNothing
<1>7. AllBelong(CompileMiddle, "compile") /\ AllBelong(LinkMiddle, "link")
  BY <1>2, <1>3, <1>4 DEF AllBelong, Belongs
<1> QED BY <1>5, <1>6, <1>7

LEMMA Retrieves ==
  ASSUME NEW size \in Calls, NEW get \in Calls, NEW type, NEW op,
         {size, get} \cap (LogSizes \cup Verdicts \cup Creates) = {},
         Belongs(size, op), Belongs(get, op)
  PROVE  /\ WellFormed(Retrieve(type, size, get))
         /\ CreatesNothing(Retrieve(type, size, get))
         /\ AllBelong(Retrieve(type, size, get), op)
<1>1. CASE type \in Produces
  <2> DEFINE s == <<size, get>>
  <2>1. s \in Seq(Calls) /\ Len(s) = 2 /\ s[1] = size /\ s[2] = get
    OBVIOUS
  <2> HIDE DEF s
  <2>2. \A i \in 1..Len(s) : s[i] \in {size, get}
    BY <2>1
  <2>3. WellFormed(s) /\ CreatesNothing(s) /\ AllBelong(s, op)
    BY <2>1, <2>2 DEF WellFormed, CreatesNothing, AllBelong
  <2> QED BY <1>1, <2>3 DEF Retrieve, s
<1>2. CASE type \notin Produces
  <2> DEFINE s == <<"Unsupported">>
  <2>1. s \in Seq(Calls) /\ Len(s) = 1 /\ s[1] = "Unsupported"
    BY DEF Calls
  <2> HIDE DEF s
  <2>2. "Unsupported" \notin LogSizes \cup Verdicts \cup Creates \cup Checks
                              \cup ModuleCalls \cup LoadCalls
    BY DEF LogSizes, Verdicts, Creates, Checks, ModuleCalls, LoadCalls
  <2>3. \A i \in 1..Len(s) : s[i] = "Unsupported"
    BY <2>1
  <2>4. Belongs("Unsupported", op)
    BY <2>2 DEF Belongs
  <2>5. WellFormed(s) /\ CreatesNothing(s) /\ AllBelong(s, op)
    BY <2>1, <2>2, <2>3, <2>4 DEF WellFormed, CreatesNothing, AllBelong
  <2> QED BY <1>2, <2>5 DEF Retrieve, s
<1> QED BY <1>1, <1>2

LEMMA FirstOfConcat ==
  ASSUME NEW a \in Seq(Calls), NEW b \in Seq(Calls), a # <<>>
  PROVE  a \o b # <<>> /\ Head(a \o b) = Head(a)
<1>1. Len(a) >= 1
  BY EmptySeq
<1>2. a \o b \in Seq(Calls) /\ Len(a \o b) >= 1 /\ (a \o b)[1] = a[1]
  BY <1>1
<1> QED BY <1>2, EmptySeq

LEMMA Scripts ==
  ASSUME NEW r \in Requests
  PROVE  /\ WellFormed(Script(r))
         /\ AllBelong(Script(r), r.op)
         /\ r.op \in {"compile", "link"}
              => Script(r) # <<>> /\ Head(Script(r)) \in Creates
         /\ r.op \in Loads => \E c \in LoadCalls : Script(r) = <<c, "make_shared">>
         /\ r.op \notin {"compile", "link"} => CreatesNothing(Script(r))
<1>1. CASE r.op = "compile"
  <2> DEFINE a == <<"CreateProgram">>
             b == Times("AddNameExpression", r.names)
             d == Retrieve(r.target, "GetCodeSize", "GetCode")
  <2>1. Script(r) = ((a \o b) \o CompileMiddle) \o d
    BY <1>1 DEF Script, CompileScript, CompileMiddle
  <2>2. WellFormed(a) /\ a # <<>> /\ Head(a) = "CreateProgram" /\ AllBelong(a, "compile")
    BY WellFormedOne DEF AllBelong, Belongs, Calls, External, NvrtcCalls, LinkCalls, Checks, LogSizes, Verdicts,
              Creates, LoadCalls, ModuleCalls
  <2>3. WellFormed(b) /\ CreatesNothing(b) /\ AllBelong(b, "compile")
    <3>1. r.names \in Nat
      BY <1>1, ToolchainAssumption
    <3>2. /\ "AddNameExpression" \in Calls \ (LogSizes \cup Verdicts \cup Creates)
          /\ Belongs("AddNameExpression", "compile")
      BY DEF Belongs, Calls, External, NvrtcCalls, LinkCalls, Checks, LogSizes, Verdicts,
              Creates, LoadCalls, ModuleCalls
    <3> QED BY <3>1, <3>2, WellFormedTimes
  <2>4. WellFormed(d) /\ CreatesNothing(d) /\ AllBelong(d, "compile")
    <3>1. /\ {"GetCodeSize", "GetCode"} \subseteq Calls
          /\ {"GetCodeSize", "GetCode"} \cap (LogSizes \cup Verdicts \cup Creates) = {}
          /\ Belongs("GetCodeSize", "compile") /\ Belongs("GetCode", "compile")
      BY DEF Belongs, Calls, External, NvrtcCalls, LinkCalls, Checks, LogSizes, Verdicts,
              Creates, LoadCalls, ModuleCalls
    <3> QED BY <3>1, Retrieves
  <2> HIDE DEF a, b, d
  <2>5. WellFormed(a \o b) /\ AllBelong(a \o b, "compile")
    BY <2>2, <2>3, WellFormedConcat, AllBelongConcat DEF WellFormed
  <2>6. /\ WellFormed((a \o b) \o CompileMiddle)
        /\ AllBelong((a \o b) \o CompileMiddle, "compile")
    BY <2>5, Middles, WellFormedConcat, AllBelongConcat DEF WellFormed
  <2>7. WellFormed(Script(r)) /\ AllBelong(Script(r), "compile")
    BY <2>1, <2>4, <2>6, WellFormedConcat, AllBelongConcat DEF WellFormed
  <2>8. Script(r) # <<>> /\ Head(Script(r)) = "CreateProgram"
    BY <2>1, <2>2, <2>3, <2>4, <2>5, <2>6, Middles, FirstOfConcat DEF WellFormed
  <2> QED BY <1>1, <2>7, <2>8 DEF Loads, Creates
<1>2. CASE r.op = "link"
  <2> DEFINE a == <<"Create">>
             b == Times("AddFile", Len(r.files))
             c == Times("AddData", Len(r.data))
             d == Retrieve(r.output, "GetLinkedSize", "GetLinked")
  <2>1. Script(r) = (((a \o b) \o c) \o LinkMiddle) \o d
    BY <1>2 DEF Script, LinkScript, LinkMiddle
  <2>2. WellFormed(a) /\ a # <<>> /\ Head(a) = "Create" /\ AllBelong(a, "link")
    BY WellFormedOne DEF AllBelong, Belongs, Calls, External, NvrtcCalls, LinkCalls, Checks, LogSizes, Verdicts,
              Creates, LoadCalls, ModuleCalls
  <2>3. Len(r.files) \in Nat /\ Len(r.data) \in Nat
    BY <1>2, ToolchainAssumption
  <2>4. /\ WellFormed(b) /\ CreatesNothing(b) /\ AllBelong(b, "link")
        /\ WellFormed(c) /\ CreatesNothing(c) /\ AllBelong(c, "link")
    <3>1. /\ {"AddFile", "AddData"} \subseteq Calls \ (LogSizes \cup Verdicts \cup Creates)
          /\ Belongs("AddFile", "link") /\ Belongs("AddData", "link")
      BY DEF Belongs, Calls, External, NvrtcCalls, LinkCalls, Checks, LogSizes, Verdicts,
              Creates, LoadCalls, ModuleCalls
    <3> QED BY <2>3, <3>1, WellFormedTimes
  <2>5. WellFormed(d) /\ CreatesNothing(d) /\ AllBelong(d, "link")
    <3>1. /\ {"GetLinkedSize", "GetLinked"} \subseteq Calls
          /\ {"GetLinkedSize", "GetLinked"} \cap (LogSizes \cup Verdicts \cup Creates) = {}
          /\ Belongs("GetLinkedSize", "link") /\ Belongs("GetLinked", "link")
      BY DEF Belongs, Calls, External, NvrtcCalls, LinkCalls, Checks, LogSizes, Verdicts,
              Creates, LoadCalls, ModuleCalls
    <3> QED BY <3>1, Retrieves
  <2> HIDE DEF a, b, c, d
  <2>6. WellFormed(a \o b) /\ AllBelong(a \o b, "link")
    BY <2>2, <2>4, WellFormedConcat, AllBelongConcat DEF WellFormed
  <2>7. WellFormed((a \o b) \o c) /\ AllBelong((a \o b) \o c, "link")
    BY <2>4, <2>6, WellFormedConcat, AllBelongConcat DEF WellFormed
  <2>8. /\ WellFormed(((a \o b) \o c) \o LinkMiddle)
        /\ AllBelong(((a \o b) \o c) \o LinkMiddle, "link")
    BY <2>7, Middles, WellFormedConcat, AllBelongConcat DEF WellFormed
  <2>9. WellFormed(Script(r)) /\ AllBelong(Script(r), "link")
    BY <2>1, <2>5, <2>8, WellFormedConcat, AllBelongConcat DEF WellFormed
  <2>10. Script(r) # <<>> /\ Head(Script(r)) = "Create"
    BY <2>1, <2>2, <2>4, <2>5, <2>6, <2>7, <2>8, Middles, FirstOfConcat DEF WellFormed
  <2> QED BY <1>2, <2>9, <2>10 DEF Loads, Creates
<1>3. CASE r.op \in Loads
  <2>1. PICK c \in LoadCalls : Script(r) = <<c, "make_shared">>
    BY <1>3 DEF Loads, Script, LoadCalls
  <2> DEFINE s == <<c, "make_shared">>
  <2>2. s \in Seq(Calls) /\ Len(s) = 2 /\ s[1] = c /\ s[2] = "make_shared"
    BY DEF Calls, External
  <2> HIDE DEF s
  <2>3. \A i \in 1..Len(s) : s[i] \in {c, "make_shared"}
    BY <2>2
  <2>4. WellFormed(s) /\ CreatesNothing(s) /\ AllBelong(s, r.op)
    <3>1. /\ {c, "make_shared"} \cap (LogSizes \cup Verdicts \cup Creates \cup Checks \cup ModuleCalls) = {}
          /\ Belongs(c, r.op) /\ Belongs("make_shared", r.op)
      BY <1>3 DEF Belongs, Calls, External, NvrtcCalls, LinkCalls, Checks, LogSizes, Verdicts,
              Creates, LoadCalls, ModuleCalls
    <3> QED BY <2>2, <2>3, <3>1 DEF WellFormed, CreatesNothing, AllBelong
  <2> QED BY <1>3, <2>1, <2>4 DEF Loads, s
<1>4. CASE r.op \in OnModule \cup Versions
  <2>1. PICK c \in ModuleCalls \cup {"nvrtcVersion", "nvJitLinkVersion"} :
          Script(r) = <<c>> /\ Belongs(c, r.op)
    BY <1>4 DEF OnModule, Launches, Versions, Script, Belongs, Calls, External, NvrtcCalls, LinkCalls, Checks, LogSizes, Verdicts,
         Creates, LoadCalls, ModuleCalls
  <2> DEFINE s == <<c>>
  <2>2. s \in Seq(Calls) /\ Len(s) = 1 /\ s[1] = c
    BY DEF Calls, External, NvrtcCalls, LinkCalls
  <2> HIDE DEF s
  <2>3. \A i \in 1..Len(s) : s[i] = c
    BY <2>2
  <2>4. WellFormed(s) /\ CreatesNothing(s) /\ AllBelong(s, r.op)
    <3>1. c \notin LogSizes \cup Verdicts \cup Creates
      BY DEF NvrtcCalls, LinkCalls, Checks, LogSizes, Verdicts,
              Creates, LoadCalls, ModuleCalls
    <3> QED BY <2>1, <2>2, <2>3, <3>1 DEF WellFormed, CreatesNothing, AllBelong
  <2>5. r.op \notin {"compile", "link"} \cup Loads
    BY <1>4 DEF OnModule, Launches, Versions, Loads
  <2> QED BY <2>1, <2>4, <2>5 DEF s
<1> QED BY <1>1, <1>2, <1>3, <1>4, ToolchainAssumption

-----------------------------------------------------------------------------
(* The invariant                                                           *)

Jobs ==
  [at : {"idle", "running", "returned", "threw"}, req : Requests \cup {None},
   todo : Seq(Calls), verdict : {"ok", "error"}, failed : BOOLEAN,
   module : Modules \cup {None}]

ToolTyped ==
  /\ job \in [Threads -> Jobs]
  /\ handles \subseteq Threads
  /\ modules \subseteq Modules
  /\ refs \in [Modules -> SUBSET Threads]
  /\ ready \in BOOLEAN
  /\ dead \in BOOLEAN
  /\ uses \in [Threads -> Nat]

(* What holds of a function that runs, at any of its calls.                *)
RunningOK(t) ==
  LET j == job[t] IN
  /\ ready
  /\ j.req \in Requests
  /\ Accepted(j.req)
  /\ WellFormed(j.todo)
  /\ AllBelong(j.todo, j.req.op)
  /\ j.failed <=> j.verdict = "error"
  /\ j.failed => IsChecked(j.todo)

HandleOK(t) ==
  IF Busy(t) /\ job[t].req.op \in {"compile", "link"}
  THEN IF t \in handles THEN CreatesNothing(job[t].todo)
       ELSE job[t].todo # <<>> /\ Head(job[t].todo) \in Creates
  ELSE t \notin handles

ModuleOK(t) ==
  Busy(t) =>
    /\ job[t].req.op \in OnModule =>
         job[t].module \in Modules /\ t \in refs[job[t].module]
    /\ job[t].req.op \in Loads =>
         IF job[t].module = None
         THEN job[t].todo = <<>> \/ \E c \in LoadCalls : job[t].todo = <<c, "make_shared">>
         ELSE job[t].todo = <<"make_shared">>

JobsOK ==
  \A t \in Threads : (Busy(t) => RunningOK(t)) /\ HandleOK(t) /\ ModuleOK(t)

(* A loaded library is owned by library_t's owners or by one call.         *)
ModulesOwned ==
  /\ \A m \in Modules :
       m \in modules <=> \/ refs[m] # {}
                       \/ \E t \in Threads : Unwrapped(t) /\ job[t].module = m
  /\ \A t \in Threads : Unwrapped(t) => refs[job[t].module] = {}
  /\ \A t, u \in Threads :
       Unwrapped(t) /\ Unwrapped(u) /\ job[t].module = job[u].module => t = u

ReadyDone == ready => once = "done"

ToolInv == IInv /\ ToolTyped /\ JobsOK /\ ModulesOwned /\ ReadyDone /\ AnswersTrue

LEMMA ToolInvInit == ToolchainInit => ToolInv
<1> SUFFICES ASSUME ToolchainInit PROVE ToolInv
  OBVIOUS
<1>1. IInv
  BY InvariantInit DEF ToolchainInit
<1>2. \A t \in Threads : job[t] = Idle /\ Idle.at = "idle" /\ Idle \in Jobs
  BY EmptySeq DEF ToolchainInit, Idle, Job, Jobs
<1>3. ToolTyped
  BY <1>2 DEF ToolchainInit, ToolTyped
<1>4. JobsOK /\ AnswersTrue /\ ReadyDone
  BY <1>2 DEF ToolchainInit, JobsOK, HandleOK, ModuleOK, Busy, AnswersTrue, ReadyDone
<1>5. ModulesOwned
  BY <1>2 DEF ToolchainInit, ModulesOwned, Unwrapped, Busy
<1> QED BY <1>1, <1>3, <1>4, <1>5 DEF ToolInv

(* initialize() and teardown()                                             *)
LEMMA LifecycleSteps ==
  ASSUME ToolInv, NEW t \in Threads, InitializeStep(t) \/ TeardownStep(t)
  PROVE  ToolInv'
<1>2. [Next]_vars
  BY DEF InitializeStep, TeardownStep, Next
<1>3. IInv'
  BY <1>2, InvariantNext DEF ToolInv
<1>4. UNCHANGED <<job, handles, modules, refs, dead, uses>>
  BY DEF InitializeStep, TeardownStep
<1>5. ReadyDone'
  <2>1. CASE TeardownStep(t)
    BY <2>1 DEF TeardownStep, ReadyDone
  <2>2. CASE InitializeStep(t)
    <3>1. ready' => ready \/ once' = "done"
      BY <2>2 DEF InitializeStep, Returned
    <3>2. once = "done" => once' = "done"
      BY <2>2 DEF InitializeStep, ToolInv, IInv, OneRunner, TypeOK, Running, Initialize,
                  Advance, RunOnce, AlreadyDone, StartCuda, LoadLib, OpenFails,
                  SymbolMissing, Throw, Libs
    <3> QED BY <3>1, <3>2 DEF ToolInv, ReadyDone
  <2> QED BY <2>1, <2>2
<1>6. \A u \in Threads : Busy(u) => ready'
  BY DEF InitializeStep, TeardownStep, Busy, ToolInv, JobsOK, RunningOK
<1>7. ToolTyped'
  BY <1>4 DEF ToolInv, ToolTyped, InitializeStep, TeardownStep
<1>8. JobsOK'
  BY <1>4, <1>6 DEF ToolInv, JobsOK, RunningOK, HandleOK, ModuleOK, Busy
<1>9. ModulesOwned' /\ AnswersTrue'
  BY <1>4 DEF ToolInv, ModulesOwned, AnswersTrue, Unwrapped, Busy
<1> QED BY <1>3, <1>5, <1>7, <1>8, <1>9 DEF ToolInv

(* The steps of one thread's function leave the others alone.              *)
LEMMA OthersKeep ==
  ASSUME ToolInv, NEW t \in Threads, NEW u \in Threads \ {t},
         job'[u] = job[u], u \in handles' <=> u \in handles,
         \A m \in Modules : u \in refs[m] => u \in refs'[m], ready' = ready
  PROVE  (Busy(u)' => RunningOK(u)') /\ HandleOK(u)' /\ ModuleOK(u)'
<1>1. (Busy(u) => RunningOK(u)) /\ HandleOK(u) /\ ModuleOK(u)
  BY DEF ToolInv, JobsOK
<1>2. Busy(u)' <=> Busy(u)
  BY DEF Busy
<1> QED BY <1>1, <1>2 DEF RunningOK, HandleOK, ModuleOK

(* What is left to show of a step of thread t's function.                  *)
LEMMA JobFrame ==
  ASSUME ToolInv, NEW t \in Threads, NEW j \in Jobs, job' = [job EXCEPT ![t] = j],
         UNCHANGED <<vars, ready>>, dead' \in BOOLEAN, uses' \in [Threads -> Nat],
         handles' \subseteq Threads,
         \A u \in Threads \ {t} : u \in handles' <=> u \in handles,
         modules' \subseteq Modules, refs' \in [Modules -> SUBSET Threads],
         \A u \in Threads \ {t}, m \in Modules : u \in refs[m] => u \in refs'[m],
         Busy(t)' => RunningOK(t)', HandleOK(t)', ModuleOK(t)', ModulesOwned',
         j.at = "returned" => ~j.failed,
         j.at = "threw" => j.failed \/ ~Accepted(j.req)
  PROVE  ToolInv'
<1>1. job \in [Threads -> Jobs] /\ job'[t] = j /\ \A u \in Threads \ {t} : job'[u] = job[u]
  BY DEF ToolInv, ToolTyped
<1>2. ToolTyped'
  BY <1>1 DEF ToolInv, ToolTyped
<1>3. IInv' /\ ReadyDone'
  BY DEF ToolInv, ReadyDone, vars, IInv, TypeOK, OneRunner, LoadedSoFar, EngagedOpen,
         DoneMeansLoaded
<1>4. JobsOK'
  BY <1>1, OthersKeep DEF JobsOK
<1>5. AnswersTrue'
  BY <1>1 DEF ToolInv, AnswersTrue
<1> QED BY <1>2, <1>3, <1>4, <1>5 DEF ToolInv

LEMMA OwnedFrame ==
  ASSUME ToolInv, NEW t \in Threads, NEW j \in Jobs, job' = [job EXCEPT ![t] = j],
         UNCHANGED <<modules, refs>>, Unwrapped(t)' <=> Unwrapped(t),
         Unwrapped(t) => j.module = job[t].module
  PROVE  ModulesOwned'
<1>1. job \in [Threads -> Jobs] /\ job'[t] = j /\ \A u \in Threads \ {t} : job'[u] = job[u]
  BY DEF ToolInv, ToolTyped
<1>2. \A u \in Threads : /\ Unwrapped(u)' <=> Unwrapped(u)
                        /\ Unwrapped(u) => job'[u].module = job[u].module
  BY <1>1 DEF Unwrapped, Busy
<1>3. ModulesOwned /\ refs' = refs /\ modules' = modules
  BY DEF ToolInv
<1>4. \A m \in Modules :
        (\E u \in Threads : Unwrapped(u)' /\ job'[u].module = m)
          <=> \E u \in Threads : Unwrapped(u) /\ job[u].module = m
  BY <1>2 DEF Unwrapped, Busy
<1>5. \A u \in Threads : Unwrapped(u)' => refs'[job'[u].module] = {}
  BY <1>2, <1>3 DEF ModulesOwned, Unwrapped, Busy
<1>6. \A u, v \in Threads :
        Unwrapped(u)' /\ Unwrapped(v)' /\ job'[u].module = job'[v].module => u = v
  BY <1>2, <1>3 DEF ModulesOwned, Unwrapped, Busy
<1> QED BY <1>3, <1>4, <1>5, <1>6 DEF ModulesOwned, Unwrapped, Busy

(* What a thread in a call may rely on.                                    *)
LEMMA AtCall ==
  ASSUME ToolInv, NEW t \in Threads, InCall(t)
  PROVE  /\ job[t] \in Jobs /\ Busy(t) /\ RunningOK(t) /\ HandleOK(t) /\ ModuleOK(t)
         /\ Tail(job[t].todo) \in Seq(Calls)
         /\ WellFormed(Tail(job[t].todo))
         /\ CreatesNothing(Tail(job[t].todo))
         /\ AllBelong(Tail(job[t].todo), job[t].req.op)
         /\ Belongs(NextCall(t), job[t].req.op)
         /\ IsChecked(job[t].todo) /\ NextCall(t) \notin Checks
              => IsChecked(Tail(job[t].todo))
         /\ NextCall(t) \in Verdicts => IsChecked(Tail(job[t].todo))
         /\ NextCall(t) \in LogSizes
              => Tail(job[t].todo) # <<>> /\ Head(Tail(job[t].todo)) \in Logs
<1>1. job[t] \in Jobs /\ Busy(t) /\ RunningOK(t) /\ HandleOK(t) /\ ModuleOK(t)
  BY DEF ToolInv, ToolTyped, JobsOK, InCall, Busy
<1> DEFINE s == job[t].todo
<1>2. WellFormed(s) /\ s # <<>> /\ AllBelong(s, job[t].req.op)
  BY <1>1 DEF RunningOK, InCall
<1>3. s \in Seq(Calls) /\ Len(s) >= 1 /\ Head(s) = s[1]
  BY <1>2, EmptySeq DEF WellFormed
<1>4. Belongs(NextCall(t), job[t].req.op)
  BY <1>2, <1>3 DEF AllBelong, NextCall
<1> HIDE DEF s
<1>5. /\ WellFormed(Tail(s)) /\ CreatesNothing(Tail(s))
      /\ IsChecked(s) /\ Head(s) \notin Checks => IsChecked(Tail(s))
      /\ Head(s) \in Verdicts => IsChecked(Tail(s))
      /\ Head(s) \in LogSizes => Tail(s) # <<>> /\ Head(Tail(s)) \in Logs
      /\ AllBelong(Tail(s), job[t].req.op)
  BY <1>2, WellFormedTail
<1> QED BY <1>1, <1>4, <1>5 DEF s, NextCall, WellFormed

LEMMA CallStep ==
  ASSUME ToolInv, NEW t \in Threads, Call(t) PROVE ToolInv'
<1> DEFINE j == [job[t] EXCEPT !.todo = Tail(@)]
<1>1. InCall(t) /\ NextCall(t) \in External \ LoadCalls /\ job' = [job EXCEPT ![t] = j]
  BY DEF Call, Proceed
<1>2. /\ job[t] \in Jobs /\ Busy(t) /\ RunningOK(t) /\ HandleOK(t) /\ ModuleOK(t)
      /\ j \in Jobs /\ j.todo = Tail(job[t].todo) /\ j.at = "running"
      /\ j.req = job[t].req /\ j.verdict = job[t].verdict /\ j.failed = job[t].failed
      /\ j.module = job[t].module
  BY <1>1, AtCall DEF Jobs, Busy
<1> HIDE DEF j
<1>3. job'[t] = j
  BY <1>1 DEF ToolInv, ToolTyped
<1>4. NextCall(t) \notin Checks /\ NextCall(t) # "make_shared"
  BY <1>1 DEF External, NvrtcCalls, LinkCalls, ModuleCalls, LoadCalls, Checks
<1>5. RunningOK(t)'
  BY <1>1, <1>2, <1>3, <1>4, AtCall DEF RunningOK, Call
<1>6. HandleOK(t)'
  <2>1. CASE NextCall(t) \in Creates
    BY <2>1, <1>1, <1>2, <1>3, AtCall DEF HandleOK, Call, Busy, Belongs
  <2>2. CASE NextCall(t) \notin Creates
    BY <2>2, <1>1, <1>2, <1>3, AtCall DEF HandleOK, Call, Busy, NextCall
  <2> QED BY <2>1, <2>2
<1>7. job[t].req.op \notin Loads
  <2> SUFFICES ASSUME job[t].req.op \in Loads PROVE FALSE
    OBVIOUS
  <2>1. NextCall(t) \in LoadCalls \cup {"make_shared"}
    BY <1>1, <1>2 DEF ModuleOK, InCall, NextCall
  <2> QED BY <2>1, <1>1, <1>4
<1>8. ModuleOK(t)'
  BY <1>1, <1>2, <1>3, <1>7 DEF ModuleOK, Call, Busy
<1>9. ModulesOwned'
  BY <1>1, <1>2, <1>3, OwnedFrame DEF Call, Unwrapped, Busy
<1> QED BY <1>1, <1>2, <1>5, <1>6, <1>8, <1>9, JobFrame DEF Call, ToolInv, ToolTyped

(* A step to another call of the same function: at worst a verdict comes   *)
(* in, and then its check is still to come.                                *)
LEMMA ReportStep ==
  ASSUME ToolInv, NEW t \in Threads, Reports(t) PROVE ToolInv'
<1> DEFINE j == [[job[t] EXCEPT !.verdict = "error", !.failed = TRUE]
                 EXCEPT !.todo = Tail(job[t].todo)]
<1>1. InCall(t) /\ NextCall(t) \in Verdicts /\ job' = [job EXCEPT ![t] = j]
  BY DEF Reports, Proceed, InCall, ToolInv, ToolTyped, Jobs
<1>2. /\ job[t] \in Jobs /\ Busy(t) /\ RunningOK(t) /\ HandleOK(t) /\ ModuleOK(t)
      /\ j \in Jobs /\ j.todo = Tail(job[t].todo) /\ j.at = "running"
      /\ j.req = job[t].req /\ j.verdict = "error" /\ j.failed
      /\ j.module = job[t].module
  BY <1>1, AtCall DEF Jobs, Busy
<1> HIDE DEF j
<1>3. job'[t] = j
  BY <1>1 DEF ToolInv, ToolTyped
<1>4. NextCall(t) \notin Checks \cup Creates /\ job[t].req.op \in {"compile", "link"}
  BY <1>1, AtCall DEF Verdicts, Checks, Creates, Belongs
<1>5. RunningOK(t)'
  BY <1>1, <1>2, <1>3, AtCall DEF RunningOK, Reports
<1>6. HandleOK(t)'
  BY <1>1, <1>2, <1>3, <1>4, AtCall DEF HandleOK, Reports, Busy, NextCall
<1>7. ModuleOK(t)'
  BY <1>2, <1>3, <1>4 DEF ModuleOK, Busy, Loads, OnModule, Launches
<1>8. ModulesOwned'
  BY <1>1, <1>2, <1>3, OwnedFrame DEF Reports, Unwrapped, Busy
<1> QED BY <1>1, <1>2, <1>5, <1>6, <1>7, <1>8, JobFrame DEF Reports, ToolInv, ToolTyped

LEMMA EmptyLogStep ==
  ASSUME ToolInv, NEW t \in Threads, EmptyLog(t) PROVE ToolInv'
<1> DEFINE r == Tail(job[t].todo)
           j == [job[t] EXCEPT !.todo = Tail(r)]
<1>1. InCall(t) /\ NextCall(t) \in LogSizes /\ job' = [job EXCEPT ![t] = j]
  BY DEF EmptyLog
<1>2. NextCall(t) \notin Checks \cup Creates /\ NextCall(t) \notin LoadCalls \cup {"make_shared"}
  BY <1>1 DEF LogSizes, Checks, Creates, LoadCalls
<1>3. /\ WellFormed(r) /\ CreatesNothing(r) /\ r # <<>> /\ Head(r) \in Logs
      /\ AllBelong(r, job[t].req.op)
      /\ IsChecked(job[t].todo) => IsChecked(r)
  BY <1>1, <1>2, AtCall
<1> HIDE DEF r
<1>4. /\ WellFormed(Tail(r)) /\ CreatesNothing(Tail(r)) /\ AllBelong(Tail(r), job[t].req.op)
      /\ Tail(r) \in Seq(Calls)
      /\ IsChecked(r) => IsChecked(Tail(r))
  <2>1. Head(r) \notin Checks
    BY <1>3 DEF Logs, Checks
  <2>2. IsChecked(r) => IsChecked(Tail(r))
    BY <1>3, <2>1, WellFormedTail
  <2>3. WellFormed(Tail(r)) /\ CreatesNothing(Tail(r))
    BY <1>3, WellFormedTail
  <2>4. \A op : AllBelong(r, op) => AllBelong(Tail(r), op)
    BY <1>3, WellFormedTail
  <2>5. AllBelong(Tail(r), job[t].req.op)
    BY <1>3, <2>4
  <2> QED BY <2>2, <2>3, <2>5 DEF WellFormed
<1>5. /\ job[t] \in Jobs /\ Busy(t) /\ RunningOK(t) /\ HandleOK(t) /\ ModuleOK(t)
      /\ j \in Jobs /\ j.todo = Tail(r) /\ j.at = "running"
      /\ j.req = job[t].req /\ j.verdict = job[t].verdict /\ j.failed = job[t].failed
      /\ j.module = job[t].module
  BY <1>1, <1>4, AtCall DEF Jobs, Busy
<1> HIDE DEF j
<1>6. job'[t] = j
  BY <1>1 DEF ToolInv, ToolTyped
<1>7. RunningOK(t)'
  BY <1>3, <1>4, <1>5, <1>6 DEF RunningOK, EmptyLog
<1>8. HandleOK(t)'
  BY <1>2, <1>4, <1>5, <1>6 DEF HandleOK, EmptyLog, Busy, NextCall
<1>9. job[t].req.op \notin Loads
  <2> SUFFICES ASSUME job[t].req.op \in Loads PROVE FALSE
    OBVIOUS
  <2>1. NextCall(t) \in LoadCalls \cup {"make_shared"}
    BY <1>1, <1>5 DEF ModuleOK, InCall, NextCall
  <2> QED BY <2>1, <1>2
<1>10. ModuleOK(t)'
  BY <1>5, <1>6, <1>9 DEF ModuleOK, EmptyLog, Busy
<1>11. ModulesOwned'
  BY <1>1, <1>5, <1>6, OwnedFrame DEF EmptyLog, Unwrapped, Busy
<1> QED BY <1>1, <1>5, <1>7, <1>8, <1>10, <1>11, JobFrame DEF EmptyLog, ToolInv, ToolTyped

LEMMA CheckStep ==
  ASSUME ToolInv, NEW t \in Threads, Check(t) PROVE ToolInv'
<1> DEFINE j == [job[t] EXCEPT !.todo = Tail(@)]
<1>1. /\ InCall(t) /\ NextCall(t) \in Checks /\ job' = [job EXCEPT ![t] = j]
      /\ job[t].verdict = "ok"
  BY DEF Check, Proceed, CheckPasses
<1>2. /\ job[t] \in Jobs /\ Busy(t) /\ RunningOK(t) /\ HandleOK(t) /\ ModuleOK(t)
      /\ j \in Jobs /\ j.todo = Tail(job[t].todo) /\ j.at = "running"
      /\ j.req = job[t].req /\ j.verdict = job[t].verdict /\ j.failed = job[t].failed
      /\ j.module = job[t].module
  BY <1>1, AtCall DEF Jobs, Busy
<1> HIDE DEF j
<1>3. job'[t] = j
  BY <1>1 DEF ToolInv, ToolTyped
<1>4. NextCall(t) \notin Creates /\ job[t].req.op \in {"compile", "link"}
  BY <1>1, AtCall DEF Checks, Creates, Belongs
<1>5. RunningOK(t)'
  BY <1>1, <1>2, <1>3, AtCall DEF RunningOK, Check
<1>6. HandleOK(t)'
  BY <1>1, <1>2, <1>3, <1>4, AtCall DEF HandleOK, Check, Busy, NextCall
<1>7. ModuleOK(t)'
  BY <1>2, <1>3, <1>4 DEF ModuleOK, Busy, Loads, OnModule, Launches
<1>8. ModulesOwned'
  BY <1>1, <1>2, <1>3, OwnedFrame DEF Check, Unwrapped, Busy
<1> QED BY <1>1, <1>2, <1>5, <1>6, <1>7, <1>8, JobFrame DEF Check, ToolInv, ToolTyped

LEMMA LoadStep ==
  ASSUME ToolInv, NEW t \in Threads, LoadModule(t) PROVE ToolInv'
<1>1. PICK m \in Modules \ modules :
        /\ refs[m] = {}
        /\ modules' = modules \cup {m}
        /\ Proceed(t, [job[t] EXCEPT !.module = m])
  BY DEF LoadModule
<1> DEFINE j == [[job[t] EXCEPT !.module = m] EXCEPT !.todo = Tail(job[t].todo)]
<1>2. InCall(t) /\ NextCall(t) \in LoadCalls /\ job' = [job EXCEPT ![t] = j]
  <2>1. InCall(t) /\ NextCall(t) \in LoadCalls
    BY DEF LoadModule
  <2>2. [job[t] EXCEPT !.module = m].todo = job[t].todo
    BY DEF ToolInv, ToolTyped, Jobs
  <2> QED BY <1>1, <2>1, <2>2 DEF Proceed
<1>3. /\ job[t] \in Jobs /\ Busy(t) /\ RunningOK(t) /\ HandleOK(t) /\ ModuleOK(t)
      /\ j \in Jobs /\ j.todo = Tail(job[t].todo) /\ j.at = "running"
      /\ j.req = job[t].req /\ j.verdict = job[t].verdict /\ j.failed = job[t].failed
      /\ j.module = m
  BY <1>2, AtCall DEF Jobs, Busy
<1> HIDE DEF j
<1>4. /\ job'[t] = j /\ job \in [Threads -> Jobs]
      /\ \A u \in Threads \ {t} : job'[u] = job[u]
  BY <1>2 DEF ToolInv, ToolTyped
<1>5. job[t].req.op \in Loads /\ NextCall(t) \notin Checks \cup Creates
  BY <1>2, AtCall DEF LoadCalls, Checks, Creates, Belongs
<1>6. job[t].module = None /\ Tail(job[t].todo) = <<"make_shared">>
  <2>1. job[t].todo # <<>> /\ Head(job[t].todo) \in LoadCalls
    BY <1>2 DEF InCall, NextCall
  <2>2. Head(<<"make_shared">>) \notin LoadCalls
    BY DEF LoadCalls
  <2>3. \A c \in LoadCalls : Tail(<<c, "make_shared">>) = <<"make_shared">>
    BY DEF LoadCalls
  <2> QED BY <1>3, <1>5, <2>1, <2>2, <2>3 DEF ModuleOK
<1>7. RunningOK(t)'
  BY <1>2, <1>3, <1>4, <1>5, AtCall DEF RunningOK, LoadModule
<1>8. HandleOK(t)' /\ ModuleOK(t)'
  BY <1>3, <1>4, <1>5, <1>6, ToolchainAssumption
  DEF HandleOK, ModuleOK, LoadModule, Busy, Loads, OnModule, Launches
<1>9. ModulesOwned /\ refs' = refs
  BY DEF ToolInv, LoadModule
<1>10. /\ ~Unwrapped(t) /\ job'[t].at = "running" /\ job'[t].req.op \in Loads
       /\ job'[t].module = m /\ m # None
  BY <1>3, <1>4, <1>5, <1>6, ToolchainAssumption DEF Unwrapped
<1>11. ModulesOwned'
  <2>1. \A u \in Threads : Unwrapped(u) => job[u].module \in modules /\ job[u].module # m
    <3> SUFFICES ASSUME NEW u \in Threads, Unwrapped(u) PROVE job[u].module \in modules
      BY <1>1
    <3>1. job[u].module \in Modules
      BY <1>4 DEF Unwrapped, Jobs
    <3> QED BY <1>9, <3>1 DEF ModulesOwned
  <2>2. \A n \in Modules : n \in modules' <=>
          \/ refs'[n] # {}
          \/ \E u \in Threads : Unwrapped(u)' /\ job'[u].module = n
    <3> SUFFICES ASSUME NEW n \in Modules
                 PROVE  n \in modules' <=>
                          \/ refs'[n] # {}
                          \/ \E u \in Threads : Unwrapped(u)' /\ job'[u].module = n
      OBVIOUS
    <3>1. CASE n = m
      BY <3>1, <1>1, <1>10 DEF Unwrapped, Busy
    <3>2. CASE n # m
      BY <3>2, <1>1, <1>4, <1>9, <1>10 DEF ModulesOwned, Unwrapped, Busy
    <3> QED BY <3>1, <3>2
  <2>3. \A u \in Threads : Unwrapped(u)' => refs'[job'[u].module] = {}
    BY <1>1, <1>4, <1>9, <1>10 DEF ModulesOwned, Unwrapped, Busy
  <2>4. \A u, v \in Threads :
          Unwrapped(u)' /\ Unwrapped(v)' /\ job'[u].module = job'[v].module => u = v
    BY <2>1, <1>4, <1>9, <1>10 DEF ModulesOwned, Unwrapped, Busy
  <2> QED BY <2>2, <2>3, <2>4 DEF ModulesOwned, Unwrapped, Busy
<1> QED BY <1>1, <1>2, <1>3, <1>7, <1>8, <1>11, JobFrame DEF LoadModule, ToolInv, ToolTyped

LEMMA WrapStep ==
  ASSUME ToolInv, NEW t \in Threads, Wrap(t) PROVE ToolInv'
<1> DEFINE m == job[t].module
           j == [[job[t] EXCEPT !.module = None] EXCEPT !.todo = Tail(job[t].todo)]
<1>1. /\ InCall(t) /\ NextCall(t) = "make_shared" /\ job' = [job EXCEPT ![t] = j]
      /\ refs' = [refs EXCEPT ![m] = {t}]
  BY DEF Wrap, Proceed, InCall, ToolInv, ToolTyped, Jobs
<1>2. /\ job[t] \in Jobs /\ Busy(t) /\ RunningOK(t) /\ HandleOK(t) /\ ModuleOK(t)
      /\ j \in Jobs /\ j.todo = Tail(job[t].todo) /\ j.at = "running"
      /\ j.req = job[t].req /\ j.verdict = job[t].verdict /\ j.failed = job[t].failed
      /\ j.module = None
  BY <1>1, AtCall DEF Jobs, Busy
<1> HIDE DEF j
<1>3. /\ job'[t] = j /\ job \in [Threads -> Jobs]
      /\ \A u \in Threads \ {t} : job'[u] = job[u]
  BY <1>1 DEF ToolInv, ToolTyped
<1>4. job[t].req.op \in Loads /\ NextCall(t) \notin Checks \cup Creates
  BY <1>1, AtCall DEF Checks, Creates, Belongs
<1>5. m # None /\ m \in Modules /\ Tail(job[t].todo) = <<>> /\ Unwrapped(t)
  BY <1>1, <1>2, <1>4 DEF ModuleOK, InCall, NextCall, LoadCalls, Jobs, Unwrapped
<1>6. RunningOK(t)'
  BY <1>1, <1>2, <1>3, <1>4, AtCall DEF RunningOK, Wrap
<1>7. HandleOK(t)' /\ ModuleOK(t)'
  BY <1>2, <1>3, <1>4, <1>5
  DEF HandleOK, ModuleOK, Wrap, Busy, Loads, OnModule, Launches
<1>8. ModulesOwned /\ modules' = modules /\ refs \in [Modules -> SUBSET Threads]
  BY DEF ToolInv, ToolTyped, Wrap
<1> HIDE DEF m
<1>9. refs'[m] = {t} /\ \A n \in Modules \ {m} : refs'[n] = refs[n]
  BY <1>1, <1>5, <1>8
<1>10. m \in modules /\ refs[m] = {} /\ \A u \in Threads \ {t} : Unwrapped(u) => job[u].module # m
  BY <1>5, <1>8 DEF ModulesOwned, m
<1>11. ModulesOwned'
  <2>1. \A u \in Threads : Unwrapped(u)' => u # t /\ Unwrapped(u) /\ job'[u].module = job[u].module
                                        /\ job[u].module \in Modules \ {m}
    BY <1>2, <1>3, <1>10 DEF Unwrapped, Busy, Jobs
  <2>2. \A u \in Threads \ {t} : Unwrapped(u) => Unwrapped(u)' /\ job'[u].module = job[u].module
    BY <1>3 DEF Unwrapped, Busy
  <2>3. ASSUME NEW n \in Modules
        PROVE  n \in modules' <=>
                 \/ refs'[n] # {}
                 \/ \E u \in Threads : Unwrapped(u)' /\ job'[u].module = n
    <3>1. CASE n = m
      BY <3>1, <1>8, <1>9, <1>10
    <3>2. CASE n # m
      <4>1. refs'[n] = refs[n]
        BY <3>2, <1>9
      <4>2. ASSUME NEW u \in Threads, Unwrapped(u), job[u].module = n
            PROVE  \E v \in Threads : Unwrapped(v)' /\ job'[v].module = n
        <5>1. u # t
          BY <4>2, <3>2 DEF m
        <5> QED BY <5>1, <4>2, <2>2 DEF Unwrapped, Busy
      <4>3. ASSUME NEW u \in Threads, Unwrapped(u)', job'[u].module = n
            PROVE  \E v \in Threads : Unwrapped(v) /\ job[v].module = n
        BY <4>3, <2>1 DEF Unwrapped, Busy
      <4> QED BY <4>1, <4>2, <4>3, <1>8 DEF ModulesOwned
    <3> QED BY <3>1, <3>2
  <2>4. \A u \in Threads : Unwrapped(u)' => refs'[job'[u].module] = {}
    BY <2>1, <1>8, <1>9 DEF ModulesOwned, Unwrapped, Busy
  <2>5. \A u, v \in Threads :
          Unwrapped(u)' /\ Unwrapped(v)' /\ job'[u].module = job'[v].module => u = v
    BY <2>1, <1>8 DEF ModulesOwned, Unwrapped, Busy
  <2> QED BY <2>3, <2>4, <2>5 DEF ModulesOwned, Unwrapped, Busy
<1>12. refs' \in [Modules -> SUBSET Threads]
  BY <1>1, <1>8
<1>13. \A u \in Threads \ {t}, n \in Modules : u \in refs[n] => u \in refs'[n]
  BY <1>9, <1>10
<1> QED BY <1>1, <1>2, <1>6, <1>7, <1>11, <1>12, <1>13, JobFrame DEF Wrap, ToolInv, ToolTyped

LEMMA ReturnStep ==
  ASSUME ToolInv, NEW t \in Threads, Return(t) PROVE ToolInv'
<1> DEFINE j == [job[t] EXCEPT !.at = "returned"]
<1>1. Busy(t) /\ job[t].todo = <<>> /\ job' = [job EXCEPT ![t] = j]
  BY DEF Return
<1>2. job[t] \in Jobs /\ RunningOK(t) /\ ModuleOK(t)
  BY <1>1 DEF ToolInv, ToolTyped, JobsOK
<1>3. j \in Jobs /\ j.at = "returned" /\ j.failed = job[t].failed
  BY <1>2 DEF Jobs
<1> HIDE DEF j
<1>4. job'[t] = j
  BY <1>1 DEF ToolInv, ToolTyped
<1>5. ~j.failed
  BY <1>1, <1>2, <1>3 DEF RunningOK, IsChecked
<1>6. ~Unwrapped(t)
  <2>1. <<"make_shared">> # <<>>
    OBVIOUS
  <2> QED BY <2>1, <1>1, <1>2 DEF Unwrapped, ModuleOK
<1>7. ~Busy(t)' /\ ~Unwrapped(t)'
  BY <1>3, <1>4 DEF Busy, Unwrapped
<1>8. HandleOK(t)' /\ ModuleOK(t)'
  BY <1>3, <1>4 DEF HandleOK, ModuleOK, Return, HandlesAfter, Busy
<1>9. ModulesOwned'
  BY <1>1, <1>3, <1>6, <1>7, OwnedFrame DEF Return
<1> QED BY <1>1, <1>3, <1>5, <1>7, <1>8, <1>9, JobFrame
        DEF Return, HandlesAfter, ToolInv, ToolTyped

LEMMA ThrowStep ==
  ASSUME ToolInv, NEW t \in Threads, Throws(t) PROVE ToolInv'
<1> DEFINE j == Thrown(t)
<1>1. InCall(t) /\ job' = [job EXCEPT ![t] = j]
  BY DEF Throws
<1>2. job[t] \in Jobs /\ RunningOK(t) /\ ModuleOK(t) /\ Busy(t)
  BY <1>1, AtCall
<1>3. /\ j \in Jobs /\ j.at = "threw" /\ j.module = None
      /\ j.failed <=> job[t].failed \/ CallFails(t) \/ NextCall(t) = "Unsupported"
  <2>1. <<>> \in Seq(Calls)
    BY EmptySeq
  <2> DEFINE f == job[t].failed \/ CallFails(t) \/ NextCall(t) = "Unsupported"
  <2>2. f \in BOOLEAN
    OBVIOUS
  <2>3. j = [job[t] EXCEPT !.at = "threw", !.todo = <<>>, !.module = None, !.failed = f]
    BY <1>2 DEF Thrown, Jobs
  <2> HIDE DEF f, j
  <2>4. j \in Jobs /\ j.at = "threw" /\ j.module = None /\ j.failed = f
    BY <1>2, <2>1, <2>2, <2>3 DEF Jobs
  <2> QED BY <2>4 DEF f
<1> HIDE DEF j
<1>4. /\ job'[t] = j /\ job \in [Threads -> Jobs]
      /\ \A u \in Threads \ {t} : job'[u] = job[u]
  BY <1>1 DEF ToolInv, ToolTyped
<1>5. j.failed
  <2>1. CASE CallFails(t) \/ NextCall(t) = "Unsupported"
    BY <2>1, <1>3
  <2>2. CASE ~CheckPasses(t)
    BY <2>2, <1>2, <1>3 DEF RunningOK, CheckPasses, Jobs
  <2> QED BY <2>1, <2>2 DEF Throws
<1>6. ~Busy(t)'
  BY <1>3, <1>4 DEF Busy
<1>7. HandleOK(t)' /\ ModuleOK(t)'
  BY <1>3, <1>4 DEF HandleOK, ModuleOK, Throws, HandlesAfter, HandlesAfterThrow, Busy
<1>8. /\ ModulesOwned /\ refs' = refs /\ modules \subseteq Modules
      /\ modules' = IF Unwrapped(t) THEN modules \ {job[t].module} ELSE modules
  BY DEF ToolInv, ToolTyped, Throws
<1>9. ModulesOwned'
  <2>1. CASE ~Unwrapped(t)
    <3>1. ~Unwrapped(t)' /\ modules' = modules
      BY <2>1, <1>6, <1>8 DEF Unwrapped, Busy
    <3> QED BY <2>1, <3>1, <1>1, <1>3, <1>8, OwnedFrame
  <2>2. CASE Unwrapped(t)
    <3> DEFINE m == job[t].module
    <3>1. /\ m \in Modules /\ modules' = modules \ {m} /\ refs[m] = {}
          /\ \A u \in Threads \ {t} : Unwrapped(u) => job[u].module # m
      BY <2>2, <1>2, <1>8 DEF Unwrapped, Jobs, ModulesOwned
    <3> HIDE DEF m
    <3>2. \A u \in Threads : Unwrapped(u)' => u # t /\ Unwrapped(u) /\ job'[u].module = job[u].module
      BY <1>4, <1>6 DEF Unwrapped, Busy
    <3>3. \A u \in Threads \ {t} : Unwrapped(u) => Unwrapped(u)' /\ job'[u].module = job[u].module
      BY <1>4 DEF Unwrapped, Busy
    <3>4. ASSUME NEW n \in Modules
          PROVE  n \in modules' <=>
                   \/ refs'[n] # {}
                   \/ \E u \in Threads : Unwrapped(u)' /\ job'[u].module = n
      <4>1. CASE n = m
        <5>1. ~ \E u \in Threads : Unwrapped(u)' /\ job'[u].module = n
          BY <4>1, <3>1, <3>2 DEF Unwrapped, Busy
        <5> QED BY <4>1, <5>1, <3>1, <1>8
      <4>2. CASE n # m
        <5>1. ASSUME NEW u \in Threads, Unwrapped(u), job[u].module = n
              PROVE  \E v \in Threads : Unwrapped(v)' /\ job'[v].module = n
          <6>1. u # t
            BY <5>1, <4>2 DEF m
          <6> QED BY <6>1, <5>1, <3>3 DEF Unwrapped, Busy
        <5>2. ASSUME NEW u \in Threads, Unwrapped(u)', job'[u].module = n
              PROVE  \E v \in Threads : Unwrapped(v) /\ job[v].module = n
          BY <5>2, <3>2 DEF Unwrapped, Busy
        <5> QED BY <4>2, <5>1, <5>2, <3>1, <1>8 DEF ModulesOwned
      <4> QED BY <4>1, <4>2
    <3>5. \A u \in Threads : Unwrapped(u)' => refs'[job'[u].module] = {}
      BY <3>2, <1>8 DEF ModulesOwned, Unwrapped, Busy
    <3>6. \A u, v \in Threads :
            Unwrapped(u)' /\ Unwrapped(v)' /\ job'[u].module = job'[v].module => u = v
      BY <3>2, <1>8 DEF ModulesOwned, Unwrapped, Busy
    <3> QED BY <3>4, <3>5, <3>6 DEF ModulesOwned, Unwrapped, Busy
  <2> QED BY <2>1, <2>2
<1>10. modules' \subseteq Modules
  BY <1>8
<1> QED BY <1>1, <1>3, <1>5, <1>6, <1>7, <1>9, <1>10, JobFrame
        DEF Throws, HandlesAfter, HandlesAfterThrow, ToolInv, ToolTyped

LEMMA CollectStep ==
  ASSUME ToolInv, NEW t \in Threads, Collect(t) PROVE ToolInv'
<1>1. job' = [job EXCEPT ![t] = Idle] /\ Idle \in Jobs /\ Idle.at = "idle"
  BY EmptySeq DEF Collect, Idle, Job, Jobs
<1>2. job'[t] = Idle /\ HandleOK(t)
  BY <1>1 DEF ToolInv, ToolTyped, JobsOK
<1>3. ~Busy(t) /\ ~Unwrapped(t)
  BY DEF Collect, Busy, Unwrapped
<1>4. ~Busy(t)' /\ ~Unwrapped(t)'
  BY <1>1, <1>2 DEF Busy, Unwrapped
<1>5. HandleOK(t)' /\ ModuleOK(t)'
  BY <1>1, <1>2, <1>3 DEF HandleOK, ModuleOK, Collect, Busy
<1>6. ModulesOwned'
  BY <1>1, <1>3, <1>4, OwnedFrame DEF Collect
<1> QED BY <1>1, <1>4, <1>5, <1>6, JobFrame DEF Collect, ToolInv, ToolTyped

LEMMA StartStep ==
  ASSUME ToolInv, NEW t \in Threads, Start(t) PROVE ToolInv'
<1>1. PICK r \in Requests, m \in Modules \cup {None} :
        /\ IF r.op \in OnModule THEN m # None /\ t \in refs[m] ELSE m = None
        /\ job' = [job EXCEPT ![t] = IF Accepted(r) THEN Job("running", r, Script(r), m)
                                     ELSE Job("threw", r, <<>>, None)]
  BY DEF Start
<1> DEFINE j == IF Accepted(r) THEN Job("running", r, Script(r), m)
                ELSE Job("threw", r, <<>>, None)
<1>2. Script(r) \in Seq(Calls) /\ <<>> \in Seq(Calls)
  BY Scripts, EmptySeq DEF WellFormed
<1>3. /\ j \in Jobs /\ j.req = r /\ j.verdict = "ok" /\ ~j.failed
      /\ Accepted(r) => j.at = "running" /\ j.todo = Script(r) /\ j.module = m
      /\ ~Accepted(r) => j.at = "threw"
  BY <1>2 DEF Job, Jobs
<1>4. job' = [job EXCEPT ![t] = j]
  BY <1>1
<1> HIDE DEF j
<1>5. job'[t] = j /\ HandleOK(t) /\ ~Busy(t) /\ ready /\ ready' /\ refs' = refs /\ handles' = handles
  BY <1>4 DEF ToolInv, ToolTyped, JobsOK, Start, Busy
<1>6. t \notin handles
  BY <1>5 DEF HandleOK
<1>7. Busy(t)' <=> Accepted(r)
  BY <1>3, <1>5 DEF Busy
<1>8. Busy(t)' => RunningOK(t)'
  BY <1>3, <1>5, <1>7, Scripts DEF RunningOK
<1>9. HandleOK(t)'
  BY <1>3, <1>5, <1>6, <1>7, Scripts DEF HandleOK, Busy
<1>10. ModuleOK(t)'
  <2>1. CASE r.op \in OnModule
    BY <2>1, <1>1, <1>3, <1>5, <1>7 DEF ModuleOK, OnModule, Launches, Loads, Busy
  <2>2. CASE r.op \notin OnModule
    BY <2>2, <1>1, <1>3, <1>5, <1>7, Scripts DEF ModuleOK, Busy
  <2> QED BY <2>1, <2>2
<1>11. ~Unwrapped(t) /\ ~Unwrapped(t)'
  BY <1>1, <1>3, <1>5, <1>7 DEF Unwrapped, Busy, Loads, OnModule, Launches
<1>12. ModulesOwned'
  BY <1>3, <1>4, <1>11, OwnedFrame DEF Start
<1>13. uses' \in [Threads -> Nat]
  BY DEF Start, ToolInv, ToolTyped
<1> QED BY <1>3, <1>4, <1>8, <1>9, <1>10, <1>12, <1>13, JobFrame DEF Start, ToolInv, ToolTyped

(* The steps of the owners of a library_t.                                 *)
LEMMA OwnersFrame ==
  ASSUME ToolInv, NEW t \in Threads, UNCHANGED <<vars, job, handles, ready, dead, uses>>,
         ~Busy(t), modules' \subseteq Modules, refs' \in [Modules -> SUBSET Threads],
         \A u \in Threads \ {t}, m \in Modules : u \in refs[m] => u \in refs'[m],
         ModulesOwned'
  PROVE  ToolInv'
<1>1. (Busy(t)' => RunningOK(t)') /\ HandleOK(t)' /\ ModuleOK(t)'
  BY DEF ToolInv, JobsOK, RunningOK, HandleOK, ModuleOK, Busy
<1>2. JobsOK'
  BY <1>1, OthersKeep DEF JobsOK
<1>3. IInv' /\ ReadyDone'
  BY DEF ToolInv, ReadyDone, vars, IInv, TypeOK, OneRunner, LoadedSoFar, EngagedOpen,
         DoneMeansLoaded
<1>4. ToolTyped' /\ AnswersTrue'
  BY DEF ToolInv, ToolTyped, AnswersTrue
<1> QED BY <1>2, <1>3, <1>4 DEF ToolInv

LEMMA ShareStep ==
  ASSUME ToolInv, NEW t \in Threads, NEW u \in Threads, Share(t, u) PROVE ToolInv'
<1>1. PICK m \in Modules : t \in refs[m] /\ refs' = [refs EXCEPT ![m] = @ \cup {u}]
  BY DEF Share
<1>2. /\ ModulesOwned /\ modules' = modules /\ modules \subseteq Modules
      /\ refs \in [Modules -> SUBSET Threads] /\ job' = job
  BY DEF ToolInv, ToolTyped, Share
<1>3. /\ refs' \in [Modules -> SUBSET Threads]
      /\ \A n \in Modules : refs[n] \subseteq refs'[n] /\ (refs'[n] # {} <=> refs[n] # {})
  BY <1>1, <1>2
<1>4. \A v \in Threads : Unwrapped(v) => job[v].module \in Modules
  BY DEF ToolInv, ToolTyped, Jobs, Unwrapped
<1>5. ModulesOwned'
  BY <1>2, <1>3, <1>4 DEF ModulesOwned, Unwrapped, Busy
<1> QED BY <1>2, <1>3, <1>5, OwnersFrame DEF Share, Busy

LEMMA DropStep ==
  ASSUME ToolInv, NEW t \in Threads, Drop(t) PROVE ToolInv'
<1>1. PICK m \in Modules :
        /\ t \in refs[m]
        /\ refs' = [refs EXCEPT ![m] = @ \ {t}]
        /\ modules' = IF Unloaded(m, refs[m] \ {t}) THEN modules \ {m} ELSE modules
  BY DEF Drop
<1>2. /\ ModulesOwned /\ modules \subseteq Modules
      /\ refs \in [Modules -> SUBSET Threads] /\ job' = job
  BY DEF ToolInv, ToolTyped, Drop
<1>3. /\ refs' \in [Modules -> SUBSET Threads]
      /\ refs'[m] = refs[m] \ {t}
      /\ \A n \in Modules \ {m} : refs'[n] = refs[n]
  BY <1>1, <1>2
<1>4. modules' = IF refs'[m] = {} THEN modules \ {m} ELSE modules
  BY <1>1, <1>3 DEF Unloaded
<1>5. \A v \in Threads : Unwrapped(v) => job[v].module \in Modules \ {m}
  BY <1>1, <1>2 DEF ToolInv, ToolTyped, Jobs, Unwrapped, ModulesOwned
<1>6. ASSUME NEW n \in Modules
      PROVE  n \in modules' <=>
               \/ refs'[n] # {}
               \/ \E v \in Threads : Unwrapped(v) /\ job[v].module = n
  <2>1. CASE n = m
    BY <2>1, <1>1, <1>2, <1>3, <1>4, <1>5 DEF ModulesOwned
  <2>2. CASE n # m
    BY <2>2, <1>2, <1>3, <1>4 DEF ModulesOwned
  <2> QED BY <2>1, <2>2
<1>7. ModulesOwned'
  BY <1>2, <1>3, <1>5, <1>6 DEF ModulesOwned, Unwrapped, Busy
<1>8. modules' \subseteq Modules
  BY <1>2, <1>4
<1>9. \A u \in Threads \ {t}, n \in Modules : u \in refs[n] => u \in refs'[n]
  BY <1>3
<1> QED BY <1>3, <1>7, <1>8, <1>9, OwnersFrame DEF Drop, Busy

LEMMA StoppedStep ==
  ASSUME ToolInv, UNCHANGED <<vars, job, handles, modules, refs, ready, uses>>,
         dead' \in BOOLEAN
  PROVE  ToolInv'
<1>1. IInv' /\ ReadyDone'
  BY DEF ToolInv, ReadyDone, vars, IInv, TypeOK, OneRunner, LoadedSoFar, EngagedOpen,
         DoneMeansLoaded
<1>2. ToolTyped' /\ AnswersTrue'
  BY DEF ToolInv, ToolTyped, AnswersTrue
<1>3. JobsOK' /\ ModulesOwned'
  BY DEF ToolInv, JobsOK, RunningOK, HandleOK, ModuleOK, ModulesOwned, Unwrapped, Busy
<1> QED BY <1>1, <1>2, <1>3 DEF ToolInv

LEMMA ToolInvNext == ToolInv /\ [ToolchainNext]_allVars => ToolInv'
<1> SUFFICES ASSUME ToolInv, [ToolchainNext]_allVars PROVE ToolInv'
  OBVIOUS
<1>1. ASSUME NEW t \in Threads, InitializeStep(t) \/ TeardownStep(t) PROVE ToolInv'
  BY <1>1, LifecycleSteps
<1>2. ASSUME NEW t \in Threads, Start(t) PROVE ToolInv'
  BY <1>2, StartStep
<1>3. ASSUME NEW t \in Threads, JobStep(t) PROVE ToolInv'
  <2>1. CASE Terminates(t)
    BY <2>1, StoppedStep DEF Terminates
  <2> QED BY <2>1, <1>3, CallStep, ReportStep, EmptyLogStep, CheckStep, LoadStep,
             WrapStep, ReturnStep, ThrowStep, CollectStep DEF JobStep
<1>4. ASSUME NEW t \in Threads, Drop(t) PROVE ToolInv'
  BY <1>4, DropStep
<1>5. ASSUME NEW t \in Threads, NEW u \in Threads, Share(t, u) PROVE ToolInv'
  BY <1>5, ShareStep
<1>6. CASE UNCHANGED allVars
  BY <1>6, StoppedStep DEF allVars, toolVars, ToolInv, ToolTyped
<1> QED BY <1>1, <1>2, <1>3, <1>4, <1>5, <1>6 DEF ToolchainNext, Stopped

LEMMA ToolchainInvariance == ToolchainSpec => []ToolInv
BY ToolInvInit, ToolInvNext, PTL DEF ToolchainSpec

-----------------------------------------------------------------------------
(* Every reachable state is well typed (compile to launch).                *)
THEOREM ToolchainTyped == ToolchainSpec => []ToolchainTypeOK
<1>1. ToolInv => ToolchainTypeOK
  BY DEF ToolInv, IInv, ToolTyped, Jobs, ToolchainTypeOK
<1> QED BY <1>1, ToolchainInvariance, PTL

(* A call finds its library in the optional and what it works on open, for *)
(* callers that use nothing between a teardown() and the return of the     *)
(* next initialize() (compile, link_library, load_library, the launches).  *)
THEOREM TargetsFound == ToolchainSpec => []CallsFindTheirTargets
<1>1. ToolInv => CallsFindTheirTargets
  <2> SUFFICES ASSUME ToolInv PROVE CallsFindTheirTargets
    OBVIOUS
  <2>1. ready => \A l \in Libs : engaged[l]
    BY DEF ToolInv, ReadyDone, IInv, DoneMeansLoaded
  <2>2. ready => engaged["cuda"]
    BY <2>1 DEF Libs
  <2>3. ASSUME NEW t \in Threads, InCall(t), NextCall(t) \in External
        PROVE  /\ engaged[LibOf(NextCall(t))]
               /\ job[t].req.op \in {"compile", "link"} /\ NextCall(t) \notin Creates
                    => t \in handles
               /\ NextCall(t) \in ModuleCalls => job[t].module \in modules
    <3>1. Busy(t) /\ RunningOK(t) /\ HandleOK(t) /\ ModuleOK(t)
          /\ Belongs(NextCall(t), job[t].req.op)
      BY <2>3, AtCall
    <3>2. engaged[LibOf(NextCall(t))]
      BY <2>1, <3>1 DEF RunningOK, LibOf, Libs
    <3>3. NextCall(t) \in ModuleCalls => job[t].module \in modules
      BY <3>1 DEF Belongs, ModuleOK, ToolInv, ModulesOwned
    <3> QED BY <3>1, <3>2, <3>3 DEF HandleOK, NextCall
  <2> QED BY <2>2, <2>3 DEF CallsFindTheirTargets
<1> QED BY <1>1, ToolchainInvariance, PTL

(* Whatever fails, a program or a link handle is open only inside the call *)
(* that made it, and a library is loaded exactly while it has an owner     *)
(* (RTCX_DEFER in compile, link_library and load_library, ~library_t).     *)
THEOREM NothingIsLeftOpen == ToolchainSpec => []NothingLeftOpen
<1>1. ToolInv => NothingLeftOpen
  <2> SUFFICES ASSUME ToolInv PROVE NothingLeftOpen
    OBVIOUS
  <2>1. \A t \in handles : Busy(t) /\ job[t].req.op \in {"compile", "link"}
    BY DEF ToolInv, ToolTyped, JobsOK, HandleOK
  <2>2. \A t \in Threads : Unwrapped(t) => job[t].module \in Modules
    BY DEF ToolInv, ToolTyped, Jobs, Unwrapped
  <2>3. modules = {m \in Modules : refs[m] # {}}
                  \cup {job[t].module : t \in {u \in Threads : Unwrapped(u)}}
    BY <2>2 DEF ToolInv, ToolTyped, ModulesOwned
  <2> QED BY <2>1, <2>3 DEF NothingLeftOpen
<1> QED BY <1>1, ToolchainInvariance, PTL

(* A function returns only if all its calls succeeded, and throws only if  *)
(* one failed or its arguments were refused (RTCX_CHECK_NVRTC,             *)
(* RTCX_CHECK_NVJITLINK after the logs).                                   *)
THEOREM AnswersAreTrue == ToolchainSpec => []AnswersTrue
<1>1. ToolInv => AnswersTrue
  BY DEF ToolInv
<1> QED BY <1>1, ToolchainInvariance, PTL
=============================================================================
