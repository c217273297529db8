----------------------- MODULE FragmentCompilerProofs -----------------------
(* Proofs about the fragment compiler, for any number of threads, keys and *)
(* devices.                                                                *)
EXTENDS FragmentCompiler, FiniteSetTheorems, TLAPS

(* The mutex is held by those who are past it. *)
MutexHeld ==
  /\ \A t \in Threads : pc[t] \in Writing <=> writer = t
  /\ \A t \in Threads : pc[t] = "find" <=> t \in readers
  /\ writer # None => readers = {}

(* Nobody is past the construction before it has been done. *)
Constructed ==
  arch = None => \A t \in Threads : pc[t] \in {"idle", "static"}

(* The count of programs, without a cardinality. *)
ProgramsCounted ==
  programs = lost + IF \E t \in Threads : pc[t] \in Owning THEN 1 ELSE 0

(* What is stored was compiled from a source that goes by its key, for the *)
(* architecture of the process, and what a caller holds is still there.    *)
Traced ==
  /\ \A k \in Keys : cache[k] # None =>
       /\ cache[k].key = k
       /\ cache[k].arch = arch
       /\ \E r \in Requests : r.key = k /\ r.code = cache[k].code
  /\ \A t \in Threads : new[t] # None =>
       new[t] = [key |-> Key(t), code |-> req[t].code, arch |-> arch]
  /\ \A t \in Threads : got[t] # None => cache[Key(t)] = got[t]

IInv ==
  /\ TypeOK /\ MutexHeld /\ Constructed /\ ProgramsCounted
  /\ CompiledOnce /\ Traced

(* A thread inside a call has a request, and so a key.                     *)
LEMMA KeyInKeys ==
  ASSUME TypeOK, NEW t \in Threads, pc[t] # "idle"
  PROVE  req[t] \in Requests /\ Key(t) \in Keys
BY DEF TypeOK, Key, Keys

-----------------------------------------------------------------------------
(* Every step keeps the types (compile, read_cache, the constructor).      *)
LEMMA TypeNext ==
  TypeOK /\ MutexHeld /\ Constructed /\ ProgramsCounted /\ [Next]_vars => TypeOK'
<1> SUFFICES ASSUME TypeOK, MutexHeld, Constructed, ProgramsCounted, [Next]_vars
             PROVE  TypeOK'
  OBVIOUS
<1> USE FragmentAssumption DEF Goto, lockVars, programVars, TypeOK, Inside, Writing, Owning
<1>1. ASSUME NEW t \in Threads, Begin(t) PROVE TypeOK'
  BY <1>1 DEF Begin
<1>2. ASSUME NEW t \in Threads, Construct(t) PROVE TypeOK'
  BY <1>2 DEF Construct
<1>3. ASSUME NEW t \in Threads, ConstructFails(t) PROVE TypeOK'
  BY <1>3 DEF ConstructFails
<1>4. ASSUME NEW t \in Threads, ReadLock(t) PROVE TypeOK'
  BY <1>4 DEF ReadLock
<1>5. ASSUME NEW t \in Threads, ReadCache(t) PROVE TypeOK'
  <2>1. Key(t) \in Keys /\ cache[Key(t)] \in Fragments \cup {None}
    BY <1>5, KeyInKeys DEF ReadCache, Give, Found
  <2> QED BY <1>5, <2>1 DEF ReadCache, Give, Found
<1>6. ASSUME NEW t \in Threads, WriteLock(t) PROVE TypeOK'
  BY <1>6 DEF WriteLock
<1>7. ASSUME NEW t \in Threads, FoundNow(t) PROVE TypeOK'
  <2>1. Key(t) \in Keys /\ cache[Key(t)] \in Fragments \cup {None}
    BY <1>7, KeyInKeys DEF FoundNow, Give, Found
  <2> QED BY <1>7, <2>1 DEF FoundNow, Give, Found
<1>8. ASSUME NEW t \in Threads, MissingStill(t) PROVE TypeOK'
  BY <1>8 DEF MissingStill, StillMissing
<1>9. ASSUME NEW t \in Threads, CreateProgram(t) PROVE TypeOK'
  BY <1>9 DEF CreateProgram
<1>10. ASSUME NEW t \in Threads, CompileProgram(t) PROVE TypeOK'
  BY <1>10 DEF CompileProgram
<1>11. ASSUME NEW t \in Threads, GetLTOIR(t) PROVE TypeOK'
  <2>1. [key |-> Key(t), code |-> req[t].code, arch |-> arch] \in Fragments
    BY <1>11, KeyInKeys DEF GetLTOIR, Fragments, Constructed
  <2> QED BY <1>11, <2>1 DEF GetLTOIR
<1>12. ASSUME NEW t \in Threads, DestroyProgram(t) PROVE TypeOK'
  <2>1. programs \in Nat /\ programs - 1 \in Nat
    BY <1>12 DEF ProgramsCounted, DestroyProgram
  <2> QED BY <1>12, <2>1 DEF DestroyProgram
<1>13. ASSUME NEW t \in Threads, Store(t) PROVE TypeOK'
  BY <1>13, KeyInKeys DEF Store, Give
<1>14. ASSUME NEW t \in Threads, CreateFails(t) PROVE TypeOK'
  BY <1>14 DEF CreateFails, Throw, WriterAfterThrow
<1>15. ASSUME NEW t \in Threads, LogThrows(t) PROVE TypeOK'
  <2>1. programs \in Nat /\ programs - 1 \in Nat
    BY <1>15 DEF ProgramsCounted, LogThrows, Throw, WriterAfterThrow, ProgramsAfterLog
  <2> QED BY <1>15, <2>1 DEF LogThrows, Throw, WriterAfterThrow, ProgramsAfterLog
<1>16. ASSUME NEW t \in Threads, LosesProgram(t) PROVE TypeOK'
  BY <1>16 DEF LosesProgram, Throw, WriterAfterThrow
<1>17. ASSUME NEW t \in Threads, Release(t) PROVE TypeOK'
  BY <1>17 DEF Release
<1>18. CASE UNCHANGED vars
  BY <1>18 DEF vars
<1> QED
  BY <1>1, <1>2, <1>3, <1>4, <1>5, <1>6, <1>7, <1>8, <1>9,
     <1>10, <1>11, <1>12, <1>13, <1>14, <1>15, <1>16, <1>17, <1>18
  DEF Next, Advance, Quiescent

-----------------------------------------------------------------------------
(* The mutex is shared by readers or held by one writer (cache_mutex_).    *)
LEMMA MutexNext == TypeOK /\ MutexHeld /\ [Next]_vars => MutexHeld'
<1> SUFFICES ASSUME TypeOK, MutexHeld, [Next]_vars PROVE MutexHeld'
  OBVIOUS
<1> USE FragmentAssumption DEF Goto, lockVars, programVars, MutexHeld, TypeOK, Inside, Writing, Owning
<1>1. ASSUME NEW t \in Threads, Begin(t) PROVE MutexHeld'
  BY <1>1 DEF Begin
<1>2. ASSUME NEW t \in Threads, Construct(t) PROVE MutexHeld'
  BY <1>2 DEF Construct
<1>3. ASSUME NEW t \in Threads, ConstructFails(t) PROVE MutexHeld'
  BY <1>3 DEF ConstructFails
<1>4. ASSUME NEW t \in Threads, ReadLock(t) PROVE MutexHeld'
  BY <1>4 DEF ReadLock
<1>5. ASSUME NEW t \in Threads, ReadCache(t) PROVE MutexHeld'
  BY <1>5 DEF ReadCache, Give, Found
<1>6. ASSUME NEW t \in Threads, WriteLock(t) PROVE MutexHeld'
  BY <1>6 DEF WriteLock
<1>7. ASSUME NEW t \in Threads, FoundNow(t) PROVE MutexHeld'
  BY <1>7 DEF FoundNow, Give, Found
<1>8. ASSUME NEW t \in Threads, MissingStill(t) PROVE MutexHeld'
  BY <1>8 DEF MissingStill, StillMissing
<1>9. ASSUME NEW t \in Threads, CreateProgram(t) PROVE MutexHeld'
  BY <1>9 DEF CreateProgram
<1>10. ASSUME NEW t \in Threads, CompileProgram(t) PROVE MutexHeld'
  BY <1>10 DEF CompileProgram
<1>11. ASSUME NEW t \in Threads, GetLTOIR(t) PROVE MutexHeld'
  BY <1>11 DEF GetLTOIR
<1>12. ASSUME NEW t \in Threads, DestroyProgram(t) PROVE MutexHeld'
  BY <1>12 DEF DestroyProgram
<1>13. ASSUME NEW t \in Threads, Store(t) PROVE MutexHeld'
  BY <1>13 DEF Store, Give
<1>14. ASSUME NEW t \in Threads, CreateFails(t) PROVE MutexHeld'
  BY <1>14 DEF CreateFails, Throw, WriterAfterThrow
<1>15. ASSUME NEW t \in Threads, LogThrows(t) PROVE MutexHeld'
  BY <1>15 DEF LogThrows, Throw, WriterAfterThrow, ProgramsAfterLog
<1>16. ASSUME NEW t \in Threads, LosesProgram(t) PROVE MutexHeld'
  BY <1>16 DEF LosesProgram, Throw, WriterAfterThrow
<1>17. ASSUME NEW t \in Threads, Release(t) PROVE MutexHeld'
  BY <1>17 DEF Release
<1>18. CASE UNCHANGED vars
  BY <1>18 DEF vars
<1> QED
  BY <1>1, <1>2, <1>3, <1>4, <1>5, <1>6, <1>7, <1>8, <1>9,
     <1>10, <1>11, <1>12, <1>13, <1>14, <1>15, <1>16, <1>17, <1>18
  DEF Next, Advance, Quiescent

(* At most one thread is past the exclusive lock.                          *)
LEMMA OneWriter ==
  ASSUME MutexHeld, NEW t \in Threads, NEW u \in Threads,
         pc[t] \in Writing, pc[u] \in Writing
  PROVE  t = u
BY DEF MutexHeld

(* The construction comes first and is done once (nvrtc_compiler).         *)
LEMMA ConstructedNext == TypeOK /\ Constructed /\ [Next]_vars => Constructed'
<1> SUFFICES ASSUME TypeOK, Constructed, [Next]_vars PROVE Constructed'
  OBVIOUS
<1> USE FragmentAssumption DEF Goto, lockVars, programVars, Constructed, TypeOK, Inside, Writing, Owning
<1>1. ASSUME NEW t \in Threads, Begin(t) PROVE Constructed'
  BY <1>1 DEF Begin
<1>2. ASSUME NEW t \in Threads, Construct(t) PROVE Constructed'
  BY <1>2 DEF Construct, NotConstructed
<1>3. ASSUME NEW t \in Threads, ConstructFails(t) PROVE Constructed'
  BY <1>3 DEF ConstructFails, NotConstructed
<1>4. ASSUME NEW t \in Threads, ReadLock(t) PROVE Constructed'
  BY <1>4 DEF ReadLock
<1>5. ASSUME NEW t \in Threads, ReadCache(t) PROVE Constructed'
  BY <1>5 DEF ReadCache, Give, Found
<1>6. ASSUME NEW t \in Threads, WriteLock(t) PROVE Constructed'
  BY <1>6 DEF WriteLock
<1>7. ASSUME NEW t \in Threads, FoundNow(t) PROVE Constructed'
  BY <1>7 DEF FoundNow, Give, Found
<1>8. ASSUME NEW t \in Threads, MissingStill(t) PROVE Constructed'
  BY <1>8 DEF MissingStill, StillMissing
<1>9. ASSUME NEW t \in Threads, CreateProgram(t) PROVE Constructed'
  BY <1>9 DEF CreateProgram
<1>10. ASSUME NEW t \in Threads, CompileProgram(t) PROVE Constructed'
  BY <1>10 DEF CompileProgram
<1>11. ASSUME NEW t \in Threads, GetLTOIR(t) PROVE Constructed'
  BY <1>11 DEF GetLTOIR
<1>12. ASSUME NEW t \in Threads, DestroyProgram(t) PROVE Constructed'
  BY <1>12 DEF DestroyProgram
<1>13. ASSUME NEW t \in Threads, Store(t) PROVE Constructed'
  BY <1>13 DEF Store, Give
<1>14. ASSUME NEW t \in Threads, CreateFails(t) PROVE Constructed'
  BY <1>14 DEF CreateFails, Throw, WriterAfterThrow
<1>15. ASSUME NEW t \in Threads, LogThrows(t) PROVE Constructed'
  BY <1>15 DEF LogThrows, Throw, WriterAfterThrow, ProgramsAfterLog
<1>16. ASSUME NEW t \in Threads, LosesProgram(t) PROVE Constructed'
  BY <1>16 DEF LosesProgram, Throw, WriterAfterThrow
<1>17. ASSUME NEW t \in Threads, Release(t) PROVE Constructed'
  BY <1>17 DEF Release
<1>18. CASE UNCHANGED vars
  BY <1>18 DEF vars
<1> QED
  BY <1>1, <1>2, <1>3, <1>4, <1>5, <1>6, <1>7, <1>8, <1>9,
     <1>10, <1>11, <1>12, <1>13, <1>14, <1>15, <1>16, <1>17, <1>18
  DEF Next, Advance, Quiescent

-----------------------------------------------------------------------------
(* Each program that is created is destroyed or lost (compile).            *)
LEMMA ProgramsNext ==
  TypeOK /\ MutexHeld /\ ProgramsCounted /\ [Next]_vars => ProgramsCounted'
<1> SUFFICES ASSUME TypeOK, MutexHeld, ProgramsCounted, [Next]_vars
             PROVE  ProgramsCounted'
  OBVIOUS
<1> USE FragmentAssumption DEF Goto, lockVars, programVars, ProgramsCounted
<1>a. ASSUME NEW t \in Threads, pc[t] \in Writing
      PROVE  \A u \in Threads \ {t} : pc[u] \notin Owning
  BY <1>a, OneWriter DEF Writing
<1>b. ASSUME NEW t \in Threads, NEW s, Goto(t, s), s \notin Owning, pc[t] \notin Owning
      PROVE  (\E u \in Threads : pc'[u] \in Owning) <=> \E u \in Threads : pc[u] \in Owning
  BY <1>b DEF TypeOK
<1>c. ASSUME NEW t \in Threads, NEW s, Goto(t, s), pc[t] \in Writing
      PROVE  (\E u \in Threads : pc'[u] \in Owning) <=> s \in Owning
  BY <1>a, <1>c DEF TypeOK
<1>e. ASSUME NEW t \in Threads, NEW s \in {"store", "idle"}, Goto(t, s), pc[t] \in Writing
      PROVE  ~ \E u \in Threads : pc'[u] \in Owning
  <2>1. pc'[t] = s /\ \A u \in Threads \ {t} : pc'[u] = pc[u]
    BY <1>e DEF TypeOK
  <2>2. pc'[t] \notin Owning
    BY <2>1 DEF Owning
  <2> QED BY <1>a, <1>e, <2>1, <2>2
<1>d. lost \in Nat /\ programs \in Nat
  BY DEF TypeOK
<1>1. ASSUME NEW t \in Threads, Begin(t) PROVE ProgramsCounted'
  BY <1>1, <1>b, <1>d DEF Owning, Begin
<1>2. ASSUME NEW t \in Threads, Construct(t) PROVE ProgramsCounted'
  BY <1>2, <1>b, <1>d DEF Owning, Construct
<1>3. ASSUME NEW t \in Threads, ConstructFails(t) PROVE ProgramsCounted'
  BY <1>3, <1>b, <1>d DEF Owning, ConstructFails
<1>4. ASSUME NEW t \in Threads, ReadLock(t) PROVE ProgramsCounted'
  BY <1>4, <1>b, <1>d DEF Owning, ReadLock
<1>5. ASSUME NEW t \in Threads, ReadCache(t) PROVE ProgramsCounted'
  BY <1>5, <1>b, <1>d DEF Owning, ReadCache, Give, Found
<1>6. ASSUME NEW t \in Threads, WriteLock(t) PROVE ProgramsCounted'
  BY <1>6, <1>b, <1>d DEF Owning, WriteLock
<1>7. ASSUME NEW t \in Threads, FoundNow(t) PROVE ProgramsCounted'
  BY <1>7, <1>b, <1>d DEF Owning, FoundNow, Give, Found
<1>8. ASSUME NEW t \in Threads, MissingStill(t) PROVE ProgramsCounted'
  BY <1>8, <1>b, <1>d DEF Owning, MissingStill, StillMissing
<1>9. ASSUME NEW t \in Threads, CreateProgram(t) PROVE ProgramsCounted'
  <2>1. pc[t] \in Writing /\ pc[t] \notin Owning
    BY <1>9 DEF Writing, Owning, CreateProgram
  <2>2. ~ \E u \in Threads : pc[u] \in Owning
    BY <2>1, <1>a
  <2>3. Goto(t, "compile")
    BY <1>9 DEF CreateProgram
  <2>4. \E u \in Threads : pc'[u] \in Owning
    BY <2>1, <2>3, <1>c DEF Owning
  <2> QED BY <1>9, <1>d, <2>2, <2>4 DEF CreateProgram
<1>10. ASSUME NEW t \in Threads, CompileProgram(t) PROVE ProgramsCounted'
  <2>1. pc[t] \in Writing /\ pc[t] \in Owning
    BY <1>10 DEF Writing, Owning, CompileProgram
  <2>2. \E u \in Threads : pc[u] \in Owning
    BY <2>1, <1>a
  <2>3. (Goto(t, "code") \/ Goto(t, "log"))
    BY <1>10 DEF CompileProgram
  <2>4. \E u \in Threads : pc'[u] \in Owning
    BY <2>1, <2>3, <1>c DEF Owning
  <2> QED BY <1>10, <1>d, <2>2, <2>4 DEF CompileProgram
<1>11. ASSUME NEW t \in Threads, GetLTOIR(t) PROVE ProgramsCounted'
  <2>1. pc[t] \in Writing /\ pc[t] \in Owning
    BY <1>11 DEF Writing, Owning, GetLTOIR
  <2>2. \E u \in Threads : pc[u] \in Owning
    BY <2>1, <1>a
  <2>3. Goto(t, "destroy")
    BY <1>11 DEF GetLTOIR
  <2>4. \E u \in Threads : pc'[u] \in Owning
    BY <2>1, <2>3, <1>c DEF Owning
  <2> QED BY <1>11, <1>d, <2>2, <2>4 DEF GetLTOIR
<1>12. ASSUME NEW t \in Threads, DestroyProgram(t) PROVE ProgramsCounted'
  <2>1. pc[t] \in Writing /\ pc[t] \in Owning
    BY <1>12 DEF Writing, Owning, DestroyProgram
  <2>2. \E u \in Threads : pc[u] \in Owning
    BY <2>1, <1>a
  <2>3. Goto(t, "store")
    BY <1>12 DEF DestroyProgram
  <2>4. ~ \E u \in Threads : pc'[u] \in Owning
    BY <2>1, <2>3, <1>e DEF Owning
  <2> QED BY <1>12, <1>d, <2>2, <2>4 DEF DestroyProgram
<1>13. ASSUME NEW t \in Threads, Store(t) PROVE ProgramsCounted'
  BY <1>13, <1>b, <1>d DEF Owning, Store, Give
<1>14. ASSUME NEW t \in Threads, CreateFails(t) PROVE ProgramsCounted'
  BY <1>14, <1>b, <1>d DEF Owning, CreateFails, Throw, WriterAfterThrow
<1>15. ASSUME NEW t \in Threads, LogThrows(t) PROVE ProgramsCounted'
  <2>1. pc[t] \in Writing /\ pc[t] \in Owning
    BY <1>15 DEF Writing, Owning, LogThrows, Throw, WriterAfterThrow, ProgramsAfterLog
  <2>2. \E u \in Threads : pc[u] \in Owning
    BY <2>1, <1>a
  <2>3. Goto(t, "idle")
    BY <1>15 DEF LogThrows, Throw, WriterAfterThrow, ProgramsAfterLog
  <2>4. ~ \E u \in Threads : pc'[u] \in Owning
    BY <2>1, <2>3, <1>e DEF Owning
  <2> QED BY <1>15, <1>d, <2>2, <2>4 DEF LogThrows, Throw, WriterAfterThrow, ProgramsAfterLog
<1>16. ASSUME NEW t \in Threads, LosesProgram(t) PROVE ProgramsCounted'
  <2>1. pc[t] \in Writing /\ pc[t] \in Owning
    BY <1>16 DEF Writing, Owning, LosesProgram, Throw, WriterAfterThrow
  <2>2. \E u \in Threads : pc[u] \in Owning
    BY <2>1, <1>a
  <2>3. Goto(t, "idle")
    BY <1>16 DEF LosesProgram, Throw, WriterAfterThrow
  <2>4. ~ \E u \in Threads : pc'[u] \in Owning
    BY <2>1, <2>3, <1>e DEF Owning
  <2> QED BY <1>16, <1>d, <2>2, <2>4 DEF LosesProgram, Throw, WriterAfterThrow
<1>17. ASSUME NEW t \in Threads, Release(t) PROVE ProgramsCounted'
  BY <1>17, <1>b, <1>d DEF Owning, Release
<1>18. CASE UNCHANGED vars
  BY <1>18 DEF vars
<1> QED
  BY <1>1, <1>2, <1>3, <1>4, <1>5, <1>6, <1>7, <1>8, <1>9,
     <1>10, <1>11, <1>12, <1>13, <1>14, <1>15, <1>16, <1>17, <1>18
  DEF Next, Advance, Quiescent

-----------------------------------------------------------------------------
(* The key of a compile in progress stays missing (compile).               *)
LEMMA CompiledOnceNext ==
  TypeOK /\ MutexHeld /\ CompiledOnce /\ [Next]_vars => CompiledOnce'
<1> SUFFICES ASSUME TypeOK, MutexHeld, CompiledOnce, [Next]_vars,
                    NEW u \in Threads, (pc[u] \in {"create", "store"} \cup Owning)'
             PROVE  (cache[Key(u)] = None)'
  BY DEF CompiledOnce
<1> USE FragmentAssumption DEF Goto, lockVars, programVars, CompiledOnce, Key, TypeOK, Owning
<1>1. ASSUME NEW t \in Threads, Begin(t) PROVE (cache[Key(u)] = None)'
  BY <1>1 DEF Begin
<1>2. ASSUME NEW t \in Threads, Construct(t) PROVE (cache[Key(u)] = None)'
  BY <1>2 DEF Construct
<1>3. ASSUME NEW t \in Threads, ConstructFails(t) PROVE (cache[Key(u)] = None)'
  BY <1>3 DEF ConstructFails
<1>4. ASSUME NEW t \in Threads, ReadLock(t) PROVE (cache[Key(u)] = None)'
  BY <1>4 DEF ReadLock
<1>5. ASSUME NEW t \in Threads, ReadCache(t) PROVE (cache[Key(u)] = None)'
  BY <1>5 DEF ReadCache, Give, Found
<1>6. ASSUME NEW t \in Threads, WriteLock(t) PROVE (cache[Key(u)] = None)'
  BY <1>6 DEF WriteLock
<1>7. ASSUME NEW t \in Threads, FoundNow(t) PROVE (cache[Key(u)] = None)'
  BY <1>7 DEF FoundNow, Give, Found
<1>8. ASSUME NEW t \in Threads, MissingStill(t) PROVE (cache[Key(u)] = None)'
  BY <1>8 DEF MissingStill, StillMissing
<1>9. ASSUME NEW t \in Threads, CreateProgram(t) PROVE (cache[Key(u)] = None)'
  BY <1>9 DEF CreateProgram
<1>10. ASSUME NEW t \in Threads, CompileProgram(t) PROVE (cache[Key(u)] = None)'
  BY <1>10 DEF CompileProgram
<1>11. ASSUME NEW t \in Threads, GetLTOIR(t) PROVE (cache[Key(u)] = None)'
  BY <1>11 DEF GetLTOIR
<1>12. ASSUME NEW t \in Threads, DestroyProgram(t) PROVE (cache[Key(u)] = None)'
  BY <1>12 DEF DestroyProgram
<1>13. ASSUME NEW t \in Threads, Store(t) PROVE (cache[Key(u)] = None)'
  <2>1. pc[t] \in Writing /\ pc'[t] = "hold" /\ (u # t => pc[u] \in Writing)
    BY <1>13 DEF Store, Give, Writing
  <2> QED BY <2>1, OneWriter
<1>14. ASSUME NEW t \in Threads, CreateFails(t) PROVE (cache[Key(u)] = None)'
  BY <1>14 DEF CreateFails, Throw, WriterAfterThrow
<1>15. ASSUME NEW t \in Threads, LogThrows(t) PROVE (cache[Key(u)] = None)'
  BY <1>15 DEF LogThrows, Throw, WriterAfterThrow, ProgramsAfterLog
<1>16. ASSUME NEW t \in Threads, LosesProgram(t) PROVE (cache[Key(u)] = None)'
  BY <1>16 DEF LosesProgram, Throw, WriterAfterThrow
<1>17. ASSUME NEW t \in Threads, Release(t) PROVE (cache[Key(u)] = None)'
  BY <1>17 DEF Release
<1>18. CASE UNCHANGED vars
  BY <1>18 DEF vars
<1> QED
  BY <1>1, <1>2, <1>3, <1>4, <1>5, <1>6, <1>7, <1>8, <1>9,
     <1>10, <1>11, <1>12, <1>13, <1>14, <1>15, <1>16, <1>17, <1>18
  DEF Next, Advance, Quiescent

-----------------------------------------------------------------------------
(* What is stored and held is what was compiled (compile, read_cache).     *)
LEMMA TracedNext == IInv /\ [Next]_vars => Traced'
<1> SUFFICES ASSUME IInv, [Next]_vars PROVE Traced'
  OBVIOUS
<1> USE FragmentAssumption DEF Goto, lockVars, programVars, IInv, TypeOK, Traced, Key
<1>a. \A t \in Threads : pc[t] # "idle" => req[t] \in Requests /\ req[t].key \in Keys
  BY KeyInKeys
<1>1. ASSUME NEW t \in Threads, Begin(t) PROVE Traced'
  BY <1>1, <1>a DEF Begin
<1>2. ASSUME NEW t \in Threads, Construct(t) PROVE Traced'
  <2>1. NotConstructed => /\ \A k \in Keys : cache[k] = None
                          /\ \A u \in Threads : new[u] = None
    BY DEF NotConstructed, Constructed, Fragments
  <2> QED BY <1>2, <2>1 DEF Construct
<1>3. ASSUME NEW t \in Threads, ConstructFails(t) PROVE Traced'
  BY <1>3, <1>a DEF ConstructFails
<1>4. ASSUME NEW t \in Threads, ReadLock(t) PROVE Traced'
  BY <1>4, <1>a DEF ReadLock
<1>5. ASSUME NEW t \in Threads, ReadCache(t) PROVE Traced'
  BY <1>5, <1>a DEF ReadCache, Give, Found
<1>6. ASSUME NEW t \in Threads, WriteLock(t) PROVE Traced'
  BY <1>6, <1>a DEF WriteLock
<1>7. ASSUME NEW t \in Threads, FoundNow(t) PROVE Traced'
  BY <1>7, <1>a DEF FoundNow, Give, Found
<1>8. ASSUME NEW t \in Threads, MissingStill(t) PROVE Traced'
  BY <1>8, <1>a DEF MissingStill, StillMissing
<1>9. ASSUME NEW t \in Threads, CreateProgram(t) PROVE Traced'
  BY <1>9, <1>a DEF CreateProgram
<1>10. ASSUME NEW t \in Threads, CompileProgram(t) PROVE Traced'
  BY <1>10, <1>a DEF CompileProgram
<1>11. ASSUME NEW t \in Threads, GetLTOIR(t) PROVE Traced'
  BY <1>11, <1>a DEF GetLTOIR
<1>12. ASSUME NEW t \in Threads, DestroyProgram(t) PROVE Traced'
  BY <1>12, <1>a DEF DestroyProgram
<1>13. ASSUME NEW t \in Threads, Store(t) PROVE Traced'
  <2>1. /\ req[t] \in Requests /\ Key(t) \in Keys /\ cache[Key(t)] = None
        /\ new[t] = [key |-> Key(t), code |-> req[t].code, arch |-> arch]
    BY <1>13, <1>a DEF Store, CompiledOnce
  <2>2. \A u \in Threads : new'[u] = None
    BY <1>13, OneWriter DEF Store, Writing, Owning
  <2>3. \A u \in Threads \ {t} : got[u] # None => Key(u) # Key(t)
    BY <2>1
  <2>4. cache' = [cache EXCEPT ![Key(t)] = new[t]] /\ UNCHANGED <<arch, req>>
    BY <1>13 DEF Store
  <2>5. ASSUME NEW k \in Keys, cache'[k] # None
        PROVE  /\ cache'[k].key = k /\ cache'[k].arch = arch
               /\ \E r \in Requests : r.key = k /\ r.code = cache'[k].code
    BY <2>1, <2>4, <2>5
  <2>6. ASSUME NEW u \in Threads, got'[u] # None PROVE cache'[Key(u)] = got'[u]
    <3>1. got' = [got EXCEPT ![t] = new[t]]
      BY <1>13 DEF Store, Give
    <3> QED BY <2>1, <2>3, <2>4, <2>6, <3>1
  <2> QED BY <2>2, <2>4, <2>5, <2>6
<1>14. ASSUME NEW t \in Threads, CreateFails(t) PROVE Traced'
  BY <1>14, <1>a DEF CreateFails, Throw, WriterAfterThrow
<1>15. ASSUME NEW t \in Threads, LogThrows(t) PROVE Traced'
  BY <1>15, <1>a DEF LogThrows, Throw, WriterAfterThrow, ProgramsAfterLog
<1>16. ASSUME NEW t \in Threads, LosesProgram(t) PROVE Traced'
  BY <1>16, <1>a DEF LosesProgram, Throw, WriterAfterThrow
<1>17. ASSUME NEW t \in Threads, Release(t) PROVE Traced'
  BY <1>17, <1>a DEF Release
<1>18. CASE UNCHANGED vars
  BY <1>18 DEF vars
<1> QED
  BY <1>1, <1>2, <1>3, <1>4, <1>5, <1>6, <1>7, <1>8, <1>9,
     <1>10, <1>11, <1>12, <1>13, <1>14, <1>15, <1>16, <1>17, <1>18
  DEF Next, Advance, Quiescent

-----------------------------------------------------------------------------
(* The inductive invariant always holds.                                   *)
LEMMA Invariance == Spec => []IInv
<1>1. Init => IInv
  BY FragmentAssumption
  DEF Init, IInv, TypeOK, MutexHeld, Constructed, ProgramsCounted, CompiledOnce,
      Traced, Inside, Writing, Owning
<1>2. IInv /\ [Next]_vars => IInv'
  BY TypeNext, MutexNext, ConstructedNext, ProgramsNext, CompiledOnceNext, TracedNext
  DEF IInv
<1> QED BY <1>1, <1>2, PTL DEF Spec

(* Every reachable state is well typed, and each thread has the request,   *)
(* the fragment and the copy that go with the step it is at (compile).     *)
THEOREM TypeCorrect == Spec => []TypeOK
<1>1. IInv => TypeOK
  BY DEF IInv
<1> QED BY <1>1, Invariance, PTL

(* Nobody runs NVRTC for a key that is compiled already (compile's second  *)
(* look behind the exclusive mutex).                                       *)
THEOREM CompilesOnce == Spec => []CompiledOnce
<1>1. IInv => CompiledOnce
  BY DEF IInv
<1> QED BY <1>1, Invariance, PTL

(* All fragments of a process are for one architecture (nvrtc_compiler).   *)
THEOREM OneArchitecture == Spec => []OneArch
<1>1. IInv => OneArch
  <2> SUFFICES ASSUME IInv PROVE OneArch
    OBVIOUS
  <2>1. ASSUME NEW t \in Threads, got[t] # None
        PROVE  Key(t) \in Keys /\ cache[Key(t)] = got[t]
    BY <2>1, KeyInKeys DEF IInv, TypeOK, Traced
  <2>2. \A k \in Keys : cache[k] # None => cache[k].arch = arch
    BY DEF IInv, Traced
  <2> QED BY <2>1, <2>2 DEF OneArch
<1> QED BY <1>1, Invariance, PTL

(* Where a key stands for one source, a caller gets the fragment of its    *)
(* own source (compile, read_cache).                                       *)
THEOREM RightFragmentGiven == Spec => []RightFragment
<1>1. IInv => RightFragment
  <2> SUFFICES ASSUME IInv, KeysTellSources, NEW t \in Threads, got[t] # None
               PROVE  got[t].code = req[t].code
    BY DEF RightFragment
  <2>1. req[t] \in Requests /\ Key(t) \in Keys /\ cache[Key(t)] = got[t]
    BY KeyInKeys DEF IInv, TypeOK, Traced
  <2>2. PICK r \in Requests : r.key = Key(t) /\ r.code = got[t].code
    BY <2>1 DEF IInv, Traced
  <2>3. r = req[t]
    BY <2>1, <2>2 DEF KeysTellSources, Key
  <2> QED BY <2>2, <2>3
<1> QED BY <1>1, Invariance, PTL

(* Every open program is that of the one thread that compiles, or was lost *)
(* by a failure outside the try block (compile).                           *)
THEOREM ProgramsAccounted == Spec => []ProgramsReleased
<1>1. IInv => ProgramsReleased
  <2> SUFFICES ASSUME IInv PROVE ProgramsReleased
    OBVIOUS
  <2> DEFINE Owners == {t \in Threads : pc[t] \in Owning}
  <2>1. CASE \E t \in Threads : pc[t] \in Owning
    <3>1. PICK t \in Threads : pc[t] \in Owning
      BY <2>1
    <3>2. Owners = {t}
      BY <3>1, OneWriter DEF IInv, Writing
    <3>3. Cardinality(Owners) = 1
      BY <3>2, FS_Singleton
    <3> QED BY <2>1, <3>3 DEF IInv, ProgramsCounted, ProgramsReleased
  <2>2. CASE ~ \E t \in Threads : pc[t] \in Owning
    <3>1. Owners = {}
      BY <2>2
    <3>2. Cardinality(Owners) = 0
      BY <3>1, FS_EmptySet
    <3> QED BY <2>2, <3>2 DEF IInv, ProgramsCounted, ProgramsReleased
  <2> QED BY <2>1, <2>2
<1> QED BY <1>1, Invariance, PTL

-----------------------------------------------------------------------------
(* The compiler is a OnceMap: one fragment per key for good, and an        *)
(* exception only where there is none.                                     *)
Abstract == <<cache, Waiting, got>>

(* A thread waits exactly while it is inside a call.                       *)
LEMMA WaitingIs ==
  ASSUME TypeOK, NEW t \in Threads
  PROVE  /\ Waiting[t] = IF pc[t] \in Inside THEN Key(t) ELSE None
         /\ pc[t] \in Inside => Waiting[t] \in Keys /\ Waiting[t] # None
BY KeyInKeys, FragmentAssumption DEF Waiting, Inside, Writing, Owning

(* A step inside a call that neither finds nor compiles is not seen.       *)
LEMMA Unseen ==
  ASSUME NEW t \in Threads, TypeOK, NEW s \in Inside, pc[t] \in Inside,
         Goto(t, s), UNCHANGED <<cache, req, got>>
  PROVE  UNCHANGED Abstract
<1>1. ASSUME NEW u \in Threads
      PROVE  (pc'[u] \in Inside <=> pc[u] \in Inside) /\ Key(u)' = Key(u)
  BY DEF Goto, TypeOK, Key
<1>2. Waiting' = Waiting
  BY <1>1 DEF Waiting
<1> QED BY <1>2 DEF Abstract

(* The call of t is over for the others.                                   *)
LEMMA Seen ==
  ASSUME NEW t \in Threads, TypeOK, NEW s \in {"idle", "hold"}, Goto(t, s),
         \A u \in Threads \ {t} : req'[u] = req[u]
  PROVE  Waiting' = [Waiting EXCEPT ![t] = None]
<1>1. ASSUME NEW u \in Threads \ {t} PROVE pc'[u] = pc[u] /\ Key(u)' = Key(u)
  BY DEF Goto, TypeOK, Key
<1>2. pc'[t] = s /\ s \notin Inside
  BY DEF Goto, TypeOK, Inside, Writing, Owning
<1> QED BY <1>1, <1>2 DEF Waiting

(* Each step is a step of OnceMap, or not seen (compile).                  *)
LEMMA StepMaps ==
  ASSUME IInv, [Next]_vars PROVE Once!Next \/ UNCHANGED Abstract
<1> USE FragmentAssumption DEF IInv
<1>1. ASSUME NEW t \in Threads, Begin(t) PROVE Once!Next
  <2>1. PICK r \in Requests : req' = [req EXCEPT ![t] = r]
    BY <1>1 DEF Begin
  <2>2. req'[t] = r /\ pc'[t] = "static" /\ pc[t] = "idle"
    BY <1>1, <2>1 DEF Begin, Goto, TypeOK
  <2>3. ASSUME NEW u \in Threads \ {t} PROVE pc'[u] = pc[u] /\ Key(u)' = Key(u)
    BY <1>1, <2>1 DEF Begin, Goto, TypeOK, Key
  <2>4. Waiting' = [Waiting EXCEPT ![t] = r.key]
    BY <2>2, <2>3 DEF Waiting, Key, Inside
  <2>5. Waiting[t] = None /\ got[t] = None
    BY <2>2, WaitingIs DEF TypeOK, Inside, Writing, Owning
  <2>6. Once!Ask(t, r.key)
    BY <1>1, <2>4, <2>5 DEF Once!Ask, Begin
  <2> QED BY <2>6 DEF Once!Next, Keys
<1>2. ASSUME NEW t \in Threads, cache[Key(t)] # None,
             pc[t] \in {"find", "recheck"}, Give(t, cache[Key(t)]),
             UNCHANGED <<req, cache>>
      PROVE  Once!Next
  <2>1. Waiting[t] = Key(t) /\ Waiting[t] # None
    BY <1>2, WaitingIs DEF Inside, Writing
  <2>2. Waiting' = [Waiting EXCEPT ![t] = None]
    BY <1>2, Seen DEF Give
  <2>3. Once!Find(t)
    BY <1>2, <2>1, <2>2 DEF Once!Find, Give
  <2> QED BY <2>3 DEF Once!Next
<1>3. ASSUME NEW t \in Threads, Store(t) PROVE Once!Next
  <2>1. /\ pc[t] = "store" /\ Goto(t, "hold") /\ UNCHANGED req
        /\ cache' = [cache EXCEPT ![Key(t)] = new[t]]
        /\ got' = [got EXCEPT ![t] = new[t]]
    BY <1>3 DEF Store, Give
  <2>2. Waiting[t] = Key(t) /\ Waiting[t] # None /\ Key(t) \in Keys
    BY <2>1, WaitingIs DEF Inside, Writing
  <2>3. Waiting' = [Waiting EXCEPT ![t] = None]
    BY <2>1, Seen
  <2>4. new[t] \in Fragments /\ new[t].key = Key(t)
    BY <2>1 DEF TypeOK, Traced
  <2>5. cache[Key(t)] = None
    BY <2>1 DEF CompiledOnce
  <2>6. \A k \in Keys : cache[k] # new[t]
    BY <2>4, <2>5 DEF Traced
  <2>7. \A u \in Threads : got[u] # new[t]
    <3>1. ASSUME NEW u \in Threads, got[u] = new[t] PROVE FALSE
      <4>1. Key(u) \in Keys /\ cache[Key(u)] = new[t]
        BY <2>4, <3>1, KeyInKeys DEF TypeOK, Traced
      <4> QED BY <2>6, <4>1
    <3> QED BY <3>1
  <2>8. Once!Create(t, new[t])
    BY <2>1, <2>2, <2>3, <2>5, <2>6, <2>7 DEF Once!Create
  <2> QED BY <2>4, <2>8 DEF Once!Next
<1>4. ASSUME NEW t \in Threads, pc[t] \in Inside, cache[Key(t)] = None,
             Goto(t, "idle"), req' = [req EXCEPT ![t] = None],
             UNCHANGED <<cache, got>>
      PROVE  Once!Next
  <2>1. Waiting[t] = Key(t) /\ Waiting[t] # None
    BY <1>4, WaitingIs
  <2>2. \A u \in Threads \ {t} : req'[u] = req[u]
    BY <1>4 DEF TypeOK
  <2>3. Waiting' = [Waiting EXCEPT ![t] = None]
    BY <1>4, <2>2, Seen
  <2>4. Once!Fail(t)
    BY <1>4, <2>1, <2>3 DEF Once!Fail
  <2> QED BY <2>4 DEF Once!Next
<1>5. ASSUME NEW t \in Threads, Release(t) PROVE Once!Next
  <2>1. /\ pc[t] = "hold" /\ Goto(t, "idle") /\ got' = [got EXCEPT ![t] = None]
        /\ req' = [req EXCEPT ![t] = None] /\ UNCHANGED cache
    BY <1>5 DEF Release
  <2>2. got[t] # None
    BY <2>1 DEF TypeOK
  <2>3. Waiting' = Waiting
    <3>1. ASSUME NEW u \in Threads \ {t} PROVE pc'[u] = pc[u] /\ Key(u)' = Key(u)
      BY <2>1 DEF Goto, TypeOK, Key
    <3>2. pc[t] \notin Inside /\ pc'[t] \notin Inside
      BY <2>1 DEF Goto, TypeOK, Inside, Writing, Owning
    <3> QED BY <3>1, <3>2 DEF Waiting
  <2>4. Once!Drop(t)
    BY <2>1, <2>2, <2>3 DEF Once!Drop
  <2> QED BY <2>4 DEF Once!Next
<1>6. ASSUME NEW t \in Threads, ReadCache(t) PROVE Once!Next \/ UNCHANGED Abstract
  <2>1. CASE Found(t)
    BY <1>2, <1>6, <2>1 DEF ReadCache, Found
  <2>2. CASE ~Found(t)
    BY <1>6, <2>2, Unseen DEF ReadCache, Inside, Writing
  <2> QED BY <2>1, <2>2
<1>7. ASSUME NEW t \in Threads, FoundNow(t) PROVE Once!Next
  BY <1>2, <1>7 DEF FoundNow, Found
<1>8. ASSUME NEW t \in Threads, ConstructFails(t) PROVE Once!Next
  <2>1. Key(t) \in Keys /\ pc[t] \in Inside
    BY <1>8, KeyInKeys DEF ConstructFails, Inside
  <2>2. cache[Key(t)] = None
    BY <1>8, <2>1 DEF ConstructFails, NotConstructed, Traced, TypeOK, Fragments
  <2> QED BY <1>4, <1>8, <2>1, <2>2 DEF ConstructFails
<1>9. ASSUME NEW t \in Threads, CreateFails(t) \/ LogThrows(t) \/ LosesProgram(t)
      PROVE  Once!Next
  <2>1. pc[t] \in {"create"} \cup Owning /\ pc[t] \in Inside
    BY <1>9 DEF CreateFails, LogThrows, LosesProgram, Owning, Inside, Writing
  <2>2. cache[Key(t)] = None
    BY <2>1 DEF CompiledOnce
  <2> QED BY <1>4, <1>9, <2>1, <2>2 DEF CreateFails, LogThrows, LosesProgram, Throw
<1>10. ASSUME NEW t \in Threads,
              \/ Construct(t) \/ ReadLock(t) \/ WriteLock(t) \/ MissingStill(t)
              \/ CreateProgram(t) \/ CompileProgram(t) \/ GetLTOIR(t)
              \/ DestroyProgram(t)
       PROVE  UNCHANGED Abstract
  <2>1. PICK s \in Inside : Goto(t, s)
    BY <1>10
    DEF Construct, ReadLock, WriteLock, MissingStill, CreateProgram,
        CompileProgram, GetLTOIR, DestroyProgram, Inside, Writing, Owning
  <2>2. pc[t] \in Inside /\ UNCHANGED <<cache, req, got>>
    BY <1>10
    DEF Construct, ReadLock, WriteLock, MissingStill, CreateProgram,
        CompileProgram, GetLTOIR, DestroyProgram, Inside, Writing, Owning
  <2> QED BY <2>1, <2>2, Unseen
<1>11. CASE UNCHANGED vars
  BY <1>11 DEF vars, Abstract, Waiting, Key
<1> QED
  BY <1>1, <1>3, <1>5, <1>6, <1>7, <1>8, <1>9, <1>10, <1>11
  DEF Next, Advance, Quiescent

(* To its callers, any number of threads, the compiler keeps one fragment  *)
(* for each key and fails only while there is none (compile).              *)
THEOREM ImplementsOnceMap == Spec => IsOnceMap
<1>1. Init => Once!Init
  BY FragmentAssumption DEF Init, Once!Init, Waiting, Inside, Writing, Owning
<1>2. IInv /\ [Next]_vars => [Once!Next]_(Once!vars)
  BY StepMaps DEF Abstract, Once!vars
<1> QED BY <1>1, <1>2, Invariance, PTL DEF Spec, IsOnceMap, Once!Spec
=============================================================================
