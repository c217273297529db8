------------------------- MODULE LauncherCacheProofs -------------------------
(* Proofs about the launcher cache, for any number of threads, plans and   *)
(* launchers.                                                              *)
EXTENDS LauncherCache, TLAPS

(* A thread that builds does so for a key that is still missing: it holds  *)
(* the mutex exclusively since its second look.                            *)
StillAbsent ==
  \A t \in Threads :
    pc[t] \in BuildSteps \cup {"store"} => launchers[Key(t)] = None

(* What the cache, the callers and the builds hold was built for their     *)
(* key, and a launcher under construction is with its builder alone.       *)
Traced ==
  /\ \A k \in Keys : launchers[k] # None =>
       /\ origin[launchers[k]] \in Plans
       /\ LaunchKey(origin[launchers[k]]) = k
  /\ \A t \in Threads : got[t] # None =>
       /\ origin[got[t]] \in Plans
       /\ LaunchKey(origin[got[t]]) = Key(t)
  /\ \A t \in Threads : built[t] # None =>
       /\ origin[built[t]] = plan[t]
       /\ \A k \in Keys : launchers[k] # built[t]
       /\ \A u \in Threads : got[u] # built[t]

(* Who is owned has its library loaded, and was never free. *)
OwnedLoaded ==
  /\ \A k \in Keys : launchers[k] # None => lib[launchers[k]] = "loaded"
  /\ \A t \in Threads : got[t] # None => lib[got[t]] = "loaded"
  /\ \A t \in Threads : built[t] # None => lib[built[t]] = "loaded"

IInv == TypeOK /\ MutexHeld /\ StillAbsent /\ Traced /\ OwnedLoaded

LEMMA KeyInKeys ==
  ASSUME TypeOK, NEW t \in Threads, pc[t] # "idle"
  PROVE  plan[t] \in Plans /\ Key(t) \in Keys
BY DEF TypeOK, Key, Keys

-----------------------------------------------------------------------------
(* Type correctness. *)
LEMMA TypeInit == Init => TypeOK
BY LauncherAssumption DEF Init, TypeOK, EmptyCache, Steps

LEMMA TypeNext == TypeOK /\ MutexHeld /\ [Next]_vars => TypeOK'
<1> SUFFICES ASSUME TypeOK, MutexHeld, [Next]_vars PROVE TypeOK'
  OBVIOUS
<1> USE LauncherAssumption DEF Goto, lockVars
<1>1. ASSUME NEW t \in Threads, GetLauncher(t) PROVE TypeOK'
  BY <1>1 DEF GetLauncher, TypeOK, Steps
<1>2. ASSUME NEW t \in Threads, ReadLock(t) PROVE TypeOK'
  BY <1>2 DEF ReadLock, TypeOK, Steps
<1>3. ASSUME NEW t \in Threads, ReadHit(t) PROVE TypeOK'
  <2>1. Key(t) \in Keys /\ launchers[Key(t)] \in Launchers
    BY <1>3, KeyInKeys DEF ReadHit, Found, TypeOK
  <2> QED BY <1>3, <2>1 DEF ReadHit, TypeOK, Steps
<1>4. ASSUME NEW t \in Threads, ReadMiss(t) PROVE TypeOK'
  BY <1>4 DEF ReadMiss, TypeOK, Steps
<1>5. ASSUME NEW t \in Threads, WriteLock(t) PROVE TypeOK'
  BY <1>5 DEF WriteLock, TypeOK, Steps
<1>6. ASSUME NEW t \in Threads, WriteHit(t) PROVE TypeOK'
  <2>1. Key(t) \in Keys /\ launchers[Key(t)] \in Launchers
    BY <1>6, KeyInKeys DEF WriteHit, Found, TypeOK
  <2> QED BY <1>6, <2>1 DEF WriteHit, TypeOK, Steps
<1>7. ASSUME NEW t \in Threads, WriteMiss(t) PROVE TypeOK'
  BY <1>7 DEF WriteMiss, TypeOK, Steps, BuildSteps
<1>8. ASSUME NEW t \in Threads, Link(t) PROVE TypeOK'
  BY <1>8 DEF Link, TypeOK, Steps, BuildSteps
<1>9. ASSUME NEW t \in Threads, Load(t) PROVE TypeOK'
  BY <1>9 DEF Load, TypeOK, Steps, BuildSteps
<1>10. ASSUME NEW t \in Threads, Kernel(t) PROVE TypeOK'
  BY <1>10 DEF Kernel, TypeOK, Steps, BuildSteps
<1>11. ASSUME NEW t \in Threads, BuildFails(t) PROVE TypeOK'
  BY <1>11 DEF BuildFails, Unwound, TypeOK, Steps, BuildSteps
<1>12. ASSUME NEW t \in Threads, Store(t) PROVE TypeOK'
  BY <1>12, KeyInKeys DEF Store, TypeOK, Steps
<1>13. ASSUME NEW t \in Threads, Release(t) PROVE TypeOK'
  BY <1>13 DEF Release, Unload, TypeOK, Steps
<1>14. CASE Renew
  BY <1>14 DEF Renew, Unload, EmptyCache, TypeOK
<1>15. CASE UNCHANGED vars
  BY <1>15 DEF vars, TypeOK
<1> QED
  BY <1>1, <1>2, <1>3, <1>4, <1>5, <1>6, <1>7, <1>8, <1>9, <1>10, <1>11,
     <1>12, <1>13, <1>14, <1>15 DEF Next, Advance, Quiescent

-----------------------------------------------------------------------------
(* The mutex. *)
LEMMA MutexNext == TypeOK /\ MutexHeld /\ [Next]_vars => MutexHeld'
<1> SUFFICES ASSUME TypeOK, MutexHeld, [Next]_vars PROVE MutexHeld'
  OBVIOUS
<1> USE LauncherAssumption DEF Goto, lockVars, MutexHeld, Inside, BuildSteps
<1>1. ASSUME NEW t \in Threads, GetLauncher(t) PROVE MutexHeld'
  BY <1>1 DEF GetLauncher, TypeOK
<1>2. ASSUME NEW t \in Threads, ReadLock(t) PROVE MutexHeld'
  BY <1>2 DEF ReadLock, TypeOK
<1>3. ASSUME NEW t \in Threads, ReadHit(t) PROVE MutexHeld'
  BY <1>3 DEF ReadHit, TypeOK
<1>4. ASSUME NEW t \in Threads, ReadMiss(t) PROVE MutexHeld'
  BY <1>4 DEF ReadMiss, TypeOK
<1>5. ASSUME NEW t \in Threads, WriteLock(t) PROVE MutexHeld'
  BY <1>5 DEF WriteLock, Free, TypeOK
<1>6. ASSUME NEW t \in Threads, WriteHit(t) PROVE MutexHeld'
  BY <1>6 DEF WriteHit, TypeOK
<1>7. ASSUME NEW t \in Threads, WriteMiss(t) PROVE MutexHeld'
  BY <1>7 DEF WriteMiss, TypeOK
<1>8. ASSUME NEW t \in Threads, Link(t) PROVE MutexHeld'
  BY <1>8 DEF Link, TypeOK
<1>9. ASSUME NEW t \in Threads, Load(t) PROVE MutexHeld'
  BY <1>9 DEF Load, TypeOK
<1>10. ASSUME NEW t \in Threads, Kernel(t) PROVE MutexHeld'
  BY <1>10 DEF Kernel, TypeOK
<1>11. ASSUME NEW t \in Threads, BuildFails(t) PROVE MutexHeld'
  BY <1>11 DEF BuildFails, Unwound, TypeOK
<1>12. ASSUME NEW t \in Threads, Store(t) PROVE MutexHeld'
  BY <1>12 DEF Store, TypeOK
<1>13. ASSUME NEW t \in Threads, Release(t) PROVE MutexHeld'
  BY <1>13 DEF Release, TypeOK
<1>14. CASE Renew
  BY <1>14 DEF Renew
<1>15. CASE UNCHANGED vars
  BY <1>15 DEF vars
<1> QED
  BY <1>1, <1>2, <1>3, <1>4, <1>5, <1>6, <1>7, <1>8, <1>9, <1>10, <1>11,
     <1>12, <1>13, <1>14, <1>15 DEF Next, Advance, Quiescent

(* At most one thread is past the exclusive lock. *)
LEMMA OneBuilder ==
  ASSUME MutexHeld, NEW t \in Threads, NEW u \in Threads,
         pc[t] \in Inside, pc[u] \in Inside
  PROVE  t = u
BY DEF MutexHeld

-----------------------------------------------------------------------------
(* A builder's key stays missing until it stores its launcher itself. *)
LEMMA AbsentNext ==
  TypeOK /\ MutexHeld /\ StillAbsent /\ [Next]_vars => StillAbsent'
<1> SUFFICES ASSUME TypeOK, MutexHeld, StillAbsent, [Next]_vars,
                    NEW u \in Threads, (pc[u] \in BuildSteps \cup {"store"})'
             PROVE  (launchers[Key(u)] = None)'
  BY DEF StillAbsent
<1> USE LauncherAssumption DEF Goto, lockVars, StillAbsent, Key, BuildSteps
<1>1. ASSUME NEW t \in Threads, GetLauncher(t) PROVE (launchers[Key(u)] = None)'
  BY <1>1 DEF GetLauncher, TypeOK
<1>2. ASSUME NEW t \in Threads, ReadLock(t) PROVE (launchers[Key(u)] = None)'
  BY <1>2 DEF ReadLock, TypeOK
<1>3. ASSUME NEW t \in Threads, ReadHit(t) PROVE (launchers[Key(u)] = None)'
  BY <1>3 DEF ReadHit, TypeOK
<1>4. ASSUME NEW t \in Threads, ReadMiss(t) PROVE (launchers[Key(u)] = None)'
  BY <1>4 DEF ReadMiss, TypeOK
<1>5. ASSUME NEW t \in Threads, WriteLock(t) PROVE (launchers[Key(u)] = None)'
  BY <1>5 DEF WriteLock, TypeOK
<1>6. ASSUME NEW t \in Threads, WriteHit(t) PROVE (launchers[Key(u)] = None)'
  BY <1>6 DEF WriteHit, TypeOK
<1>7. ASSUME NEW t \in Threads, WriteMiss(t) PROVE (launchers[Key(u)] = None)'
  BY <1>7 DEF WriteMiss, StillMissing, TypeOK
<1>8. ASSUME NEW t \in Threads, Link(t) PROVE (launchers[Key(u)] = None)'
  BY <1>8 DEF Link, TypeOK
<1>9. ASSUME NEW t \in Threads, Load(t) PROVE (launchers[Key(u)] = None)'
  BY <1>9 DEF Load, TypeOK
<1>10. ASSUME NEW t \in Threads, Kernel(t) PROVE (launchers[Key(u)] = None)'
  BY <1>10 DEF Kernel, TypeOK
<1>11. ASSUME NEW t \in Threads, BuildFails(t) PROVE (launchers[Key(u)] = None)'
  BY <1>11 DEF BuildFails, TypeOK
<1>12. ASSUME NEW t \in Threads, Store(t) PROVE (launchers[Key(u)] = None)'
  <2>1. pc[t] \in Inside /\ (u # t => pc[u] \in Inside) /\ pc'[t] = "hold"
    BY <1>12 DEF Store, TypeOK, Inside
  <2> QED BY <2>1, OneBuilder
<1>13. ASSUME NEW t \in Threads, Release(t) PROVE (launchers[Key(u)] = None)'
  BY <1>13 DEF Release, TypeOK
<1>14. CASE Renew
  BY <1>14 DEF Renew
<1>15. CASE UNCHANGED vars
  BY <1>15 DEF vars
<1> QED
  BY <1>1, <1>2, <1>3, <1>4, <1>5, <1>6, <1>7, <1>8, <1>9, <1>10, <1>11,
     <1>12, <1>13, <1>14, <1>15 DEF Next, Advance, Quiescent

-----------------------------------------------------------------------------
(* A library is unloaded with its last owner, not before. *)
LEMMA LoadedNext == TypeOK /\ OwnedLoaded /\ [Next]_vars => OwnedLoaded'
<1> SUFFICES ASSUME TypeOK, OwnedLoaded, [Next]_vars PROVE OwnedLoaded'
  OBVIOUS
<1> USE LauncherAssumption DEF Goto, lockVars, OwnedLoaded, TypeOK
<1>1. ASSUME NEW t \in Threads, GetLauncher(t) PROVE OwnedLoaded'
  BY <1>1, KeyInKeys DEF GetLauncher
<1>2. ASSUME NEW t \in Threads, ReadLock(t) PROVE OwnedLoaded'
  BY <1>2, KeyInKeys DEF ReadLock
<1>3. ASSUME NEW t \in Threads, ReadHit(t) PROVE OwnedLoaded'
  BY <1>3, KeyInKeys DEF ReadHit, Found
<1>4. ASSUME NEW t \in Threads, ReadMiss(t) PROVE OwnedLoaded'
  BY <1>4, KeyInKeys DEF ReadMiss
<1>5. ASSUME NEW t \in Threads, WriteLock(t) PROVE OwnedLoaded'
  BY <1>5, KeyInKeys DEF WriteLock
<1>6. ASSUME NEW t \in Threads, WriteHit(t) PROVE OwnedLoaded'
  BY <1>6, KeyInKeys DEF WriteHit, Found
<1>7. ASSUME NEW t \in Threads, WriteMiss(t) PROVE OwnedLoaded'
  BY <1>7, KeyInKeys DEF WriteMiss
<1>8. ASSUME NEW t \in Threads, Link(t) PROVE OwnedLoaded'
  BY <1>8, KeyInKeys DEF Link
<1>9. ASSUME NEW t \in Threads, Load(t) PROVE OwnedLoaded'
  BY <1>9, KeyInKeys DEF Load
<1>10. ASSUME NEW t \in Threads, Kernel(t) PROVE OwnedLoaded'
  BY <1>10, KeyInKeys DEF Kernel
<1>11. ASSUME NEW t \in Threads, BuildFails(t) PROVE OwnedLoaded'
  BY <1>11 DEF BuildFails, BuildSteps
<1>12. ASSUME NEW t \in Threads, Store(t) PROVE OwnedLoaded'
  BY <1>12, KeyInKeys DEF Store
<1>13. ASSUME NEW t \in Threads, Release(t) PROVE OwnedLoaded'
  BY <1>13 DEF Release, Unload, Unowned, Owned
<1>14. CASE Renew
  BY <1>14 DEF Renew, EmptyCache, Unload, Unowned, Owned
<1>15. CASE UNCHANGED vars
  BY <1>15 DEF vars
<1> QED
  BY <1>1, <1>2, <1>3, <1>4, <1>5, <1>6, <1>7, <1>8, <1>9, <1>10, <1>11,
     <1>12, <1>13, <1>14, <1>15 DEF Next, Advance, Quiescent

(* Launchers stay with the key they were built for. *)
LEMMA TracedNext ==
  /\ TypeOK /\ MutexHeld /\ StillAbsent /\ OwnedLoaded /\ Traced /\ [Next]_vars
  => Traced'
<1> SUFFICES ASSUME TypeOK, MutexHeld, StillAbsent, OwnedLoaded, Traced,
                    [Next]_vars
             PROVE  Traced'
  OBVIOUS
<1> USE LauncherAssumption DEF Goto, lockVars, Traced, TypeOK, Key
<1>1. ASSUME NEW t \in Threads, GetLauncher(t) PROVE Traced'
  BY <1>1, KeyInKeys DEF GetLauncher
<1>2. ASSUME NEW t \in Threads, ReadLock(t) PROVE Traced'
  BY <1>2, KeyInKeys DEF ReadLock
<1>3. ASSUME NEW t \in Threads, ReadHit(t) PROVE Traced'
  BY <1>3, KeyInKeys DEF ReadHit, Found
<1>4. ASSUME NEW t \in Threads, ReadMiss(t) PROVE Traced'
  BY <1>4, KeyInKeys DEF ReadMiss
<1>5. ASSUME NEW t \in Threads, WriteLock(t) PROVE Traced'
  BY <1>5, KeyInKeys DEF WriteLock
<1>6. ASSUME NEW t \in Threads, WriteHit(t) PROVE Traced'
  BY <1>6, KeyInKeys DEF WriteHit, Found
<1>7. ASSUME NEW t \in Threads, WriteMiss(t) PROVE Traced'
  BY <1>7, KeyInKeys DEF WriteMiss
<1>8. ASSUME NEW t \in Threads, Link(t) PROVE Traced'
  BY <1>8, KeyInKeys DEF Link
<1>9. ASSUME NEW t \in Threads, Load(t) PROVE Traced'
  BY <1>9 DEF Load, OwnedLoaded
<1>10. ASSUME NEW t \in Threads, Kernel(t) PROVE Traced'
  BY <1>10, KeyInKeys DEF Kernel
<1>11. ASSUME NEW t \in Threads, BuildFails(t) PROVE Traced'
  BY <1>11 DEF BuildFails, BuildSteps
<1>12. ASSUME NEW t \in Threads, Store(t) PROVE Traced'
  <2>1. plan[t] \in Plans /\ Key(t) \in Keys /\ built[t] \in Launchers
    BY <1>12, KeyInKeys DEF Store
  <2>2. \A u \in Threads : built'[u] = None
    BY <1>12, OneBuilder DEF Store, Inside, BuildSteps
  <2>3. origin[built[t]] = plan[t] /\ LaunchKey(plan[t]) = Key(t)
    BY <2>1, LauncherAssumption
  <2>4. ASSUME NEW k \in Keys, launchers'[k] # None
        PROVE  origin[launchers'[k]] \in Plans /\ LaunchKey(origin[launchers'[k]]) = k
    BY <1>12, <2>1, <2>3, <2>4 DEF Store
  <2>5. ASSUME NEW u \in Threads, got'[u] # None
        PROVE  origin[got'[u]] \in Plans /\ LaunchKey(origin[got'[u]]) = Key(u)
    BY <1>12, <2>1, <2>3, <2>5 DEF Store
  <2> QED BY <1>12, <2>2, <2>4, <2>5 DEF Store
<1>13. ASSUME NEW t \in Threads, Release(t) PROVE Traced'
  BY <1>13, KeyInKeys DEF Release
<1>14. CASE Renew
  BY <1>14 DEF Renew, EmptyCache
<1>15. CASE UNCHANGED vars
  BY <1>15 DEF vars
<1> QED
  BY <1>1, <1>2, <1>3, <1>4, <1>5, <1>6, <1>7, <1>8, <1>9, <1>10, <1>11,
     <1>12, <1>13, <1>14, <1>15 DEF Next, Advance, Quiescent

-----------------------------------------------------------------------------
(* The inductive invariant. *)
LEMMA Invariance == Spec => []IInv
<1>1. Init => IInv
  BY TypeInit, LauncherAssumption
  DEF Init, IInv, MutexHeld, StillAbsent, Traced, OwnedLoaded, Inside,
      BuildSteps, EmptyCache
<1>2. IInv /\ [Next]_vars => IInv'
  BY TypeNext, MutexNext, AbsentNext, LoadedNext, TracedNext DEF IInv
<1> QED BY <1>1, <1>2, PTL DEF Spec

(* Every reachable state is well typed, and each thread has the plan, the  *)
(* launcher and the library that go with the step it is at.                *)
THEOREM TypeCorrect == Spec => []TypeOK
<1>1. IInv => TypeOK
  BY DEF IInv
<1> QED BY <1>1, Invariance, PTL

(* No reader is inside while a thread links, loads and stores, and never   *)
(* two threads do: the mutex is held by exactly those that are past it.    *)
THEOREM MutualExclusion == Spec => []MutexHeld
<1>1. IInv => MutexHeld
  BY DEF IInv
<1> QED BY <1>1, Invariance, PTL

(* Where the plans of a cache are told apart by their fragments' keys, a   *)
(* caller always gets a launcher that was built for its own plan.          *)
KeysApart ==
  \A p, q \in Plans : LaunchKey(p) = LaunchKey(q) => p = q

THEOREM RightLauncherGiven == ASSUME KeysApart PROVE Spec => []RightLauncher
<1>1. IInv => RightLauncher
  <2> SUFFICES ASSUME IInv, NEW t \in Threads, got[t] # None
               PROVE  origin[got[t]] = plan[t]
    BY DEF RightLauncher
  <2>1. plan[t] \in Plans
    BY KeyInKeys DEF IInv, TypeOK
  <2>2. origin[got[t]] \in Plans /\ LaunchKey(origin[got[t]]) = LaunchKey(plan[t])
    BY DEF IInv, Traced, Key
  <2> QED BY <2>1, <2>2, KeysApart DEF KeysApart
<1> QED BY <1>1, Invariance, PTL

(* No library stays loaded without an owner, save those that are lost, and *)
(* none is unloaded under one.                                             *)
LostIsApart == lost \cap Owned(launchers, got) = {}

LInv == LibraryLifetime /\ LostIsApart

LEMMA LifetimeNext == IInv /\ LInv /\ [Next]_vars => LInv'
<1> SUFFICES ASSUME IInv, LInv, [Next]_vars PROVE LInv'
  OBVIOUS
<1> USE LauncherAssumption DEF Goto, lockVars, TypeOK, IInv, LInv, LibraryLifetime, LostIsApart, Owned
<1>1. ASSUME NEW t \in Threads, GetLauncher(t) PROVE LInv'
  BY <1>1, KeyInKeys DEF GetLauncher
<1>2. ASSUME NEW t \in Threads, ReadLock(t) PROVE LInv'
  BY <1>2, KeyInKeys DEF ReadLock
<1>3. ASSUME NEW t \in Threads, ReadHit(t) PROVE LInv'
  BY <1>3, KeyInKeys DEF ReadHit, Found
<1>4. ASSUME NEW t \in Threads, ReadMiss(t) PROVE LInv'
  BY <1>4, KeyInKeys DEF ReadMiss
<1>5. ASSUME NEW t \in Threads, WriteLock(t) PROVE LInv'
  BY <1>5, KeyInKeys DEF WriteLock
<1>6. ASSUME NEW t \in Threads, WriteHit(t) PROVE LInv'
  BY <1>6, KeyInKeys DEF WriteHit, Found
<1>7. ASSUME NEW t \in Threads, WriteMiss(t) PROVE LInv'
  BY <1>7, KeyInKeys DEF WriteMiss
<1>8. ASSUME NEW t \in Threads, Link(t) PROVE LInv'
  BY <1>8, KeyInKeys DEF Link
<1>9. ASSUME NEW t \in Threads, Load(t) PROVE LInv'
  BY <1>9, KeyInKeys DEF Load
<1>10. ASSUME NEW t \in Threads, Kernel(t) PROVE LInv'
  BY <1>10, KeyInKeys DEF Kernel
<1>11. ASSUME NEW t \in Threads, BuildFails(t) PROVE LInv'
  <2>1. /\ UNCHANGED <<launchers, got, lib>>
        /\ built' = [built EXCEPT ![t] = None]
        /\ lost' = lost \cup ({built[t]} \ {None})
    BY <1>11 DEF BuildFails
  <2>2. \A u \in Threads \ {t} : built[u] = None
    BY <1>11, OneBuilder DEF BuildFails, BuildSteps, Inside
  <2>3. \A l \in Launchers :
          l \in Owned(launchers, got) \cup lost
            <=> l \in (Owned(launchers, got))' \cup lost'
    BY <2>1, <2>2
  <2>4. built[t] # None => built[t] \notin (Owned(launchers, got))'
    BY <2>1, <2>2 DEF Traced
  <2>5. LostIsApart'
    BY <2>1, <2>2, <2>4
  <2> QED BY <2>1, <2>3, <2>5
<1>12. ASSUME NEW t \in Threads, Store(t) PROVE LInv'
  BY <1>12, KeyInKeys DEF Store, StillAbsent
<1>13. ASSUME NEW t \in Threads, Release(t) PROVE LInv'
  BY <1>13 DEF Release, Unload, Unowned
<1>14. CASE Renew
  BY <1>14 DEF Renew, EmptyCache, Unload, Unowned
<1>15. CASE UNCHANGED vars
  BY <1>15 DEF vars
<1> QED
  BY <1>1, <1>2, <1>3, <1>4, <1>5, <1>6, <1>7, <1>8, <1>9, <1>10, <1>11,
     <1>12, <1>13, <1>14, <1>15 DEF Next, Advance, Quiescent

(* A launcher's library is loaded exactly as long as it has an owner, or   *)
(* for good once build() has lost it.                                      *)
THEOREM Lifetime == Spec => []LibraryLifetime
<1>1. Init => LInv
  BY LauncherAssumption
  DEF Init, LInv, LibraryLifetime, LostIsApart, Owned, EmptyCache
<1>2. IInv /\ LInv /\ [Next]_vars => LInv'
  BY LifetimeNext
<1>3. LInv => LibraryLifetime
  BY DEF LInv
<1> QED BY <1>1, <1>2, <1>3, Invariance, PTL DEF Spec

-----------------------------------------------------------------------------
(* The launcher cache is a OnceMap: one launcher per key while the cache   *)
(* lives, and an exception only where there is none.                       *)
Abstract == <<launchers, Waiting, got>>

LEMMA WaitingIs ==
  ASSUME TypeOK, NEW t \in Threads
  PROVE  /\ Waiting[t] = IF pc[t] \in {"idle", "hold"} THEN None ELSE Key(t)
         /\ pc[t] \notin {"idle", "hold"} => Waiting[t] \in Keys /\ Waiting[t] # None
BY KeyInKeys, LauncherAssumption DEF Waiting

(* A step inside a call that neither finds nor builds is not seen. *)
LEMMA Unseen ==
  ASSUME NEW t \in Threads, TypeOK, NEW s \in Steps,
         pc[t] \notin {"idle", "hold"}, s \notin {"idle", "hold"},
         Goto(t, s), UNCHANGED <<launchers, plan, got>>
  PROVE  UNCHANGED Abstract
<1>1. ASSUME NEW u \in Threads
      PROVE  /\ pc'[u] \in {"idle", "hold"} <=> pc[u] \in {"idle", "hold"}
             /\ Key(u)' = Key(u)
  BY DEF Goto, TypeOK, Key
<1>2. Waiting' = Waiting
  BY <1>1 DEF Waiting
<1> QED BY <1>2 DEF Abstract

(* The call of t is over for the others. *)
LEMMA Seen ==
  ASSUME NEW t \in Threads, TypeOK, NEW s \in {"idle", "hold"}, Goto(t, s),
         \A u \in Threads \ {t} : plan'[u] = plan[u]
  PROVE  Waiting' = [Waiting EXCEPT ![t] = None]
<1>1. ASSUME NEW u \in Threads \ {t} PROVE pc'[u] = pc[u] /\ Key(u)' = Key(u)
  BY DEF Goto, TypeOK, Key
<1>2. pc'[t] = s
  BY DEF Goto, TypeOK
<1> QED BY <1>1, <1>2 DEF Waiting

LEMMA StepMaps ==
  ASSUME IInv, [Next]_vars PROVE Once!Next \/ UNCHANGED Abstract
<1> USE LauncherAssumption DEF IInv
<1>1. ASSUME NEW t \in Threads, GetLauncher(t) PROVE Once!Next
  <2>1. PICK p \in Plans : plan' = [plan EXCEPT ![t] = p]
    BY <1>1 DEF GetLauncher
  <2>2. plan'[t] = p /\ pc'[t] = "read" /\ pc[t] = "idle"
    BY <1>1, <2>1 DEF GetLauncher, Goto, TypeOK
  <2>3. ASSUME NEW u \in Threads \ {t} PROVE pc'[u] = pc[u] /\ Key(u)' = Key(u)
    BY <1>1, <2>1 DEF GetLauncher, Goto, TypeOK, Key
  <2>4. Waiting' = [Waiting EXCEPT ![t] = LaunchKey(p)]
    BY <2>2, <2>3 DEF Waiting, Key
  <2>5. Waiting[t] = None /\ got[t] = None
    BY <2>2, WaitingIs DEF TypeOK
  <2>6. Once!Ask(t, LaunchKey(p))
    BY <1>1, <2>4, <2>5 DEF Once!Ask, GetLauncher
  <2> QED BY <2>6 DEF Once!Next, Keys
<1>2. ASSUME NEW t \in Threads, ReadHit(t) \/ WriteHit(t) PROVE Once!Next
  <2>1. /\ pc[t] \in {"find", "recheck"} /\ launchers[Key(t)] # None
        /\ got' = [got EXCEPT ![t] = launchers[Key(t)]]
        /\ Goto(t, "hold") /\ UNCHANGED <<plan, launchers>>
    BY <1>2 DEF ReadHit, WriteHit, Found
  <2>2. Waiting[t] = Key(t) /\ Waiting[t] # None
    BY <2>1, WaitingIs
  <2>3. Waiting' = [Waiting EXCEPT ![t] = None]
    BY <2>1, Seen
  <2>4. Once!Find(t)
    BY <2>1, <2>2, <2>3 DEF Once!Find
  <2> QED BY <2>4 DEF Once!Next
<1>3. ASSUME NEW t \in Threads, Store(t) PROVE Once!Next
  <2>1. /\ pc[t] = "store" /\ Goto(t, "hold") /\ UNCHANGED plan
        /\ launchers' = [launchers EXCEPT ![Key(t)] = built[t]]
        /\ got' = [got EXCEPT ![t] = built[t]]
    BY <1>3 DEF Store
  <2>2. Waiting[t] = Key(t) /\ Waiting[t] # None
    BY <2>1, WaitingIs
  <2>3. Waiting' = [Waiting EXCEPT ![t] = None]
    BY <2>1, Seen
  <2>4. built[t] \in Launchers
    BY <2>1 DEF TypeOK
  <2>5. launchers[Key(t)] = None
    BY <2>1 DEF StillAbsent
  <2>6. /\ \A k \in Keys : launchers[k] # built[t]
        /\ \A u \in Threads : got[u] # built[t]
    BY <2>4 DEF Traced
  <2>7. Once!Create(t, built[t])
    BY <2>1, <2>2, <2>3, <2>5, <2>6 DEF Once!Create
  <2> QED BY <2>4, <2>7 DEF Once!Next
<1>4. ASSUME NEW t \in Threads, BuildFails(t) PROVE Once!Next
  <2>1. /\ pc[t] \in BuildSteps /\ Goto(t, "idle")
        /\ plan' = [plan EXCEPT ![t] = None]
        /\ UNCHANGED <<launchers, got>>
    BY <1>4 DEF BuildFails
  <2>2. Waiting[t] = Key(t) /\ Waiting[t] # None
    BY <2>1, WaitingIs DEF BuildSteps
  <2>3. Waiting' = [Waiting EXCEPT ![t] = None]
    <3>1. \A u \in Threads \ {t} : plan'[u] = plan[u]
      BY <2>1 DEF TypeOK
    <3> QED BY <2>1, <3>1, Seen
  <2>4. launchers[Key(t)] = None
    BY <2>1 DEF StillAbsent
  <2>5. Once!Fail(t)
    BY <2>1, <2>2, <2>3, <2>4 DEF Once!Fail
  <2> QED BY <2>5 DEF Once!Next
<1>5. ASSUME NEW t \in Threads, Release(t) PROVE Once!Next
  <2>1. /\ pc[t] = "hold" /\ Goto(t, "idle") /\ got' = [got EXCEPT ![t] = None]
        /\ plan' = [plan EXCEPT ![t] = None] /\ UNCHANGED launchers
    BY <1>5 DEF Release
  <2>2. got[t] # None
    BY <2>1 DEF TypeOK
  <2>3. Waiting' = Waiting
    <3>1. ASSUME NEW u \in Threads \ {t} PROVE pc'[u] = pc[u] /\ Key(u)' = Key(u)
      BY <2>1 DEF Goto, TypeOK, Key
    <3>2. pc[t] = "hold" /\ pc'[t] = "idle"
      BY <2>1 DEF Goto, TypeOK
    <3> QED BY <3>1, <3>2 DEF Waiting
  <2>4. Once!Drop(t)
    BY <2>1, <2>2, <2>3 DEF Once!Drop
  <2> QED BY <2>4 DEF Once!Next
<1>6. CASE Renew
  <2>1. \A t \in Threads : Waiting[t] = None
    BY <1>6, WaitingIs DEF Renew
  <2>2. Waiting' = Waiting
    BY <1>6 DEF Renew, Waiting, Key
  <2>3. Once!Forget
    BY <1>6, <2>1, <2>2 DEF Once!Forget, Renew, EmptyCache
  <2> QED BY <2>3 DEF Once!Next
<1>7. ASSUME NEW t \in Threads,
             \/ ReadLock(t) \/ ReadMiss(t) \/ WriteLock(t) \/ WriteMiss(t)
             \/ Link(t) \/ Load(t) \/ Kernel(t)
      PROVE  UNCHANGED Abstract
  <2>1. PICK s \in Steps : s \notin {"idle", "hold"} /\ Goto(t, s)
    BY <1>7 DEF ReadLock, ReadMiss, WriteLock, WriteMiss, Link, Load, Kernel,
                Steps, BuildSteps
  <2>2. /\ pc[t] \notin {"idle", "hold"}
        /\ UNCHANGED <<launchers, plan, got>>
    BY <1>7 DEF ReadLock, ReadMiss, WriteLock, WriteMiss, Link, Load, Kernel,
                lockVars
  <2> QED BY <2>1, <2>2, Unseen
<1>8. CASE UNCHANGED vars
  BY <1>8 DEF vars, Abstract, Waiting, Key
<1> QED
  BY <1>1, <1>2, <1>3, <1>4, <1>5, <1>6, <1>7, <1>8
  DEF Next, Advance, Quiescent

THEOREM Refinement == Spec => IsOnceMap
<1>1. Init => Once!Init
  BY DEF Init, Once!Init, Waiting, EmptyCache
<1>2. IInv /\ [Next]_vars => [Once!Next]_Once!vars
  BY StepMaps DEF Once!vars, Abstract
<1> QED BY <1>1, <1>2, Invariance, PTL DEF Spec, IsOnceMap, Once!Spec
=============================================================================
