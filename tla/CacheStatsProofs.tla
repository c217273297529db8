--------------------------- MODULE CacheStatsProofs ---------------------------
(* Theorems about the statistics of the compile cache: what the counters   *)
(* say of the calls, and how far a snapshot or a clear can be off.         *)
EXTENDS CacheStats, CacheProofs

-----------------------------------------------------------------------------
(* Counting is a layer over the cache: it observes steps and changes none. *)

LEMMA StatsStepIsStep == [StatsNext]_statsVars => [Next]_vars
<1>1. ASSUME NEW t \in Threads, Count(t) \/ CountNothing(t) PROVE Next
  BY <1>1 DEF Count, CountNothing, Next, Advance
<1>2. ASSUME NEW p \in Procs, CrashStats(p) PROVE Next
  BY <1>2 DEF CrashStats, Next
<1>3. ASSUME NEW p \in Procs,
             Observe(p) \/ ReadCounter(p) \/ ResetCounter(p) \/ ObservationEnds(p)
      PROVE  UNCHANGED vars
  BY <1>3 DEF Observe, ReadCounter, ResetCounter, ObservationEnds
<1>4. CASE Quiescent
  BY <1>4 DEF Next
<1>5. CASE UNCHANGED statsVars
  BY <1>5 DEF statsVars
<1> QED  BY <1>1, <1>2, <1>3, <1>4, <1>5 DEF StatsNext

(* The cache with its counters is the cache: what the theorems of          *)
(* CacheProofs say of Spec holds of StatsSpec as well.                     *)
THEOREM StatsImplementCache == StatsSpec => Spec
<1>1. StatsInit => Init
  BY DEF StatsInit
<1> QED  BY <1>1, StatsStepIsStep, PTL DEF StatsSpec, Spec

-----------------------------------------------------------------------------
(* Types.                                                                  *)

StatsTypeOK ==
  /\ count \in [Procs -> [Counters -> Nat]]
  /\ watch \in [Procs -> [op : {"none", "get", "clear"}, todo : SUBSET Followed]]
  /\ snap \in [Procs -> [Counters -> Nat]]
  /\ since \in [Procs -> [Counters -> Nat]]
  /\ cleared \in [Procs -> BOOLEAN]

(* One counter gets another value. *)
LEMMA SetCounter ==
  ASSUME NEW f \in [Procs -> [Counters -> Nat]], NEW p \in Procs,
         NEW c \in Counters, NEW n \in Nat,
         NEW g, g = [f EXCEPT ![p][c] = n]
  PROVE  /\ g \in [Procs -> [Counters -> Nat]]
         /\ \A q \in Procs, d \in Counters :
              g[q][d] = IF q = p /\ d = c THEN n ELSE f[q][d]
<1> DEFINE row == [f[p] EXCEPT ![c] = n]
<1>1. row \in [Counters -> Nat]
  OBVIOUS
<1>2. \A d \in Counters : row[d] = IF d = c THEN n ELSE f[p][d]
  OBVIOUS
<1>3. g = [f EXCEPT ![p] = row]
  OBVIOUS
<1> HIDE DEF row
<1> QED  BY <1>1, <1>2, <1>3

(* A counter that goes up, and all those that do not. *)
LEMMA IncrEffect ==
  ASSUME StatsTypeOK, NEW t \in Threads, req[t] \in Objects, NEW event \in Events,
         Incr(t, <<req[t].kind, event>>)
  PROVE  /\ count' \in [Procs -> [Counters -> Nat]]
         /\ \A p \in Procs, k \in Kinds, e \in Events :
              count'[p][<<k, e>>] =
                IF p = ProcOf[t] /\ k = req[t].kind /\ e = event
                THEN count[p][<<k, e>>] + 1 ELSE count[p][<<k, e>>]
<1> DEFINE q == ProcOf[t]
           c == <<req[t].kind, event>>
<1>1. q \in Procs /\ c \in Counters
  BY CacheAssumption DEF Objects, Counters
<1>2. count' = [count EXCEPT ![q][c] = @ + 1]
  BY DEF Incr
<1>3. \A p \in Procs, k \in Kinds, e \in Events :
        /\ <<k, e>> \in Counters
        /\ <<k, e>> = c <=> k = req[t].kind /\ e = event
  BY DEF Counters
<1> HIDE DEF q, c
<1>4. count' \in [Procs -> [Counters -> Nat]]
  BY <1>1, <1>2 DEF StatsTypeOK
<1>5. \A p \in Procs, d \in Counters :
        count'[p][d] = IF p = q /\ d = c THEN count[p][d] + 1 ELSE count[p][d]
  BY <1>1, <1>2 DEF StatsTypeOK
<1> QED  BY <1>3, <1>4, <1>5 DEF q

(* While an observer is watching, it is noted of every counter by how much *)
(* it grows.                                                               *)
Noted(p) ==
  /\ ~Watching(p) => since'[p] = since[p]
  /\ Watching(p) => \A d \in Counters :
       \/ count'[p][d] = count[p][d] /\ since'[p][d] = since[p][d]
       \/ count'[p][d] = count[p][d] + 1 /\ since'[p][d] = since[p][d] + 1

LEMMA IncrNoted ==
  ASSUME StatsTypeOK, NEW t \in Threads, NEW c \in Counters, Incr(t, c)
  PROVE  /\ since' \in [Procs -> [Counters -> Nat]]
         /\ \A p \in Procs : Noted(p)
<1> DEFINE q == ProcOf[t]
<1>1. /\ q \in Procs
      /\ count' = [count EXCEPT ![q][c] = @ + 1]
      /\ since' = IF Watching(q) THEN [since EXCEPT ![q][c] = @ + 1] ELSE since
  BY CacheAssumption DEF Incr
<1> HIDE DEF q
<1>2. \A p \in Procs, d \in Counters :
        count'[p][d] = IF p = q /\ d = c THEN count[p][d] + 1 ELSE count[p][d]
  BY <1>1 DEF StatsTypeOK
<1>3. CASE ~Watching(q)
  BY <1>1, <1>2, <1>3 DEF StatsTypeOK, Noted
<1>4. CASE Watching(q)
  <2>1. since' = [since EXCEPT ![q][c] = @ + 1]
    BY <1>1, <1>4
  <2>2. since' \in [Procs -> [Counters -> Nat]]
    BY <1>1, <2>1 DEF StatsTypeOK
  <2>3. \A p \in Procs, d \in Counters :
          since'[p][d] = IF p = q /\ d = c THEN since[p][d] + 1 ELSE since[p][d]
    BY <1>1, <2>1 DEF StatsTypeOK
  <2>4. \A p \in Procs : p # q => since'[p] = since[p]
    BY <1>1, <2>1 DEF StatsTypeOK
  <2> QED  BY <1>2, <1>4, <2>2, <2>3, <2>4 DEF Noted
<1> QED  BY <1>3, <1>4

-----------------------------------------------------------------------------
(* Lookups that are under way.                                             *)

LEMMA LookupKept ==
  ASSUME NEW p, NEW k,
         \A u \in Threads :
           ProcOf[u] = p =>
             /\ pc'[u] \in Looking <=> pc[u] \in Looking
             /\ pc[u] \in Looking => req'[u] = req[u]
  PROVE  InLookup(p, k)' = InLookup(p, k)
BY DEF InLookup, BetweenCounters, Looking

(* Of the threads of a process, one looks at a time. *)
LEMMA LookupBegins ==
  ASSUME TypeOK, CallsConsistent, MutexHeld, NEW t \in Threads, MemMiss(t),
         NEW p \in Procs, NEW k \in Kinds
  PROVE  \/ p = ProcOf[t] /\ k = req[t].kind /\ InLookup(p, k) = 0 /\ InLookup(p, k)' = 1
         \/ ~(p = ProcOf[t] /\ k = req[t].kind) /\ InLookup(p, k)' = InLookup(p, k)
<1>1. /\ lock[ProcOf[t]] = None
      /\ pc[t] = "lock" /\ pc'[t] \in Looking
      /\ \A u \in Threads \ {t} : pc'[u] = pc[u]
      /\ UNCHANGED req
      /\ req[t] # None
  BY NoneAssumption
  DEF MemMiss, LockFree, Goto, Looking, TypeOK, CallsConsistent, CallSteps
<1>2. \A u \in Threads : ProcOf[u] = ProcOf[t] => pc[u] \notin Looking
  BY <1>1, NoneAssumption DEF MutexHeld, Holding
<1>3. CASE p = ProcOf[t] /\ k = req[t].kind
  <2>1. InLookup(p, k) = 0
    BY <1>2, <1>3 DEF InLookup, BetweenCounters, Looking
  <2>2. InLookup(p, k)' = 1
    BY <1>1, <1>3 DEF InLookup, BetweenCounters, Looking
  <2> QED  BY <1>3, <2>1, <2>2
<1>4. CASE ~(p = ProcOf[t] /\ k = req[t].kind)
  <2>1. InLookup(p, k)' = InLookup(p, k)
    BY <1>1, <1>4 DEF InLookup, BetweenCounters, Looking
  <2> QED  BY <1>4, <2>1
<1> QED  BY <1>3, <1>4

LEMMA LookupEnds ==
  ASSUME TypeOK, CallsConsistent, MutexHeld, NEW t \in Threads,
         pc[t] \in Looking, pc'[t] \notin Looking, UNCHANGED req,
         \A u \in Threads \ {t} : pc'[u] = pc[u],
         NEW p \in Procs, NEW k \in Kinds
  PROVE  \/ p = ProcOf[t] /\ k = req[t].kind /\ InLookup(p, k) = 1 /\ InLookup(p, k)' = 0
         \/ ~(p = ProcOf[t] /\ k = req[t].kind) /\ InLookup(p, k)' = InLookup(p, k)
<1>1. req[t] # None
  BY NoneAssumption DEF CallsConsistent, CallSteps, Looking
<1>2. \A u \in Threads \ {t} : ProcOf[u] = ProcOf[t] => pc[u] \notin Looking
  BY DEF MutexHeld, Holding
<1>3. CASE p = ProcOf[t] /\ k = req[t].kind
  <2>1. InLookup(p, k) = 1
    BY <1>1, <1>3 DEF InLookup, BetweenCounters, Looking
  <2>2. InLookup(p, k)' = 0
    BY <1>2, <1>3 DEF InLookup, BetweenCounters, Looking
  <2> QED  BY <1>3, <2>1, <2>2
<1>4. CASE ~(p = ProcOf[t] /\ k = req[t].kind)
  <2>1. InLookup(p, k)' = InLookup(p, k)
    BY <1>4 DEF InLookup, BetweenCounters, Looking
  <2> QED  BY <1>4, <2>1
<1> QED  BY <1>3, <1>4

-----------------------------------------------------------------------------
(* What a step of a thread does to the three counters of a lookup.         *)

Missed(p, k) == count[p][<<k, "mem_misses">>]
FoundOnDisk(p, k) == count[p][<<k, "disk_hits">>]
NotOnDisk(p, k) == count[p][<<k, "disk_misses">>]

CountsNoLookup(p, k) ==
  /\ Missed(p, k)' = Missed(p, k)
  /\ FoundOnDisk(p, k)' = FoundOnDisk(p, k)
  /\ NotOnDisk(p, k)' = NotOnDisk(p, k)
  /\ \/ InLookup(p, k)' = InLookup(p, k)
     \/ "io" \in Faults /\ InLookup(p, k)' = 0

BeginsLookup(p, k) ==
  /\ InLookup(p, k) = 0 /\ InLookup(p, k)' = 1
  /\ Missed(p, k)' = Missed(p, k) + 1
  /\ FoundOnDisk(p, k)' = FoundOnDisk(p, k)
  /\ NotOnDisk(p, k)' = NotOnDisk(p, k)

EndsLookup(p, k) ==
  /\ InLookup(p, k) = 1 /\ InLookup(p, k)' = 0
  /\ Missed(p, k)' = Missed(p, k)
  /\ \/ /\ FoundOnDisk(p, k)' = FoundOnDisk(p, k) + 1
        /\ NotOnDisk(p, k)' = NotOnDisk(p, k)
     \/ /\ FoundOnDisk(p, k)' = FoundOnDisk(p, k)
        /\ NotOnDisk(p, k)' = NotOnDisk(p, k) + 1

(* A step that begins or ends no lookup. *)
LEMMA NoLookup ==
  ASSUME TypeOK, CallsConsistent, NEW t \in Threads,
         \/ MemHit(t)
         \/ (Begin(t) \/ Advance(t) \/ EndCompile(t)) /\ ~Counting(t),
         NEW p, NEW k
  PROVE  \/ InLookup(p, k)' = InLookup(p, k)
         \/ "io" \in Faults /\ InLookup(p, k)' = 0
<1>1. CASE IOThrows(t)
  <2>1. /\ "io" \in Faults /\ pc'[t] = "idle"
        /\ \A u \in Threads \ {t} : pc'[u] = pc[u] /\ req'[u] = req[u]
    BY <1>1 DEF IOThrows, Return, Goto, TypeOK
  <2>2. InLookup(p, k)' \in {InLookup(p, k), 0}
    BY <2>1 DEF InLookup, BetweenCounters
  <2> QED  BY <2>1, <2>2
<1>2. CASE \/ Call(t) \/ MemHit(t) \/ LibraryExists(t) \/ DiskMiss(t)
           \/ PublishLibrary(t) \/ CompileReturns(t) \/ CompileThrows(t)
           \/ MakeTemp(t) \/ Rename(t) \/ Await(t)
           \/ ListForClear(t) \/ ClearDiskDone(t) \/ ListForPreload(t)
           \/ PreloadLock(t) \/ PreloadTick(t) \/ PreloadDone(t)
           \/ Write(t) \/ ClearMemory(t) \/ Enable(t) \/ Unlink(t) \/ PreloadFile(t)
  <2>1. /\ \A u \in Threads \ {t} : pc'[u] = pc[u] /\ req'[u] = req[u]
        /\ pc'[t] \in Looking <=> pc[t] \in Looking
        /\ pc[t] \in Looking => req'[t] = req[t]
    BY <1>2
    DEF Call, MemHit, LibraryExists, DiskMiss, PublishLibrary, CompileReturns,
        StoreResult, CompileThrows, MakeTemp, Rename, Await, ListForClear,
        ClearDiskDone, ListForPreload, PreloadLock, PreloadTick, PreloadDone,
        Write, ClearMemory, Enable, Unlink, PreloadFile, Return, Goto, TypeOK,
        Looking, procVars, threadVars
  <2> QED  BY <2>1, LookupKept
<1> QED  BY <1>1, <1>2 DEF Begin, Advance, EndCompile, Counting

LEMMA CountEffect ==
  ASSUME StatsTypeOK, TypeOK, CallsConsistent, MutexHeld,
         NEW t \in Threads, Count(t) \/ CountNothing(t),
         NEW p \in Procs, NEW k \in Kinds
  PROVE  CountsNoLookup(p, k) \/ BeginsLookup(p, k) \/ EndsLookup(p, k)
<1> USE DEF Missed, FoundOnDisk, NotOnDisk
<1>1. {"mem_hits", "mem_misses", "disk_hits", "disk_misses"} \subseteq Events
  BY DEF Events
<1>2. CASE CountNothing(t)
  BY <1>2, NoLookup DEF CountNothing, CountsNoLookup
<1>3. CASE MemHit(t) /\ Incr(t, Counter(t, "mem_hits"))
  <2>1. req[t] \in Objects
    BY <1>3 DEF MemHit, CallsConsistent, CallSteps
  <2>2. \A e \in Events \ {"mem_hits"} : count'[p][<<k, e>>] = count[p][<<k, e>>]
    BY <1>1, <1>3, <2>1, IncrEffect DEF Counter
  <2> QED  BY <1>1, <1>3, <2>2, NoLookup DEF CountsNoLookup
<1>4. CASE MemMiss(t) /\ Incr(t, Counter(t, "mem_misses"))
  <2>1. req[t] \in Objects
    BY <1>4 DEF MemMiss, CallsConsistent, CallSteps
  <2>2. /\ Missed(p, k)' = IF p = ProcOf[t] /\ k = req[t].kind
                           THEN Missed(p, k) + 1 ELSE Missed(p, k)
        /\ FoundOnDisk(p, k)' = FoundOnDisk(p, k)
        /\ NotOnDisk(p, k)' = NotOnDisk(p, k)
    BY <1>1, <1>4, <2>1, IncrEffect DEF Counter
  <2> QED  BY <1>4, <2>2, LookupBegins DEF CountsNoLookup, BeginsLookup
<1>5. CASE (OpenBlob(t) \/ LoadLibrary(t)) /\ Incr(t, Counter(t, "disk_hits"))
  <2>1. /\ req[t] \in Objects /\ UNCHANGED req
        /\ pc[t] \in Looking /\ pc'[t] \notin Looking
        /\ \A u \in Threads \ {t} : pc'[u] = pc[u]
    BY <1>5
    DEF OpenBlob, LoadLibrary, Goto, TypeOK, Looking, CallsConsistent, CallSteps
  <2>2. /\ Missed(p, k)' = Missed(p, k)
        /\ FoundOnDisk(p, k)' = IF p = ProcOf[t] /\ k = req[t].kind
                                THEN FoundOnDisk(p, k) + 1 ELSE FoundOnDisk(p, k)
        /\ NotOnDisk(p, k)' = NotOnDisk(p, k)
    BY <1>1, <1>5, <2>1, IncrEffect DEF Counter
  <2> QED  BY <2>1, <2>2, LookupEnds DEF CountsNoLookup, EndsLookup
<1>6. CASE Reserve(t) /\ Incr(t, DiskMisses(t))
  <2>1. /\ req[t] \in Objects /\ UNCHANGED req
        /\ pc[t] \in Looking /\ pc'[t] \notin Looking
        /\ \A u \in Threads \ {t} : pc'[u] = pc[u]
    BY <1>6 DEF Reserve, Goto, TypeOK, Looking, CallsConsistent, CallSteps
  <2>2. /\ Missed(p, k)' = Missed(p, k)
        /\ FoundOnDisk(p, k)' = FoundOnDisk(p, k)
        /\ NotOnDisk(p, k)' = IF p = ProcOf[t] /\ k = req[t].kind
                              THEN NotOnDisk(p, k) + 1 ELSE NotOnDisk(p, k)
    BY <1>1, <1>6, <2>1, IncrEffect DEF DiskMisses, Counter
  <2> QED  BY <2>1, <2>2, LookupEnds DEF CountsNoLookup, EndsLookup
<1> QED  BY <1>2, <1>3, <1>4, <1>5, <1>6 DEF Count

(* A process that dies has no lookup under way, and disturbs no other one. *)
LEMMA CrashEffect ==
  ASSUME StatsTypeOK, TypeOK, NEW q \in Procs, CrashStats(q),
         NEW p \in Procs, NEW k \in Kinds
  PROVE  \/ /\ p = q
            /\ InLookup(p, k)' = 0 /\ watch'[p] = NotWatching
            /\ count'[p] = ZeroCounters /\ snap'[p] = ZeroCounters
            /\ since'[p] = ZeroCounters
         \/ /\ p # q
            /\ InLookup(p, k)' = InLookup(p, k) /\ watch'[p] = watch[p]
            /\ count'[p] = count[p] /\ snap'[p] = snap[p] /\ cleared'[p] = cleared[p]
            /\ since'[p] = since[p]
<1>1. CASE p = q
  <2>1. \A u \in Threads : ProcOf[u] = p => pc'[u] = "idle"
    BY <1>1 DEF CrashStats, Crash, Mine
  <2>2. InLookup(p, k)' = 0
    BY <2>1 DEF InLookup, BetweenCounters
  <2> QED  BY <1>1, <2>2 DEF CrashStats, StatsTypeOK
<1>2. CASE p # q
  <2>1. \A u \in Threads : ProcOf[u] = p => pc'[u] = pc[u] /\ req'[u] = req[u]
    BY <1>2 DEF CrashStats, Crash, Mine
  <2>2. InLookup(p, k)' = InLookup(p, k)
    BY <2>1, LookupKept
  <2> QED  BY <1>2, <2>2 DEF CrashStats, StatsTypeOK
<1> QED  BY <1>1, <1>2

LEMMA ZeroCounts ==
  /\ ZeroCounters \in [Counters -> Nat]
  /\ \A k \in Kinds, e \in Events : ZeroCounters[<<k, e>>] = 0
BY DEF ZeroCounters, Counters

(* An access of the observer takes effect. *)
Takes(p, c) ==
  /\ watch' \in [Procs -> [op : {"none", "get", "clear"}, todo : SUBSET Followed]]
  /\ watch'[p].op = watch[p].op
  /\ watch'[p].todo = watch[p].todo \ {c}
  /\ \A q \in Procs \ {p} : watch'[q] = watch[q]

LEMMA AccessTaken ==
  ASSUME StatsTypeOK, NEW p \in Procs, NEW c, TookEffect(p, c)
  PROVE  Takes(p, c)
<1> DEFINE w == [watch[p] EXCEPT !.todo = @ \ {c}]
<1>1. watch[p] \in [op : {"none", "get", "clear"}, todo : SUBSET Followed]
  BY DEF StatsTypeOK
<1>2. /\ w \in [op : {"none", "get", "clear"}, todo : SUBSET Followed]
      /\ w.op = watch[p].op /\ w.todo = watch[p].todo \ {c}
  BY <1>1
<1>3. watch' = [watch EXCEPT ![p] = w]
  BY DEF TookEffect
<1> HIDE DEF w
<1> QED  BY <1>2, <1>3 DEF StatsTypeOK, Takes

(* What a step of get_stats and of clear_stats does to each counter. *)
Reads(p, c) ==
  /\ watch[p].op = "get" /\ c \in watch[p].todo /\ Takes(p, c)
  /\ snap' \in [Procs -> [Counters -> Nat]]
  /\ \A q \in Procs, d \in Counters :
       snap'[q][d] = IF q = p /\ d = c THEN count[p][d] ELSE snap[q][d]
  /\ UNCHANGED <<vars, count, since, cleared>>

LEMMA ReadEffect ==
  ASSUME StatsTypeOK, NEW p \in Procs, ReadCounter(p)
  PROVE  \E c \in Counters : Reads(p, c)
<1>1. PICK c \in watch[p].todo :
        snap' = [snap EXCEPT ![p][c] = count[p][c]] /\ TookEffect(p, c)
  BY DEF ReadCounter
<1>2. c \in Counters
  BY StatsAssumption DEF StatsTypeOK
<1> DEFINE n == count[p][c]
<1>3. n \in Nat
  BY <1>2 DEF StatsTypeOK
<1>4. snap \in [Procs -> [Counters -> Nat]] /\ snap' = [snap EXCEPT ![p][c] = n]
  BY <1>1 DEF StatsTypeOK
<1> HIDE DEF n
<1>5. /\ snap' \in [Procs -> [Counters -> Nat]]
      /\ \A q \in Procs, d \in Counters :
           snap'[q][d] = IF q = p /\ d = c THEN n ELSE snap[q][d]
  BY <1>2, <1>3, <1>4, SetCounter
<1>6. Takes(p, c)
  BY <1>1, AccessTaken
<1>7. Reads(p, c)
  BY <1>1, <1>5, <1>6 DEF Reads, ReadCounter, n
<1> QED  BY <1>2, <1>7

Resets(p, c) ==
  /\ watch[p].op = "clear" /\ c \in watch[p].todo /\ Takes(p, c)
  /\ count' \in [Procs -> [Counters -> Nat]]
  /\ \A q \in Procs, d \in Counters :
       count'[q][d] = IF q = p /\ d = c THEN 0 ELSE count[q][d]
  /\ \A q \in Procs \ {p} : count'[q] = count[q]
  /\ UNCHANGED <<vars, snap, since, cleared>>

LEMMA ResetEffect ==
  ASSUME StatsTypeOK, NEW p \in Procs, ResetCounter(p)
  PROVE  \E c \in Counters : Resets(p, c)
<1>1. PICK c \in watch[p].todo :
        count' = [count EXCEPT ![p][c] = 0] /\ TookEffect(p, c)
  BY DEF ResetCounter
<1>2. c \in Counters
  BY StatsAssumption DEF StatsTypeOK
<1>3. count \in [Procs -> [Counters -> Nat]] /\ 0 \in Nat
  BY DEF StatsTypeOK
<1>4. /\ count' \in [Procs -> [Counters -> Nat]]
      /\ \A q \in Procs, d \in Counters :
           count'[q][d] = IF q = p /\ d = c THEN 0 ELSE count[q][d]
  BY <1>1, <1>2, <1>3, SetCounter
<1>5. \A q \in Procs \ {p} : count'[q] = count[q]
  BY <1>1, <1>3
<1>6. Takes(p, c)
  BY <1>1, AccessTaken
<1>7. Resets(p, c)
  BY <1>1, <1>4, <1>5, <1>6 DEF Resets, ResetCounter
<1> QED  BY <1>2, <1>7

(* An observation begins, and ends. *)
Begins(p) ==
  /\ watch[p].op = "none"
  /\ watch'[p].op \in {"get", "clear"} /\ watch'[p].todo = Followed
  /\ cleared[p] => cleared'[p]
  /\ watch'[p].op = "clear" => cleared'[p]

LEMMA ObserveEffect ==
  ASSUME StatsTypeOK, NEW p \in Procs, Observe(p)
  PROVE  /\ Begins(p)
         /\ watch' \in [Procs -> [op : {"none", "get", "clear"}, todo : SUBSET Followed]]
         /\ cleared' \in [Procs -> BOOLEAN]
         /\ \A q \in Procs \ {p} : watch'[q] = watch[q] /\ cleared'[q] = cleared[q]
         /\ UNCHANGED <<vars, count, snap, since>>
<1>1. PICK op \in Observing :
        /\ watch' = [watch EXCEPT ![p] = [op |-> op, todo |-> Fields]]
        /\ cleared' = [cleared EXCEPT ![p] = @ \/ op = "clear"]
  BY DEF Observe
<1>2. op \in {"get", "clear"} /\ Fields = Followed
  BY StatsAssumption DEF Fields
<1>3. cleared'[p] = (cleared[p] \/ op = "clear")
  BY <1>1, Zenon DEF StatsTypeOK
<1>4. watch'[p] = [op |-> op, todo |-> Followed]
  BY <1>1, <1>2 DEF StatsTypeOK
<1>5. watch[p].op = "none" /\ UNCHANGED <<vars, count, snap, since>>
  BY DEF Observe, Watching
<1>6. Begins(p)
  <2>1. (cleared[p] => cleared'[p]) /\ (op = "clear" => cleared'[p])
    BY <1>3, Zenon
  <2>2. watch'[p].op = op /\ watch'[p].todo = Followed
    BY <1>4
  <2>3. watch'[p].op \in {"get", "clear"}
    BY <1>2, <2>2
  <2>4. watch'[p].op = "clear" => cleared'[p]
    BY <2>1, <2>2, Zenon
  <2> QED  BY <1>5, <2>1, <2>2, <2>3, <2>4, Zenon DEF Begins
<1>7. cleared' \in [Procs -> BOOLEAN]
  BY <1>1 DEF StatsTypeOK
<1>8. /\ watch' \in [Procs -> [op : {"none", "get", "clear"}, todo : SUBSET Followed]]
      /\ \A q \in Procs \ {p} : watch'[q] = watch[q] /\ cleared'[q] = cleared[q]
  BY <1>1, <1>2 DEF StatsTypeOK
<1> QED  BY <1>5, <1>6, <1>7, <1>8

LEMMA EndEffect ==
  ASSUME StatsTypeOK, NEW p \in Procs, ObservationEnds(p), NEW q \in Procs
  PROVE  /\ q = p => watch'[q] = NotWatching /\ since'[q] = ZeroCounters
         /\ q # p => /\ watch'[q] = watch[q] /\ snap'[q] = snap[q]
                     /\ since'[q] = since[q]
         /\ UNCHANGED <<vars, count, cleared>>
BY DEF ObservationEnds, StatsTypeOK

(* What the observer changes nothing of. *)
LEMMA ObserverCallsNothing ==
  ASSUME NEW p, \/ Observe(p) \/ ReadCounter(p) \/ ResetCounter(p)
                \/ ObservationEnds(p)
  PROVE  UNCHANGED <<pc, req, tick>>
BY DEF Observe, ReadCounter, ResetCounter, ObservationEnds, vars, threadVars, procVars

LEMMA StatsTypeStep ==
  ASSUME TypeOK, CallsConsistent, StatsTypeOK, [StatsNext]_statsVars
  PROVE  StatsTypeOK'
<1>1. ASSUME NEW t \in Threads, Count(t) \/ CountNothing(t), UNCHANGED watchVars
      PROVE  StatsTypeOK'
  <2>1. CASE CountNothing(t)
    BY <1>1, <2>1 DEF CountNothing, StatsTypeOK, watchVars
  <2>2. CASE Count(t)
    <3>1. req[t] \in Objects
      BY <2>2
      DEF Count, MemHit, MemMiss, OpenBlob, LoadLibrary, Reserve,
          CallsConsistent, CallSteps
    <3>2. PICK event \in Events : Incr(t, <<req[t].kind, event>>)
      BY <2>2 DEF Count, Counter, DiskMisses, Events
    <3>3. <<req[t].kind, event>> \in Counters
      BY <3>1 DEF Counters, Objects
    <3>4. /\ count' \in [Procs -> [Counters -> Nat]]
          /\ since' \in [Procs -> [Counters -> Nat]]
      BY <3>1, <3>2, <3>3, IncrEffect, IncrNoted
    <3> QED  BY <1>1, <3>4 DEF StatsTypeOK, watchVars
  <2> QED  BY <1>1, <2>1, <2>2
<1>2. ASSUME NEW p \in Procs, CrashStats(p) PROVE StatsTypeOK'
  BY <1>2, ZeroCounts DEF CrashStats, StatsTypeOK, NotWatching
<1>3. ASSUME NEW p \in Procs, Observe(p) PROVE StatsTypeOK'
  BY <1>3, ObserveEffect DEF StatsTypeOK
<1>4. ASSUME NEW p \in Procs, ReadCounter(p) PROVE StatsTypeOK'
  <2>1. PICK c \in Counters : Reads(p, c)
    BY <1>4, ReadEffect
  <2> QED  BY <2>1 DEF Reads, Takes, StatsTypeOK
<1>5. ASSUME NEW p \in Procs, ResetCounter(p) PROVE StatsTypeOK'
  <2>1. PICK c \in Counters : Resets(p, c)
    BY <1>5, ResetEffect
  <2> QED  BY <2>1 DEF Resets, Takes, StatsTypeOK
<1>6. ASSUME NEW p \in Procs, ObservationEnds(p) PROVE StatsTypeOK'
  BY <1>6, ZeroCounts DEF ObservationEnds, StatsTypeOK, NotWatching
<1>7. CASE UNCHANGED statVars
  BY <1>7 DEF statVars, watchVars, StatsTypeOK
<1> QED  BY <1>1, <1>2, <1>3, <1>4, <1>5, <1>6, <1>7 DEF StatsNext, statsVars

LEMMA CounterTypes ==
  ASSUME StatsTypeOK, NEW p \in Procs, NEW k \in Kinds
  PROVE  /\ Missed(p, k) \in Nat /\ FoundOnDisk(p, k) \in Nat /\ NotOnDisk(p, k) \in Nat
         /\ InLookup(p, k) \in {0, 1}
         /\ OnDisk(count[p], k) = FoundOnDisk(p, k) + NotOnDisk(p, k)
<1>1. \A e \in Events : <<k, e>> \in Counters
  BY DEF Counters
<1>2. \A e \in Events : count[p][<<k, e>>] \in Nat
  BY <1>1 DEF StatsTypeOK
<1>3. Missed(p, k) \in Nat /\ FoundOnDisk(p, k) \in Nat /\ NotOnDisk(p, k) \in Nat
  BY <1>2 DEF Missed, FoundOnDisk, NotOnDisk, Events
<1>4. InLookup(p, k) \in {0, 1}
  BY DEF InLookup
<1> QED  BY <1>3, <1>4 DEF OnDisk, FoundOnDisk, NotOnDisk

(* Where the calls and the counters stay as they are. *)
LEMMA NothingCounted ==
  ASSUME UNCHANGED <<pc, req>>, NEW p, count'[p] = count[p], NEW k
  PROVE  /\ InLookup(p, k)' = InLookup(p, k)
         /\ Missed(p, k)' = Missed(p, k)
         /\ FoundOnDisk(p, k)' = FoundOnDisk(p, k)
         /\ NotOnDisk(p, k)' = NotOnDisk(p, k)
BY LookupKept DEF Missed, FoundOnDisk, NotOnDisk

-----------------------------------------------------------------------------
(* Every miss in memory is a hit or a miss on disk.                        *)

Balance(p, k) ==
  Missed(p, k) = FoundOnDisk(p, k) + NotOnDisk(p, k) + InLookup(p, k)

Balanced ==
  \A p \in Procs :
    ~cleared[p] => watch[p].op # "clear" /\ \A k \in Kinds : Balance(p, k)

LEMMA BalancedStep ==
  ASSUME "io" \notin Faults, TypeOK, CallsConsistent, MutexHeld,
         StatsTypeOK, Balanced, [StatsNext]_statsVars
  PROVE  Balanced'
<1> SUFFICES ASSUME NEW p \in Procs, ~cleared'[p]
             PROVE  watch'[p].op # "clear" /\ \A k \in Kinds : Balance(p, k)'
  BY DEF Balanced
<1>1. ASSUME NEW t \in Threads, Count(t) \/ CountNothing(t), UNCHANGED watchVars
      PROVE  watch'[p].op # "clear" /\ \A k \in Kinds : Balance(p, k)'
  <2>1. watch'[p].op # "clear" /\ \A k \in Kinds : Balance(p, k)
    BY <1>1 DEF Balanced, watchVars
  <2>2. ASSUME NEW k \in Kinds PROVE Balance(p, k)'
    <3>1. CountsNoLookup(p, k) \/ BeginsLookup(p, k) \/ EndsLookup(p, k)
      BY <1>1, CountEffect
    <3>2. /\ Missed(p, k) \in Nat /\ FoundOnDisk(p, k) \in Nat
          /\ NotOnDisk(p, k) \in Nat /\ InLookup(p, k) \in {0, 1}
      BY CounterTypes
    <3> QED
      BY <2>1, <3>1, <3>2 DEF Balance, CountsNoLookup, BeginsLookup, EndsLookup
  <2> QED  BY <2>1, <2>2
<1>2. ASSUME NEW q \in Procs, CrashStats(q)
      PROVE  watch'[p].op # "clear" /\ \A k \in Kinds : Balance(p, k)'
  <2>1. ASSUME NEW k \in Kinds PROVE watch'[p].op # "clear" /\ Balance(p, k)'
    <3>1. CASE /\ InLookup(p, k)' = 0 /\ watch'[p] = NotWatching
               /\ count'[p] = ZeroCounters
      <4>1. Missed(p, k)' = 0 /\ FoundOnDisk(p, k)' = 0 /\ NotOnDisk(p, k)' = 0
        BY <3>1, ZeroCounts DEF Missed, FoundOnDisk, NotOnDisk, Events
      <4> QED  BY <3>1, <4>1 DEF Balance, NotWatching
    <3>2. CASE /\ InLookup(p, k)' = InLookup(p, k) /\ watch'[p] = watch[p]
               /\ count'[p] = count[p] /\ cleared'[p] = cleared[p]
      <4>1. /\ Missed(p, k)' = Missed(p, k)
            /\ FoundOnDisk(p, k)' = FoundOnDisk(p, k)
            /\ NotOnDisk(p, k)' = NotOnDisk(p, k)
        BY <3>2 DEF Missed, FoundOnDisk, NotOnDisk
      <4> QED  BY <3>2, <4>1 DEF Balanced, Balance
    <3> QED  BY <1>2, <3>1, <3>2, CrashEffect
  <2> QED  BY <2>1 DEF Kinds
<1>3. ASSUME NEW q \in Procs, Observe(q)
      PROVE  watch'[p].op # "clear" /\ \A k \in Kinds : Balance(p, k)'
  <2>1. ~cleared[p] /\ watch'[p].op # "clear"
    BY <1>3, ObserveEffect DEF Balanced, Begins
  <2>2. \A k \in Kinds : Balance(p, k)' <=> Balance(p, k)
    BY <1>3, NothingCounted, ObserverCallsNothing, ObserveEffect DEF Balance
  <2> QED  BY <2>1, <2>2 DEF Balanced
<1>4. ASSUME NEW q \in Procs, ReadCounter(q)
      PROVE  watch'[p].op # "clear" /\ \A k \in Kinds : Balance(p, k)'
  <2>1. PICK c \in Counters : Reads(q, c)
    BY <1>4, ReadEffect
  <2>2. ~cleared[p] /\ watch'[p].op = watch[p].op /\ count'[p] = count[p]
    BY <2>1 DEF Reads, Takes
  <2>3. \A k \in Kinds : Balance(p, k)' <=> Balance(p, k)
    BY <1>4, <2>2, NothingCounted, ObserverCallsNothing DEF Balance
  <2> QED  BY <2>2, <2>3 DEF Balanced
<1>5. ASSUME NEW q \in Procs, ResetCounter(q)
      PROVE  watch'[p].op # "clear" /\ \A k \in Kinds : Balance(p, k)'
  <2>1. PICK c \in Counters : Resets(q, c)
    BY <1>5, ResetEffect
  <2>2. ~cleared[p] /\ p # q
    BY <2>1 DEF Resets, Balanced
  <2>3. watch'[p] = watch[p] /\ count'[p] = count[p]
    BY <2>1, <2>2 DEF Resets, Takes
  <2>4. \A k \in Kinds : Balance(p, k)' <=> Balance(p, k)
    BY <1>5, <2>3, NothingCounted, ObserverCallsNothing DEF Balance
  <2> QED  BY <2>2, <2>3, <2>4 DEF Balanced
<1>7. ASSUME NEW q \in Procs, ObservationEnds(q)
      PROVE  watch'[p].op # "clear" /\ \A k \in Kinds : Balance(p, k)'
  <2>1. /\ watch'[p] = watch[p] \/ watch'[p] = NotWatching
        /\ count'[p] = count[p] /\ cleared'[p] = cleared[p]
    BY <1>7, EndEffect
  <2>2. \A k \in Kinds : Balance(p, k)' <=> Balance(p, k)
    BY <1>7, <2>1, NothingCounted, ObserverCallsNothing DEF Balance
  <2> QED  BY <2>1, <2>2 DEF Balanced, NotWatching
<1>6. CASE UNCHANGED statVars /\ UNCHANGED vars
  <2>1. UNCHANGED <<pc, req>> /\ count'[p] = count[p]
    BY <1>6 DEF statVars, vars, threadVars
  <2>2. \A k \in Kinds : Balance(p, k)' <=> Balance(p, k)
    BY <2>1, NothingCounted DEF Balance
  <2> QED  BY <1>6, <2>2 DEF Balanced, statVars, watchVars
<1> QED
  BY <1>1, <1>2, <1>3, <1>4, <1>5, <1>6, <1>7 DEF StatsNext, statsVars, Quiescent

-----------------------------------------------------------------------------
(* The tick counts the calls.                                              *)

Counted(p) == InMemory(count[p], "blob") + InMemory(count[p], "library")

NobodyPreloads == \A t \in Threads : pc[t] \notin {"plock", "ptick", "pload"}

Ticks ==
  /\ NobodyPreloads
  /\ \A p \in Procs :
       /\ IsFiniteSet(Queued(p))
       /\ ~cleared[p] => tick[p] = Counted(p) + Cardinality(Queued(p))

LEMMA CountedType ==
  ASSUME StatsTypeOK, NEW p \in Procs
  PROVE  Counted(p) \in Nat
<1>1. \A k \in Kinds, e \in Events : <<k, e>> \in Counters
  BY DEF Counters
<1>2. \A k \in Kinds, e \in Events : count[p][<<k, e>>] \in Nat
  BY <1>1 DEF StatsTypeOK
<1> QED  BY <1>2 DEF Counted, InMemory, Kinds, Events

(* A counter of the memory lookups goes up, or another one does. *)
LEMMA CountedIncr ==
  ASSUME StatsTypeOK, NEW t \in Threads, req[t] \in Objects, NEW event \in Events,
         Incr(t, <<req[t].kind, event>>), NEW p \in Procs
  PROVE  Counted(p)' = IF p = ProcOf[t] /\ event \in {"mem_hits", "mem_misses"}
                       THEN Counted(p) + 1 ELSE Counted(p)
<1>1. \A k \in Kinds, e \in Events : <<k, e>> \in Counters
  BY DEF Counters
<1>2. \A k \in Kinds, e \in Events : count[p][<<k, e>>] \in Nat
  <2>1. count[p] \in [Counters -> Nat]
    BY DEF StatsTypeOK
  <2> QED  BY <1>1, <2>1
<1>3. req[t].kind \in {"blob", "library"}
  BY DEF Objects, Kinds
<1>4. \A q \in Procs, k \in Kinds, e \in Events :
        count'[q][<<k, e>>] =
          IF q = ProcOf[t] /\ k = req[t].kind /\ e = event
          THEN count[q][<<k, e>>] + 1 ELSE count[q][<<k, e>>]
  BY IncrEffect
<1>5. /\ "blob" \in Kinds /\ "library" \in Kinds
      /\ "mem_hits" \in Events /\ "mem_misses" \in Events
  BY DEF Kinds, Events
<1>6. ASSUME NEW k \in Kinds
      PROVE  InMemory(count[p], k)' =
               IF /\ p = ProcOf[t] /\ k = req[t].kind
                  /\ event \in {"mem_hits", "mem_misses"}
               THEN InMemory(count[p], k) + 1 ELSE InMemory(count[p], k)
  <2>1. /\ count'[p][<<k, "mem_hits">>] =
             IF p = ProcOf[t] /\ k = req[t].kind /\ "mem_hits" = event
             THEN count[p][<<k, "mem_hits">>] + 1 ELSE count[p][<<k, "mem_hits">>]
        /\ count'[p][<<k, "mem_misses">>] =
             IF p = ProcOf[t] /\ k = req[t].kind /\ "mem_misses" = event
             THEN count[p][<<k, "mem_misses">>] + 1 ELSE count[p][<<k, "mem_misses">>]
    BY <1>4, <1>5
  <2>2. count[p][<<k, "mem_hits">>] \in Nat /\ count[p][<<k, "mem_misses">>] \in Nat
    BY <1>2, <1>5
  <2> QED  BY <2>1, <2>2 DEF InMemory
<1>7. InMemory(count[p], "blob") \in Nat /\ InMemory(count[p], "library") \in Nat
  BY <1>2, <1>5 DEF InMemory
<1>8. /\ InMemory(count[p], "blob")' =
           IF /\ p = ProcOf[t] /\ "blob" = req[t].kind
              /\ event \in {"mem_hits", "mem_misses"}
           THEN InMemory(count[p], "blob") + 1 ELSE InMemory(count[p], "blob")
      /\ InMemory(count[p], "library")' =
           IF /\ p = ProcOf[t] /\ "library" = req[t].kind
              /\ event \in {"mem_hits", "mem_misses"}
           THEN InMemory(count[p], "library") + 1 ELSE InMemory(count[p], "library")
  BY <1>5, <1>6
<1> QED  BY <1>3, <1>7, <1>8 DEF Counted

QueueKept(p) ==
  tick'[p] = tick[p] /\ Queued(p)' = Queued(p) /\ Counted(p)' = Counted(p)

QueueGrows(p) ==
  /\ tick'[p] = tick[p] + 1 /\ Counted(p)' = Counted(p)
  /\ \E t \in Threads : t \notin Queued(p) /\ Queued(p)' = Queued(p) \cup {t}

QueueShrinks(p) ==
  /\ tick'[p] = tick[p] /\ Counted(p)' = Counted(p) + 1
  /\ \E t \in Queued(p) : Queued(p)' = Queued(p) \ {t}

LEMMA TickEffect ==
  ASSUME "preload" \notin Admin, StatsTypeOK, TypeOK, CallsConsistent,
         NobodyPreloads, NEW t \in Threads, Count(t) \/ CountNothing(t),
         NEW p \in Procs
  PROVE  /\ NobodyPreloads'
         /\ QueueKept(p) \/ QueueGrows(p) \/ QueueShrinks(p)
<1>1. {"mem_hits", "mem_misses", "disk_hits", "disk_misses"} \subseteq Events
  BY DEF Events
<1>2. CASE CountNothing(t) /\ Call(t)
  <2>1. /\ pc[t] = "idle" /\ pc'[t] = "lock"
        /\ \A u \in Threads \ {t} : pc'[u] = pc[u]
        /\ tick' = [tick EXCEPT ![ProcOf[t]] = @ + 1]
        /\ UNCHANGED count
    BY <1>2 DEF CountNothing, Call, Goto, TypeOK
  <2>2. Counted(p)' = Counted(p)
    BY <2>1 DEF Counted
  <2>3. CASE p = ProcOf[t]
    <3>1. t \notin Queued(p) /\ Queued(p)' = Queued(p) \cup {t}
      BY <2>1, <2>3 DEF Queued
    <3> QED  BY <2>1, <2>2, <2>3, <3>1 DEF QueueGrows, NobodyPreloads, TypeOK
  <2>4. CASE p # ProcOf[t]
    <3>1. Queued(p)' = Queued(p)
      BY <2>1, <2>4 DEF Queued
    <3> QED  BY <2>1, <2>2, <2>4, <3>1 DEF QueueKept, NobodyPreloads, TypeOK
  <2> QED  BY <2>3, <2>4
<1>3. CASE CountNothing(t) /\ ~Call(t)
  <2>1. /\ \/ ClearMemory(t) \/ Enable(t) \/ ListForClear(t)
           \/ LibraryExists(t) \/ PublishLibrary(t) \/ DiskMiss(t)
           \/ MakeTemp(t) \/ Write(t) \/ Rename(t) \/ IOThrows(t) \/ Await(t)
           \/ Unlink(t) \/ ClearDiskDone(t) \/ CompileReturns(t) \/ CompileThrows(t)
        /\ UNCHANGED count
    BY <1>3
    DEF CountNothing, Counting, Begin, Advance, EndCompile, ListForPreload,
        PreloadLock, PreloadTick, PreloadFile, PreloadDone, NobodyPreloads
  <2>2. /\ UNCHANGED tick
        /\ \A u \in Threads \ {t} : pc'[u] = pc[u]
        /\ pc[t] # "lock" /\ pc'[t] # "lock"
        /\ pc'[t] \notin {"plock", "ptick", "pload"}
    BY <2>1
    DEF ClearMemory, Enable, ListForClear, LibraryExists, PublishLibrary, DiskMiss,
        MakeTemp, Write, Rename, IOThrows, Await, Unlink, ClearDiskDone,
        CompileReturns, CompileThrows, StoreResult, Return, Goto, TypeOK,
        procVars, threadVars, NobodyPreloads
  <2>3. Queued(p)' = Queued(p) /\ Counted(p)' = Counted(p)
    BY <2>1, <2>2 DEF Queued, Counted
  <2> QED  BY <2>2, <2>3 DEF QueueKept, NobodyPreloads
<1>4. CASE \/ MemHit(t) /\ Incr(t, Counter(t, "mem_hits"))
           \/ MemMiss(t) /\ Incr(t, Counter(t, "mem_misses"))
  <2>1. /\ pc[t] = "lock" /\ pc'[t] \notin {"lock", "plock", "ptick", "pload"}
        /\ \A u \in Threads \ {t} : pc'[u] = pc[u]
        /\ UNCHANGED tick
        /\ req[t] \in Objects
    BY <1>4 DEF MemHit, MemMiss, Goto, TypeOK, CallsConsistent, CallSteps
  <2>2. Counted(p)' = IF p = ProcOf[t] THEN Counted(p) + 1 ELSE Counted(p)
    BY <1>1, <1>4, <2>1, CountedIncr DEF Counter
  <2>3. CASE p = ProcOf[t]
    <3>1. t \in Queued(p) /\ Queued(p)' = Queued(p) \ {t}
      BY <2>1, <2>3 DEF Queued
    <3> QED  BY <2>1, <2>2, <2>3, <3>1 DEF QueueShrinks, NobodyPreloads
  <2>4. CASE p # ProcOf[t]
    <3>1. Queued(p)' = Queued(p)
      BY <2>1, <2>4 DEF Queued
    <3> QED  BY <2>1, <2>2, <2>4, <3>1 DEF QueueKept, NobodyPreloads
  <2> QED  BY <2>3, <2>4
<1>5. CASE \/ (OpenBlob(t) \/ LoadLibrary(t)) /\ Incr(t, Counter(t, "disk_hits"))
           \/ Reserve(t) /\ Incr(t, DiskMisses(t))
  <2>1. /\ pc[t] # "lock" /\ pc'[t] \notin {"lock", "plock", "ptick", "pload"}
        /\ \A u \in Threads \ {t} : pc'[u] = pc[u]
        /\ UNCHANGED tick
        /\ req[t] \in Objects
    BY <1>5
    DEF OpenBlob, LoadLibrary, Reserve, Goto, TypeOK, CallsConsistent, CallSteps
  <2>2. PICK event \in {"disk_hits", "disk_misses"} : Incr(t, <<req[t].kind, event>>)
    BY <1>5 DEF Counter, DiskMisses
  <2>3. Counted(p)' = Counted(p)
    BY <1>1, <2>1, <2>2, CountedIncr
  <2>4. Queued(p)' = Queued(p)
    BY <2>1 DEF Queued
  <2> QED  BY <2>1, <2>3, <2>4 DEF QueueKept, NobodyPreloads
<1> QED  BY <1>2, <1>3, <1>4, <1>5 DEF Count

(* The rest of the steps call nothing, but for the death of a process. *)
LEMMA QueueUntouched ==
  ASSUME UNCHANGED <<pc, tick>>, NEW p, count'[p] = count[p]
  PROVE  QueueKept(p)
BY DEF QueueKept, Queued, Counted

LEMMA TicksStep ==
  ASSUME "preload" \notin Admin, TypeOK, CallsConsistent, StatsTypeOK, Balanced,
         Ticks, [StatsNext]_statsVars
  PROVE  Ticks'
<1>1. ASSUME NEW t \in Threads, Count(t) \/ CountNothing(t), UNCHANGED watchVars
      PROVE  Ticks'
  <2>1. NobodyPreloads
    BY DEF Ticks
  <2>2. ASSUME NEW p \in Procs
        PROVE  /\ NobodyPreloads'
               /\ IsFiniteSet(Queued(p)')
               /\ ~cleared'[p] => tick'[p] = Counted(p)' + Cardinality(Queued(p)')
    <3>1. /\ NobodyPreloads'
          /\ QueueKept(p) \/ QueueGrows(p) \/ QueueShrinks(p)
      BY <1>1, <2>1, TickEffect
    <3>2. /\ IsFiniteSet(Queued(p)) /\ cleared'[p] = cleared[p]
          /\ ~cleared[p] => tick[p] = Counted(p) + Cardinality(Queued(p))
      BY <1>1 DEF Ticks, watchVars
    <3>3. Counted(p) \in Nat /\ Cardinality(Queued(p)) \in Nat /\ tick[p] \in Nat
      BY <3>2, CountedType, FS_CardinalityType DEF TypeOK
    <3>4. CASE QueueKept(p)
      BY <3>1, <3>2, <3>4 DEF QueueKept
    <3>5. CASE QueueGrows(p)
      <4>1. PICK u \in Threads : u \notin Queued(p) /\ Queued(p)' = Queued(p) \cup {u}
        BY <3>5 DEF QueueGrows
      <4>2. /\ IsFiniteSet(Queued(p)')
            /\ Cardinality(Queued(p)') = Cardinality(Queued(p)) + 1
        BY <3>2, <4>1, FS_AddElement
      <4> QED  BY <3>1, <3>2, <3>3, <3>5, <4>2 DEF QueueGrows
    <3>6. CASE QueueShrinks(p)
      <4>1. PICK u \in Queued(p) : Queued(p)' = Queued(p) \ {u}
        BY <3>6 DEF QueueShrinks
      <4>2. /\ IsFiniteSet(Queued(p)')
            /\ Cardinality(Queued(p)') = Cardinality(Queued(p)) - 1
        BY <3>2, <4>1, FS_RemoveElement
      <4> QED  BY <3>1, <3>2, <3>3, <3>6, <4>2 DEF QueueShrinks
    <3> QED  BY <3>1, <3>4, <3>5, <3>6
  <2>3. ProcOf[t] \in Procs
    BY CacheAssumption
  <2> QED  BY <2>2, <2>3 DEF Ticks
<1>2. ASSUME NobodyPreloads',
             \A p \in Procs :
               \/ QueueKept(p) /\ (cleared[p] => cleared'[p])
               \/ Queued(p)' = {} /\ tick'[p] = 0 /\ Counted(p)' = 0
      PROVE  Ticks'
  BY <1>2, FS_EmptySet DEF Ticks, QueueKept
<1>3. ASSUME NEW q \in Procs, CrashStats(q) PROVE Ticks'
  <2>1. NobodyPreloads'
    BY <1>3 DEF CrashStats, Crash, Mine, Ticks, NobodyPreloads
  <2>2. ASSUME NEW p \in Procs
        PROVE  \/ QueueKept(p) /\ (cleared[p] => cleared'[p])
               \/ Queued(p)' = {} /\ tick'[p] = 0 /\ Counted(p)' = 0
    <3>1. CASE p = q
      <4>1. Queued(p)' = {}
        BY <1>3, <3>1 DEF CrashStats, Crash, Mine, Queued
      <4>2. tick'[p] = 0 /\ count'[p] = ZeroCounters
        BY <1>3, <3>1 DEF CrashStats, Crash, TypeOK, StatsTypeOK
      <4>3. Counted(p)' = 0
        BY <4>2, ZeroCounts DEF Counted, InMemory, Kinds, Events
      <4> QED  BY <4>1, <4>2, <4>3
    <3>2. CASE p # q
      <4>1. Queued(p)' = Queued(p)
        BY <1>3, <3>2 DEF CrashStats, Crash, Mine, Queued
      <4>2. /\ tick'[p] = tick[p] /\ count'[p] = count[p]
            /\ cleared'[p] = cleared[p]
        BY <1>3, <3>2 DEF CrashStats, Crash, TypeOK, StatsTypeOK
      <4> QED  BY <4>1, <4>2 DEF QueueKept, Counted
    <3> QED  BY <3>1, <3>2
  <2> QED  BY <1>2, <2>1, <2>2
<1>4. ASSUME NEW q \in Procs, \/ Observe(q) \/ ReadCounter(q) \/ ResetCounter(q)
                                \/ ObservationEnds(q)
      PROVE  Ticks'
  <2>1. UNCHANGED <<pc, tick>>
    BY <1>4, ObserverCallsNothing
  <2>2. NobodyPreloads'
    BY <2>1 DEF Ticks, NobodyPreloads
  <2>3. ASSUME NEW p \in Procs
        PROVE  \/ QueueKept(p) /\ (cleared[p] => cleared'[p])
               \/ cleared[p] /\ cleared'[p]
    <3>1. \/ count'[p] = count[p] /\ (cleared[p] => cleared'[p])
          \/ cleared[p] /\ cleared'[p]
      <4>1. CASE Observe(q)
        BY <4>1, ObserveEffect DEF Begins
      <4>2. CASE ReadCounter(q) \/ ObservationEnds(q)
        BY <4>2 DEF ReadCounter, ObservationEnds
      <4>3. CASE ResetCounter(q)
        <5>1. PICK c \in Counters : Resets(q, c)
          BY <4>3, ResetEffect
        <5> QED  BY <5>1 DEF Resets, Balanced
      <4> QED  BY <1>4, <4>1, <4>2, <4>3
    <3> QED  BY <2>1, <3>1, QueueUntouched
  <2>4. \A p \in Procs : Queued(p)' = Queued(p)
    BY <2>1 DEF Queued
  <2> QED  BY <2>2, <2>3, <2>4 DEF Ticks, QueueKept
<1>5. CASE UNCHANGED statVars /\ UNCHANGED vars
  BY <1>5
  DEF statVars, watchVars, vars, threadVars, procVars, Ticks, NobodyPreloads,
      Queued, Counted
<1> QED
  BY <1>1, <1>3, <1>4, <1>5 DEF StatsNext, statsVars, Quiescent

LEMMA StatsStart ==
  StatsInit => StatsTypeOK /\ Balanced /\ Ticks
<1> SUFFICES ASSUME StatsInit PROVE StatsTypeOK /\ Balanced /\ Ticks
  OBVIOUS
<1>1. ZeroCounters \in [Counters -> Nat]
  BY ZeroCounts
<1>2. /\ count = [p \in Procs |-> ZeroCounters] /\ snap = [p \in Procs |-> ZeroCounters]
      /\ watch = [p \in Procs |-> NotWatching] /\ cleared = [p \in Procs |-> FALSE]
      /\ since = [p \in Procs |-> ZeroCounters]
  BY DEF StatsInit
<1>3. /\ \A t \in Threads : pc[t] = "idle"
      /\ \A p \in Procs : tick[p] = 0
  BY DEF StatsInit, Init
<1>4. StatsTypeOK
  BY <1>1, <1>2 DEF StatsTypeOK, NotWatching
<1>5. ASSUME NEW p \in Procs, NEW k \in Kinds PROVE Balance(p, k)
  <2>1. Missed(p, k) = 0 /\ FoundOnDisk(p, k) = 0 /\ NotOnDisk(p, k) = 0
    BY <1>2, ZeroCounts DEF Missed, FoundOnDisk, NotOnDisk, Events
  <2>2. InLookup(p, k) = 0
    BY <1>3 DEF InLookup, BetweenCounters
  <2> QED  BY <2>1, <2>2 DEF Balance
<1>6. Balanced
  BY <1>2, <1>5 DEF Balanced, NotWatching
<1>7. ASSUME NEW p \in Procs
      PROVE  Queued(p) = {} /\ Counted(p) = 0
  <2>1. Counted(p) = 0
    BY <1>2, ZeroCounts DEF Counted, InMemory, Kinds, Events
  <2> QED  BY <1>3, <2>1 DEF Queued
<1>8. Ticks
  BY <1>3, <1>7, FS_EmptySet DEF Ticks, NobodyPreloads
<1> QED  BY <1>4, <1>6, <1>8

(* Whatever the threads, their calls and the limits: the counters tell     *)
(* each call exactly once, and every miss in memory is a hit or a miss on  *)
(* disk but for the lookup under way, where no system call fails between   *)
(* the two counters and nobody preloads, which uses up ticks               *)
(* (counter_.*.incr() and tick_ in get_or_add).                            *)
THEOREM CountersAddUp ==
  ASSUME "io" \notin Faults, "preload" \notin Admin
  PROVE  StatsSpec => []StatsAddUp
<1>1. StatsInit => StatsTypeOK /\ Balanced /\ Ticks
  BY StatsStart
<1>2. /\ TypeOK /\ CallsConsistent /\ MutexHeld
      /\ StatsTypeOK /\ Balanced /\ Ticks /\ [StatsNext]_statsVars
      => (StatsTypeOK /\ Balanced /\ Ticks)'
  BY StatsTypeStep, BalancedStep, TicksStep
<1>3. StatsTypeOK /\ Balanced /\ Ticks => StatsAddUp
  BY CounterTypes DEF Balanced, Balance, Ticks, Counted, StatsAddUp, Missed
<1> QED
  BY <1>1, <1>2, <1>3, StatsImplementCache, TypeCorrect, MutualExclusion, PTL
  DEF StatsSpec

-----------------------------------------------------------------------------
(* How far an observation can be torn.                                     *)

SinceMissed(p, k) == since[p][<<k, "mem_misses">>]
SinceOnDisk(p, k) == since[p][<<k, "disk_hits">>] + since[p][<<k, "disk_misses">>]

\* The accesses that have taken effect.
Done(p) == Followed \ watch[p].todo

(* What has been read is between the counter at the begin of the           *)
(* observation and the counter now; what has been reset has not more than  *)
(* was counted since; and what is counted on disk is what was missed in    *)
(* memory, but for the lookup that was under way at the begin.             *)
ReadWithin(p, c) ==
  snap[p][c] <= count[p][c] /\ count[p][c] <= snap[p][c] + since[p][c]

ResetWithin(p, c) == count[p][c] <= since[p][c]

MissedFirst(p, k) == SinceOnDisk(p, k) + InLookup(p, k) <= SinceMissed(p, k) + 1

Tracked(p) ==
  /\ ~Watching(p) => since[p] = ZeroCounters
  /\ watch[p].op = "get" => \A c \in Done(p) : ReadWithin(p, c)
  /\ watch[p].op = "clear" => \A c \in Done(p) : ResetWithin(p, c)
  /\ \A k \in Kinds : MissedFirst(p, k)

Tracking == \A p \in Procs : Tracked(p)

LEMMA SinceTypes ==
  ASSUME StatsTypeOK, NEW p \in Procs, NEW k \in Kinds
  PROVE  /\ since[p][<<k, "mem_misses">>] \in Nat
         /\ since[p][<<k, "disk_hits">>] \in Nat
         /\ since[p][<<k, "disk_misses">>] \in Nat
<1>1. \A e \in Events : <<k, e>> \in Counters
  BY DEF Counters
<1>2. \A e \in Events : since[p][<<k, e>>] \in Nat
  BY <1>1 DEF StatsTypeOK
<1> QED  BY <1>2 DEF Events

LEMMA NothingSince ==
  ASSUME StatsTypeOK, NEW p \in Procs, since[p] = ZeroCounters, NEW k \in Kinds
  PROVE  MissedFirst(p, k)
<1>1. SinceMissed(p, k) = 0 /\ SinceOnDisk(p, k) = 0
  <2>1. \A e \in Events : since[p][<<k, e>>] = 0
    BY ZeroCounts
  <2> QED  BY <2>1 DEF SinceMissed, SinceOnDisk, Events
<1>2. InLookup(p, k) \in {0, 1}
  BY CounterTypes
<1> QED  BY <1>1, <1>2 DEF MissedFirst

(* A process that nothing happens to. *)
LEMMA TrackedKept ==
  ASSUME NEW p \in Procs, Tracked(p),
         watch'[p] = watch[p], snap'[p] = snap[p],
         count'[p] = count[p], since'[p] = since[p],
         \A k \in Kinds : InLookup(p, k)' = InLookup(p, k)
  PROVE  Tracked(p)'
BY DEF Tracked, Watching, Done, ReadWithin, ResetWithin, MissedFirst, SinceMissed,
       SinceOnDisk

LEMMA CountIsNoted ==
  ASSUME StatsTypeOK, CallsConsistent, NEW t \in Threads, Count(t) \/ CountNothing(t),
         NEW p \in Procs
  PROVE  Noted(p)
<1>1. CASE CountNothing(t)
  BY <1>1 DEF CountNothing, Noted
<1>2. CASE Count(t)
  <2>1. req[t] \in Objects
    BY <1>2
    DEF Count, MemHit, MemMiss, OpenBlob, LoadLibrary, Reserve,
        CallsConsistent, CallSteps
  <2>2. PICK event \in Events : Incr(t, <<req[t].kind, event>>)
    BY <1>2 DEF Count, Counter, DiskMisses, Events
  <2>3. <<req[t].kind, event>> \in Counters
    BY <2>1 DEF Counters, Objects
  <2> QED  BY <2>2, <2>3, IncrNoted
<1> QED  BY <1>1, <1>2

(* What a step of a thread does to an observation. *)
LEMMA TrackedCount ==
  ASSUME TypeOK, CallsConsistent, MutexHeld, StatsTypeOK, StatsTypeOK',
         NEW p \in Procs, Tracked(p),
         NEW t \in Threads, Count(t) \/ CountNothing(t), UNCHANGED watchVars
  PROVE  Tracked(p)'
<1>1. watch'[p] = watch[p] /\ snap'[p] = snap[p] /\ Noted(p)
  BY CountIsNoted DEF watchVars
<1>2. CASE ~Watching(p)
  <2>1. since'[p] = ZeroCounters /\ watch'[p].op = "none"
    BY <1>1, <1>2 DEF Noted, Tracked, Watching
  <2>2. ASSUME NEW k \in Kinds PROVE MissedFirst(p, k)'
    <3>1. \A e \in Events : since'[p][<<k, e>>] = 0
      BY <2>1, ZeroCounts
    <3>2. SinceMissed(p, k)' = 0 /\ SinceOnDisk(p, k)' = 0
      BY <3>1 DEF SinceMissed, SinceOnDisk, Events
    <3>3. InLookup(p, k)' \in {0, 1}
      BY DEF InLookup
    <3> QED  BY <3>2, <3>3 DEF MissedFirst
  <2> QED  BY <2>1, <2>2 DEF Tracked
<1>3. CASE Watching(p)
  <2>1. \A d \in Counters :
          \/ count'[p][d] = count[p][d] /\ since'[p][d] = since[p][d]
          \/ count'[p][d] = count[p][d] + 1 /\ since'[p][d] = since[p][d] + 1
    BY <1>1, <1>3 DEF Noted
  <2>2. \A d \in Counters :
          count[p][d] \in Nat /\ since[p][d] \in Nat /\ snap[p][d] \in Nat
    BY DEF StatsTypeOK
  <2>3. Done(p)' = Done(p) /\ Done(p) \subseteq Counters /\ Watching(p)'
    BY <1>1, <1>3, StatsAssumption DEF Done, Watching
  <2>4. ASSUME NEW c \in Done(p), ReadWithin(p, c) PROVE ReadWithin(p, c)'
    BY <1>1, <2>1, <2>2, <2>3, <2>4 DEF ReadWithin
  <2>5. ASSUME NEW c \in Done(p), ResetWithin(p, c) PROVE ResetWithin(p, c)'
    BY <2>1, <2>2, <2>3, <2>5 DEF ResetWithin
  <2>6. ASSUME NEW k \in Kinds PROVE MissedFirst(p, k)'
    <3>1. CountsNoLookup(p, k) \/ BeginsLookup(p, k) \/ EndsLookup(p, k)
      BY CountEffect
    <3>2. /\ <<k, "mem_misses">> \in Counters /\ <<k, "disk_hits">> \in Counters
          /\ <<k, "disk_misses">> \in Counters
      BY DEF Counters, Events
    <3>3. MissedFirst(p, k) /\ InLookup(p, k) \in {0, 1}
      BY CounterTypes DEF Tracked
    <3>4. CASE CountsNoLookup(p, k)
      <4>1. SinceMissed(p, k)' = SinceMissed(p, k) /\ SinceOnDisk(p, k)' = SinceOnDisk(p, k)
        BY <2>1, <2>2, <3>2, <3>4
        DEF CountsNoLookup, Missed, FoundOnDisk, NotOnDisk, SinceMissed, SinceOnDisk
      <4>2. SinceMissed(p, k) \in Nat /\ SinceOnDisk(p, k) \in Nat
        BY SinceTypes DEF SinceMissed, SinceOnDisk
      <4> QED  BY <3>3, <3>4, <4>1, <4>2 DEF MissedFirst, CountsNoLookup
    <3>5. CASE BeginsLookup(p, k)
      <4>1. /\ SinceMissed(p, k)' = SinceMissed(p, k) + 1
            /\ SinceOnDisk(p, k)' = SinceOnDisk(p, k)
        BY <2>1, <2>2, <3>2, <3>5
        DEF BeginsLookup, Missed, FoundOnDisk, NotOnDisk, SinceMissed, SinceOnDisk
      <4>2. SinceMissed(p, k) \in Nat /\ SinceOnDisk(p, k) \in Nat
        BY SinceTypes DEF SinceMissed, SinceOnDisk
      <4> QED  BY <3>3, <3>5, <4>1, <4>2 DEF MissedFirst, BeginsLookup
    <3>6. CASE EndsLookup(p, k)
      <4>1. /\ SinceMissed(p, k)' = SinceMissed(p, k)
            /\ SinceOnDisk(p, k)' = SinceOnDisk(p, k) + 1
        BY <2>1, <2>2, <3>2, <3>6
        DEF EndsLookup, Missed, FoundOnDisk, NotOnDisk, SinceMissed, SinceOnDisk
      <4>2. SinceMissed(p, k) \in Nat /\ SinceOnDisk(p, k) \in Nat
        BY SinceTypes DEF SinceMissed, SinceOnDisk
      <4> QED  BY <3>3, <3>6, <4>1, <4>2 DEF MissedFirst, EndsLookup
    <3> QED  BY <3>1, <3>4, <3>5, <3>6
  <2> QED  BY <1>1, <2>3, <2>4, <2>5, <2>6 DEF Tracked
<1> QED  BY <1>2, <1>3

LEMMA TrackingStep ==
  ASSUME TypeOK, CallsConsistent, MutexHeld, StatsTypeOK, StatsTypeOK', Tracking,
         [StatsNext]_statsVars
  PROVE  Tracking'
<1> SUFFICES ASSUME NEW p \in Procs PROVE Tracked(p)'
  BY DEF Tracking
<1>a. Tracked(p)
  BY DEF Tracking
<1>1. ASSUME NEW t \in Threads, Count(t) \/ CountNothing(t), UNCHANGED watchVars
      PROVE  Tracked(p)'
  BY <1>1, <1>a, TrackedCount
<1>2. ASSUME watch'[p] = NotWatching, since'[p] = ZeroCounters PROVE Tracked(p)'
  <2>1. ASSUME NEW k \in Kinds PROVE MissedFirst(p, k)'
    <3>1. SinceMissed(p, k)' = 0 /\ SinceOnDisk(p, k)' = 0
      <4>1. \A e \in Events : since'[p][<<k, e>>] = 0
        BY <1>2, ZeroCounts
      <4> QED  BY <4>1 DEF SinceMissed, SinceOnDisk, Events
    <3>2. InLookup(p, k)' \in {0, 1}
      BY DEF InLookup
    <3> QED  BY <3>1, <3>2 DEF MissedFirst
  <2> QED  BY <1>2, <2>1 DEF Tracked, NotWatching
<1>3. ASSUME NEW q \in Procs, CrashStats(q) PROVE Tracked(p)'
  <2>1. CASE p = q
    BY <1>2, <1>3, <2>1 DEF CrashStats, StatsTypeOK
  <2>2. CASE p # q
    <3>1. /\ watch'[p] = watch[p] /\ snap'[p] = snap[p]
          /\ count'[p] = count[p] /\ since'[p] = since[p]
      BY <1>3, <2>2 DEF CrashStats, StatsTypeOK
    <3>2. \A k \in Kinds : InLookup(p, k)' = InLookup(p, k)
      BY <1>3, <2>2, CrashEffect
    <3> QED  BY <1>a, <3>1, <3>2, TrackedKept
  <2> QED  BY <2>1, <2>2
<1>4. ASSUME UNCHANGED <<pc, req>> PROVE \A k \in Kinds : InLookup(p, k)' = InLookup(p, k)
  BY <1>4, LookupKept
<1>5. ASSUME NEW q \in Procs, Observe(q) PROVE Tracked(p)'
  <2>1. /\ UNCHANGED <<count, snap, since>>
        /\ \A k \in Kinds : InLookup(p, k)' = InLookup(p, k)
    BY <1>4, <1>5, ObserveEffect, ObserverCallsNothing
  <2>2. CASE p # q
    BY <1>5, <1>a, <2>1, <2>2, ObserveEffect, TrackedKept
  <2>3. CASE p = q
    <3>1. watch'[p].op \in {"get", "clear"} /\ Done(p)' = {}
      BY <1>5, <2>3, ObserveEffect DEF Begins, Done
    <3>2. \A k \in Kinds : MissedFirst(p, k)'
      BY <1>a, <2>1 DEF Tracked, MissedFirst, SinceMissed, SinceOnDisk
    <3> QED  BY <3>1, <3>2 DEF Tracked, Watching
  <2> QED  BY <2>2, <2>3
<1>6. ASSUME NEW q \in Procs, ReadCounter(q) PROVE Tracked(p)'
  <2>1. PICK c \in Counters : Reads(q, c)
    BY <1>6, ReadEffect
  <2>2. /\ UNCHANGED <<count, since>>
        /\ \A k \in Kinds : InLookup(p, k)' = InLookup(p, k)
    BY <1>4, <1>6, <2>1, ObserverCallsNothing DEF Reads
  <2>3. CASE p # q
    <3>1. watch'[p] = watch[p]
      BY <2>1, <2>3 DEF Reads, Takes
    <3>2. snap'[p] = snap[p]
      BY <1>6, <2>3 DEF ReadCounter, StatsTypeOK
    <3> QED  BY <1>a, <2>2, <3>1, <3>2, TrackedKept
  <2>4. CASE p = q
    <3>1. /\ watch'[p].op = "get" /\ watch[p].op = "get"
          /\ Done(p)' \subseteq Done(p) \cup {c} /\ Done(p)' \subseteq Counters
      BY <2>1, <2>4, StatsAssumption DEF Reads, Takes, Done
    <3>2. ASSUME NEW d \in Done(p)' PROVE ReadWithin(p, d)'
      <4>1. snap'[p][d] = IF d = c THEN count[p][d] ELSE snap[p][d]
        BY <2>1, <2>4, <3>1, <3>2 DEF Reads
      <4>2. count[p][d] \in Nat /\ since[p][d] \in Nat
        BY <3>1, <3>2 DEF StatsTypeOK
      <4>3. d # c => ReadWithin(p, d)
        BY <1>a, <3>1, <3>2 DEF Tracked
      <4> QED  BY <2>2, <4>1, <4>2, <4>3 DEF ReadWithin
    <3>3. \A k \in Kinds : MissedFirst(p, k)'
      BY <1>a, <2>2 DEF Tracked, MissedFirst, SinceMissed, SinceOnDisk
    <3> QED  BY <3>1, <3>2, <3>3 DEF Tracked, Watching
  <2> QED  BY <2>3, <2>4
<1>7. ASSUME NEW q \in Procs, ResetCounter(q) PROVE Tracked(p)'
  <2>1. PICK c \in Counters : Resets(q, c)
    BY <1>7, ResetEffect
  <2>2. /\ UNCHANGED <<snap, since>>
        /\ \A k \in Kinds : InLookup(p, k)' = InLookup(p, k)
    BY <1>4, <1>7, <2>1, ObserverCallsNothing DEF Resets
  <2>3. CASE p # q
    BY <1>a, <2>1, <2>2, <2>3, TrackedKept DEF Resets, Takes
  <2>4. CASE p = q
    <3>1. /\ watch'[p].op = "clear" /\ watch[p].op = "clear"
          /\ Done(p)' \subseteq Done(p) \cup {c} /\ Done(p)' \subseteq Counters
      BY <2>1, <2>4, StatsAssumption DEF Resets, Takes, Done
    <3>2. ASSUME NEW d \in Done(p)' PROVE ResetWithin(p, d)'
      <4>1. count'[p][d] = IF d = c THEN 0 ELSE count[p][d]
        BY <2>1, <2>4, <3>1, <3>2 DEF Resets
      <4>2. since[p][d] \in Nat
        BY <3>1, <3>2 DEF StatsTypeOK
      <4>3. d # c => ResetWithin(p, d)
        BY <1>a, <3>1, <3>2 DEF Tracked
      <4> QED  BY <2>2, <4>1, <4>2, <4>3 DEF ResetWithin
    <3>3. \A k \in Kinds : MissedFirst(p, k)'
      BY <1>a, <2>2 DEF Tracked, MissedFirst, SinceMissed, SinceOnDisk
    <3> QED  BY <3>1, <3>2, <3>3 DEF Tracked, Watching
  <2> QED  BY <2>3, <2>4
<1>8. ASSUME NEW q \in Procs, ObservationEnds(q) PROVE Tracked(p)'
  <2>1. CASE p = q
    BY <1>2, <1>8, <2>1, EndEffect
  <2>2. CASE p # q
    BY <1>4, <1>8, <1>a, <2>2, EndEffect, ObserverCallsNothing, TrackedKept
  <2> QED  BY <2>1, <2>2
<1>9. CASE UNCHANGED statVars /\ UNCHANGED vars
  <2>1. /\ watch'[p] = watch[p] /\ snap'[p] = snap[p]
        /\ count'[p] = count[p] /\ since'[p] = since[p] /\ UNCHANGED <<pc, req>>
    BY <1>9 DEF statVars, watchVars, vars, threadVars
  <2> QED  BY <1>4, <1>a, <2>1, TrackedKept
<1> QED
  BY <1>1, <1>3, <1>5, <1>6, <1>7, <1>8, <1>9 DEF StatsNext, statsVars, Quiescent

LEMMA StatsTracked == StatsSpec => [](StatsTypeOK /\ Tracking)
<1>1. StatsInit => StatsTypeOK /\ Tracking
  <2> SUFFICES ASSUME StatsInit, NEW p \in Procs PROVE StatsTypeOK /\ Tracked(p)
    BY StatsStart DEF Tracking
  <2>1. StatsTypeOK /\ since[p] = ZeroCounters /\ watch[p] = NotWatching
    BY StatsStart DEF StatsInit
  <2>2. \A k \in Kinds : MissedFirst(p, k)
    BY <2>1, NothingSince
  <2> QED  BY <2>1, <2>2 DEF Tracked, NotWatching
<1>2. /\ TypeOK /\ CallsConsistent /\ MutexHeld
      /\ StatsTypeOK /\ Tracking /\ [StatsNext]_statsVars
      => (StatsTypeOK /\ Tracking)'
  BY StatsTypeStep, TrackingStep
<1> QED
  BY <1>1, <1>2, StatsImplementCache, TypeCorrect, MutualExclusion, PTL DEF StatsSpec

(* The three counters of the lookups of a kind, once an observation is     *)
(* through with them.                                                      *)
LEMMA ObservedWithin ==
  ASSUME StatsTypeOK, Tracking, NEW p \in Procs, NEW k \in Kinds,
         {k} \X LookupEvents \subseteq Followed, Observed(p), NEW e \in LookupEvents
  PROVE  /\ watch[p].op = "get" => ReadWithin(p, <<k, e>>)
         /\ watch[p].op = "clear" => ResetWithin(p, <<k, e>>)
         /\ count[p][<<k, e>>] \in Nat /\ snap[p][<<k, e>>] \in Nat
         /\ since[p][<<k, e>>] \in Nat
<1>1. <<k, e>> \in Done(p)
  BY DEF Done, Observed
<1>2. <<k, e>> \in Counters
  BY DEF Counters, LookupEvents, Events
<1> QED  BY <1>1, <1>2 DEF Tracking, Tracked, StatsTypeOK

(* Whatever fails, dies, is evicted or cleared, and in whatever order the  *)
(* stores of clear_stats take effect: what it leaves is torn by no more    *)
(* than what was missed meanwhile, and the lookup under way (clear_stats). *)
ClearTornByMisses ==
  \A p \in Procs, k \in Kinds :
    {k} \X LookupEvents \subseteq Followed /\ Observed(p) /\ watch[p].op = "clear" =>
      /\ Missed(p, k) <= OnDisk(count[p], k) + InLookup(p, k) + SinceMissed(p, k)
      /\ OnDisk(count[p], k) + InLookup(p, k) <= Missed(p, k) + SinceMissed(p, k) + 1

LEMMA ClearIsTracked ==
  ASSUME StatsTypeOK, Tracking
  PROVE  ClearTornByMisses
<1> SUFFICES ASSUME NEW p \in Procs, NEW k \in Kinds,
                    {k} \X LookupEvents \subseteq Followed, Observed(p),
                    watch[p].op = "clear"
             PROVE  /\ Missed(p, k) <= OnDisk(count[p], k) + InLookup(p, k)
                                         + SinceMissed(p, k)
                    /\ OnDisk(count[p], k) + InLookup(p, k)
                         <= Missed(p, k) + SinceMissed(p, k) + 1
  BY DEF ClearTornByMisses
<1>1. \A e \in LookupEvents :
        /\ count[p][<<k, e>>] \in Nat /\ since[p][<<k, e>>] \in Nat
        /\ count[p][<<k, e>>] <= since[p][<<k, e>>]
  BY ObservedWithin DEF ResetWithin
<1>2. MissedFirst(p, k) /\ InLookup(p, k) \in {0, 1}
  BY CounterTypes DEF Tracking, Tracked
<1> QED
  BY <1>1, <1>2
  DEF MissedFirst, SinceMissed, SinceOnDisk, Missed, OnDisk, LookupEvents

THEOREM ClearTorn == StatsSpec => []ClearTornByMisses
BY StatsTracked, ClearIsTracked, PTL

(* The same of what get_stats reads, as long as nobody has cleared the     *)
(* counters, where no system call fails between the two counters of a call *)
(* (get_stats, clear_stats).                                               *)
THEOREM TornByMissesAtMost ==
  ASSUME "io" \notin Faults
  PROVE  StatsSpec => []StatsTornByMisses
<1>1. ASSUME StatsTypeOK, Balanced, Tracking PROVE StatsTornByMisses
  <2>1. ASSUME NEW p \in Procs, NEW k \in Kinds,
               {k} \X LookupEvents \subseteq Followed, Observed(p),
               watch[p].op = "get", ~cleared[p]
        PROVE  /\ snap[p][<<k, "mem_misses">>]
                    <= OnDisk(snap[p], k) + SinceMissed(p, k) + 1
               /\ OnDisk(snap[p], k)
                    <= snap[p][<<k, "mem_misses">>] + SinceMissed(p, k)
    <3>1. \A e \in LookupEvents :
            /\ count[p][<<k, e>>] \in Nat /\ since[p][<<k, e>>] \in Nat
            /\ snap[p][<<k, e>>] \in Nat
            /\ snap[p][<<k, e>>] <= count[p][<<k, e>>]
            /\ count[p][<<k, e>>] <= snap[p][<<k, e>>] + since[p][<<k, e>>]
      BY <1>1, <2>1, ObservedWithin DEF ReadWithin
    <3>2. MissedFirst(p, k) /\ InLookup(p, k) \in {0, 1}
      BY <1>1, CounterTypes DEF Tracking, Tracked
    <3>3. Balance(p, k)
      BY <1>1, <2>1 DEF Balanced
    <3> QED
      BY <3>1, <3>2, <3>3
      DEF MissedFirst, Balance, SinceMissed, SinceOnDisk, Missed, FoundOnDisk,
          NotOnDisk, OnDisk, LookupEvents
  <2>2. ClearTornByMisses
    BY <1>1, ClearIsTracked
  <2> QED
    BY <2>1, <2>2 DEF StatsTornByMisses, ClearTornByMisses, SinceMissed, Missed
<1>2. StatsInit => StatsTypeOK /\ Balanced
  BY StatsStart
<1>3. /\ TypeOK /\ CallsConsistent /\ MutexHeld
      /\ StatsTypeOK /\ Balanced /\ [StatsNext]_statsVars
      => (StatsTypeOK /\ Balanced)'
  BY StatsTypeStep, BalancedStep
<1> QED
  BY <1>1, <1>2, <1>3, StatsTracked, StatsImplementCache, TypeCorrect, MutualExclusion,
     PTL
  DEF StatsSpec

=============================================================================
