--------------------------- MODULE CacheLruProofs ---------------------------
(* The eviction theorem: ranking by ticks is ranking by use, where each    *)
(* process has one thread in the cache and none preloads.                  *)
EXTENDS CacheLru, CacheProofs

-----------------------------------------------------------------------------
(* Tables.                                                                 *)

Tables == [Hashes -> Entry \cup {None}]

(* The ticks of a table rank its entries as their uses do. *)
Ranked(E, order) ==
  \A g, h \in Cached(E) :
    g # h => \/ /\ E[g].last_touched_tick < E[h].last_touched_tick
                /\ <<g, h>> \in order
             \/ /\ E[h].last_touched_tick < E[g].last_touched_tick
                /\ <<h, g>> \in order

(* Every entry was last used before a tick. *)
UsedBefore(E, now) == \A g \in Cached(E) : E[g].last_touched_tick < now

(* What is in F was in E, with the same tick. *)
Kept(E, F) ==
  \A g \in Cached(F) :
    E[g] # None /\ F[g].last_touched_tick = E[g].last_touched_tick

(* The same, but for entry h, which may have been stamped with a tick.     *)
Stamped(E, F, h, now) ==
  \A g \in Cached(F) :
    \/ E[g] # None /\ F[g].last_touched_tick = E[g].last_touched_tick
    \/ g = h /\ F[g].last_touched_tick = now

LEMMA Ticks ==
  ASSUME NEW E \in Tables, NEW g \in Cached(E)
  PROVE  g \in Hashes /\ E[g] # None /\ E[g].last_touched_tick \in Nat
BY DEF Tables, Cached, Entry

(* A table none of whose entries is new or stamped stays ranked. *)
LEMMA RankedKept ==
  ASSUME NEW E, NEW F, NEW order, Ranked(E, order), Kept(E, F)
  PROVE  Ranked(F, Reordered(E, F, order))
<1>1. Used(E, F) = {} /\ Unused(E, F) = Cached(F)
  BY DEF Kept, Used, Unused
<1>2. Cached(F) \subseteq Cached(E)
  BY DEF Kept, Cached
<1>3. Reordered(E, F, order) = order \cap (Cached(F) \X Cached(F))
  BY <1>1 DEF Reordered
<1> QED  BY <1>2, <1>3 DEF Ranked, Kept

(* So does one in which an entry gets a tick later than all others. *)
LEMMA RankedStamped ==
  ASSUME NEW E \in Tables, NEW F \in Tables, NEW order, Ranked(E, order),
         NEW h, NEW now \in Nat, UsedBefore(E, now), Stamped(E, F, h, now)
  PROVE  Ranked(F, Reordered(E, F, order))
<1> SUFFICES ASSUME NEW g \in Cached(F), NEW i \in Cached(F), g # i
             PROVE  \/ /\ F[g].last_touched_tick < F[i].last_touched_tick
                       /\ <<g, i>> \in Reordered(E, F, order)
                    \/ /\ F[i].last_touched_tick < F[g].last_touched_tick
                       /\ <<i, g>> \in Reordered(E, F, order)
  BY DEF Ranked
<1>1. \A j \in Unused(E, F) :
        /\ j \in Cached(E)
        /\ F[j].last_touched_tick = E[j].last_touched_tick
        /\ F[j].last_touched_tick < now
  BY DEF Unused, Used, Cached, UsedBefore
<1>2. \A j \in Used(E, F) : j = h /\ F[j].last_touched_tick = now
  BY DEF Used, Stamped
<1>3. CASE g \in Unused(E, F) /\ i \in Unused(E, F)
  <2>1. /\ <<g, i>> \in order => <<g, i>> \in Reordered(E, F, order)
        /\ <<i, g>> \in order => <<i, g>> \in Reordered(E, F, order)
    BY <1>3 DEF Reordered
  <2> QED  BY <1>1, <1>3, <2>1 DEF Ranked
<1>4. CASE g \in Unused(E, F) /\ i \in Used(E, F)
  BY <1>1, <1>2, <1>4 DEF Reordered
<1>5. CASE g \in Used(E, F) /\ i \in Unused(E, F)
  BY <1>1, <1>2, <1>5 DEF Reordered
<1>6. g \in Used(E, F) => i \in Unused(E, F)
  BY <1>2 DEF Unused
<1> QED  BY <1>3, <1>4, <1>5, <1>6 DEF Unused

(* purge() takes what was used first: an entry it takes is not one the     *)
(* table still holds under the same tick, and of two entries the ticks     *)
(* name the one that was used first.                                       *)
LEMMA PurgeTakesOldest ==
  ASSUME NEW E \in Tables, NEW order, Ranked(E, order),
         NEW h \in Hashes, NEW e \in Entry, UsedBefore(E, e.last_touched_tick),
         NEW limit, NEW F \in Insert(E, h, e, limit)
  PROVE  Gone(E, F) \X Staying(E, F) \subseteq order
<1> SUFFICES ASSUME NEW g \in Gone(E, F), NEW i \in Staying(E, F)
             PROVE  <<g, i>> \in order
  OBVIOUS
<1>1. /\ g \in Cached(E) /\ F[g] = None
      /\ i \in Cached(E) /\ i \in Cached(F)
      /\ F[i].last_touched_tick = E[i].last_touched_tick
  BY DEF Gone, Staying, Unused, Used, Cached
<1>2. F # E
  BY <1>1 DEF Cached
<1>3. PICK G \in (IF NeedsPurge(E, limit) THEN Purge(E) ELSE {E}) :
        F = Emplace(G, h, e)
  BY <1>2 DEF Insert
<1>4. e # None
  BY NoneAssumption
<1>5. G[g] = None
  <2>1. G \in Tables
    BY <1>3 DEF Purge, Erase, Tables
  <2>2. g \in Hashes
    BY <1>1 DEF Cached
  <2>3. G[g] # None => Emplace(G, h, e)[g] = G[g]
    BY <2>1, <2>2 DEF Emplace, Tables
  <2> QED  BY <1>1, <1>3, <2>3
<1>6. NeedsPurge(E, limit)
  BY <1>1, <1>3, <1>5 DEF Cached
<1>7. PICK V \in VictimSets(E) : G = Erase(E, V)
  BY <1>3, <1>6 DEF Purge
<1>8. g \in V
  BY <1>1, <1>5, <1>7, Ticks DEF Erase
<1>9. i \notin V
  <2> SUFFICES ASSUME i \in V PROVE FALSE
    OBVIOUS
  <2>1. G[i] = None /\ G \in [Hashes -> Entry \cup {None}]
    BY <1>1, <1>7, Ticks DEF Erase, Tables
  <2>2. i = h /\ F[i] = e
    BY <1>1, <1>3, <2>1 DEF Emplace, Cached
  <2>3. E[i].last_touched_tick < e.last_touched_tick
    BY <1>1 DEF UsedBefore
  <2>4. E[i].last_touched_tick \in Nat
    BY <1>1, Ticks
  <2> QED  BY <1>1, <2>2, <2>3, <2>4
<1>10. E[g].last_touched_tick <= E[i].last_touched_tick
  BY <1>1, <1>7, <1>8, <1>9 DEF VictimSets
<1>11. g # i
  BY <1>8, <1>9
<1>12. E[g].last_touched_tick \in Nat /\ E[i].last_touched_tick \in Nat
  BY <1>1, Ticks
<1>13. ~(E[i].last_touched_tick < E[g].last_touched_tick)
  BY <1>10, <1>12
<1> QED  BY <1>1, <1>11, <1>13, Zenon DEF Ranked

-----------------------------------------------------------------------------
(* The inductive invariant.                                                *)

(* The steps of a call that has its tick and has not used it yet. *)
Unstamped == {"lock", "open", "exists", "load", "reserve"}

NoPreload == \A t \in Threads : pc[t] \notin {"plock", "ptick", "pload"}

(* No entry was used at a tick that is still to come ... *)
StampsPast == \A p \in Procs, k \in Kinds : UsedBefore(lru[p][k], tick[p])

(* ... and none after the tick of a call that has yet to use it. *)
CallsLatest ==
  \A t \in Threads :
    pc[t] \in Unstamped =>
      /\ mytick[t] < tick[ProcOf[t]]
      /\ \A k \in Kinds : UsedBefore(lru[ProcOf[t]][k], mytick[t])

TablesRanked == \A p \in Procs, k \in Kinds : Ranked(lru[p][k], before[p][k])

LruInv == NoPreload /\ StampsPast /\ CallsLatest /\ TablesRanked

(* The two hypotheses of the theorem. *)
OneThreadEach == \A t, u \in Threads : ProcOf[t] = ProcOf[u] => t = u

NobodyPreloads == "preload" \notin Admin

AllEvictOldest == \A p \in Procs, k \in Kinds : EvictsOldest(p, k)

LEMMA TableTypes ==
  ASSUME TypeOK, NEW p \in Procs, NEW k \in Kinds
  PROVE  lru[p][k] \in Tables /\ tick[p] \in Nat
BY DEF TypeOK, Tables

LEMMA RecordOf ==
  ASSUME Record, NEW p \in Procs, NEW k \in Kinds
  PROVE  before'[p][k] = Reordered(lru[p][k], lru'[p][k], before[p][k])
BY DEF Record

(* Steps that use nothing: every table keeps its entries with their ticks, *)
(* or is emptied.                                                          *)
Undisturbed(E, F) == Kept(E, F) /\ (Cached(F) = Cached(E) \/ Cached(F) = {})

LEMMA NothingUsed ==
  ASSUME TypeOK, TypeOK', LruInv, Record,
         \A p \in Procs, k \in Kinds : Undisturbed(lru[p][k], lru'[p][k]),
         \A p \in Procs :
           tick[p] <= tick'[p] \/ \A k \in Kinds : Cached(lru'[p][k]) = {},
         \A t \in Threads :
           /\ pc'[t] \notin {"plock", "ptick", "pload"}
           /\ pc'[t] \in Unstamped =>
                /\ pc[t] \in Unstamped
                /\ mytick'[t] = mytick[t]
                /\ tick[ProcOf[t]] <= tick'[ProcOf[t]]
  PROVE  LruInv' /\ AllEvictOldest
<1> USE CacheAssumption
<1>1. \A p \in Procs, k \in Kinds :
        /\ lru[p][k] \in Tables /\ lru'[p][k] \in Tables
        /\ tick[p] \in Nat /\ tick'[p] \in Nat
  BY DEF TypeOK, Tables
<1>2. ASSUME NEW p \in Procs, NEW k \in Kinds, NEW now \in Nat, NEW later \in Nat,
             now <= later, UsedBefore(lru[p][k], now)
      PROVE  UsedBefore(lru'[p][k], later)
  <2> SUFFICES ASSUME NEW g \in Cached(lru'[p][k])
               PROVE  lru'[p][k][g].last_touched_tick < later
    BY DEF UsedBefore
  <2>1. /\ g \in Cached(lru[p][k])
        /\ lru'[p][k][g].last_touched_tick = lru[p][k][g].last_touched_tick
    BY DEF Undisturbed, Kept, Cached
  <2>2. lru[p][k][g].last_touched_tick < now
    BY <1>2, <2>1 DEF UsedBefore
  <2>3. lru[p][k][g].last_touched_tick \in Nat
    BY <1>1, <2>1, Ticks
  <2> QED  BY <1>2, <2>1, <2>2, <2>3
<1>3. NoPreload'
  BY DEF NoPreload
<1>4. StampsPast'
  <2> SUFFICES ASSUME NEW p \in Procs, NEW k \in Kinds
               PROVE  UsedBefore(lru'[p][k], tick'[p])
    BY DEF StampsPast
  <2>1. CASE tick[p] <= tick'[p]
    BY <1>1, <1>2, <2>1 DEF LruInv, StampsPast
  <2>2. CASE Cached(lru'[p][k]) = {}
    BY <2>2 DEF UsedBefore
  <2> QED  BY <2>1, <2>2
<1>5. CallsLatest'
  <2> SUFFICES ASSUME NEW t \in Threads, pc'[t] \in Unstamped
               PROVE  /\ mytick'[t] < tick'[ProcOf[t]]
                      /\ \A k \in Kinds :
                           UsedBefore(lru'[ProcOf[t]][k], mytick'[t])
    BY DEF CallsLatest
  <2>1. /\ mytick'[t] = mytick[t]
        /\ tick[ProcOf[t]] <= tick'[ProcOf[t]]
        /\ mytick[t] < tick[ProcOf[t]]
        /\ \A k \in Kinds : UsedBefore(lru[ProcOf[t]][k], mytick[t])
    BY DEF LruInv, CallsLatest
  <2>2. /\ ProcOf[t] \in Procs
        /\ mytick[t] \in Nat /\ tick[ProcOf[t]] \in Nat /\ tick'[ProcOf[t]] \in Nat
    BY DEF TypeOK
  <2>3. mytick'[t] < tick'[ProcOf[t]]
    BY <2>1, <2>2
  <2>4. ASSUME NEW k \in Kinds
        PROVE  UsedBefore(lru'[ProcOf[t]][k], mytick[t])
    BY <1>2, <2>1, <2>2
  <2> QED  BY <2>1, <2>3, <2>4
<1>6. TablesRanked'
  BY RankedKept, RecordOf DEF LruInv, TablesRanked, Undisturbed
<1>7. AllEvictOldest
  BY DEF AllEvictOldest, EvictsOldest, Undisturbed, Gone, Staying, Unused
<1> QED  BY <1>3, <1>4, <1>5, <1>6, <1>7 DEF LruInv

(* A step of the thread of a process that uses one entry, with the tick it *)
(* was called with, and evicts others only in the order of their uses.     *)
LEMMA OneUsed ==
  ASSUME OneThreadEach, TypeOK, TypeOK', LruInv, Record,
         NEW t \in Threads, pc[t] \in Unstamped, NEW k \in Kinds, NEW h, NEW F,
         lru' = [lru EXCEPT ![ProcOf[t]][k] = F],
         Stamped(lru[ProcOf[t]][k], F, h, mytick[t]),
         Gone(lru[ProcOf[t]][k], F) \X Staying(lru[ProcOf[t]][k], F)
           \subseteq before[ProcOf[t]][k],
         UNCHANGED <<tick, mytick>>,
         pc'[t] \notin Unstamped \cup {"plock", "ptick", "pload"},
         \A u \in Threads \ {t} : pc'[u] = pc[u]
  PROVE  LruInv' /\ AllEvictOldest
<1> DEFINE p == ProcOf[t]
           E == lru[p][k]
<1>1. /\ p \in Procs
      /\ \A q \in Procs, j \in Kinds :
           /\ lru[q][j] \in Tables /\ lru'[q][j] \in Tables
           /\ tick[q] \in Nat
      /\ mytick[t] \in Nat
  BY CacheAssumption DEF TypeOK, Tables
<1>2. \A q \in Procs, j \in Kinds :
        lru'[q][j] = IF q = p /\ j = k THEN F ELSE lru[q][j]
  BY DEF TypeOK
<1>3. E \in Tables /\ F \in Tables
  BY <1>1, <1>2
<1>4. mytick[t] < tick[p] /\ \A j \in Kinds : UsedBefore(lru[p][j], mytick[t])
  BY DEF LruInv, CallsLatest
<1>5. NoPreload'
  BY DEF LruInv, NoPreload
<1>6. UsedBefore(F, tick[p])
  <2> SUFFICES ASSUME NEW g \in Cached(F)
               PROVE  F[g].last_touched_tick < tick[p]
    BY DEF UsedBefore
  <2>1. CASE F[g].last_touched_tick = mytick[t]
    BY <1>4, <2>1
  <2>2. CASE E[g] # None /\ F[g].last_touched_tick = E[g].last_touched_tick
    BY <1>1, <2>2 DEF LruInv, StampsPast, UsedBefore, Cached
  <2> QED  BY <2>1, <2>2 DEF Stamped
<1>7. StampsPast'
  BY <1>2, <1>6 DEF LruInv, StampsPast
<1>8. CallsLatest'
  <2> SUFFICES ASSUME NEW u \in Threads, pc'[u] \in Unstamped
               PROVE  /\ mytick'[u] < tick'[ProcOf[u]]
                      /\ \A j \in Kinds :
                           UsedBefore(lru'[ProcOf[u]][j], mytick'[u])
    BY DEF CallsLatest
  <2>1. u # t /\ pc[u] \in Unstamped
    OBVIOUS
  <2>2. ProcOf[u] # p /\ ProcOf[u] \in Procs
    BY <2>1, CacheAssumption DEF OneThreadEach
  <2> QED  BY <1>2, <2>1, <2>2 DEF LruInv, CallsLatest
<1>9. TablesRanked'
  <2> SUFFICES ASSUME NEW q \in Procs, NEW j \in Kinds
               PROVE  Ranked(lru'[q][j], before'[q][j])
    BY DEF TablesRanked
  <2>1. /\ before'[q][j] = Reordered(lru[q][j], lru'[q][j], before[q][j])
        /\ Ranked(lru[q][j], before[q][j])
    BY RecordOf DEF LruInv, TablesRanked
  <2>2. CASE q = p /\ j = k
    <3>1. lru[q][j] = E /\ lru'[q][j] = F
      BY <1>2, <2>2
    <3>2. UsedBefore(E, mytick[t])
      BY <1>4
    <3> QED  BY <1>1, <1>3, <2>1, <3>1, <3>2, RankedStamped
  <2>3. CASE ~(q = p /\ j = k)
    <3>1. lru'[q][j] = lru[q][j]
      BY <1>2, <2>3
    <3>2. Kept(lru[q][j], lru'[q][j])
      BY <3>1 DEF Kept, Cached
    <3> QED  BY <2>1, <3>2, RankedKept
  <2> QED  BY <2>2, <2>3
<1>10. AllEvictOldest
  BY <1>2 DEF AllEvictOldest, EvictsOldest, Gone
<1> QED  BY <1>5, <1>7, <1>8, <1>9, <1>10 DEF LruInv

-----------------------------------------------------------------------------
(* The steps.                                                              *)

(* Setting a promise is no use. *)
LEMMA SettlingUsesNothing ==
  ASSUME TypeOK, NEW t \in Threads, NEW f \in Future, SettleTables(t, f),
         NEW p \in Procs, NEW k \in Kinds
  PROVE  Undisturbed(lru[p][k], lru'[p][k])
<1>1. ASSUME NEW g \in Hashes
      PROVE  /\ lru[p][k][g] \in Entry \cup {None}
             /\ lru'[p][k][g] = SettleEntry(lru[p][k][g], t, f)
  BY DEF TypeOK, SettleTables
<1>2. ASSUME NEW e \in Entry
      PROVE  /\ e # None
             /\ SettleEntry(e, t, f).last_touched_tick = e.last_touched_tick
             /\ SettleEntry(e, t, f) # None
  <2>1. e # None
    BY NoneAssumption
  <2>2. Settle(e.value, t, f) \in Future
    BY DEF Settle, Entry
  <2>3. SettleEntry(e, t, f) = [e EXCEPT !.value = Settle(e.value, t, f)]
    BY <2>1 DEF SettleEntry
  <2>4. /\ SettleEntry(e, t, f) \in Entry
        /\ SettleEntry(e, t, f).last_touched_tick = e.last_touched_tick
    BY <2>2, <2>3 DEF Entry
  <2> QED  BY <2>1, <2>4, NoneAssumption
<1>3. SettleEntry(None, t, f) = None
  BY DEF SettleEntry
<1> QED  BY <1>1, <1>2, <1>3 DEF Undisturbed, Kept, Cached

(* A step that stamps one entry of the process of t with the tick of t.    *)
UsesOne(t) ==
  \E k \in Kinds, h \in Hashes, F \in Tables :
    LET E == lru[ProcOf[t]][k] IN
    /\ lru' = [lru EXCEPT ![ProcOf[t]][k] = F]
    /\ Stamped(E, F, h, mytick[t])
    /\ Gone(E, F) \X Staying(E, F) \subseteq before[ProcOf[t]][k]

LEMMA HitUses ==
  ASSUME TypeOK, CallsConsistent, NEW t \in Threads, MemHit(t)
  PROVE  UsesOne(t)
<1> DEFINE k == req[t].kind
           h == req[t].hash
           E == lru[ProcOf[t]][k]
           e == [E[h] EXCEPT !.last_touched_tick = mytick[t]]
           F == [E EXCEPT ![h] = e]
<1>1. k \in Kinds /\ h \in Hashes /\ ProcOf[t] \in Procs
  BY CacheAssumption DEF MemHit, CallsConsistent, CallSteps, Objects
<1>2. E \in Tables /\ E[h] \in Entry /\ mytick[t] \in Nat
  BY <1>1 DEF MemHit, MyEntry, Table, TypeOK, Tables
<1>3. e \in Entry /\ e.last_touched_tick = mytick[t]
  BY <1>2 DEF Entry
<1>4. Hit(E, h, mytick[t]) = F
  BY DEF Hit
<1>5. lru' = [lru EXCEPT ![ProcOf[t]][k] = F]
  BY <1>4 DEF MemHit
<1> HIDE DEF e
<1>6. /\ \A g \in Hashes : g # h => F[g] = E[g]
      /\ F[h] # None /\ F[h].last_touched_tick = mytick[t]
      /\ F \in Tables
  BY <1>1, <1>2, <1>3, NoneAssumption DEF Tables
<1> HIDE DEF F
<1>7. Stamped(E, F, h, mytick[t]) /\ Gone(E, F) = {}
  BY <1>6 DEF Stamped, Gone, Cached
<1> HIDE DEF h, k
<1> QED  BY <1>1, <1>5, <1>6, <1>7 DEF UsesOne

LEMMA InsertUses ==
  ASSUME TypeOK, CallsConsistent, LruInv,
         NEW t \in Threads, pc[t] \in Unstamped,
         NEW f \in Future, InsertFuture(t, f)
  PROVE  UsesOne(t)
<1> DEFINE p == ProcOf[t]
           k == req[t].kind
           h == req[t].hash
           E == lru[p][k]
           e == [last_touched_tick |-> mytick[t], value |-> f]
<1>1. p \in Procs /\ k \in Kinds /\ h \in Hashes
  BY CacheAssumption DEF Unstamped, CallsConsistent, CallSteps, Objects
<1>2. E \in Tables /\ e \in Entry /\ e.last_touched_tick = mytick[t]
  BY <1>1, EntryTypes DEF TypeOK, Tables
<1>3. PICK F \in Insert(E, h, e, Limit[k]) : lru' = [lru EXCEPT ![p][k] = F]
  BY DEF InsertFuture, Table
<1>4. Ranked(E, before[p][k]) /\ UsedBefore(E, mytick[t])
  BY <1>1 DEF LruInv, TablesRanked, CallsLatest
<1> HIDE DEF e
<1>5. /\ F \in Tables
      /\ \A g \in Hashes : F[g] = None \/ F[g] = E[g] \/ (g = h /\ F[g] = e)
  <2> HIDE DEF E, h, k, p
  <2>1. E \in [Hashes -> Entry \cup {None}]
    BY <1>2 DEF Tables
  <2>2. h \in Hashes /\ e \in Entry
    BY <1>1, <1>2
  <2>3. /\ F \in [Hashes -> Entry \cup {None}]
        /\ \A g \in Hashes : F[g] = None \/ F[g] = E[g] \/ (g = h /\ F[g] = e)
    <3>1. IsTable(Entry, E)
      BY <2>1 DEF IsTable
    <3>2. InsertedInto(Entry, E, h, e, F)
      BY <2>2, <3>1, InsertEntries
    <3> QED BY <3>2 DEF InsertedInto, IsTable
  <2> QED  BY <2>3 DEF Tables
<1>6. Stamped(E, F, h, mytick[t])
  BY <1>2, <1>5 DEF Stamped, Cached
<1>7. Gone(E, F) \X Staying(E, F) \subseteq before[p][k]
  <2>1. UsedBefore(E, e.last_touched_tick)
    BY <1>2, <1>4
  <2> HIDE DEF E, h, k, p
  <2> QED  BY <1>1, <1>2, <1>4, <2>1, PurgeTakesOldest
<1> HIDE DEF h, k
<1> QED  BY <1>1, <1>3, <1>5, <1>6, <1>7 DEF UsesOne

LEMMA SameTables ==
  ASSUME UNCHANGED lru, NEW p \in Procs, NEW k \in Kinds
  PROVE  Undisturbed(lru[p][k], lru'[p][k])
BY DEF Undisturbed, Kept, Cached

LEMMA EmptiedTable ==
  ASSUME NEW E
  PROVE  Undisturbed(E, EmptyTable) /\ Cached(EmptyTable) = {}
BY DEF Undisturbed, Kept, Cached, EmptyTable

(* A step of a thread that uses no table and fetches no tick. *)
LEMMA ThreadUsesNothing ==
  ASSUME TypeOK, TypeOK', LruInv, Record, NEW t \in Threads,
         \A p \in Procs, k \in Kinds : Undisturbed(lru[p][k], lru'[p][k]),
         UNCHANGED tick,
         \A u \in Threads \ {t} : pc'[u] = pc[u] /\ mytick'[u] = mytick[u],
         pc'[t] \notin {"plock", "ptick", "pload"},
         pc'[t] \in Unstamped => pc[t] \in Unstamped /\ mytick'[t] = mytick[t]
  PROVE  LruInv' /\ AllEvictOldest
<1>1. \A p \in Procs : tick[p] <= tick'[p]
  BY DEF TypeOK
<1>2. \A u \in Threads :
        /\ pc'[u] \notin {"plock", "ptick", "pload"}
        /\ pc'[u] \in Unstamped =>
             /\ pc[u] \in Unstamped
             /\ mytick'[u] = mytick[u]
             /\ tick[ProcOf[u]] <= tick'[ProcOf[u]]
  BY <1>1, CacheAssumption DEF LruInv, NoPreload
<1> QED  BY <1>1, <1>2, NothingUsed

LEMMA LruStep ==
  ASSUME OneThreadEach, NobodyPreloads, TypeOK, TypeOK', CallsConsistent,
         LruInv, Next, Record
  PROVE  LruInv' /\ AllEvictOldest
<1>1. ASSUME NEW t \in Threads, Call(t) PROVE LruInv' /\ AllEvictOldest
  <2> DEFINE p == ProcOf[t]
  <2>1. /\ UNCHANGED lru
        /\ tick' = [tick EXCEPT ![p] = @ + 1]
        /\ mytick' = [mytick EXCEPT ![t] = tick[p]]
        /\ pc' = [pc EXCEPT ![t] = "lock"]
    BY <1>1 DEF Call, Goto
  <2>2. \A q \in Procs : tick[q] \in Nat /\ tick[q] <= tick'[q]
    BY <2>1 DEF TypeOK
  <2>3. \A q \in Procs, k \in Kinds : Undisturbed(lru[q][k], lru'[q][k])
    BY <2>1, SameTables
  <2>4. AllEvictOldest
    BY <2>1 DEF AllEvictOldest, EvictsOldest, Gone
  <2>5. NoPreload' /\ p \in Procs
    BY <2>1, CacheAssumption DEF LruInv, NoPreload, TypeOK
  <2>6. ASSUME NEW q \in Procs, NEW k \in Kinds
        PROVE  UsedBefore(lru'[q][k], tick'[q])
    <3> SUFFICES ASSUME NEW g \in Cached(lru[q][k])
                 PROVE  lru[q][k][g].last_touched_tick < tick'[q]
      BY <2>1 DEF UsedBefore
    <3>1. lru[q][k][g].last_touched_tick < tick[q]
      BY DEF LruInv, StampsPast, UsedBefore
    <3>2. lru[q][k][g].last_touched_tick \in Nat /\ tick'[q] \in Nat
      BY TableTypes, Ticks DEF TypeOK
    <3> QED  BY <2>2, <3>1, <3>2
  <2>7. CallsLatest'
    <3> SUFFICES ASSUME NEW u \in Threads, pc'[u] \in Unstamped
                 PROVE  /\ mytick'[u] < tick'[ProcOf[u]]
                        /\ \A k \in Kinds :
                             UsedBefore(lru'[ProcOf[u]][k], mytick'[u])
      BY DEF CallsLatest
    <3>1. CASE u = t
      <4>1. mytick'[u] = tick[p] /\ tick'[p] = tick[p] + 1
        BY <2>1, <2>5, <3>1 DEF TypeOK
      <4> QED  BY <2>1, <2>2, <2>5, <3>1, <4>1 DEF LruInv, StampsPast
    <3>2. CASE u # t
      <4>1. ProcOf[u] # p /\ ProcOf[u] \in Procs
        BY <3>2, CacheAssumption DEF OneThreadEach
      <4>2. /\ pc'[u] = pc[u] /\ mytick'[u] = mytick[u]
            /\ tick'[ProcOf[u]] = tick[ProcOf[u]]
        BY <2>1, <3>2, <4>1 DEF TypeOK
      <4> QED  BY <2>1, <4>2 DEF LruInv, CallsLatest
    <3> QED  BY <3>1, <3>2
  <2>8. TablesRanked'
    BY <2>3, RankedKept, RecordOf DEF LruInv, TablesRanked, Undisturbed
  <2> QED  BY <2>4, <2>5, <2>6, <2>7, <2>8 DEF LruInv, StampsPast
<1>2. ASSUME NEW t \in Threads, MemHit(t) PROVE LruInv' /\ AllEvictOldest
  <2>1. UsesOne(t)
    BY <1>2, HitUses
  <2>2. /\ pc[t] \in Unstamped
        /\ UNCHANGED <<tick, mytick>>
        /\ pc'[t] \notin Unstamped \cup {"plock", "ptick", "pload"}
        /\ \A u \in Threads \ {t} : pc'[u] = pc[u]
    BY <1>2 DEF MemHit, Goto, TypeOK, Unstamped
  <2> QED  BY <2>1, <2>2, OneUsed DEF UsesOne
<1>3. ASSUME NEW t \in Threads, OpenBlob(t) \/ LoadLibrary(t) \/ Reserve(t)
      PROVE  LruInv' /\ AllEvictOldest
  <2>1. PICK f \in Future : InsertFuture(t, f)
    <3>1. CASE OpenBlob(t)
      <4>1. disk[FileOf(t)] \in Content
        BY <3>1 DEF OpenBlob, FileOf, CallsConsistent, CallSteps, TypeOK
      <4> QED  BY <3>1, <4>1, FutureTypes DEF OpenBlob
    <3> QED  BY <1>3, <3>1, FutureTypes DEF LoadLibrary, Reserve
  <2>2. /\ pc[t] \in Unstamped
        /\ UNCHANGED <<tick, mytick>>
        /\ pc'[t] \notin Unstamped \cup {"plock", "ptick", "pload"}
        /\ \A u \in Threads \ {t} : pc'[u] = pc[u]
    BY <1>3 DEF OpenBlob, LoadLibrary, Reserve, Goto, TypeOK, Unstamped
  <2>3. UsesOne(t)
    BY <2>1, <2>2, InsertUses
  <2> QED  BY <2>2, <2>3, OneUsed DEF UsesOne
<1>4. ASSUME NEW t \in Threads,
             PublishLibrary(t) \/ CompileReturns(t) \/ CompileThrows(t)
      PROVE  LruInv' /\ AllEvictOldest
  <2>1. PICK f \in Future : SettleTables(t, f)
    BY <1>4, FutureTypes
    DEF PublishLibrary, CompileReturns, CompileThrows, ExceptionOutcome,
        CallsConsistent, CallSteps
  <2>2. \A p \in Procs, k \in Kinds : Undisturbed(lru[p][k], lru'[p][k])
    BY <2>1, SettlingUsesNothing
  <2>3. /\ UNCHANGED tick
        /\ \A u \in Threads \ {t} : pc'[u] = pc[u] /\ mytick'[u] = mytick[u]
        /\ pc'[t] \notin Unstamped \cup {"plock", "ptick", "pload"}
    BY <1>4 DEF PublishLibrary, CompileReturns, CompileThrows, StoreResult,
                Return, Goto, TypeOK, Unstamped
  <2> QED  BY <2>2, <2>3, ThreadUsesNothing
<1>5. ASSUME NEW t \in Threads,
             \/ MemMiss(t) \/ LibraryExists(t) \/ DiskMiss(t)
             \/ MakeTemp(t) \/ Write(t) \/ Rename(t) \/ IOThrows(t) \/ Await(t)
             \/ Unlink(t) \/ ClearDiskDone(t) \/ Enable(t) \/ ListForClear(t)
      PROVE  LruInv' /\ AllEvictOldest
  <2>1. /\ UNCHANGED <<lru, tick>>
        /\ \A u \in Threads \ {t} : pc'[u] = pc[u] /\ mytick'[u] = mytick[u]
        /\ pc'[t] \notin {"plock", "ptick", "pload"}
        /\ pc'[t] \in Unstamped => pc[t] \in Unstamped /\ mytick'[t] = mytick[t]
    BY <1>5
    DEF MemMiss, LibraryExists, DiskMiss, MakeTemp, Write, Rename, IOThrows,
        Await, Unlink, ClearDiskDone, Enable, ListForClear, Return, Goto,
        LruInv, NoPreload, TypeOK, Unstamped, procVars, threadVars
  <2>2. \A p \in Procs, k \in Kinds : Undisturbed(lru[p][k], lru'[p][k])
    BY <2>1, SameTables
  <2> QED  BY <2>1, <2>2, ThreadUsesNothing
<1>6. ASSUME NEW t \in Threads, ClearMemory(t) PROVE LruInv' /\ AllEvictOldest
  <2>1. /\ lru' = [lru EXCEPT ![ProcOf[t]] = [k \in Kinds |-> EmptyTable]]
        /\ UNCHANGED <<tick, pc, mytick>>
    BY <1>6 DEF ClearMemory, threadVars
  <2>2. \A p \in Procs, k \in Kinds :
          lru'[p][k] = lru[p][k] \/ lru'[p][k] = EmptyTable
    BY <2>1 DEF TypeOK
  <2>3. \A p \in Procs, k \in Kinds : Undisturbed(lru[p][k], lru'[p][k])
    BY <2>2, EmptiedTable DEF Undisturbed, Kept, Cached
  <2> QED  BY <2>1, <2>3, ThreadUsesNothing DEF LruInv, NoPreload
<1>7. ASSUME NEW p \in Procs, Crash(p) PROVE LruInv' /\ AllEvictOldest
  <2>1. /\ \A q \in Procs, k \in Kinds :
             lru'[q][k] = IF q = p THEN EmptyTable ELSE lru[q][k]
        /\ \A q \in Procs : q = p \/ tick'[q] = tick[q]
        /\ \A t \in Threads :
             IF ProcOf[t] = p THEN pc'[t] = "idle"
             ELSE pc'[t] = pc[t] /\ mytick'[t] = mytick[t]
    BY <1>7 DEF Crash, Mine, TypeOK
  <2>2. \A q \in Procs, k \in Kinds : Undisturbed(lru[q][k], lru'[q][k])
    BY <2>1, EmptiedTable DEF Undisturbed, Kept, Cached
  <2>3. \A q \in Procs :
          tick[q] <= tick'[q] \/ \A k \in Kinds : Cached(lru'[q][k]) = {}
    <3> SUFFICES ASSUME NEW q \in Procs
                 PROVE  tick[q] <= tick'[q] \/ \A k \in Kinds : Cached(lru'[q][k]) = {}
      OBVIOUS
    <3>1. CASE q = p
      BY <2>1, <3>1, EmptiedTable
    <3>2. CASE q # p
      BY <2>1, <3>2 DEF TypeOK
    <3> QED  BY <3>1, <3>2
  <2>4. \A t \in Threads :
          /\ pc'[t] \notin {"plock", "ptick", "pload"}
          /\ pc'[t] \in Unstamped =>
               /\ pc[t] \in Unstamped
               /\ mytick'[t] = mytick[t]
               /\ tick[ProcOf[t]] <= tick'[ProcOf[t]]
    <3> SUFFICES ASSUME NEW t \in Threads
                 PROVE  /\ pc'[t] \notin {"plock", "ptick", "pload"}
                        /\ pc'[t] \in Unstamped =>
                             /\ pc[t] \in Unstamped
                             /\ mytick'[t] = mytick[t]
                             /\ tick[ProcOf[t]] <= tick'[ProcOf[t]]
      OBVIOUS
    <3>1. CASE ProcOf[t] = p
      BY <2>1, <3>1 DEF Unstamped
    <3>2. CASE ProcOf[t] # p
      BY <2>1, <3>2, CacheAssumption DEF LruInv, NoPreload, TypeOK
    <3> QED  BY <3>1, <3>2
  <2> QED  BY <2>2, <2>3, <2>4, NothingUsed
<1>8. ASSUME Quiescent PROVE LruInv' /\ AllEvictOldest
  <2>1. UNCHANGED <<lru, tick, pc, mytick>>
    BY <1>8 DEF Quiescent, vars, procVars, threadVars
  <2>2. \A p \in Procs, k \in Kinds : Undisturbed(lru[p][k], lru'[p][k])
    BY <2>1, SameTables
  <2>3. \A p \in Procs : tick[p] <= tick'[p]
    BY <2>1 DEF TypeOK
  <2>4. \A t \in Threads :
          /\ pc'[t] \notin {"plock", "ptick", "pload"}
          /\ pc'[t] \in Unstamped =>
               /\ pc[t] \in Unstamped
               /\ mytick'[t] = mytick[t]
               /\ tick[ProcOf[t]] <= tick'[ProcOf[t]]
    BY <2>1, <2>3, CacheAssumption DEF LruInv, NoPreload
  <2> QED  BY <2>2, <2>3, <2>4, NothingUsed
<1>9. ASSUME NEW t \in Threads,
             \/ ListForPreload(t)
             \/ PreloadLock(t) \/ PreloadTick(t) \/ PreloadFile(t) \/ PreloadDone(t)
      PROVE  FALSE
  BY <1>9 DEF ListForPreload, PreloadLock, PreloadTick, PreloadFile,
              PreloadDone, NobodyPreloads, LruInv, NoPreload
<1> QED
  BY <1>1, <1>2, <1>3, <1>4, <1>5, <1>6, <1>7, <1>8, <1>9
  DEF Next, Begin, Advance, EndCompile

(* Whatever a table evicts was last used before everything it keeps: true  *)
(* of any limits, hashes and processes, crashes and faults included, where *)
(* a process has one thread in the cache and nobody preloads, and the      *)
(* reason the code ranks by ticks (lru_memory_cache::purge).  With a       *)
(* second thread a call may be overtaken between its tick and the mutex,   *)
(* and preloaded entries share their tick with the next call.              *)
THEOREM EvictsOldestFirst ==
  ASSUME OneThreadEach, NobodyPreloads
  PROVE  LruSpec => EvictsLeastRecentlyUsed
<1>1. LruInit => TypeOK /\ CallsConsistent /\ LruInv
  <2> SUFFICES ASSUME LruInit PROVE TypeOK /\ CallsConsistent /\ LruInv
    OBVIOUS
  <2>1. \A p \in Procs, k \in Kinds : Cached(lru[p][k]) = {}
    BY EmptyTables DEF LruInit, Init
  <2> QED
    BY <2>1, InitTypes
    DEF LruInit, Init, LruInv, NoPreload, StampsPast, CallsLatest,
        TablesRanked, UsedBefore, Ranked, Unstamped
<1>2. /\ TypeOK /\ CallsConsistent /\ LruInv
      /\ [LruNext]_lruVars
      => /\ (TypeOK /\ CallsConsistent /\ LruInv)'
         /\ [\A p \in Procs, k \in Kinds : EvictsOldest(p, k)]_lruVars
  <2> SUFFICES ASSUME TypeOK, CallsConsistent, LruInv, [LruNext]_lruVars
               PROVE  /\ (TypeOK /\ CallsConsistent /\ LruInv)'
                      /\ [\A p \in Procs, k \in Kinds : EvictsOldest(p, k)]_lruVars
    OBVIOUS
  <2>1. [Next]_vars
    BY DEF LruNext, lruVars
  <2>2. TypeOK' /\ CallsConsistent'
    BY <2>1, TypeStep, ConsistentStep
  <2>3. CASE LruNext
    BY <2>2, <2>3, LruStep DEF LruNext, AllEvictOldest
  <2>4. CASE UNCHANGED lruVars
    BY <2>2, <2>4
    DEF lruVars, vars, procVars, threadVars, LruInv, NoPreload, StampsPast,
        CallsLatest, TablesRanked
  <2> QED  BY <2>3, <2>4
<1> QED  BY <1>1, <1>2, PTL DEF LruSpec, EvictsLeastRecentlyUsed
=============================================================================
