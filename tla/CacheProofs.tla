----------------------------- MODULE CacheProofs -----------------------------
(* Theorems about the compile cache, for every number of processes,        *)
(* threads, hashes and chunks, all limits, and every choice of maintenance *)
(* operations and faults.                                                  *)
EXTENDS CacheProperties, FiniteSetTheorems, TLAPS

-----------------------------------------------------------------------------
(* What the operators of the LRU table do, for every table.                *)

(* The size of a table is a number, and no larger for a smaller table. *)
LEMMA CachedFinite ==
  ASSUME NEW E
  PROVE  /\ IsFiniteSet(Cached(E))
         /\ Cardinality(Cached(E)) \in Nat
<1>1. Cached(E) \subseteq Hashes  BY DEF Cached
<1>2. IsFiniteSet(Cached(E))  BY <1>1, HashesAssumption, FS_Subset
<1> QED  BY <1>2, FS_CardinalityType

(* A table of entries of set S, and what an insert makes of it. *)
IsTable(S, E) == E \in [Hashes -> S \cup {None}]

InsertedInto(S, E, h, e, F) ==
  /\ IsTable(S, F)
  /\ \A g \in Hashes : F[g] = None \/ F[g] = E[g] \/ (g = h /\ F[g] = e)

(* insert() touches no entry but the one of its own hash: any other stays  *)
(* as it is or is evicted, and its own is the new one, what it was before, *)
(* or, in a table of limit zero, nothing.                                  *)
LEMMA InsertEntries ==
  ASSUME NEW S, NEW E, IsTable(S, E), NEW h \in Hashes, NEW e \in S,
         NEW limit, NEW F \in Insert(E, h, e, limit)
  PROVE  InsertedInto(S, E, h, e, F)
<1> USE DEF IsTable, InsertedInto
<1>1. CASE limit = 0
  BY <1>1 DEF Insert
<1>2. CASE limit # 0
  <2>1. PICK G \in (IF NeedsPurge(E, limit) THEN Purge(E) ELSE {E}) :
          F = Emplace(G, h, e)
    BY <1>2 DEF Insert
  <2>2. /\ G \in [Hashes -> S \cup {None}]
        /\ \A g \in Hashes : G[g] = None \/ G[g] = E[g]
    BY <2>1 DEF Purge, Erase
  <2> QED  BY <2>1, <2>2 DEF Emplace
<1> QED  BY <1>1, <1>2

(* A purge of a table that is not empty removes at least one entry. *)
LEMMA PurgeShrinks ==
  ASSUME NEW E, NEW G \in Purge(E), Cardinality(Cached(E)) >= 1
  PROVE  Cardinality(Cached(G)) + 1 <= Cardinality(Cached(E))
<1> DEFINE n == Cardinality(Cached(E))
<1>1. PICK V \in VictimSets(E) : G = Erase(E, V)
  BY DEF Purge
<1>2. V \in SUBSET Cached(E) /\ Cardinality(V) = PurgeCount(n)
  BY <1>1 DEF VictimSets
<1>3. n \in Nat /\ IsFiniteSet(Cached(E))
  BY CachedFinite
<1>4. Cardinality(V) >= 1
  BY <1>2, <1>3 DEF PurgeCount
<1>5. V # {}
  BY <1>4, FS_EmptySet
<1>6. PICK v \in V : TRUE
  BY <1>5
<1>7. Cached(G) \subseteq Cached(E) \ {v}
  BY <1>1, <1>6 DEF Cached, Erase
<1>8. v \in Cached(E)
  BY <1>2, <1>6
<1>9. /\ IsFiniteSet(Cached(E) \ {v})
      /\ Cardinality(Cached(E) \ {v}) = n - 1
  BY <1>3, <1>8, FS_RemoveElement
<1>10. Cardinality(Cached(G)) <= n - 1
  BY <1>7, <1>9, FS_Subset
<1>11. Cardinality(Cached(G)) \in Nat
  BY CachedFinite
<1> QED  BY <1>3, <1>10, <1>11

(* emplace() adds at most one entry. *)
LEMMA EmplaceGrowsByOne ==
  ASSUME NEW S, NEW E \in [Hashes -> S], NEW h \in Hashes, NEW e
  PROVE  Cardinality(Cached(Emplace(E, h, e))) <= Cardinality(Cached(E)) + 1
<1>1. Cached(Emplace(E, h, e)) \subseteq Cached(E) \cup {h}
  BY DEF Cached, Emplace
<1>2. IsFiniteSet(Cached(E)) /\ Cardinality(Cached(E)) \in Nat
  BY CachedFinite
<1>3. /\ IsFiniteSet(Cached(E) \cup {h})
      /\ \/ Cardinality(Cached(E) \cup {h}) = Cardinality(Cached(E)) + 1
         \/ Cardinality(Cached(E) \cup {h}) = Cardinality(Cached(E))
  BY <1>2, FS_AddElement
<1>4. Cardinality(Cached(Emplace(E, h, e))) <= Cardinality(Cached(E) \cup {h})
  BY <1>1, <1>3, FS_Subset
<1>5. Cardinality(Cached(Emplace(E, h, e))) \in Nat
  BY CachedFinite
<1> QED  BY <1>2, <1>3, <1>4, <1>5

(* insert() keeps a table within its limit, whatever the limit and         *)
(* whichever of equally old entries the purge takes (lru_memory_cache::    *)
(* insert and purge in rtcx.hpp).                                          *)
THEOREM InsertKeepsLimit ==
  ASSUME NEW S, NEW E \in [Hashes -> S \cup {None}],
         NEW h \in Hashes, NEW e \in S,
         NEW limit \in Nat, Cardinality(Cached(E)) <= limit,
         NEW F \in Insert(E, h, e, limit)
  PROVE  Cardinality(Cached(F)) <= limit
<1>1. CASE limit = 0
  BY <1>1 DEF Insert
<1>2. CASE limit # 0
  <2>1. PICK G \in (IF NeedsPurge(E, limit) THEN Purge(E) ELSE {E}) :
          F = Emplace(G, h, e)
    BY <1>2 DEF Insert
  <2>2. G \in [Hashes -> S \cup {None}]
    BY <2>1 DEF Purge, Erase
  <2>3. Cardinality(Cached(E)) \in Nat /\ Cardinality(Cached(G)) \in Nat
    BY CachedFinite
  <2>4. Cardinality(Cached(G)) + 1 <= limit
    <3>1. CASE NeedsPurge(E, limit)
      <4>1. Cardinality(Cached(E)) >= 1
        BY <1>2, <2>3, <3>1 DEF NeedsPurge
      <4>2. Cardinality(Cached(G)) + 1 <= Cardinality(Cached(E))
        BY <2>1, <3>1, <4>1, PurgeShrinks
      <4> QED  BY <4>2, <2>3
    <3>2. CASE ~NeedsPurge(E, limit)
      BY <2>1, <2>3, <3>2 DEF NeedsPurge
    <3> QED  BY <3>1, <3>2
  <2>5. Cardinality(Cached(F)) <= Cardinality(Cached(G)) + 1
    BY <2>1, <2>2, EmplaceGrowsByOne
  <2>6. Cardinality(Cached(F)) \in Nat
    BY CachedFinite
  <2> QED  BY <2>3, <2>4, <2>5, <2>6
<1> QED  BY <1>1, <1>2

(* A hit adds no entry. *)
LEMMA HitCached ==
  ASSUME NEW S, NEW E \in [Hashes -> S], NEW h \in Cached(E), NEW now
  PROVE  Cached(Hit(E, h, now)) \subseteq Cached(E)
BY DEF Cached, Hit

(* In a table with room for every hash, insert() evicts nothing. *)
LEMMA InsertWithRoom ==
  ASSUME NEW E, NEW h, NEW e,
         NEW limit \in Nat, limit > Cardinality(Hashes),
         NEW F \in Insert(E, h, e, limit)
  PROVE  F = Emplace(E, h, e)
<1>1. /\ IsFiniteSet(Hashes)
      /\ Cardinality(Hashes) \in Nat
  BY HashesAssumption, FS_CardinalityType
<1>2. Cached(E) \subseteq Hashes
  BY DEF Cached
<1>3. Cardinality(Cached(E)) <= Cardinality(Hashes)
  BY <1>1, <1>2, FS_Subset
<1>4. Cardinality(Cached(E)) \in Nat
  BY CachedFinite
<1>5. ~NeedsPurge(E, limit) /\ limit # 0
  BY <1>1, <1>3, <1>4 DEF NeedsPurge
<1> QED  BY <1>5 DEF Insert

-----------------------------------------------------------------------------
(* The calls of the cache.                                                 *)

(* The steps at which a thread is inside get_or_add. *)
CallSteps == {"lock", "open", "exists", "load", "reserve", "compile",
              "publish", "mkstemp", "write", "wait"}

(* What a thread has at hand at each step. *)
CallsConsistent ==
  \A t \in Threads :
    /\ pc[t] \in CallSteps => req[t] \in Objects
    /\ pc[t] = "idle" => held[t] = None
    /\ pc[t] = "publish" => result[t] \in Content
    /\ pc[t] = "write" => tmp[t] \in Content

(* What it has at hand belongs to the object it was called for. *)
WorkIntact ==
  \A t \in Threads :
    /\ pc[t] = "publish" => result[t] = Whole(req[t])
    /\ pc[t] = "write" => tmp[t].obj = req[t]

-----------------------------------------------------------------------------
(* Futures and tables.                                                     *)

LEMMA FutureTypes ==
  /\ Broken \in Future
  /\ \A t \in Threads : Pending(t) \in Future
  /\ \A c \in Content : Ready(c) \in Future
  /\ \A o \in Objects : Whole(o) \in Content
BY CacheAssumption DEF Broken, Pending, Ready, Future, Whole, Content

LEMMA EntryTypes ==
  ASSUME NEW n \in Nat, NEW f \in Future
  PROVE  [last_touched_tick |-> n, value |-> f] \in Entry
BY DEF Entry

(* An insert into the table of kind k of process p disturbs no other       *)
(* table, and in that table it can only drop entries and add its own.      *)
LEMMA InsertInto ==
  ASSUME TypeOK,
         NEW p \in Procs, NEW k \in Kinds, NEW h \in Hashes, NEW e \in Entry,
         NEW F \in Insert(lru[p][k], h, e, Limit[k]),
         lru' = [lru EXCEPT ![p][k] = F]
  PROVE  /\ lru' \in [Procs -> [Kinds -> [Hashes -> Entry \cup {None}]]]
         /\ \A q \in Procs, j \in Kinds, g \in Hashes :
              \/ lru'[q][j][g] = None
              \/ lru'[q][j][g] = lru[q][j][g]
              \/ q = p /\ j = k /\ g = h /\ lru'[q][j][g] = e
         /\ CapacityRespected => CapacityRespected'
<1>1. lru[p][k] \in [Hashes -> Entry \cup {None}]
  BY DEF TypeOK
<1>2. /\ F \in [Hashes -> Entry \cup {None}]
      /\ \A g \in Hashes :
           F[g] = None \/ F[g] = lru[p][k][g] \/ (g = h /\ F[g] = e)
  <2>1. IsTable(Entry, lru[p][k])
    BY <1>1 DEF IsTable
  <2>2. InsertedInto(Entry, lru[p][k], h, e, F)
    BY <2>1, InsertEntries
  <2> QED BY <2>2 DEF InsertedInto, IsTable
<1>3. \A q \in Procs, j \in Kinds :
        lru'[q][j] = IF q = p /\ j = k THEN F ELSE lru[q][j]
  BY DEF TypeOK
<1>4. lru' \in [Procs -> [Kinds -> [Hashes -> Entry \cup {None}]]]
  BY <1>2 DEF TypeOK
<1>5. \A q \in Procs, j \in Kinds, g \in Hashes :
        \/ lru'[q][j][g] = None
        \/ lru'[q][j][g] = lru[q][j][g]
        \/ q = p /\ j = k /\ g = h /\ lru'[q][j][g] = e
  BY <1>2, <1>3
<1>6. ASSUME CapacityRespected
      PROVE  CapacityRespected'
  <2>1. Limit[k] \in Nat
    BY CacheAssumption
  <2>2. Cardinality(Cached(F)) <= Limit[k]
    BY <1>1, <1>6, <2>1, InsertKeepsLimit DEF CapacityRespected
  <2> QED  BY <1>3, <1>6, <2>2 DEF CapacityRespected
<1> QED  BY <1>4, <1>5, <1>6

(* A future of thread t inserted under its request. *)
LEMMA InsertFutureInto ==
  ASSUME TypeOK, NEW t \in Threads, req[t] \in Objects,
         NEW f \in Future, InsertFuture(t, f)
  PROVE  /\ lru' \in [Procs -> [Kinds -> [Hashes -> Entry \cup {None}]]]
         /\ \A q \in Procs, j \in Kinds, g \in Hashes :
              \/ lru'[q][j][g] = None
              \/ lru'[q][j][g] = lru[q][j][g]
              \/ /\ q = ProcOf[t] /\ req[t] = [kind |-> j, hash |-> g]
                 /\ lru'[q][j][g].value = f
                 /\ lru'[q][j][g] # None
         /\ CapacityRespected => CapacityRespected'
<1> DEFINE p == ProcOf[t]
           k == req[t].kind
           h == req[t].hash
           e == [last_touched_tick |-> mytick[t], value |-> f]
<1>1. p \in Procs /\ k \in Kinds /\ h \in Hashes
  BY CacheAssumption DEF Objects
<1>2. e \in Entry
  BY EntryTypes DEF TypeOK
<1>3. PICK F \in Insert(lru[p][k], h, e, Limit[k]) :
        lru' = [lru EXCEPT ![p][k] = F]
  BY DEF InsertFuture, Table
<1>4. req[t] = [kind |-> k, hash |-> h]
  BY DEF Objects
<1>5. e.value = f /\ e # None
  BY <1>2, NoneAssumption
<1> HIDE DEF e, h, k, p
<1>6. /\ lru' \in [Procs -> [Kinds -> [Hashes -> Entry \cup {None}]]]
      /\ \A q \in Procs, j \in Kinds, g \in Hashes :
           \/ lru'[q][j][g] = None
           \/ lru'[q][j][g] = lru[q][j][g]
           \/ q = p /\ j = k /\ g = h /\ lru'[q][j][g] = e
      /\ CapacityRespected => CapacityRespected'
  BY <1>1, <1>2, <1>3, InsertInto
<1> QED  BY <1>4, <1>5, <1>6 DEF p

(* A hit changes the tick of one entry, and no value. *)
LEMMA HitInto ==
  ASSUME TypeOK, NEW t \in Threads, req[t] \in Objects, MemHit(t)
  PROVE  /\ MyEntry(t) \in Entry
         /\ lru' \in [Procs -> [Kinds -> [Hashes -> Entry \cup {None}]]]
         /\ \A q \in Procs, j \in Kinds, g \in Hashes :
              /\ lru'[q][j][g] = None <=> lru[q][j][g] = None
              /\ lru[q][j][g] # None => lru'[q][j][g].value = lru[q][j][g].value
         /\ CapacityRespected => CapacityRespected'
<1> DEFINE p == ProcOf[t]
           k == req[t].kind
           h == req[t].hash
           old == lru[p][k]
           e == [old[h] EXCEPT !.last_touched_tick = mytick[t]]
<1>1. p \in Procs /\ k \in Kinds /\ h \in Hashes
  BY CacheAssumption DEF Objects
<1>2. old \in [Hashes -> Entry \cup {None}] /\ old[h] \in Entry
  BY <1>1 DEF MemHit, MyEntry, Table, TypeOK
<1>3. e \in Entry /\ e.value = old[h].value
  BY <1>2 DEF Entry, TypeOK
<1>4. old[h] # None /\ e # None
  BY <1>2, <1>3, NoneAssumption
<1>5. Hit(old, h, mytick[t]) = [old EXCEPT ![h] = e]
  BY DEF Hit
<1>6. lru' = [lru EXCEPT ![p][k] = [old EXCEPT ![h] = e]]
  BY <1>5 DEF MemHit
<1>7. MyEntry(t) = old[h]
  BY DEF MyEntry, Table
<1> HIDE DEF e
<1>8. [old EXCEPT ![h] = e] \in [Hashes -> Entry \cup {None}]
  BY <1>2, <1>3
<1>9. \A q \in Procs, j \in Kinds :
        lru'[q][j] = IF q = p /\ j = k THEN [old EXCEPT ![h] = e]
                     ELSE lru[q][j]
  BY <1>6 DEF TypeOK
<1>10. lru' \in [Procs -> [Kinds -> [Hashes -> Entry \cup {None}]]]
  BY <1>6, <1>8 DEF TypeOK
<1>11. \A q \in Procs, j \in Kinds, g \in Hashes :
         /\ lru'[q][j][g] = None <=> lru[q][j][g] = None
         /\ lru[q][j][g] # None => lru'[q][j][g].value = lru[q][j][g].value
  BY <1>2, <1>3, <1>4, <1>9
<1>12. \A q \in Procs, j \in Kinds : Cached(lru'[q][j]) = Cached(lru[q][j])
  BY <1>11 DEF Cached
<1> QED  BY <1>2, <1>7, <1>10, <1>11, <1>12 DEF CapacityRespected

(* Setting a promise changes values of entries, never their presence.      *)
LEMMA SettleInto ==
  ASSUME TypeOK, NEW t \in Threads, NEW f \in Future, SettleTables(t, f)
  PROVE  /\ lru' \in [Procs -> [Kinds -> [Hashes -> Entry \cup {None}]]]
         /\ \A q \in Procs, j \in Kinds, g \in Hashes :
              /\ lru'[q][j][g] = None <=> lru[q][j][g] = None
              /\ lru[q][j][g] # None =>
                   lru'[q][j][g].value = Settle(lru[q][j][g].value, t, f)
         /\ CapacityRespected => CapacityRespected'
<1>1. \A q \in Procs, j \in Kinds, g \in Hashes :
        /\ lru[q][j][g] \in Entry \cup {None}
        /\ lru'[q][j][g] = SettleEntry(lru[q][j][g], t, f)
  BY DEF TypeOK, SettleTables
<1>2. \A e \in Entry :
        /\ SettleEntry(e, t, f) \in Entry
        /\ SettleEntry(e, t, f).value = Settle(e.value, t, f)
        /\ e # None
        /\ SettleEntry(e, t, f) # None
  BY NoneAssumption DEF SettleEntry, Settle, Entry
<1>3. SettleEntry(None, t, f) = None
  BY DEF SettleEntry
<1>4. \A q \in Procs, j \in Kinds, g \in Hashes :
        /\ lru'[q][j][g] \in Entry \cup {None}
        /\ lru'[q][j][g] = None <=> lru[q][j][g] = None
        /\ lru[q][j][g] # None =>
             lru'[q][j][g].value = Settle(lru[q][j][g].value, t, f)
  BY <1>1, <1>2, <1>3
<1>5. lru' \in [Procs -> [Kinds -> [Hashes -> Entry \cup {None}]]]
  BY <1>4 DEF SettleTables
<1>6. \A q \in Procs, j \in Kinds : Cached(lru'[q][j]) = Cached(lru[q][j])
  BY <1>4 DEF Cached
<1> QED  BY <1>4, <1>5, <1>6 DEF CapacityRespected

(* preload_from_disk inserts one file, or passes it over. *)
LoadsOnly(o, p) ==
  \A q \in Procs, j \in Kinds, g \in Hashes :
    \/ lru'[q][j][g] = None /\ q = p
    \/ lru'[q][j][g] = lru[q][j][g]
    \/ /\ q = p /\ o = [kind |-> j, hash |-> g]
       /\ lru'[q][j][g].value = Ready(disk[o])

LEMMA PreloadOneFile ==
  ASSUME TypeOK, NEW t \in Threads, PreloadFile(t)
  PROVE  /\ lru' \in [Procs -> [Kinds -> [Hashes -> Entry \cup {None}]]]
         /\ lru' # lru =>
              \E o \in Objects : disk[o] # None /\ LoadsOnly(o, ProcOf[t])
         /\ CapacityRespected => CapacityRespected'
<1> DEFINE p == ProcOf[t]
<1>1. p \in Procs
  BY CacheAssumption
<1>2. CASE UNCHANGED lru
  BY <1>2 DEF TypeOK, CapacityRespected
<1>3. CASE ~UNCHANGED lru
  <2>1. PICK o \in todo[t] :
          /\ disk[o] # None
          /\ \E now \in {mytick[t], tick[p]} :
             \E E \in Insert(lru[p][o.kind], o.hash,
                             [last_touched_tick |-> now,
                              value |-> Ready(disk[o])],
                             Limit[o.kind]) :
               lru' = [lru EXCEPT ![p][o.kind] = E]
    BY <1>3 DEF PreloadFile
  <2>2. PICK now \in {mytick[t], tick[p]} :
          \E E \in Insert(lru[p][o.kind], o.hash,
                          [last_touched_tick |-> now,
                           value |-> Ready(disk[o])],
                          Limit[o.kind]) :
            lru' = [lru EXCEPT ![p][o.kind] = E]
    BY <2>1
  <2> DEFINE k == o.kind
             h == o.hash
             e == [last_touched_tick |-> now, value |-> Ready(disk[o])]
  <2>3. o \in Objects /\ now \in Nat
    BY <1>1 DEF TypeOK
  <2>4. k \in Kinds /\ h \in Hashes /\ o = [kind |-> k, hash |-> h]
    BY <2>3 DEF Objects
  <2>5. disk[o] \in Content
    BY <2>1, <2>3 DEF TypeOK
  <2>6. e \in Entry /\ e.value = Ready(disk[o])
    BY <2>3, <2>5, FutureTypes, EntryTypes
  <2>7. PICK F \in Insert(lru[p][k], h, e, Limit[k]) :
          lru' = [lru EXCEPT ![p][k] = F]
    BY <2>2
  <2> HIDE DEF e, h, k
  <2>8. /\ lru' \in [Procs -> [Kinds -> [Hashes -> Entry \cup {None}]]]
        /\ \A q \in Procs, j \in Kinds, g \in Hashes :
             \/ lru'[q][j][g] = None
             \/ lru'[q][j][g] = lru[q][j][g]
             \/ q = p /\ j = k /\ g = h /\ lru'[q][j][g] = e
        /\ CapacityRespected => CapacityRespected'
    BY <1>1, <2>4, <2>6, <2>7, InsertInto
  <2>9. \A q \in Procs : q # p => lru'[q] = lru[q]
    BY <2>7 DEF TypeOK
  <2>10. LoadsOnly(o, p)
    BY <2>4, <2>6, <2>8, <2>9 DEF LoadsOnly
  <2> QED  BY <2>1, <2>3, <2>8, <2>10
<1> QED  BY <1>2, <1>3

LEMMA PreloadFileInto ==
  ASSUME TypeOK, NEW t \in Threads, PreloadFile(t)
  PROVE  /\ lru' \in [Procs -> [Kinds -> [Hashes -> Entry \cup {None}]]]
         /\ \A q \in Procs, j \in Kinds, g \in Hashes :
              \/ lru'[q][j][g] = None
              \/ lru'[q][j][g] = lru[q][j][g]
              \/ /\ disk[[kind |-> j, hash |-> g]] # None
                 /\ lru'[q][j][g].value = Ready(disk[[kind |-> j, hash |-> g]])
         /\ CapacityRespected => CapacityRespected'
<1>1. CASE lru' = lru
  BY <1>1, PreloadOneFile
<1>2. CASE lru' # lru
  <2>1. PICK o \in Objects : disk[o] # None /\ LoadsOnly(o, ProcOf[t])
    BY <1>2, PreloadOneFile
  <2>2. \A q \in Procs, j \in Kinds, g \in Hashes :
          \/ lru'[q][j][g] = None
          \/ lru'[q][j][g] = lru[q][j][g]
          \/ /\ disk[[kind |-> j, hash |-> g]] # None
             /\ lru'[q][j][g].value = Ready(disk[[kind |-> j, hash |-> g]])
    BY <2>1 DEF LoadsOnly
  <2> QED BY <2>2, PreloadOneFile
<1> QED BY <1>1, <1>2

LEMMA SettleHeldType ==
  ASSUME TypeOK, NEW t \in Threads, NEW f \in Future
  PROVE  SettleHeld(t, f) \in [Threads -> Future \cup {None}]
BY DEF TypeOK, SettleHeld, Settle

-----------------------------------------------------------------------------
(* Type correctness.                                                       *)

LEMMA InitTypes == Init => TypeOK /\ CallsConsistent
<1> SUFFICES ASSUME Init PROVE TypeOK /\ CallsConsistent
  OBVIOUS
<1>1. PICK S \in SUBSET Requests :
        disk = [o \in Objects |-> IF o \in S THEN Whole(o) ELSE None]
  BY DEF Init
<1>2. disk \in [Objects -> Content \cup {None}]
  BY <1>1, FutureTypes
<1>3. EmptyTable \in [Hashes -> Entry \cup {None}]
  BY DEF EmptyTable
<1>4. TypeOK
  BY <1>2, <1>3 DEF Init, TypeOK, Steps
<1> QED  BY <1>4 DEF Init, CallsConsistent, CallSteps

LEMMA ReturnTypes ==
  ASSUME TypeOK, CallsConsistent, NEW t \in Threads,
         NEW futures \in [Threads -> Future \cup {None}],
         Return(t, futures)
  PROVE  /\ pc' \in [Threads -> Steps]
         /\ req' \in [Threads -> Objects \cup {None}]
         /\ mytick' \in [Threads -> Nat]
         /\ held' \in [Threads -> Future \cup {None}]
         /\ result' \in [Threads -> Content \cup {None}]
         /\ todo' \in [Threads -> SUBSET Objects]
BY DEF TypeOK, Return, Goto, Steps

LEMMA TypeStep ==
  ASSUME TypeOK, CallsConsistent, [Next]_vars
  PROVE  TypeOK'
<1> USE FutureTypes, CacheAssumption
<1>1. ASSUME NEW t \in Threads, Call(t) PROVE TypeOK'
  BY <1>1 DEF TypeOK, Call, Goto, Steps, diskVars
<1>2. ASSUME NEW t \in Threads, MemHit(t) PROVE TypeOK'
  <2>1. req[t] \in Objects
    BY <1>2 DEF MemHit, CallsConsistent, CallSteps
  <2>2. /\ MyEntry(t) \in Entry
        /\ lru' \in [Procs -> [Kinds -> [Hashes -> Entry \cup {None}]]]
    BY <1>2, <2>1, HitInto
  <2>3. MyEntry(t).value \in Future
    BY <2>2 DEF Entry
  <2> QED  BY <1>2, <2>2, <2>3 DEF TypeOK, MemHit, Goto, Steps, diskVars
<1>3. ASSUME NEW t \in Threads, MemMiss(t) PROVE TypeOK'
  BY <1>3 DEF TypeOK, MemMiss, Goto, Steps, diskVars
<1>4. ASSUME NEW t \in Threads, OpenBlob(t) PROVE TypeOK'
  <2>1. req[t] \in Objects /\ disk[FileOf(t)] \in Content
    BY <1>4 DEF OpenBlob, CallsConsistent, CallSteps, TypeOK, FileOf
  <2>2. lru' \in [Procs -> [Kinds -> [Hashes -> Entry \cup {None}]]]
    BY <1>4, <2>1, InsertFutureInto DEF OpenBlob
  <2> QED  BY <1>4, <2>1, <2>2 DEF TypeOK, OpenBlob, Unlock, Goto, Steps, diskVars
<1>5. ASSUME NEW t \in Threads, LibraryExists(t) PROVE TypeOK'
  BY <1>5 DEF TypeOK, LibraryExists, Goto, Steps, procVars, diskVars
<1>6. ASSUME NEW t \in Threads, LoadLibrary(t) PROVE TypeOK'
  <2>1. req[t] \in Objects /\ disk[FileOf(t)] \in Content
    BY <1>6 DEF LoadLibrary, CallsConsistent, CallSteps, TypeOK, FileOf
  <2>2. lru' \in [Procs -> [Kinds -> [Hashes -> Entry \cup {None}]]]
    BY <1>6, <2>1, InsertFutureInto DEF LoadLibrary
  <2> QED  BY <1>6, <2>1, <2>2 DEF TypeOK, LoadLibrary, Unlock, Goto, Steps, diskVars
<1>7. ASSUME NEW t \in Threads, PublishLibrary(t) PROVE TypeOK'
  <2>1. Ready(result[t]) \in Future
    BY <1>7 DEF PublishLibrary, CallsConsistent
  <2>2. lru' \in [Procs -> [Kinds -> [Hashes -> Entry \cup {None}]]]
    BY <1>7, <2>1, SettleInto DEF PublishLibrary
  <2>3. held' \in [Threads -> Future \cup {None}]
    BY <1>7, <2>1, SettleHeldType DEF PublishLibrary
  <2> QED  BY <1>7, <2>2, <2>3 DEF TypeOK, PublishLibrary, Goto, Steps, diskVars
<1>8. ASSUME NEW t \in Threads, DiskMiss(t) PROVE TypeOK'
  BY <1>8 DEF TypeOK, DiskMiss, Goto, Steps, procVars, diskVars
<1>9. ASSUME NEW t \in Threads, Reserve(t) PROVE TypeOK'
  <2>1. req[t] \in Objects
    BY <1>9 DEF Reserve, CallsConsistent, CallSteps
  <2>2. lru' \in [Procs -> [Kinds -> [Hashes -> Entry \cup {None}]]]
    BY <1>9, <2>1, InsertFutureInto DEF Reserve
  <2> QED  BY <1>9, <2>2 DEF TypeOK, Reserve, Unlock, Goto, Steps, diskVars
<1>10. ASSUME NEW t \in Threads, CompileReturns(t) PROVE TypeOK'
  <2>1. Whole(req[t]) \in Content
    BY <1>10 DEF CompileReturns, CallsConsistent, CallSteps
  <2>2. lru' \in [Procs -> [Kinds -> [Hashes -> Entry \cup {None}]]]
    BY <1>10, <2>1, SettleInto DEF CompileReturns
  <2>3. held' \in [Threads -> Future \cup {None}]
    BY <1>10, <2>1, SettleHeldType DEF CompileReturns
  <2> QED  BY <1>10, <2>1, <2>2, <2>3
           DEF TypeOK, CompileReturns, StoreResult, Goto, Steps, diskVars
<1>11. ASSUME NEW t \in Threads, CompileThrows(t) PROVE TypeOK'
  <2>1. lru' \in [Procs -> [Kinds -> [Hashes -> Entry \cup {None}]]]
    BY <1>11, SettleInto DEF CompileThrows, ExceptionOutcome
  <2>2. SettleHeld(t, Broken) \in [Threads -> Future \cup {None}]
    BY SettleHeldType
  <2> QED  BY <1>11, <2>1, <2>2, ReturnTypes
           DEF TypeOK, CompileThrows, ExceptionOutcome, diskVars
<1>12. ASSUME NEW t \in Threads, MakeTemp(t) PROVE TypeOK'
  <2>1. [obj |-> req[t], len |-> 0] \in Content
    BY <1>12 DEF MakeTemp, CallsConsistent, CallSteps, Content
  <2> QED  BY <1>12, <2>1 DEF TypeOK, MakeTemp, Goto, Steps, procVars
<1>13. ASSUME NEW t \in Threads, Write(t) PROVE TypeOK'
  <2>1. PICK n \in WriteSizes(t) : tmp' = [tmp EXCEPT ![t].len = @ + n]
    BY <1>13 DEF Write
  <2>2. tmp[t] \in Content
    BY <1>13 DEF Write, CallsConsistent
  <2>3. tmp[t].len + n \in 0..Chunks
    BY <2>1, <2>2 DEF WriteSizes, Content
  <2>4. tmp' \in [Threads -> Content \cup {None}]
    BY <2>1, <2>2, <2>3 DEF Content, TypeOK
  <2> QED  BY <1>13, <2>4 DEF TypeOK, Write, procVars, threadVars
<1>14. ASSUME NEW t \in Threads, Rename(t) PROVE TypeOK'
  <2>1. tmp[t] \in Content /\ FileOf(t) \in Objects
    BY <1>14 DEF Rename, CallsConsistent, CallSteps, FileOf
  <2> QED  BY <1>14, <2>1 DEF TypeOK, Rename, Goto, Steps, procVars
<1>15. ASSUME NEW t \in Threads, IOThrows(t) PROVE TypeOK'
  BY <1>15, ReturnTypes DEF TypeOK, IOThrows
<1>16. ASSUME NEW t \in Threads, Await(t) PROVE TypeOK'
  BY <1>16, ReturnTypes DEF TypeOK, Await, procVars, diskVars
<1>17. ASSUME NEW t \in Threads, ClearMemory(t) PROVE TypeOK'
  BY <1>17 DEF TypeOK, ClearMemory, EmptyTable, diskVars, threadVars
<1>18. ASSUME NEW t \in Threads, Enable(t) PROVE TypeOK'
  BY <1>18 DEF TypeOK, Enable, diskVars, threadVars
<1>19. ASSUME NEW t \in Threads, ListForClear(t) PROVE TypeOK'
  BY <1>19 DEF TypeOK, ListForClear, DiskEntries, Goto, Steps, procVars, diskVars
<1>20. ASSUME NEW t \in Threads, Unlink(t) PROVE TypeOK'
  <2>1. /\ todo' \in [Threads -> SUBSET Objects]
        /\ disk' \in [Objects -> Content \cup {None}]
    <3>1. PICK o \in todo[t] :
            /\ todo' = [todo EXCEPT ![t] = @ \ {o}]
            /\ disk' = [disk EXCEPT ![o] = None] \/ UNCHANGED disk
      BY <1>20 DEF Unlink
    <3> QED  BY <3>1 DEF TypeOK
  <2> QED  BY <1>20, <2>1 DEF TypeOK, Unlink, procVars
<1>21. ASSUME NEW t \in Threads, ClearDiskDone(t) PROVE TypeOK'
  BY <1>21, ReturnTypes DEF TypeOK, ClearDiskDone, procVars, diskVars
<1>22. ASSUME NEW t \in Threads, ListForPreload(t) PROVE TypeOK'
  BY <1>22 DEF TypeOK, ListForPreload, DiskEntries, Goto, Steps, procVars, diskVars
<1>23. ASSUME NEW t \in Threads, PreloadLock(t) PROVE TypeOK'
  BY <1>23 DEF TypeOK, PreloadLock, Goto, Steps, diskVars
<1>24. ASSUME NEW t \in Threads, PreloadTick(t) PROVE TypeOK'
  BY <1>24 DEF TypeOK, PreloadTick, Goto, Steps, diskVars
<1>25. ASSUME NEW t \in Threads, PreloadFile(t) PROVE TypeOK'
  <2>1. lru' \in [Procs -> [Kinds -> [Hashes -> Entry \cup {None}]]]
    BY <1>25, PreloadFileInto
  <2> QED  BY <1>25, <2>1 DEF TypeOK, PreloadFile, diskVars
<1>26. ASSUME NEW t \in Threads, PreloadDone(t) PROVE TypeOK'
  BY <1>26, ReturnTypes DEF TypeOK, PreloadDone, Unlock, diskVars
<1>27. ASSUME NEW p \in Procs, Crash(p) PROVE TypeOK'
  BY <1>27 DEF TypeOK, Crash, Mine, EmptyTable, Steps
<1>28. ASSUME UNCHANGED vars PROVE TypeOK'
  BY <1>28 DEF TypeOK, vars, procVars, diskVars, threadVars
<1> QED
  BY <1>1, <1>2, <1>3, <1>4, <1>5, <1>6, <1>7, <1>8, <1>9, <1>10, <1>11,
     <1>12, <1>13, <1>14, <1>15, <1>16, <1>17, <1>18, <1>19, <1>20, <1>21,
     <1>22, <1>23, <1>24, <1>25, <1>26, <1>27, <1>28
  DEF Next, Begin, Advance, EndCompile, Quiescent

LEMMA ConsistentStep ==
  ASSUME TypeOK, CallsConsistent, [Next]_vars
  PROVE  CallsConsistent'
<1> USE DEF CallsConsistent, CallSteps, Goto
<1>1. ASSUME NEW t \in Threads, NEW f, Settle(None, t, f) # None PROVE FALSE
  BY <1>1, FutureTypes, NoneAssumption DEF Settle
<1>2. ASSUME NEW t \in Threads,
             Call(t) \/ MemHit(t) \/ MemMiss(t) \/ LibraryExists(t)
             \/ DiskMiss(t) \/ OpenBlob(t) \/ Reserve(t)
      PROVE  CallsConsistent'
  BY <1>2, CacheAssumption
     DEF TypeOK, Call, MemHit, MemMiss, LibraryExists, DiskMiss, OpenBlob,
         Reserve, diskVars
<1>3. ASSUME NEW t \in Threads, LoadLibrary(t) PROVE CallsConsistent'
  <2>1. disk[FileOf(t)] \in Content
    BY <1>3 DEF LoadLibrary, FileOf, TypeOK
  <2> QED  BY <1>3, <2>1 DEF TypeOK, LoadLibrary, diskVars
<1>4. ASSUME NEW t \in Threads, PublishLibrary(t) \/ CompileReturns(t)
      PROVE  CallsConsistent'
  BY <1>1, <1>4
     DEF TypeOK, PublishLibrary, CompileReturns, StoreResult, SettleHeld, diskVars
<1>5. ASSUME NEW t \in Threads, CompileThrows(t) PROVE CallsConsistent'
  BY <1>1, <1>5 DEF TypeOK, CompileThrows, Return, SettleHeld, diskVars
<1>6. ASSUME NEW t \in Threads, MakeTemp(t) PROVE CallsConsistent'
  <2>1. [obj |-> req[t], len |-> 0] \in Content
    BY <1>6, CacheAssumption DEF MakeTemp, Content
  <2> QED  BY <1>6, <2>1 DEF TypeOK, MakeTemp
<1>7. ASSUME NEW t \in Threads, Write(t) PROVE CallsConsistent'
  <2>1. tmp'[t] \in Content
    <3>1. PICK n \in WriteSizes(t) : tmp' = [tmp EXCEPT ![t].len = @ + n]
      BY <1>7 DEF Write
    <3>2. tmp[t] \in Content /\ tmp[t].len + n \in 0..Chunks
      BY <1>7, <3>1, CacheAssumption DEF Write, WriteSizes, Content
    <3> QED  BY <3>1, <3>2 DEF Content, TypeOK
  <2>2. \A u \in Threads : u # t => tmp'[u] = tmp[u]
    BY <1>7 DEF Write, TypeOK
  <2> QED  BY <1>7, <2>1, <2>2 DEF Write, threadVars
<1>8. ASSUME NEW t \in Threads, Rename(t) PROVE CallsConsistent'
  BY <1>8 DEF TypeOK, Rename
<1>9. ASSUME NEW t \in Threads,
             IOThrows(t) \/ Await(t) \/ ClearDiskDone(t) \/ PreloadDone(t)
      PROVE  CallsConsistent'
  BY <1>9 DEF TypeOK, IOThrows, Await, ClearDiskDone, PreloadDone, Return, diskVars
<1>10. ASSUME NEW t \in Threads,
              ClearMemory(t) \/ Enable(t) \/ Unlink(t) \/ PreloadFile(t)
       PROVE  CallsConsistent'
  BY <1>10 DEF ClearMemory, Enable, Unlink, PreloadFile, diskVars, threadVars
<1>11. ASSUME NEW t \in Threads,
              ListForClear(t) \/ ListForPreload(t) \/ PreloadLock(t) \/ PreloadTick(t)
       PROVE  CallsConsistent'
  BY <1>11 DEF TypeOK, ListForClear, ListForPreload, PreloadLock, PreloadTick, diskVars
<1>12. ASSUME NEW p \in Procs, Crash(p) PROVE CallsConsistent'
  BY <1>12 DEF Crash, Mine
<1>13. ASSUME UNCHANGED vars PROVE CallsConsistent'
  BY <1>13 DEF vars, diskVars, threadVars
<1> QED
  BY <1>2, <1>3, <1>4, <1>5, <1>6, <1>7, <1>8, <1>9, <1>10, <1>11, <1>12, <1>13
  DEF Next, Begin, Advance, EndCompile, Quiescent

(* Every variable holds a value of its type: in particular nothing written *)
(* to disk is longer than the binary, and no thread is left without the    *)
(* file, the future or the result its next step uses (cache_t).            *)
THEOREM TypeCorrect == Spec => [](TypeOK /\ CallsConsistent)
<1>1. Init => TypeOK /\ CallsConsistent
  BY InitTypes
<1>2. TypeOK /\ CallsConsistent /\ [Next]_vars => (TypeOK /\ CallsConsistent)'
  BY TypeStep, ConsistentStep
<1> QED  BY <1>1, <1>2, PTL DEF Spec

-----------------------------------------------------------------------------
(* Capacity.                                                               *)

LEMMA EmptyTables ==
  ASSUME NEW k \in Kinds
  PROVE  Cached(EmptyTable) = {} /\ Cardinality(Cached(EmptyTable)) <= Limit[k]
<1>1. Cached(EmptyTable) = {}
  BY DEF Cached, EmptyTable
<1>2. Limit[k] \in Nat
  BY CacheAssumption
<1> QED  BY <1>1, <1>2, FS_EmptySet

LEMMA CapacityStep ==
  ASSUME TypeOK, CallsConsistent, CapacityRespected, [Next]_vars
  PROVE  CapacityRespected'
<1> USE FutureTypes
<1>1. CASE UNCHANGED lru
  BY <1>1 DEF CapacityRespected
<1>2. ASSUME NEW t \in Threads, MemHit(t) PROVE CapacityRespected'
  BY <1>2, HitInto DEF MemHit, CallsConsistent, CallSteps
<1>3. ASSUME NEW t \in Threads, OpenBlob(t) PROVE CapacityRespected'
  <2>1. req[t] \in Objects /\ disk[FileOf(t)] \in Content
    BY <1>3 DEF OpenBlob, CallsConsistent, CallSteps, TypeOK, FileOf
  <2> QED  BY <1>3, <2>1, InsertFutureInto DEF OpenBlob
<1>4. ASSUME NEW t \in Threads, LoadLibrary(t) \/ Reserve(t)
      PROVE  CapacityRespected'
  <2>1. req[t] \in Objects
    BY <1>4 DEF LoadLibrary, Reserve, CallsConsistent, CallSteps
  <2> QED  BY <1>4, <2>1, InsertFutureInto DEF LoadLibrary, Reserve
<1>5. ASSUME NEW t \in Threads, PublishLibrary(t) PROVE CapacityRespected'
  BY <1>5, SettleInto DEF PublishLibrary, CallsConsistent
<1>6. ASSUME NEW t \in Threads, CompileReturns(t) PROVE CapacityRespected'
  BY <1>6, SettleInto DEF CompileReturns, CallsConsistent, CallSteps
<1>7. ASSUME NEW t \in Threads, CompileThrows(t) PROVE CapacityRespected'
  BY <1>7, SettleInto DEF CompileThrows, ExceptionOutcome
<1>8. ASSUME NEW t \in Threads, ClearMemory(t) PROVE CapacityRespected'
  BY <1>8, EmptyTables DEF ClearMemory, CapacityRespected, TypeOK
<1>9. ASSUME NEW t \in Threads, PreloadFile(t) PROVE CapacityRespected'
  BY <1>9, PreloadFileInto
<1>10. ASSUME NEW p \in Procs, Crash(p) PROVE CapacityRespected'
  BY <1>10, EmptyTables DEF Crash, CapacityRespected, TypeOK
<1>11. ASSUME NEW t \in Threads,
              \/ Call(t) \/ Enable(t) \/ ListForClear(t) \/ ListForPreload(t)
              \/ MemMiss(t) \/ LibraryExists(t) \/ DiskMiss(t)
              \/ MakeTemp(t) \/ Write(t) \/ Rename(t) \/ IOThrows(t) \/ Await(t)
              \/ Unlink(t) \/ ClearDiskDone(t)
              \/ PreloadLock(t) \/ PreloadTick(t) \/ PreloadDone(t)
       PROVE  UNCHANGED lru
  BY <1>11
  DEF Call, Enable, ListForClear, ListForPreload, MemMiss, LibraryExists,
      DiskMiss, MakeTemp, Write, Rename, IOThrows, Await, Unlink,
      ClearDiskDone, PreloadLock, PreloadTick, PreloadDone, procVars
<1>12. (UNCHANGED vars) => UNCHANGED lru
  BY DEF vars, procVars
<1> QED
  BY <1>1, <1>2, <1>3, <1>4, <1>5, <1>6, <1>7, <1>8, <1>9, <1>10, <1>11, <1>12
  DEF Next, Begin, Advance, EndCompile, Quiescent

(* No table ever outgrows its limit, a limit of zero included (cache_t with *)
(* lru_memory_cache::insert).                                               *)
THEOREM Capacity == Spec => []CapacityRespected
<1>1. Init => CapacityRespected
  BY EmptyTables DEF Init, CapacityRespected
<1>2. TypeOK /\ CallsConsistent /\ CapacityRespected /\ [Next]_vars
        => CapacityRespected'
  BY CapacityStep
<1> QED  BY <1>1, <1>2, TypeCorrect, PTL DEF Spec

-----------------------------------------------------------------------------
(* Every pending future has a producer.                                    *)

(* The shapes a future can have. *)
LEMMA FutureShapes ==
  ASSUME NEW f \in Future
  PROVE  /\ f # None
         /\ f.state = "pending" => f.by \in Threads /\ f = Pending(f.by)
         /\ f.state = "ready" => \E c \in Content : f = Ready(c)
BY NoneAssumption DEF Future, Pending, Ready, Broken

LEMMA FutureStates ==
  /\ Broken.state = "broken"
  /\ \A t : Pending(t).state = "pending" /\ Pending(t).by = t
  /\ \A c : Ready(c).state = "ready" /\ Ready(c).value = c
BY DEF Broken, Pending, Ready

LEMMA TypedFutures ==
  ASSUME TypeOK
  PROVE  /\ \A p \in Procs, k \in Kinds, h \in Hashes :
              lru[p][k][h] # None => lru[p][k][h].value \in Future
         /\ \A t \in Threads : held[t] # None => held[t] \in Future
BY DEF TypeOK, Entry

(* A step of a thread that produces nothing, neither before nor after, and *)
(* brings no new pending future into a table, leaves every producer be.    *)
LEMMA ProducersKept ==
  ASSUME TypeOK, FuturesHaveProducers, NEW t \in Threads,
         pc[t] \notin {"compile", "publish"},
         \A u \in Threads \ {t} :
           pc'[u] = pc[u] /\ req'[u] = req[u] /\ held'[u] = held[u],
         \/ held'[t] = None
         \/ held'[t] = held[t] /\ req'[t] = req[t]
         \/ held'[t].state # "pending",
         \A p \in Procs, k \in Kinds, h \in Hashes :
           \/ lru'[p][k][h] = None
           \/ lru[p][k][h] # None /\ lru'[p][k][h].value = lru[p][k][h].value
           \/ lru'[p][k][h].value.state # "pending"
  PROVE  FuturesHaveProducers'
<1>1. EntriesProduced'
  BY DEF FuturesHaveProducers, EntriesProduced, Produced
<1>2. HeldProduced'
  BY DEF FuturesHaveProducers, HeldProduced, Produced
<1> QED  BY <1>1, <1>2 DEF FuturesHaveProducers

(* A thread that inserts its own pending future becomes its producer. *)
LEMMA ProducerAdded ==
  ASSUME TypeOK, FuturesHaveProducers, NEW t \in Threads,
         pc[t] \notin {"compile", "publish"}, req[t] \in Objects,
         InsertFuture(t, Pending(t)),
         held' = [held EXCEPT ![t] = Pending(t)],
         UNCHANGED req,
         pc'[t] \in {"compile", "publish"},
         \A u \in Threads \ {t} : pc'[u] = pc[u]
  PROVE  FuturesHaveProducers'
<1>0. Pending(t) \in Future
  BY FutureTypes
<1>1. \A q \in Procs, j \in Kinds, g \in Hashes :
        \/ lru'[q][j][g] = None
        \/ lru'[q][j][g] = lru[q][j][g]
        \/ /\ q = ProcOf[t] /\ req[t] = [kind |-> j, hash |-> g]
           /\ lru'[q][j][g].value = Pending(t)
           /\ lru'[q][j][g] # None
  <2> TAKE q \in Procs, j \in Kinds, g \in Hashes
  <2> QED  BY <1>0, InsertFutureInto
<1>2. EntriesProduced'
  BY <1>1, FutureStates DEF FuturesHaveProducers, EntriesProduced, Produced
<1>3. HeldProduced'
  BY FutureStates DEF FuturesHaveProducers, HeldProduced, Produced, TypeOK
<1> QED  BY <1>2, <1>3 DEF FuturesHaveProducers

(* When a promise gets its outcome, none of its pending copies is left. *)
LEMMA ProducerDone ==
  ASSUME TypeOK, FuturesHaveProducers, NEW t \in Threads,
         NEW f \in Future, f.state # "pending",
         SettleTables(t, f),
         \A u \in Threads \ {t} :
           /\ pc'[u] = pc[u]
           /\ req'[u] = req[u]
           /\ held'[u] = Settle(held[u], t, f),
         \/ held'[t] = None
         \/ held'[t] = Settle(held[t], t, f) /\ req'[t] = req[t]
  PROVE  FuturesHaveProducers'
<1>1. ASSUME NEW g \in Future, NEW p, NEW o,
             Produced(g, p, o), Settle(g, t, f).state = "pending"
      PROVE  /\ Settle(g, t, f) = g
             /\ g.by \in Threads \ {t}
             /\ ProcOf[g.by] = p /\ req'[g.by] = o
             /\ pc'[g.by] \in {"compile", "publish"}
  <2>1. Settle(g, t, f) = g /\ g # Pending(t)
    BY <1>1 DEF Settle
  <2>2. g = Pending(g.by) /\ g.by \in Threads
    BY <1>1, <2>1, FutureShapes
  <2> QED  BY <1>1, <2>1, <2>2 DEF Produced
<1>2. \A q \in Procs, j \in Kinds, g \in Hashes :
        /\ lru'[q][j][g] = None <=> lru[q][j][g] = None
        /\ lru[q][j][g] # None =>
             lru'[q][j][g].value = Settle(lru[q][j][g].value, t, f)
  BY SettleInto
<1>3. EntriesProduced'
  <2> SUFFICES ASSUME NEW p \in Procs, NEW k \in Kinds, NEW h \in Hashes,
                      lru'[p][k][h] # None,
                      lru'[p][k][h].value.state = "pending"
               PROVE  LET g == lru'[p][k][h].value IN
                      /\ g.by \in Threads /\ ProcOf[g.by] = p
                      /\ req'[g.by] = [kind |-> k, hash |-> h]
                      /\ pc'[g.by] \in {"compile", "publish"}
    BY DEF EntriesProduced, Produced
  <2>1. /\ lru[p][k][h] # None
        /\ lru[p][k][h].value \in Future
        /\ lru'[p][k][h].value = Settle(lru[p][k][h].value, t, f)
    BY <1>2, TypedFutures
  <2>2. Produced(lru[p][k][h].value, p, [kind |-> k, hash |-> h])
    BY <2>1 DEF FuturesHaveProducers, EntriesProduced
  <2> QED  BY <1>1, <2>1, <2>2
<1>4. HeldProduced'
  <2> SUFFICES ASSUME NEW u \in Threads,
                      held'[u] # None, held'[u].state = "pending"
               PROVE  LET g == held'[u] IN
                      /\ g.by \in Threads /\ ProcOf[g.by] = ProcOf[u]
                      /\ req'[g.by] = req'[u]
                      /\ pc'[g.by] \in {"compile", "publish"}
    BY DEF HeldProduced, Produced
  <2>1. held'[u] = Settle(held[u], t, f) /\ req'[u] = req[u]
    OBVIOUS
  <2>2. held[u] # None
    BY <2>1, FutureTypes, NoneAssumption DEF Settle
  <2>3. held[u] \in Future /\ Produced(held[u], ProcOf[u], req[u])
    BY <2>2, TypedFutures DEF FuturesHaveProducers, HeldProduced
  <2> QED  BY <1>1, <2>1, <2>3
<1> QED  BY <1>3, <1>4 DEF FuturesHaveProducers

LEMMA ProducersStep ==
  ASSUME TypeOK, CallsConsistent, FuturesHaveProducers, [Next]_vars
  PROVE  FuturesHaveProducers'
<1> USE FutureTypes, FutureStates
<1>1. ASSUME NEW t \in Threads,
             \/ MemMiss(t) \/ LibraryExists(t) \/ DiskMiss(t)
             \/ MakeTemp(t) \/ Write(t) \/ Rename(t)
             \/ Enable(t) \/ ListForClear(t) \/ ListForPreload(t)
             \/ Unlink(t) \/ PreloadLock(t) \/ PreloadTick(t)
      PROVE  FuturesHaveProducers'
  <2>1. /\ pc[t] \notin {"compile", "publish"}
        /\ \A u \in Threads \ {t} : pc'[u] = pc[u]
        /\ UNCHANGED <<req, held, lru>>
    BY <1>1
    DEF MemMiss, LibraryExists, DiskMiss, MakeTemp, Write, Rename, Enable,
        ListForClear, ListForPreload, Unlink, PreloadLock, PreloadTick,
        Goto, TypeOK, procVars, threadVars
  <2> QED  BY <2>1, ProducersKept
<1>2. ASSUME NEW t \in Threads,
             IOThrows(t) \/ Await(t) \/ ClearDiskDone(t) \/ PreloadDone(t)
      PROVE  FuturesHaveProducers'
  <2>1. /\ pc[t] \notin {"compile", "publish"}
        /\ \A u \in Threads \ {t} :
             pc'[u] = pc[u] /\ req'[u] = req[u] /\ held'[u] = held[u]
        /\ held'[t] = None
        /\ UNCHANGED lru
    BY <1>2
    DEF IOThrows, Await, ClearDiskDone, PreloadDone, Return, Goto, TypeOK,
        procVars
  <2> QED  BY <2>1, ProducersKept
<1>3. ASSUME NEW t \in Threads, Call(t) PROVE FuturesHaveProducers'
  <2>1. /\ pc[t] = "idle"
        /\ \A u \in Threads \ {t} : pc'[u] = pc[u] /\ req'[u] = req[u]
        /\ held[t] = None
        /\ UNCHANGED <<lru, held>>
    BY <1>3 DEF Call, Goto, TypeOK, CallsConsistent
  <2> QED  BY <2>1, ProducersKept
<1>4. ASSUME NEW t \in Threads, MemHit(t) PROVE FuturesHaveProducers'
  <2> DEFINE p == ProcOf[t]
             k == req[t].kind
             h == req[t].hash
  <2>1. /\ pc[t] = "lock" /\ req[t] \in Objects
        /\ \A u \in Threads \ {t} : pc'[u] = pc[u] /\ held'[u] = held[u]
        /\ held'[t] = MyEntry(t).value
        /\ UNCHANGED req
    BY <1>4 DEF MemHit, Goto, TypeOK, CallsConsistent, CallSteps
  <2>2. \A q \in Procs, j \in Kinds, g \in Hashes :
          /\ lru'[q][j][g] = None <=> lru[q][j][g] = None
          /\ lru[q][j][g] # None => lru'[q][j][g].value = lru[q][j][g].value
    BY <1>4, <2>1, HitInto
  <2>3. /\ p \in Procs /\ k \in Kinds /\ h \in Hashes
        /\ req[t] = [kind |-> k, hash |-> h]
        /\ lru[p][k][h] # None
        /\ held'[t] = lru[p][k][h].value
    BY <1>4, <2>1, CacheAssumption DEF MemHit, MyEntry, Table, Objects
  <2>4. Produced(held'[t], ProcOf[t], req[t])
    BY <2>3 DEF FuturesHaveProducers, EntriesProduced
  <2>5. EntriesProduced'
    BY <2>1, <2>2 DEF FuturesHaveProducers, EntriesProduced, Produced
  <2>6. HeldProduced'
    BY <2>1, <2>4 DEF FuturesHaveProducers, HeldProduced, Produced
  <2> QED  BY <2>5, <2>6 DEF FuturesHaveProducers
<1>5. ASSUME NEW t \in Threads, OpenBlob(t) PROVE FuturesHaveProducers'
  <2>1. /\ pc[t] = "open" /\ req[t] \in Objects
        /\ disk[FileOf(t)] \in Content
        /\ \A u \in Threads \ {t} : pc'[u] = pc[u] /\ held'[u] = held[u]
        /\ held'[t] = Ready(disk[FileOf(t)])
        /\ UNCHANGED req
    BY <1>5 DEF OpenBlob, Goto, TypeOK, CallsConsistent, CallSteps, FileOf
  <2>2. \A q \in Procs, j \in Kinds, g \in Hashes :
          \/ lru'[q][j][g] = None
          \/ lru'[q][j][g] = lru[q][j][g]
          \/ lru'[q][j][g].value = Ready(disk[FileOf(t)])
    <3>1. Ready(disk[FileOf(t)]) \in Future
      BY <2>1
    <3>2. InsertFuture(t, Ready(disk[FileOf(t)]))
      BY <1>5 DEF OpenBlob
    <3> TAKE q \in Procs, j \in Kinds, g \in Hashes
    <3>3. PICK f \in Future : f = Ready(disk[FileOf(t)]) /\ InsertFuture(t, f)
      BY <3>1, <3>2
    <3>4. \/ lru'[q][j][g] = None
          \/ lru'[q][j][g] = lru[q][j][g]
          \/ /\ q = ProcOf[t] /\ req[t] = [kind |-> j, hash |-> g]
             /\ lru'[q][j][g].value = f
      <4>1. req[t] \in Objects /\ InsertFuture(t, f)
        BY <2>1, <3>3
      <4> QED  BY <4>1, InsertFutureInto
    <3> QED  BY <3>3, <3>4
  <2>3. held'[t].state # "pending"
    BY <2>1
  <2>4. \A q \in Procs, j \in Kinds, g \in Hashes :
          \/ lru'[q][j][g] = None
          \/ lru[q][j][g] # None /\ lru'[q][j][g].value = lru[q][j][g].value
          \/ lru'[q][j][g].value.state # "pending"
    BY <2>2
  <2> QED  BY <2>1, <2>3, <2>4, ProducersKept
<1>6. ASSUME NEW t \in Threads, LoadLibrary(t) \/ Reserve(t)
      PROVE  FuturesHaveProducers'
  <2>1. /\ pc[t] \in {"load", "reserve"} /\ req[t] \in Objects
        /\ InsertFuture(t, Pending(t))
        /\ held' = [held EXCEPT ![t] = Pending(t)]
        /\ UNCHANGED req
        /\ pc'[t] \in {"compile", "publish"}
        /\ \A u \in Threads \ {t} : pc'[u] = pc[u]
    BY <1>6 DEF LoadLibrary, Reserve, Goto, TypeOK, CallsConsistent, CallSteps
  <2> QED  BY <2>1, ProducerAdded
<1>7. ASSUME NEW t \in Threads, PublishLibrary(t) \/ CompileReturns(t)
      PROVE  FuturesHaveProducers'
  <2>1. PICK f \in Future :
          /\ f.state = "ready"
          /\ SettleTables(t, f)
          /\ held' = SettleHeld(t, f)
    BY <1>7 DEF PublishLibrary, CompileReturns, CallsConsistent, CallSteps
  <2>2. /\ \A u \in Threads \ {t} : pc'[u] = pc[u]
        /\ UNCHANGED req
    BY <1>7 DEF PublishLibrary, CompileReturns, Goto, TypeOK
  <2>3. \A u \in Threads : held'[u] = Settle(held[u], t, f)
    BY <2>1 DEF SettleHeld
  <2> QED  BY <2>1, <2>2, <2>3, ProducerDone
<1>8. ASSUME NEW t \in Threads, CompileThrows(t) PROVE FuturesHaveProducers'
  <2>1. /\ SettleTables(t, Broken)
        /\ held' = [SettleHeld(t, Broken) EXCEPT ![t] = None]
        /\ \A u \in Threads \ {t} : pc'[u] = pc[u] /\ req'[u] = req[u]
    BY <1>8 DEF CompileThrows, ExceptionOutcome, Return, Goto, TypeOK
  <2>2. /\ \A u \in Threads \ {t} : held'[u] = Settle(held[u], t, Broken)
        /\ held'[t] = None
    BY <2>1 DEF SettleHeld
  <2> QED  BY <2>1, <2>2, ProducerDone
<1>9. ASSUME NEW t \in Threads, ClearMemory(t) PROVE FuturesHaveProducers'
  <2>1. /\ pc[t] = "idle"
        /\ UNCHANGED <<pc, req, held>>
        /\ \A q \in Procs, j \in Kinds, g \in Hashes :
             lru'[q][j][g] = None \/ lru'[q][j][g] = lru[q][j][g]
    BY <1>9 DEF ClearMemory, EmptyTable, TypeOK, threadVars
  <2> QED  BY <2>1, ProducersKept
<1>10. ASSUME NEW t \in Threads, PreloadFile(t) PROVE FuturesHaveProducers'
  <2>1. /\ pc[t] = "pload"
        /\ UNCHANGED <<pc, req, held>>
    BY <1>10 DEF PreloadFile
  <2>2. \A q \in Procs, j \in Kinds, g \in Hashes :
          \/ lru'[q][j][g] = None
          \/ lru[q][j][g] # None /\ lru'[q][j][g].value = lru[q][j][g].value
          \/ lru'[q][j][g].value.state # "pending"
    <3>1. \A q \in Procs, j \in Kinds, g \in Hashes :
            \/ lru'[q][j][g] = None
            \/ lru'[q][j][g] = lru[q][j][g]
            \/ lru'[q][j][g].value = Ready(disk[[kind |-> j, hash |-> g]])
      BY <1>10, PreloadFileInto
    <3> TAKE q \in Procs, j \in Kinds, g \in Hashes
    <3>2. \/ lru'[q][j][g] = None
          \/ lru'[q][j][g] = lru[q][j][g]
          \/ lru'[q][j][g].value = Ready(disk[[kind |-> j, hash |-> g]])
      BY <3>1
    <3>3. Ready(disk[[kind |-> j, hash |-> g]]).state = "ready"
      BY FutureStates
    <3> QED  BY <3>2, <3>3
  <2> QED  BY <2>1, <2>2, ProducersKept
<1>11. ASSUME NEW p \in Procs, Crash(p) PROVE FuturesHaveProducers'
  <2>1. /\ \A q \in Procs, j \in Kinds, g \in Hashes :
             lru'[q][j][g] = None \/ (q # p /\ lru'[q][j][g] = lru[q][j][g])
        /\ \A u \in Threads :
             \/ ProcOf[u] = p /\ held'[u] = None
             \/ /\ ProcOf[u] # p
                /\ pc'[u] = pc[u] /\ req'[u] = req[u] /\ held'[u] = held[u]
    BY <1>11 DEF Crash, Mine, EmptyTable, TypeOK
  <2>2. EntriesProduced'
    BY <2>1 DEF FuturesHaveProducers, EntriesProduced, Produced
  <2>3. HeldProduced'
    BY <2>1 DEF FuturesHaveProducers, HeldProduced, Produced
  <2> QED  BY <2>2, <2>3 DEF FuturesHaveProducers
<1>12. ASSUME UNCHANGED vars PROVE FuturesHaveProducers'
  BY <1>12
  DEF FuturesHaveProducers, EntriesProduced, HeldProduced, Produced,
      vars, procVars, threadVars
<1> QED
  BY <1>1, <1>2, <1>3, <1>4, <1>5, <1>6, <1>7, <1>8, <1>9, <1>10, <1>11, <1>12
  DEF Next, Begin, Advance, EndCompile, Quiescent

(* No thread is ever left with a future that nobody will set: each pending *)
(* future, in a table or in a caller's hands, belongs to a thread of the   *)
(* process that is compiling or loading just that object (get_or_add,      *)
(* whatever is evicted, cleared, thrown or killed meanwhile).              *)
THEOREM Producers == Spec => []FuturesHaveProducers
<1>1. Init => FuturesHaveProducers
  BY DEF Init, FuturesHaveProducers, EntriesProduced, HeldProduced, EmptyTable
<1>2. TypeOK /\ CallsConsistent /\ FuturesHaveProducers /\ [Next]_vars
        => FuturesHaveProducers'
  BY ProducersStep
<1> QED  BY <1>1, <1>2, TypeCorrect, PTL DEF Spec

-----------------------------------------------------------------------------
(* Every file and every future holds the right object, whole.              *)

LEMMA IntactKept ==
  ASSUME EntriesIntact, HeldIntact,
         \A p \in Procs, k \in Kinds, h \in Hashes :
           \/ lru'[p][k][h] = None
           \/ lru[p][k][h] # None /\ lru'[p][k][h].value = lru[p][k][h].value
           \/ FutureIntact(lru'[p][k][h].value, [kind |-> k, hash |-> h]),
         \A u \in Threads :
           \/ held'[u] = None
           \/ held'[u] = held[u] /\ req'[u] = req[u]
           \/ FutureIntact(held'[u], req'[u])
  PROVE  EntriesIntact' /\ HeldIntact'
<1>1. EntriesIntact'
  BY DEF EntriesIntact, FutureIntact
<1>2. HeldIntact'
  BY DEF HeldIntact, FutureIntact
<1> QED  BY <1>1, <1>2

(* An inserted future is pending, or holds the object of its own hash.     *)
LEMMA IntactAdded ==
  ASSUME TypeOK, EntriesIntact, HeldIntact, NEW t \in Threads,
         req[t] \in Objects, NEW f \in Future,
         InsertFuture(t, f), FutureIntact(f, req[t]),
         held' = [held EXCEPT ![t] = f], UNCHANGED req
  PROVE  EntriesIntact' /\ HeldIntact'
<1>1. ASSUME NEW q \in Procs, NEW j \in Kinds, NEW g \in Hashes
      PROVE  \/ lru'[q][j][g] = None
             \/ lru'[q][j][g] = lru[q][j][g]
             \/ FutureIntact(lru'[q][j][g].value, [kind |-> j, hash |-> g])
  <2>1. \/ lru'[q][j][g] = None
        \/ lru'[q][j][g] = lru[q][j][g]
        \/ /\ q = ProcOf[t] /\ req[t] = [kind |-> j, hash |-> g]
           /\ lru'[q][j][g].value = f
    BY InsertFutureInto
  <2> QED  BY <2>1
<1>2. \A u \in Threads :
        (held'[u] = held[u] /\ req'[u] = req[u]) \/ FutureIntact(held'[u], req'[u])
  BY DEF TypeOK
<1> QED  BY <1>1, <1>2, IntactKept

(* The copies of a promise are all under the object its thread works on.   *)
LEMMA IntactSettled ==
  ASSUME TypeOK, EntriesIntact, HeldIntact, FuturesHaveProducers,
         NEW t \in Threads, NEW f \in Future, FutureIntact(f, req[t]),
         SettleTables(t, f),
         \A u \in Threads :
           \/ held'[u] = None
           \/ held'[u] = Settle(held[u], t, f) /\ req'[u] = req[u]
  PROVE  EntriesIntact' /\ HeldIntact'
<1>1. ASSUME NEW q \in Procs, NEW j \in Kinds, NEW g \in Hashes
      PROVE  \/ lru'[q][j][g] = None
             \/ lru[q][j][g] # None /\ lru'[q][j][g].value = lru[q][j][g].value
             \/ FutureIntact(lru'[q][j][g].value, [kind |-> j, hash |-> g])
  <2>1. /\ lru'[q][j][g] = None <=> lru[q][j][g] = None
        /\ lru[q][j][g] # None =>
             lru'[q][j][g].value = Settle(lru[q][j][g].value, t, f)
    BY SettleInto
  <2>2. ASSUME lru[q][j][g] # None, lru[q][j][g].value = Pending(t)
        PROVE  req[t] = [kind |-> j, hash |-> g]
    BY <2>2, FutureStates
    DEF FuturesHaveProducers, EntriesProduced, Produced
  <2> QED  BY <2>1, <2>2 DEF Settle
<1>2. ASSUME NEW u \in Threads
      PROVE  \/ held'[u] = None
             \/ held'[u] = held[u] /\ req'[u] = req[u]
             \/ FutureIntact(held'[u], req'[u])
  <2>1. ASSUME held[u] = Pending(t)
        PROVE  req[t] = req[u]
    <3>1. held[u] # None
      BY <2>1, FutureTypes, NoneAssumption
    <3> QED  BY <2>1, <3>1, FutureStates
             DEF FuturesHaveProducers, HeldProduced, Produced
  <2> QED  BY <2>1 DEF Settle
<1> QED  BY <1>1, <1>2, IntactKept

LEMMA IntactStep ==
  ASSUME TypeOK, CallsConsistent, FuturesHaveProducers,
         ContentIntact, WorkIntact, [Next]_vars
  PROVE  ContentIntact' /\ WorkIntact'
<1> USE FutureTypes, FutureStates
<1>1. ASSUME NEW t \in Threads,
             \/ MemMiss(t) \/ LibraryExists(t) \/ DiskMiss(t)
             \/ Enable(t) \/ ListForClear(t) \/ ListForPreload(t)
             \/ PreloadLock(t) \/ PreloadTick(t)
      PROVE  ContentIntact' /\ WorkIntact'
  <2>1. /\ UNCHANGED <<lru, disk, tmp, req, held, result>>
        /\ \A u \in Threads \ {t} : pc'[u] = pc[u]
        /\ pc'[t] \notin {"publish", "write"}
    BY <1>1
    DEF MemMiss, LibraryExists, DiskMiss, Enable, ListForClear,
        ListForPreload, PreloadLock, PreloadTick, Goto, TypeOK,
        procVars, diskVars, threadVars
  <2> QED
    BY <2>1
    DEF ContentIntact, DiskIntact, EntriesIntact, HeldIntact, WorkIntact
<1>2. ASSUME NEW t \in Threads,
             IOThrows(t) \/ Await(t) \/ ClearDiskDone(t) \/ PreloadDone(t)
      PROVE  ContentIntact' /\ WorkIntact'
  <2>1. /\ \A u \in Threads \ {t} :
             /\ pc'[u] = pc[u] /\ req'[u] = req[u] /\ held'[u] = held[u]
             /\ tmp'[u] = tmp[u] /\ result'[u] = result[u]
        /\ pc'[t] = "idle" /\ held'[t] = None
        /\ UNCHANGED <<lru, disk>>
    BY <1>2
    DEF IOThrows, Await, ClearDiskDone, PreloadDone, Return, Goto, TypeOK,
        procVars, diskVars
  <2>2. EntriesIntact' /\ HeldIntact'
    BY <2>1 DEF ContentIntact, EntriesIntact, HeldIntact
  <2> QED  BY <2>1, <2>2 DEF ContentIntact, DiskIntact, WorkIntact
<1>3. ASSUME NEW t \in Threads, Call(t) PROVE ContentIntact' /\ WorkIntact'
  <2>1. /\ \A u \in Threads \ {t} : pc'[u] = pc[u] /\ req'[u] = req[u]
        /\ pc'[t] = "lock" /\ held[t] = None
        /\ UNCHANGED <<lru, disk, held, tmp, result>>
    BY <1>3 DEF Call, Goto, TypeOK, CallsConsistent, diskVars
  <2>2. EntriesIntact' /\ HeldIntact'
    BY <2>1 DEF ContentIntact, EntriesIntact, HeldIntact
  <2> QED  BY <2>1, <2>2 DEF ContentIntact, DiskIntact, WorkIntact
<1>4. ASSUME NEW t \in Threads, MemHit(t) PROVE ContentIntact' /\ WorkIntact'
  <2> DEFINE p == ProcOf[t]
             k == req[t].kind
             h == req[t].hash
  <2>1. /\ req[t] \in Objects
        /\ \A u \in Threads \ {t} : pc'[u] = pc[u] /\ held'[u] = held[u]
        /\ pc'[t] = "wait"
        /\ held'[t] = MyEntry(t).value
        /\ UNCHANGED <<disk, tmp, req, result>>
    BY <1>4 DEF MemHit, Goto, TypeOK, CallsConsistent, CallSteps, diskVars
  <2>2. \A q \in Procs, j \in Kinds, g \in Hashes :
          /\ lru'[q][j][g] = None <=> lru[q][j][g] = None
          /\ lru[q][j][g] # None => lru'[q][j][g].value = lru[q][j][g].value
    BY <1>4, <2>1, HitInto
  <2>3. /\ p \in Procs /\ k \in Kinds /\ h \in Hashes
        /\ req[t] = [kind |-> k, hash |-> h]
        /\ lru[p][k][h] # None
        /\ held'[t] = lru[p][k][h].value
    BY <1>4, <2>1, CacheAssumption DEF MemHit, MyEntry, Table, Objects
  <2>4. FutureIntact(held'[t], req'[t])
    BY <2>1, <2>3 DEF ContentIntact, EntriesIntact
  <2>5. EntriesIntact' /\ HeldIntact'
    BY <2>1, <2>2, <2>4, IntactKept DEF ContentIntact
  <2> QED  BY <2>1, <2>5 DEF ContentIntact, DiskIntact, WorkIntact
<1>5. ASSUME NEW t \in Threads, OpenBlob(t) PROVE ContentIntact' /\ WorkIntact'
  <2>1. /\ req[t] \in Objects
        /\ disk[req[t]] = Whole(req[t])
        /\ \A u \in Threads \ {t} : pc'[u] = pc[u]
        /\ pc'[t] = "wait"
        /\ UNCHANGED <<disk, tmp, req, result>>
    BY <1>5
    DEF OpenBlob, Goto, TypeOK, CallsConsistent, CallSteps, FileOf,
        ContentIntact, DiskIntact, diskVars
  <2>2. PICK f \in Future :
          /\ f = Ready(Whole(req[t]))
          /\ InsertFuture(t, f)
          /\ held' = [held EXCEPT ![t] = f]
    BY <1>5, <2>1 DEF OpenBlob, FileOf
  <2>3. FutureIntact(f, req[t])
    BY <2>2 DEF FutureIntact
  <2>4. EntriesIntact' /\ HeldIntact'
    BY <2>1, <2>2, <2>3, IntactAdded DEF ContentIntact
  <2> QED  BY <2>1, <2>4 DEF ContentIntact, DiskIntact, WorkIntact
<1>6. ASSUME NEW t \in Threads, LoadLibrary(t) \/ Reserve(t)
      PROVE  ContentIntact' /\ WorkIntact'
  <2>1. /\ req[t] \in Objects
        /\ \A u \in Threads \ {t} : pc'[u] = pc[u] /\ result'[u] = result[u]
        /\ pc'[t] # "write"
        /\ UNCHANGED <<disk, tmp, req>>
    BY <1>6
    DEF LoadLibrary, Reserve, Goto, TypeOK, CallsConsistent, CallSteps, diskVars
  <2>2. pc'[t] = "publish" => result'[t] = Whole(req[t])
    BY <1>6, <2>1
    DEF LoadLibrary, Reserve, Goto, TypeOK, FileOf, ContentIntact, DiskIntact
  <2>3. PICK f \in Future :
          /\ f = Pending(t)
          /\ InsertFuture(t, f)
          /\ held' = [held EXCEPT ![t] = f]
    BY <1>6 DEF LoadLibrary, Reserve
  <2>4. FutureIntact(f, req[t])
    BY <2>3 DEF FutureIntact
  <2>5. EntriesIntact' /\ HeldIntact'
    BY <2>1, <2>3, <2>4, IntactAdded DEF ContentIntact
  <2> QED  BY <2>1, <2>2, <2>5 DEF ContentIntact, DiskIntact, WorkIntact
<1>7. ASSUME NEW t \in Threads, PublishLibrary(t) \/ CompileReturns(t)
      PROVE  ContentIntact' /\ WorkIntact'
  <2>1. PICK f \in Future :
          /\ f = Ready(Whole(req[t]))
          /\ SettleTables(t, f)
          /\ held' = SettleHeld(t, f)
    BY <1>7
    DEF PublishLibrary, CompileReturns, CallsConsistent, CallSteps, WorkIntact
  <2>2. /\ \A u \in Threads \ {t} : pc'[u] = pc[u] /\ result'[u] = result[u]
        /\ pc'[t] \notin {"publish", "write"}
        /\ UNCHANGED <<disk, tmp, req>>
    BY <1>7 DEF PublishLibrary, CompileReturns, StoreResult, Goto, TypeOK, diskVars
  <2>3. \A u \in Threads : held'[u] = Settle(held[u], t, f)
    BY <2>1 DEF SettleHeld
  <2>4. FutureIntact(f, req[t])
    BY <2>1 DEF FutureIntact
  <2>5. EntriesIntact' /\ HeldIntact'
    BY <2>1, <2>2, <2>3, <2>4, IntactSettled DEF ContentIntact
  <2> QED  BY <2>2, <2>5 DEF ContentIntact, DiskIntact, WorkIntact
<1>8. ASSUME NEW t \in Threads, CompileThrows(t)
      PROVE  ContentIntact' /\ WorkIntact'
  <2>1. /\ SettleTables(t, Broken)
        /\ held' = [SettleHeld(t, Broken) EXCEPT ![t] = None]
        /\ \A u \in Threads \ {t} :
             pc'[u] = pc[u] /\ req'[u] = req[u] /\ result'[u] = result[u]
        /\ pc'[t] = "idle"
        /\ UNCHANGED <<disk, tmp>>
    BY <1>8 DEF CompileThrows, ExceptionOutcome, Return, Goto, TypeOK, diskVars
  <2>2. \A u \in Threads :
          \/ held'[u] = None
          \/ held'[u] = Settle(held[u], t, Broken) /\ req'[u] = req[u]
    BY <2>1 DEF SettleHeld
  <2>3. FutureIntact(Broken, req[t])
    BY DEF FutureIntact
  <2>4. EntriesIntact' /\ HeldIntact'
    BY <2>1, <2>2, <2>3, IntactSettled DEF ContentIntact
  <2> QED  BY <2>1, <2>4 DEF ContentIntact, DiskIntact, WorkIntact
<1>9. ASSUME NEW t \in Threads, MakeTemp(t) \/ Write(t)
      PROVE  ContentIntact' /\ WorkIntact'
  <2>1. /\ \A u \in Threads \ {t} : pc'[u] = pc[u] /\ tmp'[u] = tmp[u]
        /\ pc'[t] = "write" /\ tmp'[t].obj = req[t]
        /\ UNCHANGED <<lru, disk, req, held, result>>
    <3>1. CASE MakeTemp(t)
      BY <3>1 DEF MakeTemp, Goto, TypeOK, procVars
    <3>2. CASE Write(t)
      <4>1. PICK n \in WriteSizes(t) : tmp' = [tmp EXCEPT ![t].len = @ + n]
        BY <3>2 DEF Write
      <4>2. tmp[t] \in Content /\ tmp[t].obj = req[t]
        BY <3>2 DEF Write, CallsConsistent, WorkIntact
      <4>3. tmp'[t].obj = req[t]
        BY <4>1, <4>2 DEF Content, TypeOK
      <4> QED  BY <3>2, <4>1, <4>3 DEF Write, TypeOK, procVars, threadVars
    <3> QED  BY <1>9, <3>1, <3>2
  <2>2. EntriesIntact' /\ HeldIntact'
    BY <2>1 DEF ContentIntact, EntriesIntact, HeldIntact
  <2> QED  BY <2>1, <2>2 DEF ContentIntact, DiskIntact, WorkIntact
<1>10. ASSUME NEW t \in Threads, Rename(t) PROVE ContentIntact' /\ WorkIntact'
  <2>1. /\ \A u \in Threads \ {t} :
             pc'[u] = pc[u] /\ tmp'[u] = tmp[u] /\ result'[u] = result[u]
        /\ pc'[t] = "wait"
        /\ UNCHANGED <<lru, req, held>>
    BY <1>10 DEF Rename, Goto, TypeOK, procVars
  <2>2. tmp[t] = Whole(req[t])
    BY <1>10 DEF Rename, Written, CallsConsistent, WorkIntact, Content, Whole
  <2>3. DiskIntact'
    BY <1>10, <2>2 DEF Rename, FileOf, ContentIntact, DiskIntact, TypeOK
  <2>4. EntriesIntact' /\ HeldIntact'
    BY <2>1 DEF ContentIntact, EntriesIntact, HeldIntact
  <2> QED  BY <2>1, <2>3, <2>4 DEF ContentIntact, WorkIntact
<1>11. ASSUME NEW t \in Threads, Unlink(t) PROVE ContentIntact' /\ WorkIntact'
  <2>1. /\ \A o \in Objects : disk'[o] \in {None, disk[o]}
        /\ UNCHANGED <<lru, tmp, pc, req, held, result>>
    BY <1>11 DEF Unlink, TypeOK, procVars
  <2>2. DiskIntact'
    BY <2>1 DEF ContentIntact, DiskIntact
  <2>3. EntriesIntact' /\ HeldIntact' /\ WorkIntact'
    BY <2>1 DEF ContentIntact, EntriesIntact, HeldIntact, WorkIntact
  <2> QED  BY <2>2, <2>3 DEF ContentIntact
<1>12. ASSUME NEW t \in Threads, ClearMemory(t)
       PROVE  ContentIntact' /\ WorkIntact'
  <2>1. /\ UNCHANGED <<disk, tmp, pc, req, held, result>>
        /\ \A q \in Procs, j \in Kinds, g \in Hashes :
             lru'[q][j][g] = None \/ lru'[q][j][g] = lru[q][j][g]
    BY <1>12 DEF ClearMemory, EmptyTable, TypeOK, diskVars, threadVars
  <2>2. EntriesIntact' /\ HeldIntact'
    BY <2>1 DEF ContentIntact, EntriesIntact, HeldIntact
  <2> QED  BY <2>1, <2>2 DEF ContentIntact, DiskIntact, WorkIntact
<1>13. ASSUME NEW t \in Threads, PreloadFile(t)
       PROVE  ContentIntact' /\ WorkIntact'
  <2>1. UNCHANGED <<disk, tmp, pc, req, held, result>>
    BY <1>13 DEF PreloadFile, diskVars
  <2>2. ASSUME NEW q \in Procs, NEW j \in Kinds, NEW g \in Hashes
        PROVE  \/ lru'[q][j][g] = None
               \/ lru'[q][j][g] = lru[q][j][g]
               \/ FutureIntact(lru'[q][j][g].value, [kind |-> j, hash |-> g])
    <3> DEFINE o == [kind |-> j, hash |-> g]
    <3>1. \/ lru'[q][j][g] = None
          \/ lru'[q][j][g] = lru[q][j][g]
          \/ disk[o] # None /\ lru'[q][j][g].value = Ready(disk[o])
      BY <1>13, PreloadFileInto
    <3>2. o \in Objects
      BY DEF Objects
    <3>3. disk[o] # None => disk[o] = Whole(o)
      BY <3>2 DEF ContentIntact, DiskIntact
    <3> QED  BY <3>1, <3>3 DEF FutureIntact
  <2>3. EntriesIntact' /\ HeldIntact'
    BY <2>1, <2>2, IntactKept DEF ContentIntact
  <2> QED  BY <2>1, <2>3 DEF ContentIntact, DiskIntact, WorkIntact
<1>14. ASSUME NEW p \in Procs, Crash(p) PROVE ContentIntact' /\ WorkIntact'
  <2>1. /\ \A q \in Procs, j \in Kinds, g \in Hashes :
             lru'[q][j][g] = None \/ lru'[q][j][g] = lru[q][j][g]
        /\ \A u \in Threads :
             \/ pc'[u] = "idle" /\ held'[u] = None
             \/ /\ pc'[u] = pc[u] /\ req'[u] = req[u] /\ held'[u] = held[u]
                /\ tmp'[u] = tmp[u] /\ result'[u] = result[u]
        /\ UNCHANGED disk
    BY <1>14 DEF Crash, Mine, EmptyTable, TypeOK
  <2>2. EntriesIntact' /\ HeldIntact'
    BY <2>1 DEF ContentIntact, EntriesIntact, HeldIntact
  <2> QED  BY <2>1, <2>2 DEF ContentIntact, DiskIntact, WorkIntact
<1>15. ASSUME UNCHANGED vars PROVE ContentIntact' /\ WorkIntact'
  BY <1>15
  DEF ContentIntact, DiskIntact, EntriesIntact, HeldIntact, WorkIntact,
      vars, procVars, diskVars, threadVars
<1> QED
  BY <1>1, <1>2, <1>3, <1>4, <1>5, <1>6, <1>7, <1>8, <1>9, <1>10, <1>11, <1>12,
     <1>13, <1>14, <1>15
  DEF Next, Begin, Advance, EndCompile, Quiescent

LEMMA IntactWork == Spec => [](ContentIntact /\ WorkIntact)
<1>1. Init => ContentIntact /\ WorkIntact
  BY DEF Init, ContentIntact, DiskIntact, EntriesIntact, HeldIntact,
         WorkIntact, EmptyTable
<1>2. TypeOK /\ CallsConsistent /\ FuturesHaveProducers
        /\ (ContentIntact /\ WorkIntact) /\ [Next]_vars
        => (ContentIntact /\ WorkIntact)'
  BY IntactStep
<1> QED  BY <1>1, <1>2, TypeCorrect, Producers, PTL DEF Spec

(* No file under a final name is ever partial or of another object, and no *)
(* future is ever set to anything but the whole object it was asked for,   *)
(* with any number of processes that write, clear, preload and die at any  *)
(* point (cache_blob_to_disk with rename, get_or_add, preload_from_disk).  *)
THEOREM Intact == Spec => []ContentIntact
BY IntactWork, PTL

-----------------------------------------------------------------------------
(* What a process has in memory stays on disk.                             *)

(* A library that is about to be published has its file, and nobody is     *)
(* clearing the directory.                                                 *)
LoadedFromDisk == \A t \in Threads : pc[t] = "publish" => disk[req[t]] # None

NobodyClears == \A t \in Threads : pc[t] # "unlink"

StoredInv == EveryResultStored /\ LoadedFromDisk /\ NobodyClears

(* A file stays, a ready future that is new has its file or its writer,    *)
(* and a writer goes on until there is a file.                             *)
LEMMA StoredKept ==
  ASSUME EveryResultStored,
         \A o \in Objects : disk[o] # None => disk'[o] # None,
         \A p \in Procs, k \in Kinds, h \in Hashes :
           \/ lru'[p][k][h] = None
           \/ lru[p][k][h] # None /\ lru'[p][k][h].value = lru[p][k][h].value
           \/ lru'[p][k][h].value.state # "ready"
           \/ disk'[[kind |-> k, hash |-> h]] # None
           \/ Storing(p, [kind |-> k, hash |-> h])',
         \A u \in Threads :
           pc[u] \in {"mkstemp", "write"} =>
             \/ pc'[u] \in {"mkstemp", "write"} /\ req'[u] = req[u]
             \/ disk'[req[u]] # None
             \/ \A k \in Kinds, h \in Hashes : lru'[ProcOf[u]][k][h] = None
  PROVE  EveryResultStored'
<1> SUFFICES ASSUME NEW p \in Procs, NEW k \in Kinds, NEW h \in Hashes,
                    lru'[p][k][h] # None, lru'[p][k][h].value.state = "ready",
                    disk'[[kind |-> k, hash |-> h]] = None
             PROVE  Storing(p, [kind |-> k, hash |-> h])'
  BY DEF EveryResultStored
<1> DEFINE o == [kind |-> k, hash |-> h]
<1>1. o \in Objects
  BY DEF Objects
<1>2. CASE lru[p][k][h] # None /\ lru'[p][k][h].value = lru[p][k][h].value
  <2>1. disk[o] = None
    BY <1>1
  <2>2. Storing(p, o)
    BY <1>2, <2>1 DEF EveryResultStored
  <2>3. PICK u \in Threads :
          ProcOf[u] = p /\ req[u] = o /\ pc[u] \in {"mkstemp", "write"}
    BY <2>2 DEF Storing
  <2>4. pc'[u] \in {"mkstemp", "write"} /\ req'[u] = o
    BY <2>3
  <2> QED  BY <2>3, <2>4 DEF Storing
<1>3. CASE ~(lru[p][k][h] # None /\ lru'[p][k][h].value = lru[p][k][h].value)
  BY <1>3
<1> QED  BY <1>2, <1>3

(* Steps that settle no promise, insert no file and rename nothing.        *)
LEMMA StoredUntouched ==
  ASSUME TypeOK, StoredInv, NEW t \in Threads,
         UNCHANGED disk,
         pc[t] \in {"mkstemp", "write"} =>
           pc'[t] \in {"mkstemp", "write"} /\ req'[t] = req[t],
         pc'[t] \notin {"publish", "unlink"},
         \A u \in Threads \ {t} : pc'[u] = pc[u] /\ req'[u] = req[u],
         \A p \in Procs, k \in Kinds, h \in Hashes :
           \/ lru'[p][k][h] = None
           \/ lru[p][k][h] # None /\ lru'[p][k][h].value = lru[p][k][h].value
           \/ lru'[p][k][h].value.state # "ready"
           \/ disk[[kind |-> k, hash |-> h]] # None
  PROVE  StoredInv'
<1>1. EveryResultStored'
  BY StoredKept DEF StoredInv
<1>2. LoadedFromDisk' /\ NobodyClears'
  BY DEF StoredInv, LoadedFromDisk, NobodyClears
<1> QED  BY <1>1, <1>2 DEF StoredInv

LEMMA StoredStep ==
  ASSUME "io" \notin Faults, "clear_disk" \notin Admin,
         TypeOK, CallsConsistent, FuturesHaveProducers, StoredInv, [Next]_vars
  PROVE  StoredInv'
<1> USE FutureTypes, FutureStates
<1>1. ASSUME NEW t \in Threads,
             \/ Call(t) \/ Enable(t) \/ ListForPreload(t)
             \/ MemMiss(t) \/ LibraryExists(t) \/ DiskMiss(t)
             \/ MakeTemp(t) \/ Write(t) \/ Await(t)
             \/ PreloadLock(t) \/ PreloadTick(t) \/ PreloadDone(t)
      PROVE  StoredInv'
  <2>1. /\ UNCHANGED <<lru, disk>>
        /\ \A u \in Threads \ {t} : pc'[u] = pc[u] /\ req'[u] = req[u]
        /\ pc'[t] \notin {"publish", "unlink"}
        /\ pc[t] \in {"mkstemp", "write"} =>
             pc'[t] \in {"mkstemp", "write"} /\ req'[t] = req[t]
    BY <1>1
    DEF Call, Enable, ListForPreload, MemMiss, LibraryExists, DiskMiss,
        MakeTemp, Write, Await, PreloadLock, PreloadTick, PreloadDone,
        Return, Goto, TypeOK, procVars, diskVars, threadVars,
        StoredInv, NobodyClears
  <2> QED  BY <2>1, StoredUntouched
<1>2. ASSUME NEW t \in Threads, ClearDiskDone(t) \/ Unlink(t) \/ ListForClear(t)
      PROVE  FALSE
  BY <1>2 DEF ClearDiskDone, Unlink, ListForClear, StoredInv, NobodyClears
<1>3. ASSUME NEW t \in Threads, IOThrows(t) PROVE FALSE
  BY <1>3 DEF IOThrows
<1>4. ASSUME NEW t \in Threads, MemHit(t) PROVE StoredInv'
  <2>1. /\ req[t] \in Objects
        /\ pc[t] = "lock" /\ pc'[t] = "wait"
        /\ \A u \in Threads \ {t} : pc'[u] = pc[u]
        /\ UNCHANGED <<disk, req>>
    BY <1>4 DEF MemHit, Goto, TypeOK, CallsConsistent, CallSteps, diskVars
  <2>2. \A q \in Procs, j \in Kinds, g \in Hashes :
          /\ lru'[q][j][g] = None <=> lru[q][j][g] = None
          /\ lru[q][j][g] # None => lru'[q][j][g].value = lru[q][j][g].value
    BY <1>4, <2>1, HitInto
  <2> QED  BY <2>1, <2>2, StoredUntouched
<1>5. ASSUME NEW t \in Threads, OpenBlob(t) PROVE StoredInv'
  <2>1. /\ req[t] \in Objects
        /\ disk[req[t]] \in Content
        /\ pc[t] = "open" /\ pc'[t] = "wait"
        /\ \A u \in Threads \ {t} : pc'[u] = pc[u]
        /\ UNCHANGED <<disk, req>>
    BY <1>5 DEF OpenBlob, Goto, TypeOK, CallsConsistent, CallSteps, FileOf, diskVars
  <2>2. PICK f \in Future : f = Ready(disk[req[t]]) /\ InsertFuture(t, f)
    BY <1>5, <2>1 DEF OpenBlob, FileOf
  <2>3. ASSUME NEW q \in Procs, NEW j \in Kinds, NEW g \in Hashes
        PROVE  \/ lru'[q][j][g] = None
               \/ lru'[q][j][g] = lru[q][j][g]
               \/ req[t] = [kind |-> j, hash |-> g]
    <3>1. req[t] \in Objects /\ InsertFuture(t, f)
      BY <2>1, <2>2
    <3> QED  BY <3>1, InsertFutureInto
  <2>4. disk[req[t]] # None
    BY <1>5 DEF OpenBlob, FileOf
  <2> QED  BY <2>1, <2>3, <2>4, StoredUntouched
<1>6. ASSUME NEW t \in Threads, LoadLibrary(t) \/ Reserve(t) PROVE StoredInv'
  <2>1. /\ req[t] \in Objects
        /\ pc[t] \in {"load", "reserve"} /\ pc'[t] \in {"publish", "compile"}
        /\ pc'[t] = "publish" => disk[req[t]] # None
        /\ \A u \in Threads \ {t} : pc'[u] = pc[u]
        /\ UNCHANGED <<disk, req>>
    BY <1>6
    DEF LoadLibrary, Reserve, Goto, TypeOK, CallsConsistent, CallSteps, FileOf,
        diskVars
  <2>2. PICK f \in Future : f = Pending(t) /\ InsertFuture(t, f)
    BY <1>6 DEF LoadLibrary, Reserve
  <2>3. ASSUME NEW q \in Procs, NEW j \in Kinds, NEW g \in Hashes
        PROVE  \/ lru'[q][j][g] = None
               \/ lru'[q][j][g] = lru[q][j][g]
               \/ /\ q = ProcOf[t] /\ req[t] = [kind |-> j, hash |-> g]
                  /\ lru'[q][j][g].value = f
                  /\ lru'[q][j][g] # None
    <3>1. req[t] \in Objects /\ InsertFuture(t, f)
      BY <2>1, <2>2
    <3> QED  BY <3>1, InsertFutureInto
  <2>4. \A q \in Procs, j \in Kinds, g \in Hashes :
          \/ lru'[q][j][g] = None
          \/ lru'[q][j][g] = lru[q][j][g]
          \/ lru'[q][j][g].value.state # "ready"
    BY <2>2, <2>3
  <2>5. \A u \in Threads :
          pc[u] \in {"mkstemp", "write"} => pc'[u] = pc[u] /\ req'[u] = req[u]
    BY <2>1
  <2>6. EveryResultStored'
    BY <2>1, <2>4, <2>5, StoredKept DEF StoredInv
  <2> QED  BY <2>1, <2>6 DEF StoredInv, LoadedFromDisk, NobodyClears
<1>7. ASSUME NEW t \in Threads, PublishLibrary(t) \/ CompileReturns(t)
      PROVE  StoredInv'
  <2>1. PICK f \in Future : SettleTables(t, f)
    BY <1>7 DEF PublishLibrary, CompileReturns, CallsConsistent, CallSteps
  <2>2. /\ \A u \in Threads \ {t} : pc'[u] = pc[u]
        /\ \/ pc[t] = "publish" /\ pc'[t] = "wait"
           \/ pc[t] = "compile" /\ pc'[t] = "mkstemp"
        /\ UNCHANGED <<disk, req>>
    BY <1>7 DEF PublishLibrary, CompileReturns, StoreResult, Goto, TypeOK, diskVars
  <2>3. ASSUME NEW q \in Procs, NEW j \in Kinds, NEW g \in Hashes
        PROVE  \/ lru'[q][j][g] = None
               \/ lru[q][j][g] # None /\ lru'[q][j][g].value = lru[q][j][g].value
               \/ disk[[kind |-> j, hash |-> g]] # None
               \/ Storing(q, [kind |-> j, hash |-> g])'
    <3>1. /\ lru'[q][j][g] = None <=> lru[q][j][g] = None
          /\ lru[q][j][g] # None =>
               lru'[q][j][g].value = Settle(lru[q][j][g].value, t, f)
      BY <2>1, SettleInto
    <3>2. ASSUME lru[q][j][g] # None, lru[q][j][g].value = Pending(t)
          PROVE  ProcOf[t] = q /\ req[t] = [kind |-> j, hash |-> g]
      BY <3>2 DEF FuturesHaveProducers, EntriesProduced, Produced
    <3>3. CASE pc[t] = "publish"
      BY <3>1, <3>2, <3>3 DEF Settle, StoredInv, LoadedFromDisk
    <3>4. CASE pc[t] = "compile"
      BY <2>2, <3>1, <3>2, <3>4 DEF Settle, Storing
    <3> QED  BY <2>2, <3>3, <3>4
  <2>4. EveryResultStored'
    BY <2>2, <2>3, StoredKept DEF StoredInv
  <2> QED  BY <2>2, <2>4 DEF StoredInv, LoadedFromDisk, NobodyClears
<1>8. ASSUME NEW t \in Threads, CompileThrows(t) PROVE StoredInv'
  <2>1. /\ SettleTables(t, Broken)
        /\ pc[t] = "compile" /\ pc'[t] = "idle"
        /\ \A u \in Threads \ {t} : pc'[u] = pc[u] /\ req'[u] = req[u]
        /\ UNCHANGED disk
    BY <1>8 DEF CompileThrows, ExceptionOutcome, Return, Goto, TypeOK, diskVars
  <2>2. \A q \in Procs, j \in Kinds, g \in Hashes :
          /\ lru'[q][j][g] = None <=> lru[q][j][g] = None
          /\ lru[q][j][g] # None =>
               lru'[q][j][g].value = Settle(lru[q][j][g].value, t, Broken)
    BY <2>1, SettleInto
  <2>3. \A q \in Procs, j \in Kinds, g \in Hashes :
          \/ lru'[q][j][g] = None
          \/ lru[q][j][g] # None /\ lru'[q][j][g].value = lru[q][j][g].value
          \/ lru'[q][j][g].value.state # "ready"
    BY <2>2 DEF Settle
  <2> QED  BY <2>1, <2>3, StoredUntouched
<1>9. ASSUME NEW t \in Threads, Rename(t) PROVE StoredInv'
  <2>1. /\ \A u \in Threads \ {t} : pc'[u] = pc[u]
        /\ pc'[t] = "wait"
        /\ req[t] \in Objects /\ tmp[t] \in Content
        /\ UNCHANGED <<lru, req>>
    BY <1>9 DEF Rename, Goto, TypeOK, CallsConsistent, CallSteps, procVars
  <2>2. /\ disk'[req[t]] # None
        /\ \A o \in Objects : disk[o] # None => disk'[o] # None
    BY <1>9, <2>1, NoneAssumption DEF Rename, FileOf, TypeOK
  <2>3. EveryResultStored'
    BY <2>1, <2>2, StoredKept DEF StoredInv
  <2>4. LoadedFromDisk' /\ NobodyClears'
    BY <2>1, <2>2 DEF StoredInv, LoadedFromDisk, NobodyClears, CallsConsistent, CallSteps
  <2> QED  BY <2>3, <2>4 DEF StoredInv
<1>10. ASSUME NEW t \in Threads, ClearMemory(t) PROVE StoredInv'
  <2>1. /\ UNCHANGED <<disk, pc, req>>
        /\ pc[t] = "idle"
        /\ \A q \in Procs, j \in Kinds, g \in Hashes :
             lru'[q][j][g] = None \/ lru'[q][j][g] = lru[q][j][g]
    BY <1>10 DEF ClearMemory, EmptyTable, TypeOK, diskVars, threadVars
  <2> QED  BY <2>1, StoredUntouched
<1>11. ASSUME NEW t \in Threads, PreloadFile(t) PROVE StoredInv'
  <2>1. UNCHANGED <<disk, pc, req>> /\ pc[t] = "pload"
    BY <1>11 DEF PreloadFile, diskVars
  <2>2. \A q \in Procs, j \in Kinds, g \in Hashes :
          \/ lru'[q][j][g] = None
          \/ lru'[q][j][g] = lru[q][j][g]
          \/ disk[[kind |-> j, hash |-> g]] # None
    BY <1>11, PreloadFileInto
  <2> QED  BY <2>1, <2>2, StoredUntouched
<1>12. ASSUME NEW p \in Procs, Crash(p) PROVE StoredInv'
  <2>1. /\ UNCHANGED disk
        /\ \A q \in Procs, j \in Kinds, g \in Hashes :
             lru'[q][j][g] = None \/ (q # p /\ lru'[q][j][g] = lru[q][j][g])
        /\ \A j \in Kinds, g \in Hashes : lru'[p][j][g] = None
        /\ \A u \in Threads :
             \/ ProcOf[u] = p /\ pc'[u] = "idle"
             \/ pc'[u] = pc[u] /\ req'[u] = req[u]
    BY <1>12 DEF Crash, Mine, EmptyTable, TypeOK
  <2>2. EveryResultStored'
    BY <2>1, StoredKept DEF StoredInv
  <2> QED  BY <2>1, <2>2 DEF StoredInv, LoadedFromDisk, NobodyClears
<1>13. ASSUME UNCHANGED vars PROVE StoredInv'
  BY <1>13
  DEF StoredInv, EveryResultStored, Storing, LoadedFromDisk, NobodyClears,
      vars, procVars, diskVars, threadVars
<1> QED
  BY <1>1, <1>2, <1>3, <1>4, <1>5, <1>6, <1>7, <1>8, <1>9, <1>10, <1>11, <1>12,
     <1>13
  DEF Next, Begin, Advance, EndCompile, Quiescent

(* Where system calls do not fail and nobody clears the directory, what is *)
(* ready in memory is on disk or being written by a thread of the process: *)
(* no eviction, clear_memory_store or death after a call has returned ever *)
(* costs a second compile (get_or_add with cache_blob_to_disk).            *)
THEOREM Stored ==
  ASSUME "io" \notin Faults, "clear_disk" \notin Admin
  PROVE  Spec => []EveryResultStored
<1>1. Init => StoredInv
  BY DEF Init, StoredInv, EveryResultStored, LoadedFromDisk, NobodyClears, EmptyTable
<1>2. TypeOK /\ CallsConsistent /\ FuturesHaveProducers /\ StoredInv /\ [Next]_vars
        => StoredInv'
  BY StoredStep
<1>3. StoredInv => EveryResultStored
  BY DEF StoredInv
<1> QED  BY <1>1, <1>2, <1>3, TypeCorrect, Producers, PTL DEF Spec

-----------------------------------------------------------------------------
(* Nobody compiles what another thread of the process is compiling.        *)

(* The steps at which a thread is in the section under the mutex. *)
Looking == {"open", "exists", "load", "reserve"}
Holding == Looking \cup {"ptick", "pload"}

(* The mutex of a process is held by whoever is in the section, and by no  *)
(* other thread.                                                           *)
MutexHeld == \A t \in Threads : pc[t] \in Holding <=> lock[ProcOf[t]] = t

LEMMA MutexStep ==
  ASSUME TypeOK, MutexHeld, [Next]_vars
  PROVE  MutexHeld'
<1> USE CacheAssumption, NoneAssumption
<1>1. ASSUME NEW t \in Threads,
             \/ Call(t) \/ MemHit(t) \/ LibraryExists(t) \/ DiskMiss(t)
             \/ PublishLibrary(t) \/ CompileReturns(t) \/ CompileThrows(t)
             \/ MakeTemp(t) \/ Rename(t) \/ Await(t)
             \/ ListForClear(t) \/ ClearDiskDone(t) \/ ListForPreload(t)
             \/ PreloadTick(t)
      PROVE  MutexHeld'
  <2>1. /\ UNCHANGED lock
        /\ \A u \in Threads \ {t} : pc'[u] = pc[u]
        /\ pc'[t] \in Holding <=> pc[t] \in Holding
    BY <1>1
    DEF Call, MemHit, LibraryExists, DiskMiss, PublishLibrary, CompileReturns,
        StoreResult, CompileThrows, MakeTemp, Rename, Await, ListForClear,
        ClearDiskDone, ListForPreload, PreloadTick, Return, Goto, TypeOK,
        Holding, Looking, procVars
  <2> QED  BY <2>1 DEF MutexHeld
<1>2. ASSUME NEW t \in Threads, MemMiss(t) \/ PreloadLock(t) PROVE MutexHeld'
  <2>1. /\ lock[ProcOf[t]] = None
        /\ lock' = [lock EXCEPT ![ProcOf[t]] = t]
        /\ pc'[t] \in Holding
        /\ \A u \in Threads \ {t} : pc'[u] = pc[u]
    BY <1>2 DEF MemMiss, PreloadLock, LockFree, Goto, TypeOK, Holding, Looking
  <2>2. \A u \in Threads :
          lock'[ProcOf[u]] = IF ProcOf[u] = ProcOf[t] THEN t ELSE lock[ProcOf[u]]
    BY <2>1 DEF TypeOK
  <2>3. \A u \in Threads : ProcOf[u] = ProcOf[t] => pc[u] \notin Holding
    BY <2>1 DEF MutexHeld
  <2> QED  BY <2>1, <2>2, <2>3 DEF MutexHeld
<1>3. ASSUME NEW t \in Threads,
             OpenBlob(t) \/ LoadLibrary(t) \/ Reserve(t) \/ PreloadDone(t)
      PROVE  MutexHeld'
  <2>1. /\ pc[t] \in Holding
        /\ lock' = [lock EXCEPT ![ProcOf[t]] = None]
        /\ pc'[t] \notin Holding
        /\ \A u \in Threads \ {t} : pc'[u] = pc[u]
    BY <1>3
    DEF OpenBlob, LoadLibrary, Reserve, PreloadDone, Unlock, Return, Goto,
        TypeOK, Holding, Looking
  <2> QED  BY <2>1 DEF MutexHeld, TypeOK
<1>4. ASSUME NEW t \in Threads, IOThrows(t) PROVE MutexHeld'
  <2>1. /\ lock' = [lock EXCEPT ![ProcOf[t]] = IF @ = t THEN None ELSE @]
        /\ pc'[t] \notin Holding
        /\ \A u \in Threads \ {t} : pc'[u] = pc[u]
    BY <1>4 DEF IOThrows, Return, Goto, TypeOK, Holding, Looking
  <2> QED  BY <2>1 DEF MutexHeld, TypeOK
<1>5. ASSUME NEW t \in Threads,
             \/ Write(t) \/ ClearMemory(t) \/ Enable(t) \/ Unlink(t) \/ PreloadFile(t)
      PROVE  MutexHeld'
  BY <1>5
  DEF Write, ClearMemory, Enable, Unlink, PreloadFile, MutexHeld,
      procVars, threadVars
<1>6. ASSUME NEW p \in Procs, Crash(p) PROVE MutexHeld'
  BY <1>6 DEF Crash, Mine, MutexHeld, TypeOK, Holding, Looking
<1>7. ASSUME UNCHANGED vars PROVE MutexHeld'
  BY <1>7 DEF MutexHeld, vars, procVars, threadVars
<1> QED
  BY <1>1, <1>2, <1>3, <1>4, <1>5, <1>6, <1>7
  DEF Next, Begin, Advance, EndCompile, Quiescent

(* The mutex of a cache_t excludes: no two threads of a process are in the *)
(* section between the lookup in memory and the insert, or preload, at the *)
(* same time (lock_ in get_or_add and preload_from_disk).                  *)
THEOREM MutualExclusion == Spec => []MutexHeld
<1>1. Init => MutexHeld
  BY CacheAssumption, NoneAssumption DEF Init, MutexHeld, Holding, Looking
<1>2. TypeOK /\ MutexHeld /\ [Next]_vars => MutexHeld'
  BY MutexStep
<1> QED  BY <1>1, <1>2, TypeCorrect, PTL DEF Spec

(* In a table with room for all: a reservation stays for as long as its    *)
(* compile goes on, and whoever is looking for an object has not found it. *)
Roomy(t) == enabled[ProcOf[t]] /\ Limit[req[t].kind] > Cardinality(Hashes)

Reserved ==
  \A t \in Threads : pc[t] = "compile" /\ Roomy(t) => MyEntry(t) # None

Absent ==
  \A t \in Threads : pc[t] \in Looking /\ Roomy(t) => MyEntry(t) = None

FlightInv == SingleFlight /\ Reserved /\ Absent

(* Steps that take no thread to a compile, nor into the section, and add   *)
(* no entry to a table while a thread of the process is looking.           *)
LEMMA FlightKept ==
  ASSUME CallsConsistent, FlightInv, UNCHANGED enabled,
         \A u \in Threads :
           \/ pc'[u] \notin Looking \cup {"compile"}
           \/ /\ pc'[u] = pc[u] \/ (pc[u] \in Looking /\ pc'[u] \in Looking)
              /\ req'[u] = req[u]
              /\ \A k \in Kinds, h \in Hashes :
                   req[u] = [kind |-> k, hash |-> h] /\ Roomy(u) =>
                     (lru'[ProcOf[u]][k][h] = None <=> lru[ProcOf[u]][k][h] = None)
  PROVE  FlightInv'
<1>1. \A u \in Threads : pc'[u] \in Looking \cup {"compile"} =>
        /\ pc[u] \in Looking \cup {"compile"}
        /\ pc'[u] = "compile" <=> pc[u] = "compile"
        /\ req'[u] = req[u]
        /\ Roomy(u)' <=> Roomy(u)
        /\ Roomy(u) => (MyEntry(u)' = None <=> MyEntry(u) = None)
  <2> SUFFICES ASSUME NEW u \in Threads, pc'[u] \in Looking \cup {"compile"}
               PROVE  /\ pc[u] \in Looking \cup {"compile"}
                      /\ pc'[u] = "compile" <=> pc[u] = "compile"
                      /\ req'[u] = req[u]
                      /\ Roomy(u)' <=> Roomy(u)
                      /\ Roomy(u) => (MyEntry(u)' = None <=> MyEntry(u) = None)
    OBVIOUS
  <2>1. /\ pc[u] \in Looking \cup {"compile"}
        /\ pc'[u] = "compile" <=> pc[u] = "compile"
        /\ req'[u] = req[u]
    BY DEF Looking
  <2>2. req[u] \in Objects
    BY <2>1 DEF CallsConsistent, CallSteps, Looking
  <2>3. PICK k \in Kinds, h \in Hashes : req[u] = [kind |-> k, hash |-> h]
    BY <2>2 DEF Objects
  <2>4. Roomy(u)' <=> Roomy(u)
    BY <2>1 DEF Roomy
  <2>5. Roomy(u) => (lru'[ProcOf[u]][k][h] = None <=> lru[ProcOf[u]][k][h] = None)
    BY <2>3
  <2>6. Roomy(u) => (MyEntry(u)' = None <=> MyEntry(u) = None)
    BY <2>1, <2>3, <2>5 DEF MyEntry, Table
  <2> QED  BY <2>1, <2>4, <2>6
<1>2. Reserved' /\ Absent'
  BY <1>1 DEF FlightInv, Reserved, Absent, Looking
<1>3. SingleFlight'
  BY <1>1 DEF FlightInv, SingleFlight, Looking
<1> QED  BY <1>2, <1>3 DEF FlightInv

(* An insert where there is room for all adds its own entry, unless there  *)
(* is one, and disturbs nothing else.                                      *)
LEMMA InsertWithRoomInto ==
  ASSUME TypeOK,
         NEW p \in Procs, NEW k \in Kinds, NEW h \in Hashes, NEW e \in Entry,
         NEW F \in Insert(lru[p][k], h, e, Limit[k]),
         lru' = [lru EXCEPT ![p][k] = F]
  PROVE  \A q \in Procs, j \in Kinds, g \in Hashes :
           Limit[j] > Cardinality(Hashes) =>
             /\ lru[q][j][g] # None => lru'[q][j][g] # None
             /\ ~(q = p /\ j = k /\ g = h) => lru'[q][j][g] = lru[q][j][g]
             /\ q = p /\ j = k /\ g = h => lru'[q][j][g] # None
<1> SUFFICES ASSUME NEW q \in Procs, NEW j \in Kinds, NEW g \in Hashes,
                    Limit[j] > Cardinality(Hashes)
             PROVE  /\ lru[q][j][g] # None => lru'[q][j][g] # None
                    /\ ~(q = p /\ j = k /\ g = h) => lru'[q][j][g] = lru[q][j][g]
                    /\ q = p /\ j = k /\ g = h => lru'[q][j][g] # None
  OBVIOUS
<1>1. lru[p][k] \in [Hashes -> Entry \cup {None}]
  BY DEF TypeOK
<1>2. \/ q = p /\ j = k /\ lru'[q][j] = F
      \/ ~(q = p /\ j = k) /\ lru'[q][j] = lru[q][j]
  BY DEF TypeOK
<1>3. e # None /\ Limit[j] \in Nat
  BY NoneAssumption, CacheAssumption
<1>4. CASE q = p /\ j = k
  <2> DEFINE E == lru[p][k]
             limit == Limit[k]
  <2>1. limit \in Nat /\ limit > Cardinality(Hashes) /\ F \in Insert(E, h, e, limit)
    BY <1>3, <1>4
  <2> HIDE DEF E, limit
  <2>2. F = Emplace(E, h, e)
    BY <2>1, InsertWithRoom
  <2>3. F = Emplace(lru[p][k], h, e)
    BY <2>2 DEF E
  <2> QED  BY <1>1, <1>2, <1>3, <1>4, <2>3 DEF Emplace
<1>5. CASE ~(q = p /\ j = k)
  BY <1>2, <1>5
<1> QED  BY <1>4, <1>5

(* Nor does a preload, there. *)
LEMMA PreloadFileRoom ==
  ASSUME TypeOK, NEW t \in Threads, PreloadFile(t)
  PROVE  \A q \in Procs, j \in Kinds, g \in Hashes :
           Limit[j] > Cardinality(Hashes) =>
             /\ lru[q][j][g] # None => lru'[q][j][g] # None
             /\ q # ProcOf[t] => lru'[q][j][g] = lru[q][j][g]
<1> DEFINE p == ProcOf[t]
           Inserted(k, h, e, F) ==
             F \in Insert(lru[p][k], h, e, Limit[k]) /\ lru' = [lru EXCEPT ![p][k] = F]
<1>1. p \in Procs
  BY CacheAssumption
<1>2. \/ UNCHANGED lru
      \/ \E k \in Kinds, h \in Hashes, e \in Entry : \E F : Inserted(k, h, e, F)
  <2> SUFFICES ASSUME ~UNCHANGED lru
               PROVE  \E k \in Kinds, h \in Hashes, e \in Entry :
                        \E F : Inserted(k, h, e, F)
    OBVIOUS
  <2>1. PICK o \in todo[t], now \in {mytick[t], tick[p]} :
          /\ disk[o] # None
          /\ \E E \in Insert(lru[p][o.kind], o.hash,
                             [last_touched_tick |-> now, value |-> Ready(disk[o])],
                             Limit[o.kind]) :
               lru' = [lru EXCEPT ![p][o.kind] = E]
    BY DEF PreloadFile
  <2>2. o \in Objects /\ now \in Nat /\ disk[o] \in Content
    BY <1>1, <2>1 DEF TypeOK
  <2>3. o.kind \in Kinds /\ o.hash \in Hashes
    BY <2>2 DEF Objects
  <2>4. [last_touched_tick |-> now, value |-> Ready(disk[o])] \in Entry
    BY <2>2, FutureTypes, EntryTypes
  <2> QED  BY <2>1, <2>3, <2>4
<1>3. ASSUME NEW k \in Kinds, NEW h \in Hashes, NEW e \in Entry,
             NEW F, Inserted(k, h, e, F)
      PROVE  \A q \in Procs, j \in Kinds, g \in Hashes :
               Limit[j] > Cardinality(Hashes) =>
                 /\ lru[q][j][g] # None => lru'[q][j][g] # None
                 /\ q # p => lru'[q][j][g] = lru[q][j][g]
  <2>1. F \in Insert(lru[p][k], h, e, Limit[k]) /\ lru' = [lru EXCEPT ![p][k] = F]
    BY <1>3
  <2> HIDE DEF p, Inserted
  <2>2. \A q \in Procs, j \in Kinds, g \in Hashes :
          Limit[j] > Cardinality(Hashes) =>
            /\ lru[q][j][g] # None => lru'[q][j][g] # None
            /\ ~(q = p /\ j = k /\ g = h) => lru'[q][j][g] = lru[q][j][g]
            /\ q = p /\ j = k /\ g = h => lru'[q][j][g] # None
    BY <1>1, <2>1, InsertWithRoomInto
  <2> QED  BY <2>2
<1>4. CASE UNCHANGED lru
  BY <1>4
<1> HIDE DEF Inserted
<1> QED  BY <1>2, <1>3, <1>4

(* The insert that ends a section: of the threads of the process, only the *)
(* one that inserts was looking.                                           *)
LEMMA FlightInsert ==
  ASSUME TypeOK, CallsConsistent, MutexHeld, FlightInv,
         NEW t \in Threads, NEW f \in Future, InsertFuture(t, f),
         pc[t] \in Looking, pc'[t] \notin Looking,
         UNCHANGED <<enabled, req>>,
         \A u \in Threads \ {t} : pc'[u] = pc[u]
  PROVE  FlightInv'
<1> DEFINE p == ProcOf[t]
           k == req[t].kind
           h == req[t].hash
           e == [last_touched_tick |-> mytick[t], value |-> f]
<1>1. req[t] \in Objects /\ \A u \in Threads : pc[u] = "compile" => req[u] \in Objects
  BY DEF CallsConsistent, CallSteps, Looking
<1>2. p \in Procs /\ k \in Kinds /\ h \in Hashes /\ req[t] = [kind |-> k, hash |-> h]
  BY <1>1, CacheAssumption DEF Objects
<1>3. e \in Entry
  BY EntryTypes DEF TypeOK
<1>4. PICK F \in Insert(lru[p][k], h, e, Limit[k]) : lru' = [lru EXCEPT ![p][k] = F]
  BY DEF InsertFuture, Table
<1> HIDE DEF e, h, k, p
<1>5. \A q \in Procs, j \in Kinds, g \in Hashes :
        Limit[j] > Cardinality(Hashes) =>
          /\ lru[q][j][g] # None => lru'[q][j][g] # None
          /\ ~(q = p /\ j = k /\ g = h) => lru'[q][j][g] = lru[q][j][g]
          /\ q = p /\ j = k /\ g = h => lru'[q][j][g] # None
  BY <1>2, <1>3, <1>4, InsertWithRoomInto
<1> USE DEF h, k, p
<1>6. ASSUME NEW u \in Threads, req[u] \in Objects, Roomy(u)
      PROVE  /\ MyEntry(u) # None => MyEntry(u)' # None
             /\ ~(ProcOf[u] = p /\ req[u] = req[t]) => MyEntry(u)' = MyEntry(u)
             /\ ProcOf[u] = p /\ req[u] = req[t] => MyEntry(u)' # None
  <2>1. PICK j \in Kinds, g \in Hashes : req[u] = [kind |-> j, hash |-> g]
    BY <1>6 DEF Objects
  <2>2. ProcOf[u] \in Procs /\ Limit[j] > Cardinality(Hashes)
    BY <1>6, <2>1, CacheAssumption DEF Roomy
  <2>3. /\ lru[ProcOf[u]][j][g] # None => lru'[ProcOf[u]][j][g] # None
        /\ ~(ProcOf[u] = p /\ j = k /\ g = h) =>
             lru'[ProcOf[u]][j][g] = lru[ProcOf[u]][j][g]
        /\ ProcOf[u] = p /\ j = k /\ g = h => lru'[ProcOf[u]][j][g] # None
    BY <1>5, <2>2
  <2> QED  BY <1>2, <2>1, <2>3 DEF MyEntry, Table
<1>7. \A u \in Threads : Roomy(u)' <=> Roomy(u)
  BY DEF Roomy
<1>8. \A u \in Threads : pc[u] \in Looking /\ ProcOf[u] = p => u = t
  BY DEF MutexHeld, Holding
<1>9. Reserved'
  <2> SUFFICES ASSUME NEW u \in Threads, pc'[u] = "compile", Roomy(u)'
               PROVE  MyEntry(u)' # None
    BY DEF Reserved
  <2>1. Roomy(u) /\ req[u] \in Objects
    BY <1>1, <1>7
  <2>2. CASE u = t
    BY <1>6, <2>1, <2>2
  <2>3. CASE u # t
    BY <1>6, <2>1, <2>3 DEF FlightInv, Reserved
  <2> QED  BY <2>2, <2>3
<1>10. Absent'
  <2> SUFFICES ASSUME NEW u \in Threads, pc'[u] \in Looking, Roomy(u)'
               PROVE  MyEntry(u)' = None
    BY DEF Absent
  <2>1. u # t /\ pc[u] \in Looking /\ Roomy(u)
    BY <1>7
  <2>2. req[u] \in Objects
    BY <2>1 DEF CallsConsistent, CallSteps, Looking
  <2> QED  BY <1>6, <1>8, <2>1, <2>2 DEF FlightInv, Absent
<1>11. SingleFlight'
  <2>1. ASSUME NEW u \in Threads, u # t, ProcOf[u] = p, pc[u] = "compile",
               req[u] = req[t], Roomy(t)
        PROVE  FALSE
    <3>1. Roomy(u) /\ MyEntry(u) = MyEntry(t)
      BY <2>1 DEF Roomy, MyEntry, Table
    <3> QED  BY <2>1, <3>1 DEF FlightInv, Reserved, Absent
  <2>2. SUFFICES ASSUME NEW u \in Threads, NEW v \in Threads, u # v,
                        ProcOf[u] = ProcOf[v], pc'[u] = "compile",
                        pc'[v] = "compile", Roomy(u)', req'[u] = req'[v]
                 PROVE  FALSE
    BY DEF SingleFlight, Roomy
  <2>3. Roomy(u) /\ Roomy(v) /\ req[u] = req[v]
    BY <2>2 DEF Roomy
  <2>4. u # t /\ v # t
    BY <2>1, <2>2, <2>3
  <2> QED  BY <2>2, <2>3, <2>4 DEF FlightInv, SingleFlight, Roomy
<1> QED  BY <1>9, <1>10, <1>11 DEF FlightInv

LEMMA FlightStep ==
  ASSUME "clear_memory" \notin Admin, "enable" \notin Admin,
         TypeOK, CallsConsistent, MutexHeld, FlightInv, [Next]_vars
  PROVE  FlightInv'
<1> USE FutureTypes
<1>1. ASSUME NEW t \in Threads,
             \/ Call(t) \/ LibraryExists(t) \/ DiskMiss(t) \/ MakeTemp(t)
             \/ Write(t) \/ Rename(t) \/ IOThrows(t) \/ Await(t)
             \/ ListForClear(t) \/ Unlink(t) \/ ClearDiskDone(t)
             \/ ListForPreload(t) \/ PreloadLock(t) \/ PreloadTick(t)
             \/ PreloadDone(t)
      PROVE  FlightInv'
  <2>1. /\ UNCHANGED <<enabled, lru>>
        /\ \A u \in Threads \ {t} : pc'[u] = pc[u] /\ req'[u] = req[u]
        /\ \/ pc'[t] \notin Looking \cup {"compile"}
           \/ /\ pc'[t] = pc[t] \/ (pc[t] \in Looking /\ pc'[t] \in Looking)
              /\ req'[t] = req[t]
    BY <1>1
    DEF Call, LibraryExists, DiskMiss, MakeTemp, Write, Rename, IOThrows, Await,
        ListForClear, Unlink, ClearDiskDone, ListForPreload, PreloadLock,
        PreloadTick, PreloadDone, Return, Goto, TypeOK, Looking,
        procVars, diskVars, threadVars
  <2> QED  BY <2>1, FlightKept
<1>2. ASSUME NEW t \in Threads, MemHit(t) PROVE FlightInv'
  <2>1. /\ req[t] \in Objects /\ UNCHANGED <<enabled, req>>
        /\ pc'[t] = "wait"
        /\ \A u \in Threads \ {t} : pc'[u] = pc[u]
    BY <1>2 DEF MemHit, Goto, TypeOK, CallsConsistent, CallSteps
  <2>2. \A q \in Procs, j \in Kinds, g \in Hashes :
          lru'[q][j][g] = None <=> lru[q][j][g] = None
    BY <1>2, <2>1, HitInto
  <2> QED  BY <2>1, <2>2, FlightKept, CacheAssumption DEF Looking
<1>3. ASSUME NEW t \in Threads,
             PublishLibrary(t) \/ CompileReturns(t) \/ CompileThrows(t)
      PROVE  FlightInv'
  <2>1. PICK f \in Future : SettleTables(t, f)
    BY <1>3
    DEF PublishLibrary, CompileReturns, CompileThrows, ExceptionOutcome,
        CallsConsistent, CallSteps
  <2>2. \A q \in Procs, j \in Kinds, g \in Hashes :
          lru'[q][j][g] = None <=> lru[q][j][g] = None
    BY <2>1, SettleInto
  <2>3. /\ UNCHANGED enabled
        /\ pc'[t] \in {"wait", "mkstemp", "idle"}
        /\ \A u \in Threads \ {t} : pc'[u] = pc[u] /\ req'[u] = req[u]
    BY <1>3
    DEF PublishLibrary, CompileReturns, StoreResult, CompileThrows, Return,
        Goto, TypeOK
  <2> QED  BY <2>2, <2>3, FlightKept, CacheAssumption DEF Looking
<1>4. ASSUME NEW t \in Threads, MemMiss(t) PROVE FlightInv'
  <2>1. /\ UNCHANGED <<enabled, lru, req>>
        /\ pc'[t] # "compile"
        /\ enabled[ProcOf[t]] => MyEntry(t) = None
        /\ \A u \in Threads \ {t} : pc'[u] = pc[u]
    BY <1>4 DEF MemMiss, Goto, TypeOK
  <2>2. \A u \in Threads :
          (Roomy(u)' <=> Roomy(u)) /\ MyEntry(u)' = MyEntry(u)
    BY <2>1 DEF Roomy, MyEntry, Table
  <2> QED
    BY <2>1, <2>2 DEF FlightInv, SingleFlight, Reserved, Absent, Roomy
<1>5. ASSUME NEW t \in Threads, OpenBlob(t) PROVE FlightInv'
  <2>1. /\ pc[t] = "open" /\ pc'[t] = "wait"
        /\ UNCHANGED <<enabled, req>>
        /\ \A u \in Threads \ {t} : pc'[u] = pc[u]
    BY <1>5 DEF OpenBlob, Goto, TypeOK
  <2>2. PICK f \in Future : InsertFuture(t, f)
    BY <1>5
    DEF OpenBlob, FileOf, TypeOK, CallsConsistent, CallSteps
  <2> QED  BY <2>1, <2>2, FlightInsert DEF Looking
<1>6. ASSUME NEW t \in Threads, LoadLibrary(t) \/ Reserve(t) PROVE FlightInv'
  <2>1. /\ pc[t] \in {"load", "reserve"} /\ pc'[t] \in {"publish", "compile"}
        /\ UNCHANGED <<enabled, req>>
        /\ \A u \in Threads \ {t} : pc'[u] = pc[u]
        /\ InsertFuture(t, Pending(t))
    BY <1>6 DEF LoadLibrary, Reserve, Goto, TypeOK
  <2>2. Pending(t) \in Future
    OBVIOUS
  <2> QED  BY <2>1, <2>2, FlightInsert DEF Looking
<1>7. ASSUME NEW t \in Threads, PreloadFile(t) PROVE FlightInv'
  <2>1. UNCHANGED <<enabled, pc, req>> /\ pc[t] = "pload"
    BY <1>7 DEF PreloadFile
  <2>2. \A u \in Threads : pc[u] \in Looking => ProcOf[u] # ProcOf[t]
    BY <2>1 DEF MutexHeld, Holding, Looking
  <2>3. \A q \in Procs, j \in Kinds, g \in Hashes :
          Limit[j] > Cardinality(Hashes) =>
            /\ lru[q][j][g] # None => lru'[q][j][g] # None
            /\ q # ProcOf[t] => lru'[q][j][g] = lru[q][j][g]
    BY <1>7, PreloadFileRoom
  <2>4. ASSUME NEW u \in Threads, pc[u] \in Looking \cup {"compile"},
               NEW j \in Kinds, NEW g \in Hashes,
               req[u] = [kind |-> j, hash |-> g], Roomy(u)
        PROVE  lru'[ProcOf[u]][j][g] = None <=> lru[ProcOf[u]][j][g] = None
    <3>1. Limit[j] > Cardinality(Hashes) /\ ProcOf[u] \in Procs
      BY <2>4, CacheAssumption DEF Roomy
    <3>2. CASE pc[u] \in Looking
      BY <2>2, <2>3, <3>1, <3>2
    <3>3. CASE pc[u] = "compile"
      <4>1. lru[ProcOf[u]][j][g] # None
        BY <2>4, <3>3 DEF FlightInv, Reserved, MyEntry, Table
      <4> QED  BY <2>3, <3>1, <4>1
    <3> QED  BY <2>4, <3>2, <3>3
  <2> QED  BY <2>1, <2>4, FlightKept
<1>8. ASSUME NEW t \in Threads, ClearMemory(t) \/ Enable(t) PROVE FALSE
  BY <1>8 DEF ClearMemory, Enable
<1>9. ASSUME NEW p \in Procs, Crash(p) PROVE FlightInv'
  <2>1. \A u \in Threads :
          \/ pc'[u] = "idle"
          \/ /\ pc'[u] = pc[u] /\ req'[u] = req[u] /\ ProcOf[u] # p
             /\ enabled'[ProcOf[u]] = enabled[ProcOf[u]]
             /\ lru'[ProcOf[u]] = lru[ProcOf[u]]
    BY <1>9, CacheAssumption DEF Crash, Mine, TypeOK
  <2>2. \A u \in Threads :
          \/ pc'[u] = "idle"
          \/ (Roomy(u)' <=> Roomy(u)) /\ MyEntry(u)' = MyEntry(u)
    BY <2>1 DEF Roomy, MyEntry, Table
  <2> QED
    BY <2>1, <2>2 DEF FlightInv, SingleFlight, Reserved, Absent, Looking
<1>10. ASSUME UNCHANGED vars PROVE FlightInv'
  BY <1>10
  DEF FlightInv, SingleFlight, Reserved, Absent, Roomy, MyEntry, Table,
      vars, procVars, threadVars
<1> QED
  BY <1>1, <1>2, <1>3, <1>4, <1>5, <1>6, <1>7, <1>8, <1>9, <1>10
  DEF Next, Begin, Advance, EndCompile, Quiescent

(* Where the tables have room for all and no maintenance operation takes   *)
(* entries away, no two threads of a process compile the same object at    *)
(* the same time, with files preloaded, compiles that throw, system calls  *)
(* that fail and processes that die meanwhile: whoever comes second finds  *)
(* the reservation of the first (get_or_add).                              *)
THEOREM CompiledOnceAtATime ==
  ASSUME "clear_memory" \notin Admin, "enable" \notin Admin
  PROVE  Spec => []SingleFlight
<1>1. Init => FlightInv
  BY DEF Init, FlightInv, SingleFlight, Reserved, Absent, Looking
<1>2. TypeOK /\ CallsConsistent /\ MutexHeld /\ FlightInv /\ [Next]_vars => FlightInv'
  BY FlightStep
<1>3. FlightInv => SingleFlight
  BY DEF FlightInv
<1> QED  BY <1>1, <1>2, <1>3, TypeCorrect, MutualExclusion, PTL DEF Spec

-----------------------------------------------------------------------------
(* The cache is a memo.                                                    *)

(* What a thread has at hand at each step of its call, beyond its type. *)
CallsMatched ==
  \A t \in Threads :
    /\ pc[t] \notin CallSteps => req[t] = None
    /\ pc[t] \in {"compile", "publish"} => held[t] = Pending(t)
    /\ pc[t] \in {"mkstemp", "write"} => held[t] = Ready(Whole(req[t]))
    /\ pc[t] = "wait" => held[t] # None
    /\ pc[t] = "unlink" => "clear_disk" \in Admin

LEMMA SettleOthers ==
  /\ \A t, c : Settle(Pending(t), t, c) = c
  /\ \A t, u, c : t # u => Settle(Pending(u), t, c) = Pending(u)
  /\ \A t, c, d : Settle(Ready(d), t, c) = Ready(d)
BY DEF Settle, Pending, Ready

LEMMA SettledHeld ==
  ASSUME NEW f, f # None, NEW t, NEW c \in Future
  PROVE  Settle(f, t, c) # None
BY NoneAssumption DEF Settle

LEMMA MatchedStep ==
  ASSUME TypeOK, CallsConsistent, CallsMatched, [Next]_vars
  PROVE  CallsMatched'
<1> USE DEF CallsMatched, CallSteps, Goto
<1>1. ASSUME NEW t \in Threads, Call(t) PROVE CallsMatched'
  BY <1>1 DEF TypeOK, Call
<1>2. ASSUME NEW t \in Threads, MemHit(t) PROVE CallsMatched'
  <2>1. MyEntry(t) \in Entry
    BY <1>2, HitInto DEF MemHit, CallsConsistent
  <2>2. MyEntry(t).value # None
    BY <2>1, NoneAssumption DEF Entry
  <2> QED BY <1>2, <2>2 DEF TypeOK, MemHit
<1>3. ASSUME NEW t \in Threads, MemMiss(t) \/ LibraryExists(t) \/ DiskMiss(t)
      PROVE  CallsMatched'
  BY <1>3 DEF TypeOK, MemMiss, LibraryExists, DiskMiss
<1>4. ASSUME NEW t \in Threads, OpenBlob(t) PROVE CallsMatched'
  <2>1. Ready(disk[FileOf(t)]) # None
    <3>1. disk[FileOf(t)] \in Content
      BY <1>4 DEF TypeOK, OpenBlob, CallsConsistent, FileOf
    <3> QED BY <3>1, FutureTypes, NoneAssumption
  <2> QED BY <1>4, <2>1 DEF TypeOK, OpenBlob
<1>5. ASSUME NEW t \in Threads, LoadLibrary(t) \/ Reserve(t) PROVE CallsMatched'
  BY <1>5 DEF TypeOK, LoadLibrary, Reserve
<1>6. ASSUME NEW t \in Threads, PublishLibrary(t) PROVE CallsMatched'
  <2>1. Ready(result[t]) \in Future
    BY <1>6, FutureTypes DEF PublishLibrary, CallsConsistent
  <2>2. Ready(result[t]) # None
    BY <2>1, NoneAssumption
  <2> QED BY <1>6, <2>1, <2>2, SettleOthers, SettledHeld DEF TypeOK, PublishLibrary, SettleHeld
<1>7. ASSUME NEW t \in Threads, CompileReturns(t) PROVE CallsMatched'
  <2>1. Ready(Whole(req[t])) \in Future
    BY <1>7, FutureTypes DEF CompileReturns, CallsConsistent
  <2> QED
    BY <1>7, <2>1, SettleOthers, SettledHeld
    DEF TypeOK, CompileReturns, StoreResult, SettleHeld
<1>8. ASSUME NEW t \in Threads, CompileThrows(t) PROVE CallsMatched'
  <2>1. Broken \in Future
    BY FutureTypes
  <2> QED
    BY <1>8, <2>1, SettleOthers, SettledHeld
    DEF TypeOK, CompileThrows, ExceptionOutcome, Return, SettleHeld
<1>9. ASSUME NEW t \in Threads, MakeTemp(t) \/ Write(t) \/ Rename(t)
      PROVE  CallsMatched'
  <2>1. CASE MakeTemp(t)
    BY <1>9, <2>1 DEF TypeOK, MakeTemp
  <2>2. CASE Write(t)
    BY <1>9, <2>2 DEF Write, threadVars
  <2>3. CASE Rename(t)
    <3>1. held[t] # None
      BY <2>3, FutureTypes, NoneAssumption DEF Rename, CallsConsistent
    <3> QED BY <2>3, <3>1 DEF TypeOK, Rename
  <2> QED BY <1>9, <2>1, <2>2, <2>3
<1>10. ASSUME NEW t \in Threads, IOThrows(t) \/ Await(t) PROVE CallsMatched'
  BY <1>10 DEF TypeOK, IOThrows, Await, Return
<1>11. ASSUME NEW t \in Threads, ClearMemory(t) \/ Enable(t) PROVE CallsMatched'
  BY <1>11 DEF ClearMemory, Enable, threadVars
<1>12. ASSUME NEW t \in Threads, ListForClear(t) \/ Unlink(t) \/ ClearDiskDone(t)
       PROVE  CallsMatched'
  BY <1>12 DEF TypeOK, ListForClear, Unlink, ClearDiskDone, Return
<1>13. ASSUME NEW t \in Threads,
              \/ ListForPreload(t) \/ PreloadLock(t) \/ PreloadTick(t)
              \/ PreloadFile(t) \/ PreloadDone(t)
       PROVE  CallsMatched'
  BY <1>13 DEF TypeOK, ListForPreload, PreloadLock, PreloadTick, PreloadFile,
               PreloadDone, Return
<1>14. ASSUME NEW p \in Procs, Crash(p) PROVE CallsMatched'
  BY <1>14 DEF TypeOK, Crash, Mine
<1>15. ASSUME UNCHANGED vars PROVE CallsMatched'
  BY <1>15 DEF vars, threadVars
<1> QED
  BY <1>1, <1>2, <1>3, <1>4, <1>5, <1>6, <1>7, <1>8, <1>9, <1>10, <1>11,
     <1>12, <1>13, <1>14, <1>15
  DEF Next, Begin, Advance, EndCompile, Quiescent

THEOREM Matched == Spec => []CallsMatched
<1>1. Init => CallsMatched
  BY DEF Init, CallsMatched, CallSteps
<1>2. TypeOK /\ CallsConsistent /\ CallsMatched /\ [Next]_vars => CallsMatched'
  BY MatchedStep
<1> QED  BY <1>1, <1>2, TypeCorrect, PTL DEF Spec

(* An outcome is not None. *)
LEMMA OutcomeTypes ==
  ASSUME NEW o \in Objects, NEW v \in Content \cup {None}
  PROVE  /\ Outcome(o, v) # None
         /\ Outcome(o, v).obj = o
BY OutcomeAssumption DEF Outcome

LEMMA AbstractOutcomes ==
  ASSUME NEW o \in Objects
  PROVE  /\ Memo!Made(o) = Outcome(o, Whole(o))
         /\ Memo!Failed(o) = Outcome(o, None)
BY DEF Memo!Made, Memo!Failed, Outcome

(* The entry of the table is the same future as before, or is still none. *)
SameFuture(q, k, h) ==
  /\ lru'[q][k][h] = None <=> lru[q][k][h] = None
  /\ lru[q][k][h] # None => lru'[q][k][h].value = lru[q][k][h].value

(* A thread that is publishing goes on with it, and no other one begins. *)
SamePublisher(u) ==
  /\ pc'[u] = "publish" <=> pc[u] = "publish"
  /\ pc[u] = "publish" => req'[u] = req[u] /\ result'[u] = result[u]

LEMMA SameMemory ==
  ASSUME NEW q \in Procs,
         \A k \in Kinds, h \in Hashes : SameFuture(q, k, h),
         \A u \in Threads : ProcOf[u] = q => SamePublisher(u)
  PROVE  Remembered'[q] = Remembered[q]
<1> DEFINE D == {x \in Objects : /\ lru[q][x.kind][x.hash] # None
                                 /\ lru[q][x.kind][x.hash].value.state # "pending"}
<1>1. \A o \in Objects : o.kind \in Kinds /\ o.hash \in Hashes
  BY DEF Objects
<1>2. D' = D
  BY <1>1 DEF SameFuture
<1>3. \A o \in D : lru'[q][o.kind][o.hash].value.value = lru[q][o.kind][o.hash].value.value
  BY <1>1 DEF SameFuture
<1>4. Settled(q) = {Outcome(o, lru[q][o.kind][o.hash].value.value) : o \in D}
  BY DEF Settled
<1>5. Settled(q)' = {Outcome(o, lru'[q][o.kind][o.hash].value.value) : o \in D'}
  BY DEF Settled
<1> HIDE DEF D
<1>6. Settled(q)' = Settled(q)
  BY <1>2, <1>3, <1>4, <1>5
<1>7. Publishing(q)' = Publishing(q)
  BY DEF Publishing, SamePublisher
<1>8. \A u \in Publishing(q) : req'[u] = req[u] /\ result'[u] = result[u]
  BY DEF Publishing, SamePublisher
<1>9. {Outcome(req[t], result[t]) : t \in Publishing(q)}'
        = {Outcome(req[t], result[t]) : t \in Publishing(q)}
  BY <1>7, <1>8
<1> QED BY <1>6, <1>9 DEF Remembered

LEMMA SameMemories ==
  ASSUME \A q \in Procs, k \in Kinds, h \in Hashes : SameFuture(q, k, h),
         \A u \in Threads : SamePublisher(u)
  PROVE  Remembered' = Remembered
<1>1. ASSUME NEW q \in Procs PROVE Remembered'[q] = Remembered[q]
  BY SameMemory
<1>2. Remembered = [q \in Procs |-> Remembered[q]] /\ Remembered' = [q \in Procs |-> Remembered'[q]]
  BY DEF Remembered
<1> QED BY <1>1, <1>2

(* What process p may be found to remember that it did not. *)
MayRemember(p, new) ==
  /\ \A k \in Kinds, h \in Hashes :
       lru'[p][k][h] # None /\ lru'[p][k][h].value.state # "pending" =>
         \/ lru[p][k][h] # None /\ lru'[p][k][h].value = lru[p][k][h].value
         \/ Outcome([kind |-> k, hash |-> h], lru'[p][k][h].value.value)
              \in Remembered[p] \cup new
  /\ \A u \in Threads :
       ProcOf[u] = p /\ pc'[u] = "publish" =>
         Outcome(req'[u], result'[u]) \in Remembered[p] \cup new

LEMMA MemoryLearns ==
  ASSUME NEW p \in Procs, NEW new,
         \A q \in Procs \ {p}, k \in Kinds, h \in Hashes : SameFuture(q, k, h),
         \A u \in Threads : ProcOf[u] # p => SamePublisher(u),
         MayRemember(p, new)
  PROVE  Memo!Learns(p, new)
<1>1. ASSUME NEW q \in Procs \ {p} PROVE Remembered'[q] = Remembered[q]
  BY SameMemory
<1>2. Settled(p)' \subseteq Remembered[p] \cup new
  <2>1. SUFFICES ASSUME NEW o \in Objects,
                        lru'[p][o.kind][o.hash] # None,
                        lru'[p][o.kind][o.hash].value.state # "pending"
                 PROVE  Outcome(o, lru'[p][o.kind][o.hash].value.value)
                          \in Remembered[p] \cup new
    BY DEF Settled
  <2>2. PICK k \in Kinds, h \in Hashes : o = [kind |-> k, hash |-> h]
    BY DEF Objects
  <2>3. o.kind = k /\ o.hash = h
    BY <2>2
  <2>4. CASE lru[p][k][h] # None /\ lru'[p][k][h].value = lru[p][k][h].value
    BY <2>1, <2>3, <2>4 DEF Remembered, Settled
  <2> QED BY <2>1, <2>2, <2>3, <2>4 DEF MayRemember
<1>3. \A u \in Publishing(p)' : Outcome(req'[u], result'[u]) \in Remembered[p] \cup new
  BY DEF Publishing, MayRemember
<1>4. Remembered'[p] = Settled(p)' \cup {Outcome(req[t], result[t]) : t \in Publishing(p)}'
  BY DEF Remembered
<1>5. Remembered'[p] \subseteq Remembered[p] \cup new
  BY <1>2, <1>3, <1>4
<1>6. Remembered = [q \in Procs |-> Remembered[q]] /\ Remembered' = [q \in Procs |-> Remembered'[q]]
  BY DEF Remembered
<1>7. Remembered' = [Remembered EXCEPT ![p] = Remembered'[p]]
  BY <1>1, <1>6
<1> QED BY <1>5, <1>7 DEF Memo!Learns

(* A step of thread t that leaves the calls of the other threads alone. *)
OthersStay(t) ==
  \A u \in Threads \ {t} :
    pc'[u] = pc[u] /\ req'[u] = req[u] /\ held'[u] = held[u] /\ result'[u] = result[u]

LEMMA ToldOf ==
  ASSUME NEW t \in Threads, OthersStay(t)
  PROVE  /\ \A u \in Threads \ {t} : Told'[u] = Told[u]
         /\ Told'[t] = Told[t] => Told' = Told
         /\ \A x : Told'[t] = x => Told' = [u \in Threads |-> IF u \in {t} THEN x ELSE Told[u]]
<1>1. \A u \in Threads \ {t} : Told'[u] = Told[u]
  BY DEF Told, OthersStay
<1>2. /\ Told = [u \in Threads |-> Told[u]]
      /\ Told' = [u \in Threads |-> Told'[u]]
  BY DEF Told
<1> QED BY <1>1, <1>2

LEMMA SavingOf ==
  ASSUME NEW t \in Threads, OthersStay(t)
  PROVE  /\ pc'[t] \in {"mkstemp", "write"} => Saving' = Saving \cup {t}
         /\ pc'[t] \notin {"mkstemp", "write"} => Saving' = Saving \ {t}
BY DEF Saving, OthersStay

LEMMA ToldAt ==
  ASSUME NEW t \in Threads
  PROVE  /\ pc[t] # "wait" => Told[t] = None
         /\ held[t].state = "pending" => Told[t] = None
         /\ pc[t] = "wait" /\ held[t].state # "pending"
              => Told[t] = Outcome(req[t], held[t].value)
         /\ pc'[t] # "wait" => Told'[t] = None
         /\ held'[t].state = "pending" => Told'[t] = None
         /\ pc'[t] = "wait" /\ held'[t].state # "pending"
              => Told'[t] = Outcome(req'[t], held'[t].value)
BY DEF Told

Abstract == <<disk, Remembered, req, Told, Saving>>

LEMMA TablesStay ==
  ASSUME lru' = lru
  PROVE  \A q \in Procs, k \in Kinds, h \in Hashes : SameFuture(q, k, h)
BY DEF SameFuture

(* A step that a caller does not see. *)
LEMMA Unseen ==
  ASSUME NEW t \in Threads, OthersStay(t),
         disk' = disk, req' = req,
         \A q \in Procs, k \in Kinds, h \in Hashes : SameFuture(q, k, h),
         pc[t] \notin {"publish", "wait"},
         pc'[t] # "publish",
         pc'[t] = "wait" => held'[t].state = "pending",
         pc'[t] \in {"mkstemp", "write"} <=> pc[t] \in {"mkstemp", "write"}
  PROVE  UNCHANGED Abstract
<1>1. Remembered' = Remembered
  <2>1. \A u \in Threads : SamePublisher(u)
    BY DEF OthersStay, SamePublisher
  <2> QED BY <2>1, SameMemories
<1>2. Told[t] = None /\ Told'[t] = None
  BY ToldAt
<1>3. Told' = Told
  BY <1>2, ToldOf
<1>4. Saving' = Saving
  BY DEF Saving, OthersStay
<1> QED BY <1>1, <1>3, <1>4 DEF Abstract

LEMMA UnseenStep ==
  ASSUME TypeOK, CallsMatched, NEW t \in Threads,
         \/ MemMiss(t) \/ LibraryExists(t) \/ DiskMiss(t) \/ MakeTemp(t) \/ Write(t)
         \/ Enable(t) \/ ListForClear(t) \/ ClearDiskDone(t) \/ ListForPreload(t)
         \/ PreloadLock(t) \/ PreloadTick(t) \/ PreloadDone(t)
  PROVE  UNCHANGED Abstract
<1> USE DEF OthersStay, Goto
<1>1. CASE MemMiss(t)
  BY <1>1, TablesStay, Unseen DEF MemMiss, diskVars, TypeOK
<1>2. CASE LibraryExists(t) \/ DiskMiss(t)
  BY <1>2, TablesStay, Unseen DEF LibraryExists, DiskMiss, procVars, diskVars, TypeOK
<1>3. CASE MakeTemp(t)
  BY <1>3, TablesStay, Unseen DEF MakeTemp, procVars, TypeOK
<1>4. CASE Write(t)
  BY <1>4, TablesStay, Unseen DEF Write, procVars, threadVars
<1>5. CASE Enable(t)
  BY <1>5, TablesStay, Unseen DEF Enable, diskVars, threadVars
<1>6. CASE ListForClear(t)
  BY <1>6, TablesStay, Unseen DEF ListForClear, procVars, diskVars, TypeOK
<1>7. CASE ClearDiskDone(t) \/ PreloadDone(t)
  <2>1. req[t] = None /\ req' = [req EXCEPT ![t] = None]
    BY <1>7 DEF ClearDiskDone, PreloadDone, Return, CallsMatched, CallSteps
  <2>2. req' = req
    BY <2>1 DEF TypeOK
  <2> QED
    BY <1>7, <2>2, TablesStay, Unseen
    DEF ClearDiskDone, PreloadDone, Return, procVars, diskVars, TypeOK
<1>8. CASE ListForPreload(t)
  BY <1>8, TablesStay, Unseen DEF ListForPreload, procVars, diskVars, TypeOK
<1>9. CASE PreloadLock(t) \/ PreloadTick(t)
  BY <1>9, TablesStay, Unseen DEF PreloadLock, PreloadTick, diskVars, TypeOK
<1> QED
  BY <1>1, <1>2, <1>3, <1>4, <1>5, <1>6, <1>7, <1>8, <1>9

-----------------------------------------------------------------------------
(* The steps of get_or_add that callers see. *)

(* A thread in a call that has no future yet waits for an outcome. *)
LEMMA Waiting ==
  ASSUME CallsConsistent, NEW t \in Threads,
         pc[t] \in CallSteps \ {"mkstemp", "write"}, Told[t] = None
  PROVE  /\ req[t] \in Objects
         /\ Memo!Waits(t)
         /\ t \in Memo!Waiters(ProcOf[t], req[t])
<1>1. req[t] \in Objects
  BY DEF CallsConsistent
<1>2. req[t] # None
  BY <1>1, NoneAssumption
<1>3. Memo!Waits(t)
  BY <1>2 DEF Memo!Waits, Saving
<1> QED BY <1>1, <1>3 DEF Memo!Waiters

LEMMA CallStep ==
  ASSUME TypeOK, CallsMatched, NEW t \in Threads, Call(t)
  PROVE  Memo!Next
<1>1. PICK o \in Requests : req' = [req EXCEPT ![t] = o]
  BY DEF Call
<1>2. /\ req[t] = None /\ o \in Objects
      /\ OthersStay(t) /\ disk' = disk
      /\ pc[t] = "idle" /\ pc'[t] = "lock" /\ lru' = lru
  BY <1>1, CacheAssumption
  DEF Call, CallsMatched, CallSteps, OthersStay, Goto, TypeOK, diskVars
<1>3. Remembered' = Remembered
  <2>1. \A u \in Threads : SamePublisher(u)
    BY <1>2 DEF OthersStay, SamePublisher
  <2> QED BY <1>2, <2>1, TablesStay, SameMemories
<1>4. Told' = Told
  BY <1>2, ToldAt, ToldOf
<1>5. Saving' = Saving
  BY <1>2, SavingOf DEF Saving
<1>6. Memo!Ask(t, o)
  BY <1>1, <1>2, <1>3, <1>4, <1>5 DEF Memo!Ask
<1> QED BY <1>2, <1>6 DEF Memo!Next

LEMMA MemHitStep ==
  ASSUME TypeOK, CallsConsistent, NEW t \in Threads, MemHit(t)
  PROVE  Memo!Next \/ UNCHANGED Abstract
<1> DEFINE p == ProcOf[t]
           f == MyEntry(t).value
<1>1. /\ req[t] \in Objects /\ p \in Procs /\ pc[t] = "lock" /\ MyEntry(t) # None
      /\ pc'[t] = "wait" /\ held'[t] = f
      /\ OthersStay(t) /\ disk' = disk /\ req' = req /\ result' = result
  BY CacheAssumption
  DEF MemHit, CallsConsistent, CallSteps, OthersStay, Goto, TypeOK, diskVars
<1>2. \A q \in Procs, k \in Kinds, h \in Hashes : SameFuture(q, k, h)
  BY <1>1, HitInto DEF SameFuture
<1>3. CASE f.state = "pending"
  BY <1>1, <1>2, <1>3, Unseen
<1>4. CASE f.state # "pending"
  <2> DEFINE x == Outcome(req[t], f.value)
  <2>1. x \in Remembered[p]
    BY <1>1, <1>4 DEF Remembered, Settled, MyEntry, Table
  <2>2. x.obj = req[t]
    BY DEF Outcome
  <2>3. Told[t] = None /\ Told'[t] = x
    BY <1>1, <1>4, ToldAt
  <2>4. Told' = [u \in Threads |-> IF u \in {t} THEN x ELSE Told[u]]
    BY <1>1, <2>3, ToldOf
  <2>5. t \in Memo!Waiters(p, x.obj)
    BY <1>1, <2>2, <2>3, Waiting DEF CallSteps
  <2>6. Memo!Learns(p, {})
    <3>1. \A u \in Threads : SamePublisher(u)
      BY <1>1 DEF OthersStay, SamePublisher
    <3>2. MayRemember(p, {})
      BY <1>1, <1>2 DEF MayRemember, SameFuture, OthersStay, Remembered, Publishing
    <3> QED BY <1>1, <1>2, <3>1, <3>2, MemoryLearns
  <2>7. Saving' = Saving
    BY <1>1, SavingOf DEF Saving
  <2> HIDE DEF x
  <2>8. Memo!Recall(p)
    BY <1>1, <2>1, <2>4, <2>5, <2>6, <2>7 DEF Memo!Recall, Memo!Tell
  <2> QED BY <1>1, <2>8 DEF Memo!Next
<1> QED BY <1>3, <1>4

(* An insert by thread t of a future for its own object. *)
LEMMA InsertLearns ==
  ASSUME TypeOK, NEW t \in Threads, req[t] \in Objects, NEW f \in Future,
         InsertFuture(t, f), OthersStay(t), NEW new,
         f.state # "pending" => Outcome(req[t], f.value) \in new,
         pc[t] # "publish",
         pc'[t] = "publish" => Outcome(req'[t], result'[t]) \in new
  PROVE  Memo!Learns(ProcOf[t], new)
<1> DEFINE p == ProcOf[t]
<1>1. p \in Procs
  BY CacheAssumption
<1>2. \A q \in Procs \ {p} : lru'[q] = lru[q]
  BY <1>1 DEF InsertFuture, TypeOK
<1>3. \A q \in Procs \ {p}, k \in Kinds, h \in Hashes : SameFuture(q, k, h)
  BY <1>2 DEF SameFuture
<1>4. \A u \in Threads : ProcOf[u] # p => SamePublisher(u)
  BY DEF OthersStay, SamePublisher
<1>5. ASSUME NEW k \in Kinds, NEW h \in Hashes,
             lru'[p][k][h] # None, lru'[p][k][h].value.state # "pending"
      PROVE  \/ lru[p][k][h] # None /\ lru'[p][k][h].value = lru[p][k][h].value
             \/ Outcome([kind |-> k, hash |-> h], lru'[p][k][h].value.value) \in new
  <2>1. \/ lru'[p][k][h] = lru[p][k][h]
        \/ req[t] = [kind |-> k, hash |-> h] /\ lru'[p][k][h].value = f
    BY <1>1, <1>5, InsertFutureInto
  <2> QED BY <1>5, <2>1
<1>6. ASSUME NEW u \in Threads, ProcOf[u] = p, pc'[u] = "publish"
      PROVE  Outcome(req'[u], result'[u]) \in Remembered[p] \cup new
  BY <1>1, <1>6 DEF OthersStay, Remembered, Publishing
<1>7. MayRemember(p, new)
  BY <1>5, <1>6 DEF MayRemember
<1> QED BY <1>1, <1>3, <1>4, <1>7, MemoryLearns

(* What is on disk is what a compile makes. *)
LEMMA FileWhole ==
  ASSUME ContentIntact, NEW o \in Objects, disk[o] # None
  PROVE  disk[o] = Whole(o)
BY DEF ContentIntact, DiskIntact

LEMMA OpenBlobStep ==
  ASSUME TypeOK, CallsConsistent, ContentIntact, NEW t \in Threads, OpenBlob(t)
  PROVE  Memo!Next
<1> DEFINE f == Ready(disk[FileOf(t)])
<1>1. /\ req[t] \in Objects /\ pc[t] = "open" /\ pc'[t] = "wait" /\ held'[t] = f
      /\ disk[req[t]] # None /\ InsertFuture(t, f)
      /\ OthersStay(t) /\ disk' = disk /\ req' = req
  BY DEF OpenBlob, FileOf, CallsConsistent, CallSteps, OthersStay, Goto, TypeOK, diskVars
<1>2. f = Ready(Whole(req[t])) /\ f \in Future
  BY <1>1, FileWhole, FutureTypes DEF FileOf
<1>3. f.state = "ready" /\ f.value = Whole(req[t])
  BY <1>2, FutureStates
<1> HIDE DEF f
<1>4. Memo!Made(req[t]) = Outcome(req[t], f.value)
  BY <1>1, <1>3, AbstractOutcomes
<1>5. Memo!Learns(ProcOf[t], {Memo!Made(req[t])})
  BY <1>1, <1>2, <1>4, InsertLearns
<1>6. Told[t] = None /\ Told'[t] = Memo!Made(req[t])
  BY <1>1, <1>3, <1>4, ToldAt
<1>7. Told' = [u \in Threads |-> IF u \in {t} THEN Memo!Made(req[t]) ELSE Told[u]]
  BY <1>1, <1>6, ToldOf
<1>8. Saving' = Saving
  BY <1>1, SavingOf DEF Saving
<1>9. Memo!Waits(t)
  BY <1>1, <1>6, Waiting DEF CallSteps
<1>10. Memo!Load(t)
  BY <1>1, <1>5, <1>7, <1>8, <1>9 DEF Memo!Load, Memo!Tell
<1> QED BY <1>10 DEF Memo!Next

LEMMA LoadLibraryStep ==
  ASSUME TypeOK, CallsConsistent, ContentIntact, NEW t \in Threads, LoadLibrary(t)
  PROVE  Memo!Next
<1>1. /\ req[t] \in Objects /\ pc[t] = "load" /\ pc'[t] = "publish"
      /\ disk[req[t]] # None /\ InsertFuture(t, Pending(t))
      /\ OthersStay(t) /\ disk' = disk /\ req' = req
      /\ result'[t] = disk[req[t]]
  BY DEF LoadLibrary, FileOf, CallsConsistent, CallSteps, OthersStay, Goto, TypeOK, diskVars
<1>2. Memo!Made(req[t]) = Outcome(req'[t], result'[t])
  BY <1>1, FileWhole, AbstractOutcomes
<1>3. Memo!Learns(ProcOf[t], {Memo!Made(req[t])})
  BY <1>1, <1>2, FutureTypes, FutureStates, InsertLearns
<1>4. Told[t] = None /\ Told' = Told
  BY <1>1, ToldAt, ToldOf
<1>5. Memo!Tell({t}, Memo!Made(req[t]))
  <2>1. PICK S \in SUBSET {t} : S = {}
    OBVIOUS
  <2>2. Told' = [u \in Threads |-> IF u \in S THEN Memo!Made(req[t]) ELSE Told[u]]
    BY <1>4, <2>1 DEF Told
  <2> QED BY <2>2 DEF Memo!Tell
<1>6. Saving' = Saving
  BY <1>1, SavingOf DEF Saving
<1>7. Memo!Waits(t)
  BY <1>1, <1>4, Waiting DEF CallSteps
<1>8. Memo!Load(t)
  BY <1>1, <1>3, <1>5, <1>6, <1>7 DEF Memo!Load
<1> QED BY <1>8 DEF Memo!Next

LEMMA ReserveStep ==
  ASSUME TypeOK, CallsConsistent, NEW t \in Threads, Reserve(t)
  PROVE  Memo!Next
<1>1. /\ req[t] \in Objects /\ pc[t] = "reserve" /\ pc'[t] = "compile"
      /\ InsertFuture(t, Pending(t)) /\ ProcOf[t] \in Procs
      /\ OthersStay(t) /\ disk' = disk /\ req' = req
  BY CacheAssumption
  DEF Reserve, CallsConsistent, CallSteps, OthersStay, Goto, TypeOK, diskVars
<1>2. Memo!Learns(ProcOf[t], {})
  BY <1>1, FutureTypes, FutureStates, InsertLearns
<1>3. Told' = Told
  BY <1>1, ToldAt, ToldOf
<1>4. Saving' = Saving
  BY <1>1, SavingOf DEF Saving
<1>5. Memo!Forget(ProcOf[t])
  BY <1>1, <1>2, <1>3, <1>4 DEF Memo!Forget
<1> QED BY <1>1, <1>5 DEF Memo!Next

(* A promise that thread t sets or destroys: its process learns the        *)
(* outcome, and those who wait for it are told.                            *)
SettledFor(t) == {u \in Threads \ {t} : pc[u] = "wait" /\ held[u] = Pending(t)}

LEMMA SettleLearns ==
  ASSUME TypeOK, FuturesHaveProducers, NEW t \in Threads, NEW f \in Future,
         SettleTables(t, f), f.state # "pending",
         NEW new, Outcome(req[t], f.value) \in Remembered[ProcOf[t]] \cup new,
         pc'[t] # "publish",
         \A u \in Threads \ {t} : pc'[u] = pc[u] /\ req'[u] = req[u] /\ result'[u] = result[u]
  PROVE  Memo!Learns(ProcOf[t], new)
<1> DEFINE p == ProcOf[t]
<1>1. p \in Procs
  BY CacheAssumption
<1>2. \A q \in Procs, k \in Kinds, h \in Hashes :
        /\ lru'[q][k][h] = None <=> lru[q][k][h] = None
        /\ lru[q][k][h] # None =>
             lru'[q][k][h].value = Settle(lru[q][k][h].value, t, f)
  BY SettleInto
<1>3. \A q \in Procs, k \in Kinds, h \in Hashes :
        lru[q][k][h] # None /\ lru[q][k][h].value = Pending(t)
          => q = p /\ req[t] = [kind |-> k, hash |-> h]
  BY FutureStates DEF FuturesHaveProducers, EntriesProduced, Produced
<1>4. \A q \in Procs, k \in Kinds, h \in Hashes :
        lru[q][k][h] # None =>
          \/ lru'[q][k][h].value = lru[q][k][h].value
          \/ q = p /\ req[t] = [kind |-> k, hash |-> h] /\ lru'[q][k][h].value = f
  BY <1>2, <1>3 DEF Settle
<1>5. \A q \in Procs \ {p}, k \in Kinds, h \in Hashes : SameFuture(q, k, h)
  BY <1>2, <1>4 DEF SameFuture
<1>6. \A u \in Threads : ProcOf[u] # p => SamePublisher(u)
  BY DEF SamePublisher
<1>7. ASSUME NEW u \in Threads, ProcOf[u] = p, pc'[u] = "publish"
      PROVE  Outcome(req'[u], result'[u]) \in Remembered[p] \cup new
  BY <1>1, <1>7 DEF Remembered, Publishing
<1>8. MayRemember(p, new)
  BY <1>1, <1>2, <1>4, <1>7 DEF MayRemember
<1> QED BY <1>1, <1>5, <1>6, <1>8, MemoryLearns

LEMMA SettleTells ==
  ASSUME TypeOK, CallsConsistent, FuturesHaveProducers,
         NEW t \in Threads, req[t] \in Objects, NEW f \in Future, f.state # "pending",
         \A u \in Threads \ {t} :
           pc'[u] = pc[u] /\ req'[u] = req[u] /\ held'[u] = Settle(held[u], t, f)
  PROVE  /\ SettledFor(t) \subseteq Memo!Waiters(ProcOf[t], req[t]) \ {t}
         /\ \A u \in Threads \ {t} :
              Told'[u] = IF u \in SettledFor(t) THEN Outcome(req[t], f.value) ELSE Told[u]
<1>1. ASSUME NEW u \in SettledFor(t)
      PROVE  ProcOf[u] = ProcOf[t] /\ req[u] = req[t] /\ Told[u] = None
  <2>1. held[u] # None /\ held[u].state = "pending" /\ held[u].by = t
    <3>1. u \in Threads /\ held[u] = Pending(t) /\ Pending(t) \in Future
      BY <1>1, FutureTypes DEF SettledFor
    <3>2. Pending(t) # None
      BY <3>1, NoneAssumption
    <3> QED BY <3>1, <3>2, FutureStates
  <2>2. ProcOf[u] = ProcOf[t] /\ req[u] = req[t]
    BY <1>1, <2>1 DEF FuturesHaveProducers, HeldProduced, Produced, SettledFor
  <2> QED BY <1>1, <2>1, <2>2, ToldAt DEF SettledFor
<1>2. SettledFor(t) \subseteq Memo!Waiters(ProcOf[t], req[t]) \ {t}
  <2>1. ASSUME NEW u \in SettledFor(t) PROVE u \in Memo!Waiters(ProcOf[t], req[t])
    BY <1>1, Waiting DEF SettledFor, CallSteps
  <2> QED BY <2>1 DEF SettledFor
<1>3. ASSUME NEW u \in SettledFor(t) PROVE Told'[u] = Outcome(req[t], f.value)
  <2>1. u \in Threads /\ pc'[u] = "wait" /\ held'[u] = f /\ req'[u] = req[t]
    BY <1>1 DEF SettledFor, Settle
  <2> QED BY <2>1, ToldAt
<1>4. ASSUME NEW u \in Threads \ {t}, u \notin SettledFor(t) PROVE Told'[u] = Told[u]
  <2>1. CASE pc[u] = "wait"
    <3>1. pc'[u] = pc[u] /\ req'[u] = req[u] /\ held'[u] = held[u]
      BY <1>4, <2>1 DEF SettledFor, Settle
    <3> QED BY <3>1 DEF Told
  <2> QED BY <2>1, ToldAt
<1> QED BY <1>2, <1>3, <1>4

LEMMA PublishStep ==
  ASSUME TypeOK, CallsConsistent, CallsMatched, FuturesHaveProducers,
         NEW t \in Threads, PublishLibrary(t)
  PROVE  Memo!Next
<1> DEFINE p == ProcOf[t]
           f == Ready(result[t])
           x == Outcome(req[t], result[t])
<1>1. /\ req[t] \in Objects /\ p \in Procs /\ result[t] \in Content
      /\ pc[t] = "publish" /\ pc'[t] = "wait"
      /\ held[t] = Pending(t) /\ SettleTables(t, f)
      /\ disk' = disk /\ req' = req
      /\ \A u \in Threads : held'[u] = Settle(held[u], t, f)
      /\ \A u \in Threads \ {t} : pc'[u] = pc[u] /\ result'[u] = result[u]
  BY CacheAssumption
  DEF PublishLibrary, CallsConsistent, CallsMatched, CallSteps, SettleHeld, Goto, TypeOK,
      diskVars
<1>2. f \in Future /\ f.state = "ready" /\ f.value = result[t] /\ held'[t] = f
  BY <1>1, FutureTypes, FutureStates, SettleOthers
<1>3. x \in Remembered[p] /\ x.obj = req[t]
  BY <1>1 DEF Remembered, Publishing, Outcome
<1> HIDE DEF f, x
<1>4. Memo!Learns(p, {})
  <2>1. Outcome(req[t], f.value) \in Remembered[p] \cup {}
    BY <1>2, <1>3 DEF x
  <2> QED BY <1>1, <1>2, <2>1, SettleLearns
<1>5. Told[t] = None /\ Told'[t] = x
  BY <1>1, <1>2, ToldAt DEF x
<1>6. /\ SettledFor(t) \subseteq Memo!Waiters(p, req[t]) \ {t}
      /\ \A u \in Threads \ {t} :
           Told'[u] = IF u \in SettledFor(t) THEN x ELSE Told[u]
  BY <1>1, <1>2, SettleTells DEF x
<1>7. SettledFor(t) \cup {t} \in SUBSET Memo!Waiters(p, x.obj)
  BY <1>1, <1>3, <1>5, <1>6, Waiting DEF CallSteps
<1>8. Told' = [u \in Threads |-> IF u \in SettledFor(t) \cup {t} THEN x ELSE Told[u]]
  BY <1>5, <1>6 DEF Told
<1>9. Saving' = Saving
  BY <1>1 DEF Saving
<1>10. Memo!Recall(p)
  BY <1>1, <1>3, <1>4, <1>7, <1>8, <1>9 DEF Memo!Recall, Memo!Tell
<1> QED BY <1>1, <1>10 DEF Memo!Next

LEMMA CompileReturnsStep ==
  ASSUME TypeOK, CallsConsistent, CallsMatched, FuturesHaveProducers,
         NEW t \in Threads, CompileReturns(t)
  PROVE  Memo!Next
<1> DEFINE p == ProcOf[t]
           f == Ready(Whole(req[t]))
           x == Memo!Made(req[t])
<1>1. /\ req[t] \in Objects /\ p \in Procs
      /\ pc[t] = "compile" /\ pc'[t] = "mkstemp"
      /\ SettleTables(t, f)
      /\ disk' = disk /\ req' = req
      /\ \A u \in Threads : held'[u] = Settle(held[u], t, f)
      /\ \A u \in Threads \ {t} : pc'[u] = pc[u] /\ result'[u] = result[u]
  BY CacheAssumption
  DEF CompileReturns, StoreResult, CallsConsistent, CallSteps, SettleHeld, Goto, TypeOK,
      diskVars
<1>2. f \in Future /\ f.state = "ready" /\ x = Outcome(req[t], f.value)
  BY <1>1, FutureTypes, FutureStates, AbstractOutcomes
<1> HIDE DEF f, x
<1>3. Memo!Learns(p, {x})
  BY <1>1, <1>2, SettleLearns
<1>4. Told[t] = None /\ Told'[t] = None
  BY <1>1, ToldAt
<1>5. /\ SettledFor(t) \subseteq Memo!Waiters(p, req[t]) \ {t}
      /\ \A u \in Threads \ {t} :
           Told'[u] = IF u \in SettledFor(t) THEN x ELSE Told[u]
  BY <1>1, <1>2, SettleTells
<1>6. Told' = [u \in Threads |-> IF u \in SettledFor(t) THEN x ELSE Told[u]]
  BY <1>4, <1>5 DEF Told, SettledFor
<1>7. Memo!Tell(Memo!Waiters(p, req[t]) \ {t}, x)
  BY <1>5, <1>6 DEF Memo!Tell
<1>8. Saving' = Saving \cup {t}
  BY <1>1 DEF Saving
<1>9. Memo!Waits(t)
  BY <1>1, <1>4, Waiting DEF CallSteps
<1>10. Memo!Make(t)
  BY <1>1, <1>3, <1>7, <1>8, <1>9 DEF Memo!Make, x
<1> QED BY <1>10 DEF Memo!Next

LEMMA CompileThrowsStep ==
  ASSUME TypeOK, CallsConsistent, CallsMatched, FuturesHaveProducers,
         NEW t \in Threads, CompileThrows(t)
  PROVE  Memo!Next
<1> DEFINE p == ProcOf[t]
           x == Memo!Failed(req[t])
<1>1. /\ "compile" \in Faults
      /\ req[t] \in Objects /\ p \in Procs
      /\ pc[t] = "compile" /\ pc'[t] = "idle"
      /\ SettleTables(t, Broken)
      /\ disk' = disk /\ req' = [req EXCEPT ![t] = None]
      /\ \A u \in Threads \ {t} :
           /\ pc'[u] = pc[u] /\ req'[u] = req[u] /\ result'[u] = result[u]
           /\ held'[u] = Settle(held[u], t, Broken)
  BY CacheAssumption
  DEF CompileThrows, ExceptionOutcome, Return, CallsConsistent, CallSteps, SettleHeld, Goto,
      TypeOK, diskVars
<1>2. Broken \in Future /\ Broken.state # "pending" /\ x = Outcome(req[t], Broken.value)
  BY <1>1, FutureTypes, FutureStates, AbstractOutcomes DEF Broken
<1> HIDE DEF x
<1>3. Memo!Learns(p, {x})
  BY <1>1, <1>2, SettleLearns
<1>4. Told[t] = None /\ Told'[t] = None
  BY <1>1, ToldAt
<1>5. /\ SettledFor(t) \subseteq Memo!Waiters(p, req[t]) \ {t}
      /\ \A u \in Threads \ {t} :
           Told'[u] = IF u \in SettledFor(t) THEN x ELSE Told[u]
  BY <1>1, <1>2, SettleTells
<1>6. Told' = [u \in Threads |-> IF u \in SettledFor(t) THEN x ELSE Told[u]]
  BY <1>4, <1>5 DEF Told, SettledFor
<1>7. Memo!Tell(Memo!Waiters(p, req[t]) \ {t}, x)
  BY <1>5, <1>6 DEF Memo!Tell
<1>8. Saving' = Saving
  BY <1>1 DEF Saving
<1>9. Memo!Waits(t)
  BY <1>1, <1>4, Waiting DEF CallSteps
<1>10. Memo!Spoil(t)
  BY <1>1, <1>3, <1>7, <1>8, <1>9 DEF Memo!Spoil, x
<1> QED BY <1>10 DEF Memo!Next

(* The tables stay, and nobody begins or ends to publish. *)
LEMMA MemoryStays ==
  ASSUME NEW t \in Threads, OthersStay(t), lru' = lru,
         pc[t] # "publish", pc'[t] # "publish"
  PROVE  Remembered' = Remembered
<1>1. \A u \in Threads : SamePublisher(u)
  BY DEF OthersStay, SamePublisher
<1> QED BY <1>1, TablesStay, SameMemories

LEMMA RenameStep ==
  ASSUME TypeOK, CallsConsistent, CallsMatched, ContentIntact, WorkIntact,
         NEW t \in Threads, Rename(t)
  PROVE  Memo!Next
<1>1. /\ req[t] \in Objects /\ pc[t] = "write" /\ pc'[t] = "wait"
      /\ held[t] = Ready(Whole(req[t])) /\ held' = held /\ req' = req
      /\ OthersStay(t) /\ lru' = lru
  BY DEF Rename, CallsConsistent, CallsMatched, CallSteps, OthersStay, Goto, TypeOK, procVars
<1>2. tmp[t] = Whole(req[t])
  BY <1>1 DEF Rename, Written, CallsConsistent, WorkIntact, Content, Whole
<1>3. disk' = [disk EXCEPT ![req[t]] = Whole(req[t])]
  <2>1. CASE disk' = [disk EXCEPT ![req[t]] = tmp[t]]
    BY <1>2, <2>1
  <2>2. CASE disk[req[t]] # None /\ disk' = disk
    BY <1>1, <2>2, FileWhole DEF TypeOK
  <2> QED BY <2>1, <2>2 DEF Rename, FileOf
<1>4. Remembered' = Remembered
  BY <1>1, MemoryStays
<1>5. Told'[t] = Memo!Made(req[t])
  BY <1>1, ToldAt, FutureStates, AbstractOutcomes
<1>6. Told' = [Told EXCEPT ![t] = Memo!Made(req[t])]
  BY <1>1, <1>5, ToldOf DEF Told
<1>7. Saving' = Saving \ {t} /\ t \in Saving
  BY <1>1, SavingOf DEF Saving
<1>8. Memo!Save(t)
  BY <1>1, <1>3, <1>4, <1>6, <1>7 DEF Memo!Save
<1> QED BY <1>8 DEF Memo!Next

LEMMA IOThrowsStep ==
  ASSUME TypeOK, CallsConsistent, NEW t \in Threads, IOThrows(t)
  PROVE  Memo!Next
<1>1. /\ "io" \in Faults
      /\ pc[t] \in {"open", "exists", "load", "mkstemp", "write"} /\ pc'[t] = "idle"
      /\ OthersStay(t) /\ lru' = lru /\ disk' = disk
      /\ req' = [req EXCEPT ![t] = None]
  BY DEF IOThrows, Return, OthersStay, Goto, TypeOK
<1>2. Remembered' = Remembered
  BY <1>1, MemoryStays
<1>3. Told[t] = None /\ Told' = Told
  BY <1>1, ToldAt, ToldOf
<1>4. Saving' = Saving \ {t}
  BY <1>1, SavingOf
<1>5. Memo!Waits(t) \/ t \in Saving
  BY <1>1, <1>3, Waiting DEF CallSteps, Saving
<1>6. Memo!Abort(t)
  BY <1>1, <1>2, <1>3, <1>4, <1>5 DEF Memo!Abort
<1> QED BY <1>6 DEF Memo!Next

LEMMA AwaitStep ==
  ASSUME TypeOK, CallsConsistent, CallsMatched, NEW t \in Threads, Await(t)
  PROVE  Memo!Next
<1>1. /\ req[t] \in Objects /\ pc[t] = "wait" /\ pc'[t] = "idle"
      /\ held[t].state # "pending" /\ held[t] \in Future
      /\ OthersStay(t) /\ lru' = lru /\ disk' = disk
      /\ req' = [req EXCEPT ![t] = None]
  BY DEF Await, CallsMatched, CallsConsistent, CallSteps, Return, OthersStay, Goto, TypeOK,
         procVars, diskVars
<1>2. held[t].value \in Content \cup {None}
  BY <1>1 DEF Future, Pending, Ready, Broken
<1>3. Told[t] # None
  BY <1>1, <1>2, ToldAt, OutcomeTypes
<1>4. Told' = [Told EXCEPT ![t] = None]
  <2>1. Told'[t] = None
    BY <1>1, ToldAt
  <2>2. Told' = [u \in Threads |-> IF u \in {t} THEN None ELSE Told[u]]
    BY <1>1, <2>1, ToldOf
  <2> QED BY <2>2 DEF Told
<1>5. Remembered' = Remembered
  BY <1>1, MemoryStays
<1>6. Saving' = Saving
  BY <1>1, SavingOf DEF Saving
<1>7. Memo!Take(t)
  BY <1>1, <1>3, <1>4, <1>5, <1>6 DEF Memo!Take
<1> QED BY <1>7 DEF Memo!Next

-----------------------------------------------------------------------------
(* The maintenance operations, and the death of a process. *)

LEMMA ClearMemoryStep ==
  ASSUME TypeOK, NEW t \in Threads, ClearMemory(t)
  PROVE  Memo!Next
<1> DEFINE p == ProcOf[t]
<1>1. /\ p \in Procs
      /\ lru' = [lru EXCEPT ![p] = [k \in Kinds |-> EmptyTable]]
      /\ UNCHANGED <<disk, pc, req, held, result>>
  BY CacheAssumption DEF ClearMemory, diskVars, threadVars
<1>2. \A q \in Procs \ {p}, k \in Kinds, h \in Hashes : SameFuture(q, k, h)
  BY <1>1 DEF SameFuture, TypeOK
<1>3. \A k \in Kinds, h \in Hashes : lru'[p][k][h] = None
  BY <1>1 DEF EmptyTable, TypeOK
<1>4. \A u \in Threads : SamePublisher(u)
  BY <1>1 DEF SamePublisher
<1>5. MayRemember(p, {})
  BY <1>1, <1>3 DEF MayRemember, Remembered, Publishing
<1>6. Memo!Learns(p, {})
  BY <1>1, <1>2, <1>4, <1>5, MemoryLearns
<1>7. Told' = Told /\ Saving' = Saving
  BY <1>1 DEF Told, Saving
<1>8. Memo!Forget(p)
  BY <1>1, <1>6, <1>7 DEF Memo!Forget
<1> QED BY <1>1, <1>8 DEF Memo!Next

(* One file that is preloaded, or that is passed over. *)
LEMMA PreloadFileStep ==
  ASSUME TypeOK, ContentIntact, NEW t \in Threads, PreloadFile(t)
  PROVE  Memo!Next \/ UNCHANGED Abstract
<1> DEFINE p == ProcOf[t]
<1>1. /\ p \in Procs
      /\ pc[t] = "pload" /\ pc' = pc /\ disk' = disk
      /\ OthersStay(t) /\ req' = req /\ held' = held /\ result' = result
  BY CacheAssumption DEF PreloadFile, OthersStay, diskVars
<1>2. CASE lru' = lru
  <2>1. \A q \in Procs, k \in Kinds, h \in Hashes : SameFuture(q, k, h)
    BY <1>2, TablesStay
  <2> QED BY <1>1, <2>1, Unseen
<1>3. CASE lru' # lru
  <2>1. PICK o \in Objects : disk[o] # None /\ LoadsOnly(o, p)
    BY <1>3, PreloadOneFile
  <2>2. \A q \in Procs \ {p}, k \in Kinds, h \in Hashes : SameFuture(q, k, h)
    BY <2>1 DEF SameFuture, LoadsOnly
  <2>3. \A u \in Threads : SamePublisher(u)
    BY <1>1 DEF SamePublisher
  <2>4. Memo!Made(o) = Outcome(o, Ready(disk[o]).value)
    BY <2>1, FileWhole, FutureStates, AbstractOutcomes
  <2>5. MayRemember(p, {Memo!Made(o)})
    <3>1. ASSUME NEW k \in Kinds, NEW h \in Hashes,
                 lru'[p][k][h] # None, lru'[p][k][h].value.state # "pending"
          PROVE  \/ lru[p][k][h] # None /\ lru'[p][k][h].value = lru[p][k][h].value
                 \/ Outcome([kind |-> k, hash |-> h], lru'[p][k][h].value.value)
                      \in {Memo!Made(o)}
      BY <1>1, <2>1, <2>4, <3>1 DEF LoadsOnly
    <3>2. ASSUME NEW u \in Threads, ProcOf[u] = p, pc'[u] = "publish"
          PROVE  Outcome(req'[u], result'[u]) \in Remembered[p]
      BY <1>1, <3>2 DEF Remembered, Publishing
    <3> QED BY <3>1, <3>2 DEF MayRemember
  <2>6. Memo!Learns(p, {Memo!Made(o)})
    BY <1>1, <2>2, <2>3, <2>5, MemoryLearns
  <2>7. Told' = Told /\ Saving' = Saving
    BY <1>1 DEF Told, Saving
  <2>8. Memo!Preload(p)
    BY <1>1, <2>1, <2>6, <2>7 DEF Memo!Preload
  <2> QED BY <1>1, <2>8 DEF Memo!Next
<1> QED BY <1>2, <1>3

LEMMA UnlinkStep ==
  ASSUME TypeOK, CallsMatched, NEW t \in Threads, Unlink(t)
  PROVE  Memo!Next \/ UNCHANGED Abstract
<1>1. /\ pc[t] = "unlink" /\ "clear_disk" \in Admin
      /\ UNCHANGED <<lru, pc, req, held, result>>
      /\ OthersStay(t)
  BY DEF Unlink, CallsMatched, OthersStay, procVars
<1>2. Remembered' = Remembered
  BY <1>1, MemoryStays
<1>3. Told' = Told /\ Saving' = Saving
  BY <1>1 DEF Told, Saving
<1>4. PICK o \in todo[t] : disk' = [disk EXCEPT ![o] = None] \/ disk' = disk
  BY DEF Unlink
<1>5. o \in Objects
  BY DEF TypeOK
<1>6. CASE disk' = [disk EXCEPT ![o] = None]
  <2>1. Memo!Erase(o)
    BY <1>1, <1>2, <1>3, <1>6 DEF Memo!Erase
  <2> QED BY <1>5, <2>1 DEF Memo!Next
<1>7. CASE disk' = disk
  BY <1>1, <1>2, <1>3, <1>7 DEF Abstract
<1> QED BY <1>4, <1>6, <1>7

LEMMA CrashStep ==
  ASSUME TypeOK, NEW p \in Procs, Crash(p)
  PROVE  Memo!Next
<1>1. /\ "crash" \in Faults /\ disk' = disk
      /\ lru' = [lru EXCEPT ![p] = [k \in Kinds |-> EmptyTable]]
      /\ req' = [u \in Threads |-> IF ProcOf[u] = p THEN None ELSE req[u]]
      /\ \A u \in Threads :
           IF ProcOf[u] = p THEN pc'[u] = "idle"
           ELSE /\ pc'[u] = pc[u] /\ req'[u] = req[u]
                /\ held'[u] = held[u] /\ result'[u] = result[u]
  BY DEF Crash, Mine
<1>2. \A q \in Procs \ {p}, k \in Kinds, h \in Hashes : SameFuture(q, k, h)
  BY <1>1 DEF SameFuture, TypeOK
<1>3. \A u \in Threads : ProcOf[u] # p => SamePublisher(u)
  BY <1>1 DEF SamePublisher
<1>4. \A q \in Procs \ {p} : Remembered'[q] = Remembered[q]
  BY <1>2, <1>3, SameMemory
<1>5. Remembered'[p] = {}
  <2>1. \A k \in Kinds, h \in Hashes : lru'[p][k][h] = None
    BY <1>1 DEF EmptyTable, TypeOK
  <2>2. Settled(p)' = {}
    BY <2>1 DEF Settled, Objects
  <2>3. Publishing(p)' = {}
    BY <1>1 DEF Publishing
  <2> QED BY <2>2, <2>3 DEF Remembered
<1>6. Remembered' = [Remembered EXCEPT ![p] = {}]
  BY <1>4, <1>5 DEF Remembered
<1>7. Told' = [u \in Threads |-> IF ProcOf[u] = p THEN None ELSE Told[u]]
  <2>1. ASSUME NEW u \in Threads
        PROVE  Told'[u] = IF ProcOf[u] = p THEN None ELSE Told[u]
    BY <1>1 DEF Told
  <2> QED BY <2>1 DEF Told
<1>8. Saving' = {u \in Saving : ProcOf[u] # p}
  BY <1>1 DEF Saving
<1>9. Memo!Crash(p)
  BY <1>1, <1>6, <1>7, <1>8 DEF Memo!Crash
<1> QED BY <1>9 DEF Memo!Next

LEMMA MemoStep ==
  ASSUME TypeOK, CallsConsistent, CallsMatched, FuturesHaveProducers,
         ContentIntact, WorkIntact, [Next]_vars
  PROVE  Memo!Next \/ UNCHANGED Abstract
<1>1. ASSUME NEW t \in Threads, Begin(t) PROVE Memo!Next \/ UNCHANGED Abstract
  BY <1>1, CallStep, ClearMemoryStep, UnseenStep DEF Begin
<1>2. ASSUME NEW t \in Threads, EndCompile(t) PROVE Memo!Next
  BY <1>2, CompileReturnsStep, CompileThrowsStep DEF EndCompile
<1>3. ASSUME NEW t \in Threads, Advance(t) PROVE Memo!Next \/ UNCHANGED Abstract
  BY <1>3, MemHitStep, OpenBlobStep, LoadLibraryStep, PublishStep, ReserveStep,
     RenameStep, IOThrowsStep, AwaitStep, UnlinkStep, PreloadFileStep, UnseenStep
  DEF Advance
<1>4. ASSUME UNCHANGED vars PROVE UNCHANGED Abstract
  <2>1. UNCHANGED <<lru, disk, pc, req, held, result>>
    BY <1>4 DEF vars, procVars, diskVars, threadVars
  <2>2. Remembered' = Remembered
    <3>1. \A u \in Threads : SamePublisher(u)
      BY <2>1 DEF SamePublisher
    <3> QED BY <2>1, <3>1, TablesStay, SameMemories
  <2>3. Told' = Told /\ Saving' = Saving
    BY <2>1 DEF Told, Saving
  <2> QED BY <2>1, <2>2, <2>3 DEF Abstract
<1>5. ASSUME NEW p \in Procs, Crash(p) PROVE Memo!Next
  BY <1>5, CrashStep
<1> QED BY <1>1, <1>2, <1>3, <1>4, <1>5 DEF Next, Quiescent

LEMMA MemoInit == Init => Memo!Init
<1> SUFFICES ASSUME Init PROVE Memo!Init
  OBVIOUS
<1>1. PICK S \in SUBSET Requests :
        disk = [o \in Objects |-> IF o \in S THEN Whole(o) ELSE None]
  BY DEF Init
<1>2. S \in SUBSET Objects
  BY CacheAssumption
<1>3. disk = [o \in Objects |-> IF o \in S THEN [x \in Objects |-> Whole(x)][o] ELSE None]
  BY <1>1
<1>4. ASSUME NEW p \in Procs PROVE Remembered[p] = {}
  <2>1. \A k \in Kinds, h \in Hashes : lru[p][k][h] = None
    BY DEF Init, EmptyTable
  <2>2. Settled(p) = {}
    BY <2>1 DEF Settled, Objects
  <2>3. Publishing(p) = {}
    BY DEF Publishing, Init
  <2> QED BY <2>2, <2>3 DEF Remembered
<1>5. Remembered = [p \in Procs |-> {}]
  BY <1>4 DEF Remembered
<1>6. Told = [t \in Threads |-> None] /\ Saving = {}
  BY DEF Init, Told, Saving
<1> QED BY <1>2, <1>3, <1>5, <1>6 DEF Init, Memo!Init

(* The cache implements SharedMemo: with any number of processes and       *)
(* threads, under any limits, maintenance operations and faults, a caller  *)
(* is told only what its own living process remembers, what the directory  *)
(* has, or how a compile of its very object ended; and the directory has   *)
(* what was compiled before its compiler goes on (get_or_add_blob,         *)
(* get_or_add_library, cache_blob_to_disk, preload_from_disk).             *)
THEOREM ImplementsSharedMemo == Spec => IsSharedMemo
<1>1. Init => Memo!Init
  BY MemoInit
<1>2. TypeOK /\ CallsConsistent /\ CallsMatched /\ FuturesHaveProducers
        /\ (ContentIntact /\ WorkIntact) /\ [Next]_vars => [Memo!Next]_(Memo!vars)
  BY MemoStep DEF Abstract, Memo!vars
<1> QED
  BY <1>1, <1>2, TypeCorrect, Matched, Producers, IntactWork, PTL
  DEF Spec, IsSharedMemo, Memo!Spec
=============================================================================
