--------------------------- MODULE LruMemoryCache ---------------------------
(* The in-memory table of rtcx: lru_memory_cache<T> of rtcx.hpp.           *)
(*                                                                         *)
(* A table maps each hash to an entry or to None.  An entry is a record    *)
(* with a field last_touched_tick; what else it carries (the field value)  *)
(* is the business of the module that uses the table.  The type provides   *)
(* no synchronisation, so it has operators and no behaviour of its own:    *)
(* Cache serialises the calls.                                             *)
EXTENDS Naturals, FiniteSets

CONSTANTS
  Hashes,  \* the keys (hash128)
  None     \* marks an absent entry

ASSUME HashesAssumption == IsFiniteSet(Hashes)

EmptyTable == [h \in Hashes |-> None]

(* The keys that have an entry: entries_.size() is its cardinality.        *)
Cached(E) == {h \in Hashes : E[h] # None}

(* entry::hit *)
Hit(E, h, now) == [E EXCEPT ![h].last_touched_tick = now]

-----------------------------------------------------------------------------
(* purge() sorts the entries by tick and erases the first half, rounded    *)
(* up.  std::sort is not stable and the hash map has no order, so which of *)
(* two entries with one tick goes first is not determined.                 *)

PurgeCount(n) == (n + 1) \div 2

\* A purge that removes the entries at the other end of the ranking.
VictimSetsMostRecent(E) ==
  {V \in SUBSET Cached(E) :
     /\ Cardinality(V) = PurgeCount(Cardinality(Cached(E)))
     /\ \A v \in V, w \in Cached(E) \ V :
          E[v].last_touched_tick >= E[w].last_touched_tick}

VictimSets(E) ==
  {V \in SUBSET Cached(E) :
     /\ Cardinality(V) = PurgeCount(Cardinality(Cached(E)))
     /\ \A v \in V, w \in Cached(E) \ V :
          E[v].last_touched_tick <= E[w].last_touched_tick}

Erase(E, V) == [h \in Hashes |-> IF h \in V THEN None ELSE E[h]]

(* The tables purge() may leave. *)
Purge(E) == {Erase(E, V) : V \in VictimSets(E)}

-----------------------------------------------------------------------------
(* unordered_map::emplace keeps the entry that is there already. *)
Emplace(E, h, e) == IF E[h] = None THEN [E EXCEPT ![h] = e] ELSE E

\* A table that makes room one insertion too late.
NeedsPurgeLate(E, limit) == Cardinality(Cached(E)) > limit

NeedsPurge(E, limit) == Cardinality(Cached(E)) + 1 > limit

(* The tables insert() may leave. *)
Insert(E, h, e, limit) ==
  IF limit = 0
  THEN {E}
  ELSE {Emplace(F, h, e) :
          F \in IF NeedsPurge(E, limit) THEN Purge(E) ELSE {E}}
=============================================================================
