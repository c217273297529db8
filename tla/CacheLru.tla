------------------------------- MODULE CacheLru -------------------------------
(* The eviction policy of the compile cache, stated over the order in      *)
(* which the entries were really used.                                     *)
(*                                                                         *)
(* The code ranks entries by ticks, and a call fetches its tick before it  *)
(* takes the mutex.  This module runs the cache next to a history variable *)
(* that records the uses of each table in the order of the sections under  *)
(* the mutex, and compares every eviction with it.                         *)
EXTENDS Cache

VARIABLE before  \* before[p][k]: <<g, h>> for entries g last used before h

lruVars == <<vars, before>>

LruInit == Init /\ before = [p \in Procs |-> [k \in Kinds |-> {}]]

(* A use is a new entry or a hit: either stamps the entry. *)
Used(E, F) ==
  {h \in Cached(F) :
     E[h] = None \/ E[h].last_touched_tick # F[h].last_touched_tick}

Unused(E, F) == Cached(F) \ Used(E, F)

(* What a table uses comes after all else, what is no longer there drops   *)
(* out.                                                                    *)
Reordered(E, F, order) ==
  (order \cap (Unused(E, F) \X Unused(E, F))) \cup (Unused(E, F) \X Used(E, F))

Record ==
  before' = [p \in Procs |-> [k \in Kinds |->
               Reordered(lru[p][k], lru'[p][k], before[p][k])]]

LruNext == Next /\ Record

LruSpec == LruInit /\ [][LruNext]_lruVars

-----------------------------------------------------------------------------
Gone(E, F) == Cached(E) \ Cached(F)

Staying(E, F) == Cached(E) \cap Unused(E, F)

EvictsOldest(p, k) ==
  Gone(lru[p][k], lru'[p][k]) \X Staying(lru[p][k], lru'[p][k]) \subseteq before[p][k]

(* "When the number of entries exceeds the specified limit, the least      *)
(* recently used half of the entries are purged" (rtcx.hpp,                *)
(* lru_memory_cache): of the entries in a table before a step, none that   *)
(* goes was used after one that stays.  An entry that goes and comes back  *)
(* in the same insert() counts as neither.                                 *)
EvictsLeastRecentlyUsed ==
  [][\A p \in Procs, k \in Kinds : EvictsOldest(p, k)]_lruVars
=============================================================================
