------------------------------ MODULE CacheStats ------------------------------
(* The statistics of cache_t: eight atomic counters, which calls of        *)
(* get_or_add count up under the mutex, and which get_stats reads and      *)
(* clear_stats resets without it.                                          *)
(*                                                                         *)
(* All these accesses are relaxed: the changes of one counter have an      *)
(* order, but nothing orders the accesses of the observer to different     *)
(* counters, whatever order the code names them in.  Each takes effect at  *)
(* a moment of its own, and in any order.  An observation lasts from       *)
(* before the first of these moments until after the last, which may be    *)
(* longer than the function runs; there is one at a time.                  *)
EXTENDS CacheProperties

CONSTANTS
  Observing,  \* what the observer of each process may do
  Followed    \* bound: the counters at which the observer is followed, which
              \* are all of them in the code

Events == {"mem_hits", "mem_misses", "disk_hits", "disk_misses"}

Counters == Kinds \X Events

ASSUME StatsAssumption ==
  /\ Observing \subseteq {"get", "clear"}
  /\ Followed \subseteq Counters

VARIABLES
  count,    \* count[p][k, e]: the counter of event e for kind k in counter_
  watch,    \* watch[p]: what the observer of process p is doing, and the
            \* counters its accesses to which have yet to take effect
  snap,     \* snap[p]: what get_stats has read so far
  since,    \* since[p][c]: the increments of c since the observation began
  cleared   \* cleared[p]: clear_stats has been called in process p

watchVars == <<watch, snap, cleared>>
statVars == <<count, since, watchVars>>
statsVars == <<vars, statVars>>

ZeroCounters == [c \in Counters |-> 0]

\* The fields with one line of another function copied in place of the last.
FieldsButOne == Followed \ {<<"library", "disk_misses">>}

(* What get_stats returns and clear_stats resets. *)
Fields == Followed

NotWatching == [op |-> "none", todo |-> {}]

StatsInit ==
  /\ Init
  /\ count = [p \in Procs |-> ZeroCounters]
  /\ watch = [p \in Procs |-> NotWatching]
  /\ snap = [p \in Procs |-> ZeroCounters]
  /\ since = [p \in Procs |-> ZeroCounters]
  /\ cleared = [p \in Procs |-> FALSE]

-----------------------------------------------------------------------------
(* The calls count what they find.                                         *)

Watching(p) == watch[p].op # "none"

Incr(t, counter) ==
  LET p == ProcOf[t] IN
  /\ count' = [count EXCEPT ![p][counter] = @ + 1]
  /\ since' = IF Watching(p) THEN [since EXCEPT ![p][counter] = @ + 1] ELSE since

Counter(t, event) == <<req[t].kind, event>>

\* The counter of the function that this one was copied from.
DiskMissesOfBlobs(t) == <<"blob", "disk_misses">>

(* A disabled cache counts a miss on disk without looking there. *)
DiskMisses(t) == Counter(t, "disk_misses")

Count(t) ==
  \/ MemHit(t) /\ Incr(t, Counter(t, "mem_hits"))
  \/ MemMiss(t) /\ Incr(t, Counter(t, "mem_misses"))
  \/ (OpenBlob(t) \/ LoadLibrary(t)) /\ Incr(t, Counter(t, "disk_hits"))
  \/ Reserve(t) /\ Incr(t, DiskMisses(t))

Counting(t) == MemHit(t) \/ MemMiss(t) \/ OpenBlob(t) \/ LoadLibrary(t) \/ Reserve(t)

CountNothing(t) ==
  /\ Begin(t) \/ Advance(t) \/ EndCompile(t)
  /\ ~Counting(t)
  /\ UNCHANGED <<count, since>>

(* A new process counts from zero. *)
CrashStats(p) ==
  /\ Crash(p)
  /\ count' = [count EXCEPT ![p] = ZeroCounters]
  /\ watch' = [watch EXCEPT ![p] = NotWatching]
  /\ snap' = [snap EXCEPT ![p] = ZeroCounters]
  /\ since' = [since EXCEPT ![p] = ZeroCounters]
  /\ cleared' = [cleared EXCEPT ![p] = FALSE]

-----------------------------------------------------------------------------
(* get_stats and clear_stats, called by a thread of their own.             *)

Observe(p) ==
  /\ ~Watching(p)
  /\ \E op \in Observing :
       /\ watch' = [watch EXCEPT ![p] = [op |-> op, todo |-> Fields]]
       /\ cleared' = [cleared EXCEPT ![p] = @ \/ op = "clear"]
  /\ UNCHANGED <<vars, count, snap, since>>

TookEffect(p, c) == watch' = [watch EXCEPT ![p].todo = @ \ {c}]

ReadCounter(p) ==
  /\ watch[p].op = "get"
  /\ \E c \in watch[p].todo :
       /\ snap' = [snap EXCEPT ![p][c] = count[p][c]]
       /\ TookEffect(p, c)
  /\ UNCHANGED <<vars, count, since, cleared>>

ResetCounter(p) ==
  /\ watch[p].op = "clear"
  /\ \E c \in watch[p].todo :
       /\ count' = [count EXCEPT ![p][c] = 0]
       /\ TookEffect(p, c)
  /\ UNCHANGED <<vars, snap, since, cleared>>

Observed(p) == Watching(p) /\ watch[p].todo = {}

(* What has been read is given out, and the next observation may begin. *)
ObservationEnds(p) ==
  /\ Observed(p)
  /\ watch' = [watch EXCEPT ![p] = NotWatching]
  /\ snap' = [snap EXCEPT ![p] = ZeroCounters]
  /\ since' = [since EXCEPT ![p] = ZeroCounters]
  /\ UNCHANGED <<vars, count, cleared>>

StatsNext ==
  \/ \E t \in Threads : (Count(t) \/ CountNothing(t)) /\ UNCHANGED watchVars
  \/ \E p \in Procs : \/ CrashStats(p)
                      \/ Observe(p) \/ ReadCounter(p) \/ ResetCounter(p)
                      \/ ObservationEnds(p)
  \/ Quiescent /\ UNCHANGED statVars

StatsSpec == StatsInit /\ [][StatsNext]_statsVars

-----------------------------------------------------------------------------
(* A thread between its two counters holds the mutex. *)
BetweenCounters == {"open", "exists", "load", "reserve"}

InLookup(p, k) ==
  IF \E t \in Threads : ProcOf[t] = p /\ req[t] # None /\ req[t].kind = k
                        /\ pc[t] \in BetweenCounters
  THEN 1 ELSE 0

OnDisk(c, k) == c[<<k, "disk_hits">>] + c[<<k, "disk_misses">>]

(* Until somebody clears them, the counters tell each call exactly once:   *)
(* every miss in memory is a hit or a miss on disk, but for the one lookup *)
(* that is under way, and hits and misses in memory make up all calls that *)
(* have got past the mutex (counter_.*.incr() in get_or_add).  Checked     *)
(* where system calls do not fail and nothing is preloaded, which advances *)
(* the tick as well.                                                       *)
InMemory(c, k) == c[<<k, "mem_hits">>] + c[<<k, "mem_misses">>]

Queued(p) == {t \in Threads : ProcOf[t] = p /\ pc[t] = "lock"}

StatsAddUp ==
  \A p \in Procs : ~cleared[p] =>
    /\ \A k \in Kinds :
         count[p][<<k, "mem_misses">>] = OnDisk(count[p], k) + InLookup(p, k)
    /\ tick[p] = InMemory(count[p], "blob") + InMemory(count[p], "library")
                 + Cardinality(Queued(p))

(* What get_stats reads and what clear_stats leaves may be states the      *)
(* counters were never in; nothing bounds how far, for an observation may  *)
(* last for any number of calls.  But only what the calls miss meanwhile   *)
(* tears it: of each kind, the misses in memory and the hits and misses on *)
(* disk differ by no more than the misses in memory counted during the     *)
(* observation, and the lookup that was under way when it began            *)
(* (get_stats, clear_stats).  Checked where system calls do not fail.      *)
LookupEvents == {"mem_misses", "disk_hits", "disk_misses"}

StatsTornByMisses ==
  \A p \in Procs, k \in Kinds :
    {k} \X LookupEvents \subseteq Followed /\ Observed(p) =>
      LET overlap == since[p][<<k, "mem_misses">>]
          read == snap[p][<<k, "mem_misses">>]
          left == count[p][<<k, "mem_misses">>]
      IN  /\ watch[p].op = "get" /\ ~cleared[p] =>
               /\ read <= OnDisk(snap[p], k) + overlap + 1
               /\ OnDisk(snap[p], k) <= read + overlap
          /\ watch[p].op = "clear" =>
               /\ left <= OnDisk(count[p], k) + InLookup(p, k) + overlap
               /\ OnDisk(count[p], k) + InLookup(p, k) <= left + overlap + 1
=============================================================================
