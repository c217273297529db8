------------------------------ MODULE SharedMemo ------------------------------
(* What get_or_add promises to its callers: every process remembers how    *)
(* the compiles of its clients ended, all of them share a store of what    *)
(* has been made, and a client is told an outcome for exactly one of these *)
(* reasons: its process remembers it, the store has the object, or it was  *)
(* compiled.  Who has compiled an object puts it into the store before it  *)
(* goes on.  Tables, locks, futures and files are not seen here.           *)
CONSTANTS
  Clients,
  Procs,    \* the processes,
  ProcOf,   \* and that of each client
  Objects,
  Value,    \* Value[o]: what a compile of object o makes
  Admin,    \* the maintenance operations there are
  Faults,   \* what may go wrong
  None

VARIABLES
  store,    \* store[o]: the value of object o, or None
  memory,   \* memory[p]: the outcomes that process p remembers
  want,     \* want[c]: the object client c has asked for, or None
  got,      \* got[c]: the outcome it has been told, or None
  saving    \* the clients that have made an object and have to store it

vars == <<store, memory, want, got, saving>>

Made(o) == [obj |-> o, value |-> Value[o]]
Failed(o) == [obj |-> o, value |-> None]

Init ==
  /\ \E S \in SUBSET Objects :
       store = [o \in Objects |-> IF o \in S THEN Value[o] ELSE None]
  /\ memory = [p \in Procs |-> {}]
  /\ want = [c \in Clients |-> None]
  /\ got = [c \in Clients |-> None]
  /\ saving = {}

-----------------------------------------------------------------------------
(* Process p may forget anything at any time, and learns nothing but these *)
(* outcomes; the other processes remember what they did.                   *)
Learns(p, outcomes) ==
  /\ memory'[p] \subseteq memory[p] \cup outcomes
  /\ memory' = [memory EXCEPT ![p] = memory'[p]]

Waits(c) == want[c] # None /\ got[c] = None /\ c \notin saving

Waiters(p, o) == {c \in Clients : ProcOf[c] = p /\ want[c] = o /\ Waits(c)}

(* Some of the clients S are told the outcome. *)
Tell(S, outcome) ==
  \E told \in SUBSET S :
    got' = [c \in Clients |-> IF c \in told THEN outcome ELSE got[c]]

Ask(c, o) ==
  /\ want[c] = None
  /\ want' = [want EXCEPT ![c] = o]
  /\ UNCHANGED <<store, memory, got, saving>>

Recall(p) ==
  /\ \E outcome \in memory[p] : Tell(Waiters(p, outcome.obj), outcome)
  /\ Learns(p, {})
  /\ UNCHANGED <<store, want, saving>>

(* A library is in memory before its client is told. *)
Load(c) ==
  /\ Waits(c)
  /\ store[want[c]] # None
  /\ Learns(ProcOf[c], {Made(want[c])})
  /\ Tell({c}, Made(want[c]))
  /\ UNCHANGED <<store, want, saving>>

(* The others are told at once, the client itself when it has stored it. *)
Make(c) ==
  /\ Waits(c)
  /\ Learns(ProcOf[c], {Made(want[c])})
  /\ Tell(Waiters(ProcOf[c], want[c]) \ {c}, Made(want[c]))
  /\ saving' = saving \cup {c}
  /\ UNCHANGED <<store, want>>

Save(c) ==
  /\ c \in saving
  /\ store' = [store EXCEPT ![want[c]] = Value[want[c]]]
  /\ got' = [got EXCEPT ![c] = Made(want[c])]
  /\ saving' = saving \ {c}
  /\ UNCHANGED <<memory, want>>

(* The compile fails: the client is sent away, and the others are told. *)
Spoil(c) ==
  /\ "compile" \in Faults
  /\ Waits(c)
  /\ Learns(ProcOf[c], {Failed(want[c])})
  /\ Tell(Waiters(ProcOf[c], want[c]) \ {c}, Failed(want[c]))
  /\ want' = [want EXCEPT ![c] = None]
  /\ UNCHANGED <<store, saving>>

(* The client is sent away for a failing system call. *)
Abort(c) ==
  /\ "io" \in Faults
  /\ Waits(c) \/ c \in saving
  /\ want' = [want EXCEPT ![c] = None]
  /\ saving' = saving \ {c}
  /\ UNCHANGED <<store, memory, got>>

Take(c) ==
  /\ got[c] # None
  /\ want' = [want EXCEPT ![c] = None]
  /\ got' = [got EXCEPT ![c] = None]
  /\ UNCHANGED <<store, memory, saving>>

Forget(p) == Learns(p, {}) /\ UNCHANGED <<store, want, got, saving>>

Preload(p) ==
  /\ \E o \in Objects : store[o] # None /\ Learns(p, {Made(o)})
  /\ UNCHANGED <<store, want, got, saving>>

Erase(o) ==
  /\ "clear_disk" \in Admin
  /\ store' = [store EXCEPT ![o] = None]
  /\ UNCHANGED <<memory, want, got, saving>>

(* A process ends, and another one takes its place. *)
Crash(p) ==
  LET cleared(f) == [c \in Clients |-> IF ProcOf[c] = p THEN None ELSE f[c]]
  IN  /\ "crash" \in Faults
      /\ memory' = [memory EXCEPT ![p] = {}]
      /\ want' = cleared(want)
      /\ got' = cleared(got)
      /\ saving' = {c \in saving : ProcOf[c] # p}
      /\ UNCHANGED store

Next ==
  \/ \E c \in Clients :
       \/ \E o \in Objects : Ask(c, o)
       \/ Load(c) \/ Make(c) \/ Save(c) \/ Spoil(c) \/ Abort(c) \/ Take(c)
  \/ \E p \in Procs : Recall(p) \/ Forget(p) \/ Preload(p) \/ Crash(p)
  \/ \E o \in Objects : Erase(o)

Spec == Init /\ [][Next]_vars
=============================================================================
