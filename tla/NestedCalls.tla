----------------------------- MODULE NestedCalls -----------------------------
(* Compile functions that use the cache themselves: to link a library, a   *)
(* caller of get_or_add_library may ask the same cache_t for the blobs the *)
(* library is made of, and wait for their futures, before it returns.      *)
(*                                                                         *)
(* A thread is then inside several calls at once, the innermost of which   *)
(* may wait for the compile of another thread.  The lookup on disk, which  *)
(* goes on inside the mutex, either finds the object or does not, and what *)
(* a purge or a clear removes is left open; Cache has their details.       *)
EXTENDS Naturals, Sequences

CONSTANTS
  Threads,
  Hashes,
  Deps,      \* Deps[o]: the objects the compile function of object o asks for
  Rank,      \* a measure that shows that objects do not depend on each other
  None,
  MaxCalls,  \* bound on the outermost calls of each thread
  Faults     \* "compile": compile functions may throw

Objects == [kind : {"blob", "library"}, hash : Hashes]

ASSUME NestedAssumption ==
  /\ None \notin Threads
  /\ Deps \in [Objects -> SUBSET Objects]
  /\ Rank \in [Objects -> Nat]
  /\ \A o \in Objects : \A d \in Deps[o] : Rank[d] < Rank[o]
  /\ MaxCalls \in Nat
  /\ Faults \subseteq {"compile"}

(* A future, by the thread that owns its promise while it is pending. *)
Futures == [state : {"pending", "ready", "broken"}, by : Threads \cup {None}]

Pending(t) == [state |-> "pending", by |-> t]
Settled(state) == [state |-> state, by |-> None]
NoFuture == Settled("broken")

(* lock: before the mutex; inside: with it; compile: in the compile        *)
(* function; wait: with the future.                                        *)
Frames == [obj : Objects, at : {"lock", "inside", "compile", "wait"},
           left : SUBSET Objects, future : Futures]

VARIABLES
  table,  \* table[s]: the entry of slot s: a future, or None
  stack,  \* stack[t]: the calls thread t is in, the innermost one last
  calls   \* calls[t]: its outermost calls so far

vars == <<table, stack, calls>>

TypeOK ==
  /\ table \in [Objects -> Futures \cup {None}]
  /\ stack \in [Threads -> Seq(Frames)]
  /\ calls \in [Threads -> Nat]

Init ==
  /\ table = [o \in Objects |-> None]
  /\ stack = [t \in Threads |-> <<>>]
  /\ calls = [t \in Threads |-> 0]

Busy(t) == stack[t] # <<>>
Depth(t) == Len(stack[t])
Top(t) == stack[t][Depth(t)]
At(t, step) == Busy(t) /\ Top(t).at = step

NewFrame(o) == [obj |-> o, at |-> "lock", left |-> {}, future |-> NoFuture]

Push(s, o) == Append(s, NewFrame(o))
Pop(s) == SubSeq(s, 1, Len(s) - 1)
SetTop(t, frame) == [stack EXCEPT ![t][Depth(t)] = frame]

\* One table for objects of both kinds.
SlotOfHash(o) == [kind |-> "blob", hash |-> o.hash]

(* blobs_cache_ and libraries_cache_: a blob and a library may have the    *)
(* same hash.                                                              *)
Slot(o) == o

\* A mutex that is held while the compile function runs.
HoldsInCompile(frame) == frame.at \in {"inside", "compile"}

HoldsMutex(frame) == frame.at = "inside"

MutexFree ==
  \A t \in Threads : \A i \in DOMAIN stack[t] : ~HoldsMutex(stack[t][i])

-----------------------------------------------------------------------------
(* get_or_add_blob and get_or_add_library.                                 *)

Call(t) ==
  /\ ~Busy(t)
  /\ calls[t] < MaxCalls
  /\ calls' = [calls EXCEPT ![t] = @ + 1]
  /\ \E o \in Objects : stack' = [stack EXCEPT ![t] = Push(@, o)]
  /\ UNCHANGED table

Lock(t) ==
  /\ At(t, "lock")
  /\ MutexFree
  /\ stack' = SetTop(t, [Top(t) EXCEPT !.at = "inside"])
  /\ UNCHANGED <<table, calls>>

Entry(t) == table[Slot(Top(t).obj)]

Found(t) == Entry(t) # None

MemHit(t) ==
  /\ At(t, "inside")
  /\ Found(t)
  /\ stack' = SetTop(t, [Top(t) EXCEPT !.at = "wait", !.future = Entry(t)])
  /\ UNCHANGED <<table, calls>>

(* insert(): whatever else was in the table may go, and the new entry      *)
(* stays out where the limit is zero.                                      *)
Insert(t, future) ==
  \E kept \in SUBSET Objects :
    table' = [s \in Objects |-> IF s \notin kept THEN None
                                ELSE IF s = Slot(Top(t).obj) THEN future
                                ELSE table[s]]

DiskHit(t) ==
  /\ At(t, "inside")
  /\ ~Found(t)
  /\ Insert(t, Settled("ready"))
  /\ stack' = SetTop(t, [Top(t) EXCEPT !.at = "wait", !.future = Settled("ready")])
  /\ UNCHANGED calls

Reserve(t) ==
  /\ At(t, "inside")
  /\ ~Found(t)
  /\ Insert(t, Pending(t))
  /\ stack' = SetTop(t, [Top(t) EXCEPT !.at = "compile", !.left = Deps[Top(t).obj]])
  /\ UNCHANGED calls

-----------------------------------------------------------------------------
(* The compile function.                                                   *)

(* It asks for one of the objects it still needs, in any order.            *)
Ask(t) ==
  /\ At(t, "compile")
  /\ \E d \in Top(t).left :
       stack' = [stack EXCEPT
         ![t] = Push(SetTop(t, [Top(t) EXCEPT !.left = @ \ {d}])[t], d)]
  /\ UNCHANGED <<table, calls>>

(* The promise of the innermost call of t gets its outcome, and with it    *)
(* every copy of its future; a thread never has two promises for an object.*)
Mine(t, o, future) == future = Pending(t) /\ o = Slot(Top(t).obj)

Settle(t, state, stacks) ==
  /\ table' = [s \in Objects |->
       IF table[s] # None /\ Mine(t, s, table[s]) THEN Settled(state) ELSE table[s]]
  /\ stack' = [u \in Threads |-> [i \in DOMAIN stacks[u] |->
       IF Mine(t, Slot(stacks[u][i].obj), stacks[u][i].future)
       THEN [stacks[u][i] EXCEPT !.future = Settled(state)] ELSE stacks[u][i]]]

CompileReturns(t) ==
  /\ At(t, "compile")
  /\ Top(t).left = {}
  /\ Settle(t, "ready", SetTop(t, [Top(t) EXCEPT !.at = "wait",
                                                 !.future = Settled("ready")]))
  /\ UNCHANGED calls

\* A promise that is neither set nor destroyed.
OutcomeLost == "pending"

OutcomeOfThrow == "broken"

(* It throws, for a reason of its own or because a future it waited for    *)
(* did; the compile function around it gets the exception and does what it *)
(* likes.                                                                  *)
CompileThrows(t) ==
  /\ "compile" \in Faults
  /\ At(t, "compile")
  /\ Settle(t, OutcomeOfThrow, [stack EXCEPT ![t] = Pop(@)])
  /\ UNCHANGED calls

(* get() on the future ends, and the call around it goes on.               *)
Get(t) ==
  /\ At(t, "wait")
  /\ Top(t).future.state # "pending"
  /\ stack' = [stack EXCEPT ![t] = Pop(@)]
  /\ UNCHANGED <<table, calls>>

(* The calls the bound allows are all over. *)
Quiescent ==
  /\ \A t \in Threads : ~Busy(t) /\ calls[t] = MaxCalls
  /\ UNCHANGED vars

Advance(t) ==
  \/ Lock(t) \/ MemHit(t) \/ DiskHit(t) \/ Reserve(t)
  \/ Ask(t) \/ CompileReturns(t) \/ CompileThrows(t) \/ Get(t)

Next ==
  \/ \E t \in Threads : Call(t) \/ Advance(t)
  \/ Quiescent

Spec == Init /\ [][Next]_vars

(* A thread inside the cache is scheduled in the end, with finitely many   *)
(* calls to compete with for the mutex, and compile functions end once     *)
(* they have what they wait for.                                           *)
FairSpec == Spec /\ \A t \in Threads : WF_vars(Advance(t))

-----------------------------------------------------------------------------
(* Somebody works on every pending future a thread waits for: its producer *)
(* is inside the compile of that very object, however deep (get_or_add).   *)
Producing(u, o) ==
  \E i \in DOMAIN stack[u] : stack[u][i].obj = o /\ stack[u][i].at = "compile"

WaitersHaveProducers ==
  \A t \in Threads :
    At(t, "wait") /\ Top(t).future.state = "pending" =>
      Top(t).future.by \in Threads /\ Producing(Top(t).future.by, Top(t).obj)

(* Threads whose compile functions use the cache never wait for each other *)
(* in a circle, nor one for itself, whatever is evicted and compiled again *)
(* meanwhile, provided that objects do not depend on each other in one     *)
(* (get_or_add releases the mutex before it calls compile, and keeps blobs *)
(* and libraries apart).                                                   *)
WaitsFor(t, u) ==
  At(t, "wait") /\ Top(t).future = Pending(u)

NoCircularWait ==
  \A S \in SUBSET Threads :
    S # {} => \E t \in S : \A u \in S : ~WaitsFor(t, u)

(* Every call ends, as deep as calls may nest, with compile functions that *)
(* throw in between.                                                       *)
NestedCallsReturn == \A t \in Threads : Busy(t) ~> ~Busy(t)
=============================================================================
