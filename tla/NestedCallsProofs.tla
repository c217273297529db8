-------------------------- MODULE NestedCallsProofs --------------------------
(* Theorems about compile functions that use the cache themselves: that    *)
(* whoever waits waits for a thread that works on what it waits for, and   *)
(* that nobody waits in a circle, for any number of threads and any graph  *)
(* of dependencies without a cycle.                                        *)
EXTENDS NestedCalls, SequenceTheorems, WellFoundedInduction, TLAPS

-----------------------------------------------------------------------------
(* The stacks of calls.                                                    *)

Stacks == [Threads -> Seq(Frames)]

(* What changes the innermost call of a thread leaves the others alone. *)
LEMMA SetTopEffect ==
  ASSUME stack \in Stacks, NEW t \in Threads, Busy(t), NEW frame \in Frames
  PROVE  /\ SetTop(t, frame) \in Stacks
         /\ Top(t) \in Frames /\ Depth(t) \in Nat /\ Depth(t) >= 1
         /\ \A u \in Threads :
              /\ Len(SetTop(t, frame)[u]) = Len(stack[u])
              /\ \A i \in 1..Len(stack[u]) :
                   SetTop(t, frame)[u][i] =
                     IF u = t /\ i = Depth(t) THEN frame ELSE stack[u][i]
<1> DEFINE s == stack[t]
           n == Len(s)
           r == [s EXCEPT ![n] = frame]
<1>1. s \in Seq(Frames) /\ n \in Nat /\ n >= 1
  BY LenProperties DEF Stacks, Busy
<1>2. s[n] \in Frames
  BY <1>1, ElementOfSeq
<1>3. /\ r \in Seq(Frames) /\ Len(r) = n
      /\ \A i \in 1..n : r[i] = IF i = n THEN frame ELSE s[i]
  BY <1>1, ExceptSeq
<1>4. SetTop(t, frame) = [stack EXCEPT ![t] = r]
  BY DEF SetTop, Depth
<1> HIDE DEF r
<1> QED  BY <1>1, <1>2, <1>3, <1>4 DEF Stacks, Top, Depth

WithoutTop(t) == [stack EXCEPT ![t] = Pop(@)]

LEMMA PopEffect ==
  ASSUME stack \in Stacks, NEW t \in Threads, Busy(t)
  PROVE  /\ WithoutTop(t) \in Stacks
         /\ Depth(t) \in Nat /\ Depth(t) >= 1
         /\ \A u \in Threads :
              /\ Len(WithoutTop(t)[u]) = IF u = t THEN Depth(t) - 1 ELSE Len(stack[u])
              /\ Len(WithoutTop(t)[u]) \in Nat
              /\ \A i \in 1..Len(WithoutTop(t)[u]) : WithoutTop(t)[u][i] = stack[u][i]
<1> DEFINE s == stack[t]
           n == Len(s)
           r == SubSeq(s, 1, n - 1)
<1>1. s \in Seq(Frames) /\ n \in Nat /\ n >= 1
  BY LenProperties DEF Stacks, Busy
<1>2. \A i \in 1..n : s[i] \in Frames
  BY <1>1, ElementOfSeq
<1>3. /\ r \in Seq(Frames) /\ Len(r) = n - 1
      /\ \A i \in 1..(n - 1) : r[i] = s[i]
  BY <1>1, <1>2, SubSeqProperties
<1>4. WithoutTop(t) = [stack EXCEPT ![t] = r]
  BY DEF WithoutTop, Pop
<1> HIDE DEF r
<1>5. WithoutTop(t) \in Stacks
  BY <1>3, <1>4 DEF Stacks
<1>6. \A u \in Threads : WithoutTop(t)[u] = IF u = t THEN r ELSE stack[u]
  BY <1>4 DEF Stacks
<1>7. \A u \in Threads : Len(stack[u]) \in Nat
  BY LenProperties DEF Stacks
<1> QED  BY <1>1, <1>3, <1>5, <1>6, <1>7 DEF Depth

(* A call, out of no other one or out of a compile function. *)
WithCall(t, before, o) == [stack EXCEPT ![t] = Push(before[t], o)]

LEMMA PushEffect ==
  ASSUME stack \in Stacks, NEW t \in Threads, NEW o \in Objects, NEW before \in Stacks
  PROVE  LET s == WithCall(t, before, o) IN
         /\ s \in Stacks
         /\ \A u \in Threads \ {t} : s[u] = stack[u]
         /\ Len(s[t]) = Len(before[t]) + 1 /\ Len(before[t]) \in Nat
         /\ \A i \in 1..Len(before[t]) : s[t][i] = before[t][i]
         /\ s[t][Len(before[t]) + 1] = NewFrame(o)
<1> DEFINE s == before[t]
           f == NewFrame(o)
           r == Append(s, f)
<1>1. s \in Seq(Frames) /\ Len(s) \in Nat
  BY LenProperties DEF Stacks
<1>2. f \in Frames
  BY DEF NewFrame, Frames, NoFuture, Settled, Futures
<1> HIDE DEF f
<1>3. /\ r \in Seq(Frames) /\ Len(r) = Len(s) + 1
      /\ \A i \in 1..Len(s) : r[i] = s[i]
      /\ r[Len(s) + 1] = f
  BY <1>1, <1>2, AppendProperties
<1>4. WithCall(t, before, o) = [stack EXCEPT ![t] = r]
  BY DEF WithCall, Push, f
<1> HIDE DEF r
<1> QED  BY <1>1, <1>3, <1>4 DEF Stacks, f

(* An outcome reaches every future of the promise, and nothing else. *)
LEMMA SettleEffect ==
  ASSUME table \in [Objects -> Futures \cup {None}],
         NEW t \in Threads, NEW state \in {"ready", "broken"},
         NEW stacks \in Stacks, Settle(t, state, stacks)
  PROVE  /\ table' \in [Objects -> Futures \cup {None}]
         /\ \A o \in Objects : table'[o] # None =>
              \/ table'[o].state # "pending"
              \/ table'[o] = table[o] /\ ~(table[o] = Pending(t) /\ o = Top(t).obj)
         /\ stack' \in Stacks
         /\ \A u \in Threads :
              /\ Len(stack'[u]) = Len(stacks[u])
              /\ \A i \in 1..Len(stacks[u]) :
                   LET old == stacks[u][i] new == stack'[u][i] IN
                   /\ new.obj = old.obj /\ new.at = old.at /\ new.left = old.left
                   /\ \/ new.future.state # "pending"
                      \/ /\ new.future = old.future
                         /\ ~(old.future = Pending(t) /\ old.obj = Top(t).obj)
<1>1. Settled(state) \in Futures /\ Settled(state).state # "pending"
  BY DEF Settled, Futures
<1>2. /\ table' \in [Objects -> Futures \cup {None}]
      /\ \A o \in Objects : table'[o] # None =>
           \/ table'[o].state # "pending"
           \/ table'[o] = table[o] /\ ~(table[o] = Pending(t) /\ o = Top(t).obj)
  BY <1>1 DEF Settle, Mine, Slot
<1> DEFINE G(u, i) == IF Mine(t, Slot(stacks[u][i].obj), stacks[u][i].future)
                      THEN [stacks[u][i] EXCEPT !.future = Settled(state)]
                      ELSE stacks[u][i]
<1>3. stack' = [u \in Threads |-> [i \in DOMAIN stacks[u] |-> G(u, i)]]
  BY DEF Settle
<1>4. ASSUME NEW u \in Threads
      PROVE  /\ stack'[u] \in Seq(Frames)
             /\ Len(stack'[u]) = Len(stacks[u])
             /\ \A i \in 1..Len(stacks[u]) :
                  LET old == stacks[u][i] new == stack'[u][i] IN
                  /\ new.obj = old.obj /\ new.at = old.at /\ new.left = old.left
                  /\ \/ new.future.state # "pending"
                     \/ /\ new.future = old.future
                        /\ ~(old.future = Pending(t) /\ old.obj = Top(t).obj)
  <2> DEFINE n == Len(stacks[u])
  <2>1. stacks[u] \in Seq(Frames) /\ n \in Nat /\ DOMAIN stacks[u] = 1..n
    BY LenProperties DEF Stacks
  <2>2. \A i \in 1..n : stacks[u][i] \in Frames
    BY <2>1, ElementOfSeq
  <2>3. ASSUME NEW i \in 1..n
        PROVE  /\ G(u, i) \in Frames
               /\ G(u, i).obj = stacks[u][i].obj /\ G(u, i).at = stacks[u][i].at
               /\ G(u, i).left = stacks[u][i].left
               /\ \/ G(u, i).future.state # "pending"
                  \/ /\ G(u, i).future = stacks[u][i].future
                     /\ ~(stacks[u][i].future = Pending(t) /\ stacks[u][i].obj = Top(t).obj)
    <3> DEFINE f == stacks[u][i]
    <3>1. f \in Frames
      BY <2>2
    <3> HIDE DEF f
    <3>2. CASE Mine(t, f.obj, f.future)
      BY <1>1, <3>1, <3>2 DEF Frames, Slot, f
    <3>3. CASE ~Mine(t, f.obj, f.future)
      BY <3>1, <3>3 DEF Frames, Slot, Mine, f
    <3> QED  BY <3>2, <3>3
  <2> HIDE DEF G
  <2>4. stack'[u] = [i \in 1..n |-> G(u, i)]
    BY <1>3, <2>1
  <2>5. stack'[u] \in Seq(Frames) /\ Len(stack'[u]) = n
    BY <2>1, <2>3, <2>4
  <2> QED  BY <2>3, <2>4, <2>5
<1>5. stack' \in Stacks
  <2>1. stack' = [u \in Threads |-> stack'[u]]
    BY <1>3
  <2> QED  BY <1>4, <2>1 DEF Stacks
<1> QED  BY <1>2, <1>4, <1>5

-----------------------------------------------------------------------------
(* The invariant: all calls of a thread but the innermost are in their     *)
(* compile functions, each asks for what its function may ask for, so that *)
(* the rank falls from call to call, and whatever is pending, in the table *)
(* or in the hands of a call, is compiled by the owner of its promise.     *)

NestedIn(s) ==
  \A t \in Threads : \A i \in 1..Len(s[t]) :
    /\ i < Len(s[t]) => s[t][i].at = "compile"
    /\ s[t][i].at = "compile" => s[t][i].left \subseteq Deps[s[t][i].obj]
    /\ \A j \in 1..Len(s[t]) : i < j => Rank[s[t][j].obj] < Rank[s[t][i].obj]

CompiledIn(s, u, o) ==
  \E i \in 1..Len(s[u]) : s[u][i].obj = o /\ s[u][i].at = "compile"

ProducedIn(s, o, future) ==
  future.state = "pending" => future.by \in Threads /\ CompiledIn(s, future.by, o)

TableProduced(s, tab) ==
  \A o \in Objects : tab[o] # None => ProducedIn(s, o, tab[o])

HeldProduced(s) ==
  \A t \in Threads : \A i \in 1..Len(s[t]) :
    ProducedIn(s, s[t][i].obj, s[t][i].future)

NestedInv ==
  /\ TypeOK
  /\ NestedIn(stack)
  /\ TableProduced(stack, table)
  /\ HeldProduced(stack)

(* Whoever compiles goes on compiling. *)
Keeps(s) == \A u \in Threads, o \in Objects : CompiledIn(stack, u, o) => CompiledIn(s, u, o)

LEMMA FrameFacts ==
  ASSUME stack \in Stacks, NEW t \in Threads, NEW i \in 1..Len(stack[t])
  PROVE  stack[t][i] \in Frames
BY ElementOfSeq DEF Stacks

(* The innermost call goes on with its object. *)
LEMMA GoesOn ==
  ASSUME NestedInv, NEW t \in Threads, Busy(t), NEW frame \in Frames,
         frame.obj = Top(t).obj,
         frame.at = "compile" => frame.left \subseteq Deps[frame.obj]
  PROVE  /\ NestedIn(SetTop(t, frame))
         /\ Top(t).at # "compile" \/ frame.at = "compile" => Keeps(SetTop(t, frame))
         /\ \A u \in Threads, o \in Objects :
              CompiledIn(stack, u, o) /\ ~(u = t /\ o = Top(t).obj)
              => CompiledIn(SetTop(t, frame), u, o)
<1> DEFINE s == SetTop(t, frame)
<1>1. stack \in Stacks
  BY DEF NestedInv, TypeOK, Stacks
<1>2. /\ Top(t) = stack[t][Depth(t)] /\ Depth(t) \in 1..Len(stack[t])
      /\ Depth(t) = Len(stack[t])
      /\ \A u \in Threads :
           /\ Len(s[u]) = Len(stack[u])
           /\ \A i \in 1..Len(stack[u]) :
                s[u][i] = IF u = t /\ i = Depth(t) THEN frame ELSE stack[u][i]
  BY <1>1, SetTopEffect DEF Top, Depth
<1> HIDE DEF s
<1>3. \A u \in Threads : \A i \in 1..Len(stack[u]) : s[u][i].obj = stack[u][i].obj
  BY <1>2
<1>4. NestedIn(s)
  BY <1>2, <1>3 DEF NestedInv, NestedIn
<1>5. ASSUME NEW u \in Threads, NEW o \in Objects, CompiledIn(stack, u, o),
             ~(u = t /\ o = Top(t).obj) \/ Top(t).at # "compile" \/ frame.at = "compile"
      PROVE  CompiledIn(s, u, o)
  <2>1. PICK i \in 1..Len(stack[u]) : stack[u][i].obj = o /\ stack[u][i].at = "compile"
    BY <1>5 DEF CompiledIn
  <2>2. i \in 1..Len(s[u]) /\ s[u][i].obj = o
    BY <1>2, <1>3, <2>1
  <2>3. s[u][i].at = "compile"
    BY <1>2, <1>5, <2>1
  <2> QED  BY <2>2, <2>3 DEF CompiledIn
<1> QED  BY <1>4, <1>5 DEF s, Keeps

LEMMA EndsAlone ==
  ASSUME NestedInv, NEW t \in Threads, Busy(t)
  PROVE  /\ NestedIn(WithoutTop(t))
         /\ Top(t).at # "compile" => Keeps(WithoutTop(t))
         /\ \A u \in Threads, o \in Objects :
              CompiledIn(stack, u, o) /\ ~(u = t /\ o = Top(t).obj)
              => CompiledIn(WithoutTop(t), u, o)
<1> DEFINE s == WithoutTop(t)
<1>1. stack \in Stacks
  BY DEF NestedInv, TypeOK, Stacks
<1>2. /\ Depth(t) \in Nat /\ Depth(t) >= 1
      /\ \A u \in Threads :
           /\ Len(s[u]) = IF u = t THEN Depth(t) - 1 ELSE Len(stack[u])
           /\ Len(s[u]) \in Nat
           /\ \A i \in 1..Len(s[u]) : s[u][i] = stack[u][i]
  BY <1>1, PopEffect
<1> HIDE DEF s
<1>3. \A u \in Threads : Len(stack[u]) \in Nat
  BY <1>1, LenProperties DEF Stacks
<1>4. NestedIn(s)
  <2>1. ASSUME NEW u \in Threads PROVE Len(s[u]) \in Nat /\ Len(s[u]) <= Len(stack[u])
    <3>1. CASE u = t
      BY <1>2, <1>3, <3>1 DEF Depth
    <3>2. CASE u # t
      BY <1>2, <1>3, <3>2
    <3> QED  BY <3>1, <3>2
  <2>2. \A u \in Threads : \A i \in 1..Len(s[u]) :
          /\ i \in 1..Len(stack[u]) /\ s[u][i] = stack[u][i]
          /\ i < Len(s[u]) => i < Len(stack[u])
    BY <1>2, <1>3, <2>1
  <2> QED  BY <2>2 DEF NestedInv, NestedIn
<1>5. ASSUME NEW u \in Threads, NEW o \in Objects, CompiledIn(stack, u, o),
             ~(u = t /\ o = Top(t).obj) \/ Top(t).at # "compile"
      PROVE  CompiledIn(s, u, o)
  <2>1. PICK i \in 1..Len(stack[u]) : stack[u][i].obj = o /\ stack[u][i].at = "compile"
    BY <1>5 DEF CompiledIn
  <2>2. i \in 1..Len(s[u])
    BY <1>2, <1>3, <1>5, <2>1 DEF Top, Depth
  <2> QED  BY <1>2, <2>1, <2>2 DEF CompiledIn
<1> QED  BY <1>4, <1>5 DEF s, Keeps

(* A call begins, of an object that ranks below those that are compiled. *)
LEMMA BeginsInside ==
  ASSUME NestedInv, NEW t \in Threads, NEW d \in Objects,
         NEW before \in Stacks, NestedIn(before), Keeps(before),
         \A u \in Threads \ {t} : before[u] = stack[u],
         \A i \in 1..Len(before[t]) :
           before[t][i].at = "compile" /\ Rank[d] < Rank[before[t][i].obj]
  PROVE  /\ NestedIn(WithCall(t, before, d)) /\ Keeps(WithCall(t, before, d))
         /\ \A u \in Threads, o \in Objects :
              CompiledIn(before, u, o) => CompiledIn(WithCall(t, before, d), u, o)
<1> DEFINE s == WithCall(t, before, d)
<1>1. stack \in Stacks
  BY DEF NestedInv, TypeOK, Stacks
<1> DEFINE n == Len(before[t])
<1>2. /\ \A u \in Threads \ {t} : s[u] = before[u]
      /\ Len(s[t]) = n + 1 /\ n \in Nat
      /\ \A i \in 1..n : s[t][i] = before[t][i]
      /\ s[t][n + 1] = NewFrame(d)
  BY <1>1, PushEffect
<1> HIDE DEF n, s
<1>3. NestedIn(s)
  <2>1. ASSUME NEW u \in Threads, NEW i \in 1..Len(s[u])
        PROVE  /\ i < Len(s[u]) => s[u][i].at = "compile"
               /\ s[u][i].at = "compile" => s[u][i].left \subseteq Deps[s[u][i].obj]
               /\ \A j \in 1..Len(s[u]) : i < j => Rank[s[u][j].obj] < Rank[s[u][i].obj]
    <3>1. CASE u # t
      BY <1>2, <2>1, <3>1 DEF NestedIn
    <3>2. CASE u = t /\ i = n + 1
      BY <1>2, <2>1, <3>2 DEF NewFrame
    <3>3. CASE u = t /\ i # n + 1
      <4>1. i \in 1..n /\ s[t][i] = before[t][i]
        BY <1>2, <2>1, <3>3
      <4>2. /\ s[t][i].at = "compile" /\ Rank[d] < Rank[s[t][i].obj]
            /\ s[t][i].left \subseteq Deps[s[t][i].obj]
        BY <4>1 DEF NestedIn, n
      <4>3. \A j \in 1..n : i < j => Rank[s[t][j].obj] < Rank[s[t][i].obj]
        BY <1>2, <4>1 DEF NestedIn, n
      <4> QED  BY <1>2, <3>3, <4>2, <4>3 DEF NewFrame
    <3> QED  BY <3>1, <3>2, <3>3
  <2> QED  BY <2>1 DEF NestedIn
<1>4. ASSUME NEW u \in Threads, NEW o \in Objects, CompiledIn(before, u, o)
      PROVE  CompiledIn(s, u, o)
  <2>1. PICK i \in 1..Len(before[u]) : before[u][i].obj = o /\ before[u][i].at = "compile"
    BY <1>4 DEF CompiledIn
  <2>2. i \in 1..Len(s[u]) /\ s[u][i] = before[u][i]
    BY <1>2, <2>1 DEF n
  <2> QED  BY <2>1, <2>2 DEF CompiledIn
<1> QED  BY <1>3, <1>4 DEF s, Keeps

-----------------------------------------------------------------------------
(* What is pending stays in production.                                    *)

LEMMA ProducedKept ==
  ASSUME NEW s, Keeps(s), NEW o \in Objects, NEW future, ProducedIn(stack, o, future)
  PROVE  ProducedIn(s, o, future)
BY DEF Keeps, ProducedIn

LEMMA HeldByTop ==
  ASSUME NestedInv, NEW t \in Threads, Busy(t), NEW frame \in Frames,
         frame.obj = Top(t).obj, Keeps(SetTop(t, frame)),
         ProducedIn(SetTop(t, frame), frame.obj, frame.future)
  PROVE  HeldProduced(SetTop(t, frame))
<1> DEFINE s == SetTop(t, frame)
<1>1. stack \in Stacks
  BY DEF NestedInv, TypeOK, Stacks
<1>2. \A u \in Threads :
        /\ Len(s[u]) = Len(stack[u])
        /\ \A i \in 1..Len(stack[u]) :
             s[u][i] = IF u = t /\ i = Depth(t) THEN frame ELSE stack[u][i]
  BY <1>1, SetTopEffect
<1>3. ASSUME NEW u \in Threads, NEW i \in 1..Len(s[u])
      PROVE  ProducedIn(s, s[u][i].obj, s[u][i].future)
  <2>1. CASE u = t /\ i = Depth(t)
    BY <1>2, <2>1
  <2>2. CASE ~(u = t /\ i = Depth(t))
    <3>1. i \in 1..Len(stack[u]) /\ s[u][i] = stack[u][i]
      BY <1>2, <2>2
    <3>2. stack[u][i].obj \in Objects
      BY <1>1, <3>1, FrameFacts DEF Frames
    <3>3. ProducedIn(stack, stack[u][i].obj, stack[u][i].future)
      BY <3>1 DEF NestedInv, HeldProduced
    <3> QED  BY <3>1, <3>2, <3>3, ProducedKept
  <2> QED  BY <2>1, <2>2
<1> QED  BY <1>3 DEF HeldProduced

LEMMA InsertEffect ==
  ASSUME table \in [Objects -> Futures \cup {None}],
         NEW t \in Threads, NEW future \in Futures, Insert(t, future)
  PROVE  /\ table' \in [Objects -> Futures \cup {None}]
         /\ \A o \in Objects :
              \/ table'[o] \in {None, table[o]}
              \/ o = Top(t).obj /\ table'[o] = future
BY DEF Insert, Slot

LEMMA TableKept ==
  ASSUME NestedInv, NEW s, Keeps(s), NEW tab,
         \A o \in Objects :
           tab[o] \in {None, table[o]} \/ ProducedIn(s, o, tab[o])
  PROVE  TableProduced(s, tab)
<1> SUFFICES ASSUME NEW o \in Objects, tab[o] # None PROVE ProducedIn(s, o, tab[o])
  BY DEF TableProduced
<1>1. CASE tab[o] = table[o]
  <2>1. ProducedIn(stack, o, table[o])
    BY <1>1 DEF NestedInv, TableProduced
  <2> QED  BY <1>1, <2>1, ProducedKept
<1> QED  BY <1>1

(* The end of a compile: the futures that its promise settles are pending  *)
(* no more, and all others have somebody else, or another call.            *)
LEMMA SettledRest ==
  ASSUME NestedInv, NEW t \in Threads, NEW state \in {"ready", "broken"},
         NEW s \in Stacks, NestedIn(s), Settle(t, state, s), UNCHANGED calls,
         \A u \in Threads, o \in Objects :
           CompiledIn(stack, u, o) /\ ~(u = t /\ o = Top(t).obj) => CompiledIn(s, u, o),
         \A u \in Threads : \A i \in 1..Len(s[u]) :
           ProducedIn(stack, s[u][i].obj, s[u][i].future)
  PROVE  NestedInv'
<1>1. TypeOK
  BY DEF NestedInv
<1>2. /\ table' \in [Objects -> Futures \cup {None}]
      /\ \A o \in Objects : table'[o] # None =>
           \/ table'[o].state # "pending"
           \/ table'[o] = table[o] /\ ~(table[o] = Pending(t) /\ o = Top(t).obj)
      /\ stack' \in Stacks
      /\ \A u \in Threads :
           /\ Len(stack'[u]) = Len(s[u])
           /\ \A i \in 1..Len(s[u]) :
                LET old == s[u][i] new == stack'[u][i] IN
                /\ new.obj = old.obj /\ new.at = old.at /\ new.left = old.left
                /\ \/ new.future.state # "pending"
                   \/ /\ new.future = old.future
                      /\ ~(old.future = Pending(t) /\ old.obj = Top(t).obj)
  BY <1>1, SettleEffect DEF TypeOK
<1>3. NestedIn(stack')
  BY <1>2 DEF NestedIn
<1>4. \A u \in Threads, o \in Objects : CompiledIn(s, u, o) => CompiledIn(stack', u, o)
  BY <1>2 DEF CompiledIn
<1>5. ASSUME NEW o \in Objects, NEW future \in Futures, ProducedIn(stack, o, future),
             ~(future = Pending(t) /\ o = Top(t).obj)
      PROVE  ProducedIn(stack', o, future)
  <2>1. SUFFICES ASSUME future.state = "pending"
                 PROVE  CompiledIn(stack', future.by, o) /\ future.by \in Threads
    BY DEF ProducedIn
  <2>2. future.by \in Threads /\ CompiledIn(stack, future.by, o)
    BY <1>5, <2>1 DEF ProducedIn
  <2>3. future = Pending(future.by)
    BY <2>1 DEF Futures, Pending
  <2> QED  BY <1>4, <1>5, <2>2, <2>3
<1>6. ASSUME NEW o \in Objects, table'[o] # None PROVE ProducedIn(stack', o, table'[o])
  <2>1. CASE table'[o].state # "pending"
    BY <2>1 DEF ProducedIn
  <2>2. CASE table'[o] = table[o] /\ ~(table[o] = Pending(t) /\ o = Top(t).obj)
    <3>1. table[o] \in Futures /\ ProducedIn(stack, o, table[o])
      BY <1>1, <1>6, <2>2 DEF TypeOK, NestedInv, TableProduced
    <3> QED  BY <1>5, <2>2, <3>1
  <2> QED  BY <1>2, <1>6, <2>1, <2>2
<1>7. ASSUME NEW u \in Threads, NEW i \in 1..Len(stack'[u])
      PROVE  ProducedIn(stack', stack'[u][i].obj, stack'[u][i].future)
  <2> DEFINE old == s[u][i]
             new == stack'[u][i]
  <2>1. i \in 1..Len(s[u]) /\ new.obj = old.obj
    BY <1>2
  <2>2. old \in Frames
    BY <2>1, ElementOfSeq DEF Stacks
  <2>3. CASE new.future.state # "pending"
    BY <2>3 DEF ProducedIn
  <2>4. CASE new.future = old.future /\ ~(old.future = Pending(t) /\ old.obj = Top(t).obj)
    <3>1. /\ ProducedIn(stack, old.obj, old.future)
          /\ old.future \in Futures /\ old.obj \in Objects
      BY <2>1, <2>2 DEF Frames
    <3> QED  BY <1>5, <2>1, <2>4, <3>1
  <2> QED  BY <1>2, <2>1, <2>3, <2>4
<1> QED
  BY <1>1, <1>2, <1>3, <1>6, <1>7
  DEF NestedInv, TypeOK, Stacks, TableProduced, HeldProduced

-----------------------------------------------------------------------------
(* Every step keeps the invariant.                                         *)

(* A call that is not in its compile function, or stays in it. *)
LEMMA TopStep ==
  ASSUME NestedInv, NEW t \in Threads, Busy(t), NEW frame \in Frames,
         frame.obj = Top(t).obj,
         frame.at = "compile" => frame.left \subseteq Deps[frame.obj],
         Top(t).at # "compile" \/ frame.at = "compile",
         ProducedIn(SetTop(t, frame), frame.obj, frame.future),
         stack' = SetTop(t, frame), UNCHANGED calls,
         table' \in [Objects -> Futures \cup {None}],
         \A o \in Objects :
           table'[o] \in {None, table[o]} \/ ProducedIn(SetTop(t, frame), o, table'[o])
  PROVE  NestedInv'
<1>1. stack \in Stacks /\ calls' \in [Threads -> Nat]
  BY DEF NestedInv, TypeOK, Stacks
<1>2. NestedIn(SetTop(t, frame)) /\ Keeps(SetTop(t, frame))
  BY GoesOn
<1>3. HeldProduced(SetTop(t, frame))
  BY <1>2, HeldByTop
<1>4. TableProduced(SetTop(t, frame), table')
  BY <1>2, TableKept
<1>5. SetTop(t, frame) \in Stacks
  BY <1>1, SetTopEffect
<1> QED  BY <1>1, <1>2, <1>3, <1>4, <1>5 DEF NestedInv, TypeOK, Stacks

LEMMA TopFacts ==
  ASSUME NestedInv, NEW t \in Threads, Busy(t)
  PROVE  /\ Top(t) \in Frames
         /\ Depth(t) \in 1..Len(stack[t]) /\ Top(t) = stack[t][Depth(t)]
         /\ ProducedIn(stack, Top(t).obj, Top(t).future)
         /\ Top(t).at = "compile" => Top(t).left \subseteq Deps[Top(t).obj]
<1>1. stack \in Stacks
  BY DEF NestedInv, TypeOK, Stacks
<1>2. Depth(t) \in 1..Len(stack[t]) /\ Top(t) = stack[t][Depth(t)]
  BY <1>1, LenProperties DEF Stacks, Busy, Top, Depth
<1> QED  BY <1>1, <1>2, FrameFacts DEF NestedInv, HeldProduced, NestedIn

LEMMA LookupStep ==
  ASSUME NestedInv, NEW t \in Threads,
         Lock(t) \/ MemHit(t) \/ DiskHit(t) \/ Reserve(t)
  PROVE  NestedInv'
<1>1. Busy(t) /\ Top(t).at \in {"lock", "inside"}
  BY DEF Lock, MemHit, DiskHit, Reserve, At
<1>2. /\ Top(t) \in Frames
      /\ Depth(t) \in 1..Len(stack[t]) /\ Top(t) = stack[t][Depth(t)]
      /\ ProducedIn(stack, Top(t).obj, Top(t).future)
  BY <1>1, TopFacts
<1>3. Top(t).obj \in Objects /\ Top(t).future \in Futures
  BY <1>2 DEF Frames
<1>4. /\ stack \in Stacks /\ table \in [Objects -> Futures \cup {None}]
      /\ \A o \in Objects : table[o] # None => ProducedIn(stack, o, table[o])
  BY DEF NestedInv, TypeOK, Stacks, TableProduced
<1>5. CASE Lock(t)
  <2> DEFINE f == [Top(t) EXCEPT !.at = "inside"]
  <2>1. /\ f \in Frames /\ f.obj = Top(t).obj /\ f.at = "inside"
        /\ f.future = Top(t).future
    BY <1>2 DEF Frames
  <2>2. stack' = SetTop(t, f) /\ table' = table /\ UNCHANGED calls
    BY <1>5 DEF Lock
  <2> HIDE DEF f
  <2>3. Keeps(SetTop(t, f))
    BY <1>1, <2>1, GoesOn
  <2>4. ProducedIn(SetTop(t, f), f.obj, f.future)
    BY <1>2, <1>3, <2>1, <2>3, ProducedKept
  <2> QED  BY <1>1, <1>4, <2>1, <2>2, <2>4, TopStep
<1>6. CASE MemHit(t)
  <2> DEFINE f == [Top(t) EXCEPT !.at = "wait", !.future = Entry(t)]
  <2>1. Entry(t) \in Futures /\ ProducedIn(stack, Top(t).obj, Entry(t))
    BY <1>3, <1>4, <1>6 DEF MemHit, Found, Entry, Slot
  <2>2. /\ f \in Frames /\ f.obj = Top(t).obj /\ f.at = "wait"
        /\ f.future = Entry(t)
    BY <1>2, <2>1 DEF Frames
  <2>3. stack' = SetTop(t, f) /\ table' = table /\ UNCHANGED calls
    BY <1>6 DEF MemHit
  <2> HIDE DEF f
  <2>4. Keeps(SetTop(t, f))
    BY <1>1, <2>2, GoesOn
  <2>5. ProducedIn(SetTop(t, f), f.obj, f.future)
    BY <1>3, <2>1, <2>2, <2>4, ProducedKept
  <2> QED  BY <1>1, <1>4, <2>2, <2>3, <2>5, TopStep
<1>7. CASE DiskHit(t)
  <2> DEFINE f == [Top(t) EXCEPT !.at = "wait", !.future = Settled("ready")]
  <2>1. Settled("ready") \in Futures /\ Settled("ready").state # "pending"
    BY DEF Settled, Futures
  <2>2. /\ f \in Frames /\ f.obj = Top(t).obj /\ f.at = "wait"
        /\ f.future = Settled("ready")
    BY <1>2, <2>1 DEF Frames
  <2>3. stack' = SetTop(t, f) /\ Insert(t, Settled("ready")) /\ UNCHANGED calls
    BY <1>7 DEF DiskHit
  <2> HIDE DEF f
  <2>4. /\ ProducedIn(SetTop(t, f), f.obj, f.future)
        /\ ProducedIn(SetTop(t, f), Top(t).obj, Settled("ready"))
    BY <2>1, <2>2 DEF ProducedIn
  <2>5. /\ table' \in [Objects -> Futures \cup {None}]
        /\ \A o \in Objects :
             \/ table'[o] \in {None, table[o]}
             \/ o = Top(t).obj /\ table'[o] = Settled("ready")
    BY <1>4, <2>1, <2>3, InsertEffect
  <2>6. \A o \in Objects :
          table'[o] \in {None, table[o]} \/ ProducedIn(SetTop(t, f), o, table'[o])
    BY <2>4, <2>5
  <2> QED  BY <1>1, <2>2, <2>3, <2>4, <2>5, <2>6, TopStep
<1>8. CASE Reserve(t)
  <2> DEFINE f == [Top(t) EXCEPT !.at = "compile", !.left = Deps[Top(t).obj]]
  <2>1. Pending(t) \in Futures /\ Pending(t).by = t
    BY DEF Pending, Futures
  <2>2. /\ f \in Frames /\ f.obj = Top(t).obj /\ f.at = "compile"
        /\ f.left = Deps[Top(t).obj] /\ f.future = Top(t).future
    BY <1>2, <1>3, NestedAssumption DEF Frames
  <2>3. stack' = SetTop(t, f) /\ Insert(t, Pending(t)) /\ UNCHANGED calls
    BY <1>8 DEF Reserve
  <2> HIDE DEF f
  <2>4. Keeps(SetTop(t, f))
    BY <1>1, <2>2, GoesOn
  <2>5. ProducedIn(SetTop(t, f), f.obj, f.future)
    BY <1>2, <1>3, <2>2, <2>4, ProducedKept
  <2>6. ProducedIn(SetTop(t, f), Top(t).obj, Pending(t))
    <3>1. /\ Depth(t) \in 1..Len(SetTop(t, f)[t])
          /\ SetTop(t, f)[t][Depth(t)] = f
      BY <1>1, <1>2, <1>4, <2>2, SetTopEffect
    <3> QED  BY <2>1, <2>2, <3>1 DEF ProducedIn, CompiledIn
  <2>7. /\ table' \in [Objects -> Futures \cup {None}]
        /\ \A o \in Objects :
             \/ table'[o] \in {None, table[o]}
             \/ o = Top(t).obj /\ table'[o] = Pending(t)
    BY <1>4, <2>1, <2>3, InsertEffect
  <2>8. \A o \in Objects :
          table'[o] \in {None, table[o]} \/ ProducedIn(SetTop(t, f), o, table'[o])
    BY <2>6, <2>7
  <2> QED  BY <1>1, <2>2, <2>3, <2>5, <2>7, <2>8, TopStep
<1> QED  BY <1>5, <1>6, <1>7, <1>8

LEMMA HeldByCall ==
  ASSUME NestedInv, NEW t \in Threads, NEW d \in Objects,
         NEW before \in Stacks, HeldProduced(before),
         \A u \in Threads \ {t} : before[u] = stack[u],
         \A u \in Threads, o \in Objects :
           CompiledIn(before, u, o) => CompiledIn(WithCall(t, before, d), u, o)
  PROVE  HeldProduced(WithCall(t, before, d))
<1> DEFINE n == Len(before[t])
           s == WithCall(t, before, d)
<1>1. stack \in Stacks
  BY DEF NestedInv, TypeOK, Stacks
<1>2. /\ \A u \in Threads \ {t} : s[u] = before[u]
      /\ Len(s[t]) = n + 1 /\ n \in Nat
      /\ \A i \in 1..n : s[t][i] = before[t][i]
      /\ s[t][n + 1] = NewFrame(d)
  BY <1>1, PushEffect
<1> HIDE DEF n, s
<1>3. ASSUME NEW u \in Threads, NEW i \in 1..Len(s[u])
      PROVE  ProducedIn(s, s[u][i].obj, s[u][i].future)
  <2>1. CASE u = t /\ i = n + 1
    BY <1>2, <2>1 DEF NewFrame, NoFuture, Settled, ProducedIn
  <2>2. CASE ~(u = t /\ i = n + 1)
    <3>1. i \in 1..Len(before[u]) /\ s[u][i] = before[u][i]
      BY <1>2, <2>2 DEF n
    <3>2. /\ ProducedIn(before, before[u][i].obj, before[u][i].future)
          /\ before[u][i] \in Frames
      BY <3>1, ElementOfSeq DEF HeldProduced, Stacks
    <3>3. before[u][i].obj \in Objects
      BY <3>2 DEF Frames
    <3> QED  BY <3>1, <3>2, <3>3 DEF ProducedIn, s
  <2> QED  BY <2>1, <2>2
<1> QED  BY <1>3 DEF HeldProduced, s

LEMMA CallStep ==
  ASSUME NestedInv, NEW t \in Threads, Call(t) \/ Ask(t)
  PROVE  NestedInv'
<1>1. stack \in Stacks /\ calls \in [Threads -> Nat]
  BY DEF NestedInv, TypeOK, Stacks
<1>2. ASSUME NEW d \in Objects,
             NEW before \in Stacks, NestedIn(before), Keeps(before), HeldProduced(before),
             \A u \in Threads \ {t} : before[u] = stack[u],
             \A i \in 1..Len(before[t]) :
               before[t][i].at = "compile" /\ Rank[d] < Rank[before[t][i].obj],
             stack' = WithCall(t, before, d), table' = table, calls' \in [Threads -> Nat]
      PROVE  NestedInv'
  <2> DEFINE s == WithCall(t, before, d)
  <2>1. /\ NestedIn(s) /\ Keeps(s)
        /\ \A u \in Threads, o \in Objects : CompiledIn(before, u, o) => CompiledIn(s, u, o)
    BY <1>2, BeginsInside
  <2>2. HeldProduced(s)
    BY <1>2, <2>1, HeldByCall
  <2>3. s \in Stacks
    BY <1>1, <1>2, PushEffect
  <2>4. TableProduced(s, table')
    BY <1>2, <2>1, TableKept
  <2>5. table' \in [Objects -> Futures \cup {None}]
    BY <1>2 DEF NestedInv, TypeOK
  <2> QED
    BY <1>2, <2>1, <2>2, <2>3, <2>4, <2>5 DEF NestedInv, TypeOK, Stacks
<1>3. CASE Call(t)
  <2>1. PICK d \in Objects : stack' = WithCall(t, stack, d)
    BY <1>3 DEF Call, WithCall
  <2>2. Len(stack[t]) = 0
    BY <1>3 DEF Call, Busy
  <2>3. table' = table /\ calls' \in [Threads -> Nat]
    BY <1>1, <1>3 DEF Call
  <2>4. NestedIn(stack) /\ Keeps(stack) /\ HeldProduced(stack)
    BY DEF NestedInv, Keeps
  <2> QED  BY <1>1, <1>2, <2>1, <2>2, <2>3, <2>4
<1>4. CASE Ask(t)
  <2>1. Busy(t) /\ Top(t).at = "compile"
    BY <1>4 DEF Ask, At
  <2>2. PICK d \in Top(t).left :
          stack' = [stack EXCEPT ![t] =
                      Push(SetTop(t, [Top(t) EXCEPT !.left = @ \ {d}])[t], d)]
    BY <1>4 DEF Ask
  <2> DEFINE f == [Top(t) EXCEPT !.left = @ \ {d}]
             before == SetTop(t, f)
  <2>3. /\ Top(t) \in Frames /\ Top(t).left \subseteq Deps[Top(t).obj]
        /\ Depth(t) \in 1..Len(stack[t])
        /\ ProducedIn(stack, Top(t).obj, Top(t).future)
    BY <2>1, TopFacts
  <2>4. /\ f \in Frames /\ f.obj = Top(t).obj /\ f.at = "compile"
        /\ f.left \subseteq Deps[f.obj] /\ f.future = Top(t).future
        /\ f.obj \in Objects
    BY <2>1, <2>3 DEF Frames
  <2>5. /\ d \in Objects /\ Rank[d] < Rank[f.obj]
        /\ \A o \in Objects : Rank[o] \in Nat
    BY <2>3, <2>4, NestedAssumption
  <2> HIDE DEF f
  <2>6. NestedIn(before) /\ Keeps(before)
    BY <2>1, <2>4, GoesOn
  <2>7. HeldProduced(before)
    <3>1. ProducedIn(before, f.obj, f.future)
      BY <2>3, <2>4, <2>6, ProducedKept
    <3> QED  BY <2>1, <2>4, <2>6, <3>1, HeldByTop
  <2>8. /\ before \in Stacks
        /\ \A u \in Threads :
             /\ Len(before[u]) = Len(stack[u])
             /\ \A i \in 1..Len(stack[u]) :
                  before[u][i] = IF u = t /\ i = Depth(t) THEN f ELSE stack[u][i]
    BY <1>1, <2>1, <2>4, SetTopEffect
  <2>9. \A u \in Threads \ {t} : before[u] = stack[u]
    BY <1>1 DEF SetTop, Stacks
  <2>10. ASSUME NEW i \in 1..Len(before[t])
         PROVE  before[t][i].at = "compile" /\ Rank[d] < Rank[before[t][i].obj]
    <3>1. Depth(t) = Len(before[t]) /\ before[t][Depth(t)] = f
      BY <2>3, <2>8 DEF Depth
    <3>2. CASE i = Depth(t)
      BY <2>4, <2>5, <3>1, <3>2
    <3>3. CASE i # Depth(t)
      <4>1. i < Depth(t) /\ Depth(t) \in 1..Len(before[t])
        BY <2>3, <3>1, <3>3
      <4>2. before[t][i].at = "compile" /\ Rank[f.obj] < Rank[before[t][i].obj]
        BY <2>6, <3>1, <4>1 DEF NestedIn
      <4>3. before[t][i].obj \in Objects
        <5>1. before[t] \in Seq(Frames)
          BY <2>8 DEF Stacks
        <5>2. before[t][i] \in Frames
          BY <5>1, ElementOfSeq
        <5> QED  BY <5>2 DEF Frames
      <4> QED  BY <2>4, <2>5, <4>2, <4>3
    <3> QED  BY <3>2, <3>3
  <2>11. stack' = WithCall(t, before, d)
    BY <2>2 DEF WithCall, f
  <2>12. table' = table /\ calls' \in [Threads -> Nat]
    BY <1>1, <1>4 DEF Ask
  <2> HIDE DEF before
  <2> QED
    BY <1>2, <2>5, <2>6, <2>7, <2>8, <2>9, <2>10, <2>11, <2>12
<1> QED  BY <1>3, <1>4

(* A compile function ends, or a wait. *)
LEMMA EndStep ==
  ASSUME NestedInv, NEW t \in Threads, CompileReturns(t) \/ CompileThrows(t) \/ Get(t)
  PROVE  NestedInv'
<1>1. /\ stack \in Stacks /\ table \in [Objects -> Futures \cup {None}]
      /\ calls \in [Threads -> Nat]
      /\ \A u \in Threads : \A i \in 1..Len(stack[u]) :
           ProducedIn(stack, stack[u][i].obj, stack[u][i].future)
  BY DEF NestedInv, TypeOK, Stacks, HeldProduced
<1>2. Busy(t) /\ Top(t).at \in {"compile", "wait"}
  BY DEF CompileReturns, CompileThrows, Get, At
<1>3. Top(t) \in Frames /\ Depth(t) \in 1..Len(stack[t])
  BY <1>2, TopFacts
<1>4. CASE CompileReturns(t)
  <2> DEFINE f == [Top(t) EXCEPT !.at = "wait", !.future = Settled("ready")]
             s == SetTop(t, f)
  <2>1. /\ f \in Frames /\ f.obj = Top(t).obj /\ f.at = "wait"
        /\ f.future.state # "pending"
    BY <1>3 DEF Frames, Settled, Futures
  <2>2. Settle(t, "ready", s) /\ UNCHANGED calls
    BY <1>4 DEF CompileReturns
  <2> HIDE DEF f
  <2>3. /\ NestedIn(s)
        /\ \A u \in Threads, o \in Objects :
             CompiledIn(stack, u, o) /\ ~(u = t /\ o = Top(t).obj) => CompiledIn(s, u, o)
    BY <1>2, <2>1, GoesOn
  <2>4. /\ s \in Stacks
        /\ \A u \in Threads :
             /\ Len(s[u]) = Len(stack[u])
             /\ \A i \in 1..Len(stack[u]) :
                  s[u][i] = IF u = t /\ i = Depth(t) THEN f ELSE stack[u][i]
    BY <1>1, <1>2, <2>1, SetTopEffect
  <2> HIDE DEF s
  <2>5. ASSUME NEW u \in Threads, NEW i \in 1..Len(s[u])
        PROVE  ProducedIn(stack, s[u][i].obj, s[u][i].future)
    <3>1. CASE u = t /\ i = Depth(t)
      BY <2>1, <2>4, <3>1 DEF ProducedIn
    <3>2. CASE ~(u = t /\ i = Depth(t))
      BY <1>1, <2>4, <3>2
    <3> QED  BY <3>1, <3>2
  <2> QED  BY <2>2, <2>3, <2>4, <2>5, SettledRest
<1>5. CASE CompileThrows(t)
  <2> DEFINE s == WithoutTop(t)
  <2>1. Settle(t, "broken", s) /\ UNCHANGED calls
    BY <1>5 DEF CompileThrows, OutcomeOfThrow, WithoutTop
  <2>2. /\ NestedIn(s)
        /\ \A u \in Threads, o \in Objects :
             CompiledIn(stack, u, o) /\ ~(u = t /\ o = Top(t).obj) => CompiledIn(s, u, o)
    BY <1>2, EndsAlone
  <2>3. /\ s \in Stacks
        /\ \A u \in Threads : \A i \in 1..Len(s[u]) :
             i \in 1..Len(stack[u]) /\ s[u][i] = stack[u][i]
    <3>1. /\ s \in Stacks
          /\ Depth(t) \in Nat /\ Depth(t) >= 1
          /\ \A u \in Threads :
               /\ Len(s[u]) = IF u = t THEN Depth(t) - 1 ELSE Len(stack[u])
               /\ Len(s[u]) \in Nat
               /\ \A i \in 1..Len(s[u]) : s[u][i] = stack[u][i]
      BY <1>1, <1>2, PopEffect
    <3> HIDE DEF s
    <3>2. ASSUME NEW u \in Threads, NEW i \in 1..Len(s[u])
          PROVE  i \in 1..Len(stack[u])
      <4>1. CASE u = t
        BY <3>1, <4>1 DEF Depth
      <4>2. CASE u # t
        BY <3>1, <4>2
      <4> QED  BY <4>1, <4>2
    <3> QED  BY <3>1, <3>2
  <2> HIDE DEF s
  <2>4. \A u \in Threads : \A i \in 1..Len(s[u]) :
          ProducedIn(stack, s[u][i].obj, s[u][i].future)
    BY <1>1, <2>3
  <2> QED  BY <2>1, <2>2, <2>3, <2>4, SettledRest
<1>6. CASE Get(t)
  <2> DEFINE s == WithoutTop(t)
  <2>1. stack' = s /\ table' = table /\ calls' = calls /\ Top(t).at = "wait"
    BY <1>6 DEF Get, At, WithoutTop
  <2>2. NestedIn(s) /\ Keeps(s)
    BY <1>2, <2>1, EndsAlone
  <2>3. /\ s \in Stacks
        /\ Depth(t) \in Nat /\ Depth(t) >= 1
        /\ \A u \in Threads :
             /\ Len(s[u]) = IF u = t THEN Depth(t) - 1 ELSE Len(stack[u])
             /\ Len(s[u]) \in Nat
             /\ \A i \in 1..Len(s[u]) : s[u][i] = stack[u][i]
    BY <1>1, <1>2, PopEffect
  <2> HIDE DEF s
  <2>4. ASSUME NEW u \in Threads, NEW i \in 1..Len(s[u])
        PROVE  ProducedIn(s, s[u][i].obj, s[u][i].future)
    <3>1. i \in 1..Len(stack[u]) /\ s[u][i] = stack[u][i]
      <4>1. CASE u = t
        BY <2>3, <4>1 DEF Depth
      <4>2. CASE u # t
        BY <2>3, <4>2
      <4> QED  BY <4>1, <4>2
    <3>2. stack[u][i].obj \in Objects
      BY <1>1, <3>1, FrameFacts DEF Frames
    <3> QED  BY <1>1, <2>2, <3>1, <3>2, ProducedKept
  <2>5. \A o \in Objects : table'[o] = table[o]
    BY <2>1
  <2>6. TableProduced(s, table')
    BY <2>2, <2>5, TableKept
  <2> QED
    BY <1>1, <2>1, <2>2, <2>3, <2>4, <2>6
    DEF NestedInv, TypeOK, Stacks, HeldProduced
<1> QED  BY <1>4, <1>5, <1>6

LEMMA NestedStart == Init => NestedInv
<1> SUFFICES ASSUME Init PROVE NestedInv
  OBVIOUS
<1>1. TypeOK
  BY EmptySeq DEF Init, TypeOK
<1>2. \A t \in Threads : Len(stack[t]) = 0
  BY DEF Init
<1> QED
  BY <1>1, <1>2 DEF Init, NestedInv, NestedIn, TableProduced, HeldProduced

LEMMA NestedStep == NestedInv /\ [Next]_vars => NestedInv'
<1>1. ASSUME NestedInv, NEW t \in Threads, Call(t) \/ Advance(t)
      PROVE  NestedInv'
  BY <1>1, CallStep, LookupStep, EndStep DEF Advance
<1>2. ASSUME NestedInv, UNCHANGED vars PROVE NestedInv'
  BY <1>2
  DEF NestedInv, TypeOK, NestedIn, TableProduced, HeldProduced, ProducedIn, CompiledIn, vars
<1> QED  BY <1>1, <1>2 DEF Next, Quiescent

-----------------------------------------------------------------------------
(* The theorems.                                                           *)

(* Every state of the model is one the program can be in: what the table   *)
(* holds are futures, and what a thread is in are calls.                   *)
THEOREM NestedTypes == Spec => []TypeOK
<1>1. NestedInv => TypeOK
  BY DEF NestedInv
<1> QED  BY <1>1, NestedStart, NestedStep, PTL DEF Spec

(* However deep calls nest, whatever is evicted and whoever throws: the    *)
(* owner of the promise behind every future that a thread waits for is in  *)
(* the compile of that very object (get_or_add).                           *)
THEOREM ProducersCompile == Spec => []WaitersHaveProducers
<1>1. NestedInv => WaitersHaveProducers
  <2> SUFFICES ASSUME NestedInv, NEW t \in Threads,
                      At(t, "wait"), Top(t).future.state = "pending"
               PROVE  Top(t).future.by \in Threads /\ Producing(Top(t).future.by, Top(t).obj)
    BY DEF WaitersHaveProducers
  <2>1. ProducedIn(stack, Top(t).obj, Top(t).future)
    BY TopFacts DEF At
  <2>2. /\ Top(t).future.by \in Threads
        /\ CompiledIn(stack, Top(t).future.by, Top(t).obj)
    BY <2>1 DEF ProducedIn
  <2>3. DOMAIN stack[Top(t).future.by] = 1..Len(stack[Top(t).future.by])
    BY <2>2, LenProperties DEF NestedInv, TypeOK
  <2> QED  BY <2>2, <2>3 DEF CompiledIn, Producing
<1> QED  BY <1>1, NestedStart, NestedStep, PTL DEF Spec

(* What a thread waits for ranks above what the thread that compiles it    *)
(* waits for in turn.                                                      *)
LEMMA WaitsForLess ==
  ASSUME NestedInv, NEW t \in Threads, NEW u \in Threads,
         WaitsFor(t, u), At(u, "wait")
  PROVE  Rank[Top(u).obj] < Rank[Top(t).obj]
<1>1. /\ Top(t).future.state = "pending" /\ Top(t).future.by = u
      /\ Busy(t) /\ Busy(u) /\ Top(u).at = "wait"
  BY DEF WaitsFor, Pending, At
<1>2. ProducedIn(stack, Top(t).obj, Top(t).future)
  BY <1>1, TopFacts
<1>3. PICK i \in 1..Len(stack[u]) :
        stack[u][i].obj = Top(t).obj /\ stack[u][i].at = "compile"
  BY <1>1, <1>2 DEF ProducedIn, CompiledIn
<1>4. /\ Depth(u) \in 1..Len(stack[u]) /\ Top(u) = stack[u][Depth(u)]
      /\ Depth(u) = Len(stack[u])
  BY <1>1, TopFacts DEF Depth
<1>5. i < Depth(u)
  BY <1>1, <1>3, <1>4
<1> QED  BY <1>3, <1>4, <1>5 DEF NestedInv, NestedIn

(* Of threads that wait there is one whose object ranks lowest. *)
LEMMA LowestRank ==
  ASSUME NEW R \in SUBSET Nat, R # {}
  PROVE  \E n \in R : \A m \in R : ~(m < n)
<1>1. \E n \in R : \A m \in R : ~(<<m, n>> \in OpToRel(<, Nat))
  BY NatLessThanWellFounded, WFMin, Zenon
<1> QED  BY <1>1 DEF OpToRel

(* For any number of threads, any depth of nesting and any dependencies    *)
(* without a cycle among themselves: nobody ever waits in a circle, for    *)
(* the rank falls from each thread to the one it waits for (get_or_add).   *)
THEOREM NobodyWaitsInACircle == Spec => []NoCircularWait
<1>1. NestedInv => NoCircularWait
  <2> SUFFICES ASSUME NestedInv, NEW S \in SUBSET Threads, S # {},
                      \A t \in S : \E u \in S : WaitsFor(t, u)
               PROVE  FALSE
    BY DEF NoCircularWait
  <2>1. \A t \in S : At(t, "wait") /\ Rank[Top(t).obj] \in Nat
    BY TopFacts, NestedAssumption DEF WaitsFor, At, Frames
  <2> DEFINE R == {Rank[Top(t).obj] : t \in S}
  <2>2. R \in SUBSET Nat /\ R # {}
    BY <2>1
  <2>3. PICK n \in R : \A m \in R : ~(m < n)
    BY <2>2, LowestRank
  <2>4. PICK t \in S : n = Rank[Top(t).obj]
    BY <2>3
  <2>5. PICK u \in S : WaitsFor(t, u)
    OBVIOUS
  <2>6. Rank[Top(u).obj] < Rank[Top(t).obj]
    BY <2>1, <2>5, WaitsForLess
  <2> QED  BY <2>3, <2>4, <2>5, <2>6
<1> QED  BY <1>1, NestedStart, NestedStep, PTL DEF Spec
=============================================================================
