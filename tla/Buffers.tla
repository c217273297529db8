------------------------------- MODULE Buffers -------------------------------
(* The objects of rtcx that own something they release in their destructor *)
(* and that can be moved but not copied: byte_buffer, blob_t and           *)
(* algorithm_launcher.                                                     *)
(*                                                                         *)
(* A program makes, moves, assigns, converts and destroys them in any      *)
(* order; what a destructor has been given twice, or by the wrong function,*)
(* or never, is the error it must not make.                                *)
EXTENDS Naturals

CONSTANTS
  Slots,     \* the variables of the program
  Blocks,    \* addresses, and the handles of libraries: a bound
  MaxSize,   \* bound on the sizes of buffers and files
  Nobody     \* no object, or no address

Kinds == {"buffer", "blob", "launcher"}
Releases == {"free", "munmap", "unload", "noop"}

Objects ==
  [kind : Kinds, data : Blocks \cup {Nobody}, size : 0..MaxSize, deallocator : Releases]
Origins == [by : Releases, size : 0..MaxSize]

ASSUME BuffersAssumption ==
  /\ MaxSize \in Nat
  /\ Nobody \notin Blocks \cup Objects \cup Origins

VARIABLES
  object,   \* object[s]: the object in variable s, or Nobody
  taken,    \* the addresses release() has given to the program
  origin    \* origin[b]: what b is to be released by, and its size, or Nobody

bufferVars == <<object, taken, origin>>

BuffersInit ==
  /\ object = [s \in Slots |-> Nobody]
  /\ taken = {}
  /\ origin = [b \in Blocks |-> Nobody]

Unused(b) == origin[b] = Nobody
Allocate(b, how, n) == origin' = [origin EXCEPT ![b] = [by |-> how, size |-> n]]
Make(kind, data, n, how) ==
  [kind |-> kind, data |-> data, size |-> n, deallocator |-> how]

\* The deallocator of an object that owns nothing: free(nullptr) or no call.
EmptyOf(kind) ==
  Make(kind, Nobody, 0, IF kind = "buffer" THEN "free"
                        ELSE IF kind = "blob" THEN "noop" ELSE "unload")

(* The destructor; what owns nothing, or not what it shows, releases none. *)
Destroyed(o) ==
  [b \in Blocks |-> IF o.data = b /\ o.deallocator # "noop" THEN Nobody ELSE origin[b]]

-----------------------------------------------------------------------------
(* Making one. *)

Default(s, kind) ==
  /\ object[s] = Nobody
  /\ object' = [object EXCEPT ![s] = EmptyOf(kind)]
  /\ UNCHANGED <<taken, origin>>

(* buffer::make; malloc may give no memory, and nothing happens then. *)
MakeBuffer(s, n) ==
  /\ object[s] = Nobody
  /\ \E b \in Blocks :
       /\ Unused(b)
       /\ Allocate(b, "free", n)
       /\ object' = [object EXCEPT ![s] = Make("buffer", b, n, "free")]
  /\ UNCHANGED taken

(* blob_t::from_file: an empty file is not mapped. *)
FromFile(s, n) ==
  /\ object[s] = Nobody
  /\ IF n = 0
     THEN /\ object' = [object EXCEPT ![s] = EmptyOf("blob")]
          /\ UNCHANGED origin
     ELSE \E b \in Blocks :
            /\ Unused(b)
            /\ Allocate(b, "munmap", n)
            /\ object' = [object EXCEPT ![s] = Make("blob", b, n, "munmap")]
  /\ UNCHANGED taken

(* blob_t::from_static_data, of memory that another object or the program  *)
(* itself has.                                                             *)
FromStatic(s, b) ==
  /\ object[s] = Nobody
  /\ ~Unused(b)
  /\ object' = [object EXCEPT ![s] = Make("blob", b, origin[b].size, "noop")]
  /\ UNCHANGED <<taken, origin>>

(* algorithm_launcher's constructor takes over the library. *)
Launcher(s) ==
  /\ object[s] = Nobody
  /\ \E b \in Blocks :
       /\ Unused(b)
       /\ Allocate(b, "unload", 0)
       /\ object' = [object EXCEPT ![s] = Make("launcher", b, 0, "unload")]
  /\ UNCHANGED taken

-----------------------------------------------------------------------------
(* Moving and destroying. *)

\* A move that copies.
MovedFromUnchanged(o) == o

MovedFrom(o) == EmptyOf(o.kind)

MoveConstruct(s, d) ==
  /\ object[s] # Nobody
  /\ object[d] = Nobody
  /\ object' = [object EXCEPT ![d] = object[s], ![s] = MovedFrom(object[s])]
  /\ UNCHANGED <<taken, origin>>

(* Assigned to itself an object stays what it is. *)
MoveAssign(s, d) ==
  /\ object[s] # Nobody
  /\ object[d] # Nobody
  /\ object[s].kind = object[d].kind
  /\ IF s = d THEN UNCHANGED <<object, origin>>
     ELSE /\ origin' = Destroyed(object[d])
          /\ object' = [object EXCEPT ![d] = object[s], ![s] = MovedFrom(object[s])]
  /\ UNCHANGED taken

Destroy(s) ==
  /\ object[s] # Nobody
  /\ origin' = Destroyed(object[s])
  /\ object' = [object EXCEPT ![s] = Nobody]
  /\ UNCHANGED taken

(* buffer::release: the program is to free what it gets. *)
Release(s) ==
  /\ object[s] # Nobody
  /\ object[s].kind = "buffer"
  /\ object[s].data # Nobody
  /\ taken' = taken \cup {object[s].data}
  /\ object' = [object EXCEPT ![s] = EmptyOf("buffer")]
  /\ UNCHANGED origin

Free(b) ==
  /\ b \in taken
  /\ taken' = taken \ {b}
  /\ origin' = [origin EXCEPT ![b] = Nobody]
  /\ UNCHANGED object

\* The size of a buffer that has already been released.
SizeOfReleased(o) == 0

(* The size is read before the buffer is released. *)
SizeOfBuffer(o) == o.size

(* blob_t::from_buffer, and a null pointer is passed to free() in the end. *)
FromBuffer(s, d) ==
  /\ object[s] # Nobody
  /\ object[s].kind = "buffer"
  /\ object[d] = Nobody
  /\ object' = [object EXCEPT
       ![d] = Make("blob", object[s].data, SizeOfBuffer(object[s]), "free"),
       ![s] = MovedFrom(object[s])]
  /\ UNCHANGED <<taken, origin>>

BuffersNext ==
  \/ \E s \in Slots :
       \/ \E kind \in Kinds : Default(s, kind)
       \/ \E n \in 0..MaxSize : MakeBuffer(s, n) \/ FromFile(s, n)
       \/ \E b \in Blocks : FromStatic(s, b)
       \/ Launcher(s) \/ Destroy(s) \/ Release(s)
       \/ \E d \in Slots : MoveConstruct(s, d) \/ MoveAssign(s, d) \/ FromBuffer(s, d)
  \/ \E b \in Blocks : Free(b)

BuffersSpec == BuffersInit /\ [][BuffersNext]_bufferVars

-----------------------------------------------------------------------------
BuffersTypeOK ==
  /\ object \in [Slots -> Objects \cup {Nobody}]
  /\ taken \subseteq Blocks
  /\ origin \in [Blocks -> Origins \cup {Nobody}]

Owns(s, b) ==
  object[s] # Nobody /\ object[s].data = b /\ object[s].deallocator # "noop"

(* Whatever is allocated, mapped or loaded has exactly one owner that will *)
(* release it, an object or the program that has taken it, and what is not *)
(* has none: everything is released once, and nothing is lost (the moves   *)
(* and destructors of buffer, blob_t and algorithm_launcher, from_buffer). *)
OneOwner ==
  \A b \in Blocks :
    /\ \A s, u \in Slots : Owns(s, b) /\ Owns(u, b) => s = u
    /\ b \in taken => \A s \in Slots : ~Owns(s, b)
    /\ ~Unused(b) <=> b \in taken \/ \E s \in Slots : Owns(s, b)

(* An owner releases its data by the function it came from and with its    *)
(* whole size, wherever it has been moved and whatever it was made of.     *)
ReleasedAsMade ==
  \A b \in Blocks, s \in Slots :
    Owns(s, b) /\ ~Unused(b) =>
      object[s].deallocator = origin[b].by /\ object[s].size = origin[b].size
=============================================================================
