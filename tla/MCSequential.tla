---------------------------- MODULE MCSequential ----------------------------
(* The parts of rtcx that are sequential and have nothing to do with each  *)
(* other, for TLC: the hexadecimal form of a hash (hashes of two bytes,    *)
(* and strings of up to five characters, "g" for whatever is no digit),    *)
(* the generator of embedded files, and the objects that own something.    *)
(* One of them runs, and the others rest.                                  *)
EXTENDS Hash128, Embed, Buffers

HexDigits == <<"0", "1", "2", "3", "4", "5", "6", "7",
               "8", "9", "a", "b", "c", "d", "e", "f">>
UpperDigits == <<"A", "B", "C", "D", "E", "F">>

AllChars == {HexDigits[n] : n \in 1..16} \cup {UpperDigits[n] : n \in 1..6} \cup {"g"}

Digits ==
  [c \in AllChars |->
     IF \E n \in 1..16 : HexDigits[n] = c
     THEN (CHOOSE n \in 1..16 : HexDigits[n] = c) - 1
     ELSE IF c = "g" THEN NotADigit
     ELSE 9 + CHOOSE n \in 1..6 : UpperDigits[n] = c]

LowerCase == [d \in 0..15 |-> HexDigits[d + 1]]

(* Every value of the first byte, and the edges for the second. *)
SomeHashes ==
  {h \in [0..1 -> Byte] : h[1] \in {0, 1, 15, 16, 171, 240, 255}}

SomeStrings == UNION {[1..m -> {"0", "9", "a", "F", "g"}] : m \in 0..5}

-----------------------------------------------------------------------------
Registered(id, path, dest) == [id |-> id, path |-> path, dest |-> dest]
Element(id, type, v) == [id |-> id, type |-> type, value |-> v]
Registering(files, dirs, arrays, compression) ==
  [files |-> files, dirs |-> dirs, arrays |-> arrays, compression |-> compression]

PathA == <<1>>
PathB == <<1, 2>>
TwoPaths == {PathA, PathB}

FileA(dest) == Registered(<<1>>, PathA, dest)
FileB(dest) == Registered(<<2, 2>>, PathB, dest)

(* An empty file, a text, and one with a NUL. *)
SomeContents == {<<>>, <<1>>, <<2, 0>>}

CompressionNames == [none |-> <<3>>, zstd |-> <<4>>, lzma |-> <<5>>]

(* One file or two; other include directories, other destinations; arrays  *)
(* of both types, one of mixed types; a compression that does not exist.   *)
SomeConfigs ==
  {Registering(<<FileA(<<1>>)>>, <<>>, <<>>, "none"),
   Registering(<<FileB(<<2>>), FileA(<<1>>)>>, <<<<1>>>>,
               <<Element("a", "INT", 1), Element("b", "STRING", 2), Element("a", "INT", 2)>>,
               "zstd"),
   Registering(<<FileB(<<2>>), FileA(<<1>>)>>, <<<<1>>, <<2>>>>, <<>>, "none"),
   Registering(<<FileB(<<2>>), FileA(<<2>>)>>, <<<<1>>>>, <<>>, "zstd"),
   Registering(<<FileA(<<1>>)>>, <<>>,
               <<Element("a", "INT", 1), Element("a", "STRING", 2)>>, "none"),
   Registering(<<FileA(<<1>>)>>, <<>>, <<>>, "lzma")}

-----------------------------------------------------------------------------
VARIABLE part

HashRests ==
  /\ hex = <<>> /\ source = None /\ i = 0 /\ status = "invalid"
  /\ data = [j \in 0..(NumBytes - 1) |-> 0]

EmbedRests ==
  /\ config = (CHOOSE c \in Configs : TRUE)
  /\ onDisk = [p \in Paths |-> CHOOSE c \in Contents : TRUE]
  /\ stage = "rest" /\ loaded = <<>> /\ out = [f \in Writing |-> Missing]
  /\ torn = FALSE /\ built = Missing /\ builds = 0

SequentialInit ==
  \/ part = "hash" /\ Init /\ EmbedRests /\ BuffersInit
  \/ part = "embed" /\ EmbedInit /\ HashRests /\ BuffersInit
  \/ part = "buffers" /\ BuffersInit /\ HashRests /\ EmbedRests

SequentialNext ==
  \/ part = "hash" /\ Next /\ UNCHANGED <<part, embedVars, bufferVars>>
  \/ part = "embed" /\ EmbedNext /\ UNCHANGED <<part, vars, bufferVars>>
  \/ part = "buffers" /\ BuffersNext /\ UNCHANGED <<part, vars, embedVars>>

SequentialSpec == SequentialInit /\ [][SequentialNext]_<<part, vars, embedVars, bufferVars>>

(* The types of all three parts. *)
SequentialTypeOK == TypeOK /\ EmbedTypeOK /\ BuffersTypeOK
=============================================================================
