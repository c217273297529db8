-------------------------- MODULE SequentialProofs --------------------------
(* Proofs about the parts of rtcx that are sequential: the hexadecimal     *)
(* form of a hash, for any number of bytes and any strings; the owners of  *)
(* what is released in destructors, for any number of objects, addresses   *)
(* and sizes; and the generator of embedded files, for any files and names.*)
EXTENDS MCSequential, WellFoundedInduction, TLAPS

-----------------------------------------------------------------------------
(* The hexadecimal form of a hash.                                         *)

(* The digits of a byte give the byte again.                               *)
LEMMA ByteHalves ==
  ASSUME NEW b \in Byte
  PROVE  /\ b \div 16 \in 0..15
         /\ b % 16 \in 0..15
         /\ 16 * (b \div 16) + (b % 16) = b
BY DEF Byte

LEMMA HalfIsByte ==
  ASSUME NEW m \in Nat, NEW k \in 0..(2 * m - 1)
  PROVE  k \div 2 \in 0..(m - 1)
OBVIOUS

LEMMA DigitPlaces ==
  ASSUME NEW n \in Nat
  PROVE  /\ ((2 * n + 1) - 1) \div 2 = n
         /\ (2 * n + 1) % 2 = 1
         /\ ((2 * n + 2) - 1) \div 2 = n
         /\ (2 * n + 2) % 2 = 0
OBVIOUS

(* make gives a string of the right length, ...                            *)
LEMMA ToHexIsString ==
  ASSUME NEW h \in Hash
  PROVE  ToHex(h) \in Seq(Chars) /\ LengthOK(ToHex(h))
<1>1. NumDigits \in Nat
  BY HashAssumption DEF NumDigits
<1>2. ASSUME NEW n \in 1..NumDigits PROVE ToHex(h)[n] \in Chars
  <2>1. (n - 1) \div 2 \in 0..(NumBytes - 1)
    <3>1. NumBytes \in Nat /\ n - 1 \in 0..(2 * NumBytes - 1)
      BY HashAssumption DEF NumDigits
    <3> QED BY <3>1, HalfIsByte
  <2>2. h[(n - 1) \div 2] \in Byte
    BY <2>1 DEF Hash
  <2>3. PICK b \in Byte : b = h[(n - 1) \div 2]
    BY <2>2
  <2>4. HexChars[b \div 16] \in Chars /\ HexChars[b % 16] \in Chars
    BY ByteHalves, HashAssumption
  <2>5. HexByte(b) = <<HexChars[b \div 16], HexChars[b % 16]>>
    BY DEF HexByte
  <2>6. ToHex(h)[n] = HexByte(b)[IF n % 2 = 1 THEN 1 ELSE 2]
    BY <2>3 DEF ToHex
  <2> QED BY <2>4, <2>5, <2>6
<1>3. ToHex(h) \in [1..NumDigits -> Chars]
  BY <1>2 DEF ToHex
<1>4. ToHex(h) \in Seq(Chars)
  BY <1>1, <1>3
<1>5. Len(ToHex(h)) = NumDigits
  BY <1>1, <1>4 DEF ToHex
<1> QED BY <1>4, <1>5 DEF LengthOK

(* ... whose digits are those of the bytes.                                *)
LEMMA ToHexDigits ==
  ASSUME NEW h \in Hash, NEW n \in 0..(NumBytes - 1)
  PROVE  /\ DigitOf[ToHex(h)[2 * n + 1]] = h[n] \div 16
         /\ DigitOf[ToHex(h)[2 * n + 2]] = h[n] % 16
<1>1. h[n] \in Byte
  BY DEF Hash
<1>2. n \in Nat /\ 2 * n + 1 \in 1..NumDigits /\ 2 * n + 2 \in 1..NumDigits
  BY HashAssumption DEF NumDigits
<1>3. HexByte(h[n]) = <<HexChars[h[n] \div 16], HexChars[h[n] % 16]>>
  BY DEF HexByte
<1>4. ToHex(h)[2 * n + 1] = HexChars[h[n] \div 16]
  <2>1. ToHex(h)[2 * n + 1] = HexByte(h[((2 * n + 1) - 1) \div 2])[IF (2 * n + 1) % 2 = 1 THEN 1 ELSE 2]
    BY <1>2 DEF ToHex
  <2> QED BY <2>1, <1>2, <1>3, DigitPlaces
<1>5. ToHex(h)[2 * n + 2] = HexChars[h[n] % 16]
  <2>1. ToHex(h)[2 * n + 2] = HexByte(h[((2 * n + 2) - 1) \div 2])[IF (2 * n + 2) % 2 = 1 THEN 1 ELSE 2]
    BY <1>2 DEF ToHex
  <2> QED BY <2>1, <1>2, <1>3, DigitPlaces
<1>6. h[n] \div 16 \in 0..15 /\ h[n] % 16 \in 0..15
  BY <1>1, ByteHalves
<1> QED BY <1>4, <1>5, <1>6, HashAssumption

-----------------------------------------------------------------------------
(* What has been parsed is the beginning of the hash that was printed.     *)
SoFar ==
  source # None =>
    /\ hex = ToHex(source)
    /\ status # "invalid"
    /\ \A j \in 0..(NumBytes - 1) : j < i => data[j] = source[j]

IInv ==
  /\ TypeOK
  /\ status # "invalid" => LengthOK(hex)
  /\ status = "done" => i = NumBytes
  /\ SoFar

LEMMA InvariantInit == Init => IInv
<1> SUFFICES ASSUME Init PROVE IInv
  OBVIOUS
<1> USE HashAssumption, PrintedAssumption DEF Init
<1>1. source \in Printed \cup {None} /\ hex \in Seq(Chars)
  BY ToHexIsString
<1>2. TypeOK
  BY <1>1 DEF TypeOK, Hash, Byte
<1>3. source # None => hex = ToHex(source) /\ LengthOK(hex)
  BY ToHexIsString
<1>4. SoFar
  BY <1>3 DEF SoFar
<1> QED BY <1>2, <1>4 DEF IInv

(* The value of two digits fits in a byte.                                 *)
LEMMA ValueIsByte ==
  ASSUME IInv, status = "parsing", i < NumBytes, HasDigit
  PROVE  ByteValue \in Byte
<1>1. /\ i \in 0..NumBytes
      /\ hex \in Seq(Chars)
      /\ Len(hex) = 2 * NumBytes
      /\ NumBytes \in Nat
  BY HashAssumption DEF IInv, TypeOK, LengthOK, NumDigits
<1>2. 2 * i + 1 \in 1..Len(hex) /\ 2 * i + 2 \in 1..Len(hex)
  BY <1>1
<1>3. hex[2 * i + 1] \in Chars /\ hex[2 * i + 2] \in Chars
  BY <1>1, <1>2
<1>4. High \in 0..NotADigit /\ Low \in 0..NotADigit
  BY <1>3, HashAssumption DEF High, Low
<1> QED BY <1>4 DEF HasDigit, ByteValue, Byte, NotADigit

(* Two digits of a printed hash are read back as the byte they stand for.  *)
LEMMA ValueIsPrinted ==
  ASSUME IInv, status = "parsing", i < NumBytes, source # None
  PROVE  HasDigit /\ ByteValue = source[i]
<1>1. source \in Hash /\ i \in 0..(NumBytes - 1) /\ hex = ToHex(source)
  BY HashAssumption, PrintedAssumption DEF IInv, TypeOK, SoFar
<1>2. High = source[i] \div 16 /\ Low = source[i] % 16
  BY <1>1, ToHexDigits DEF High, Low
<1>3. source[i] \in Byte
  BY <1>1 DEF Hash
<1>4. PICK b \in Byte : b = source[i]
  BY <1>3
<1>5. b \div 16 \in 0..15 /\ b % 16 \in 0..15 /\ 16 * (b \div 16) + (b % 16) = b
  BY ByteHalves
<1>6. High = b \div 16 /\ Low = b % 16
  BY <1>2, <1>4, Zenon
<1>7. High \in 0..15 /\ Low \in 0..15 /\ 16 * High + Low = b
  BY <1>5, <1>6
<1> QED BY <1>4, <1>7 DEF HasDigit, ByteValue, NotADigit

LEMMA InvariantNext == IInv /\ [Next]_vars => IInv'
<1> SUFFICES ASSUME IInv, [Next]_vars PROVE IInv'
  OBVIOUS
<1> USE HashAssumption DEF IInv, TypeOK, SoFar, LengthOK
<1>1. CASE ParseByte
  <2>1. ByteValue \in Byte
    BY <1>1, ValueIsByte DEF ParseByte
  <2>2. TypeOK'
    BY <1>1, <2>1 DEF ParseByte, Hash
  <2>3. SoFar'
    <3> SUFFICES ASSUME source # None,
                        NEW j \in 0..(NumBytes - 1), j < i'
                 PROVE  data'[j] = source[j]
      BY <1>1 DEF ParseByte
    <3>1. ByteValue = source[i]
      BY <1>1, ValueIsPrinted DEF ParseByte
    <3>2. data' = [data EXCEPT ![i] = ByteValue] /\ i' = i + 1
      BY <1>1 DEF ParseByte
    <3>3. CASE j = i
      BY <3>1, <3>2, <3>3 DEF Hash
    <3>4. CASE j # i
      <4>1. j < i
        BY <3>2, <3>4
      <4> QED BY <3>2, <3>4, <4>1 DEF Hash
    <3> QED BY <3>3, <3>4
  <2> QED BY <1>1, <2>2, <2>3 DEF ParseByte
<1>2. CASE RejectByte
  <2>1. source = None
    BY <1>2, ValueIsPrinted DEF RejectByte
  <2> QED BY <1>2, <2>1 DEF RejectByte
<1>3. CASE Finish
  BY <1>3 DEF Finish
<1>4. CASE UNCHANGED vars
  BY <1>4 DEF vars
<1> QED BY <1>1, <1>2, <1>3, <1>4 DEF Next, Stop

LEMMA Invariance == Spec => []IInv
<1>1. Init => IInv
  BY InvariantInit
<1>2. IInv /\ [Next]_vars => IInv'
  BY InvariantNext
<1> QED BY <1>1, <1>2, PTL DEF Spec

(* parse stays within its string and its bytes, whatever it is given.      *)
THEOREM TypeCorrect == Spec => []TypeOK
<1>1. IInv => TypeOK
  BY DEF IInv
<1> QED BY <1>1, Invariance, PTL

(* A hash that has been printed is parsed, and gives the same hash again.  *)
THEOREM ParseUndoesMake == Spec => []RoundTrip
<1>1. IInv => RoundTrip
  <2> SUFFICES ASSUME IInv, source # None, status = "done" PROVE data = source
    BY DEF IInv, SoFar, RoundTrip
  <2>1. source \in Hash /\ data \in Hash /\ i = NumBytes
    BY PrintedAssumption DEF IInv, TypeOK
  <2>2. \A j \in 0..(NumBytes - 1) : data[j] = source[j]
    BY <2>1, HashAssumption DEF IInv, SoFar
  <2>3. source \in [0..(NumBytes - 1) -> Byte] /\ data \in [0..(NumBytes - 1) -> Byte]
    BY <2>1 DEF Hash
  <2>4. /\ source = [j \in 0..(NumBytes - 1) |-> source[j]]
        /\ data = [j \in 0..(NumBytes - 1) |-> data[j]]
    BY <2>3
  <2> QED BY <2>2, <2>4
<1> QED BY <1>1, Invariance, PTL

-----------------------------------------------------------------------------
(* The owners of buffers and blobs.                                        *)

(* What Release and FromBuffer rely on: only blobs can be mere views.      *)
BuffersFree ==
  \A s \in Slots :
    object[s] # Nobody /\ object[s].kind = "buffer" => object[s].deallocator = "free"

Inv == BuffersTypeOK /\ BuffersFree /\ OneOwner /\ ReleasedAsMade

(* No object is made for nobody, and each object is one of Objects.        *)
LEMMA EmptyIsObject == \A kind \in Kinds : EmptyOf(kind) \in Objects
<1> USE BuffersAssumption
<1> QED BY SMT DEF EmptyOf, Make, Objects, Kinds, Releases

(* Before anything is made, there is nothing to own (the start of a        *)
(* program).                                                               *)
LEMMA InitInv == BuffersInit => Inv
<1> SUFFICES ASSUME BuffersInit PROVE Inv OBVIOUS
<1> USE BuffersAssumption DEF BuffersInit
<1>1. BuffersTypeOK BY SMT DEF BuffersTypeOK
<1>2. OneOwner BY SMT DEF OneOwner, Owns, Unused
<1>3. ReleasedAsMade BY SMT DEF ReleasedAsMade, Owns
<1>4. BuffersFree BY SMT DEF BuffersFree
<1> QED BY <1>1, <1>2, <1>3, <1>4 DEF Inv

(* Each operation keeps the owners apart and the types (all operations).   *)
LEMMA NextInv == Inv /\ [BuffersNext]_bufferVars => Inv'
<1> SUFFICES ASSUME Inv, [BuffersNext]_bufferVars PROVE Inv'
  OBVIOUS
<1> USE BuffersAssumption, EmptyIsObject
<1>0. BuffersTypeOK /\ BuffersFree /\ OneOwner /\ ReleasedAsMade BY DEF Inv
<1>1. ASSUME NEW s \in Slots, NEW kind \in Kinds, Default(s, kind) PROVE Inv'
  <2>1. BuffersTypeOK'
    BY <1>1, <1>0, SMT
    DEF BuffersTypeOK, Unused, Default, EmptyOf, Make, Objects, Origins, Kinds, Releases
  <2>2. OneOwner'
    BY <1>1, <1>0, SMT
    DEF BuffersTypeOK, BuffersFree, OneOwner, Owns, Unused, Default, EmptyOf, Make, Objects, Origins, Kinds, Releases
  <2>3. ReleasedAsMade'
    BY <1>1, <1>0, SMT
    DEF BuffersTypeOK, BuffersFree, OneOwner, ReleasedAsMade, Owns, Unused, Default, EmptyOf, Make, Objects, Origins, Kinds, Releases
  <2>4. BuffersFree'
    BY <1>1, <1>0, SMT
    DEF BuffersTypeOK, BuffersFree, Default, EmptyOf, Make, Objects, Origins, Kinds, Releases
  <2> QED BY <2>1, <2>2, <2>3, <2>4 DEF Inv
<1>2. ASSUME NEW s \in Slots, NEW n \in 0..MaxSize, MakeBuffer(s, n) PROVE Inv'
  <2>1. BuffersTypeOK'
    BY <1>2, <1>0, SMT
    DEF BuffersTypeOK, Unused, MakeBuffer, Allocate, Make, Objects, Origins, Kinds, Releases
  <2>2. OneOwner'
    BY <1>2, <1>0, SMT
    DEF BuffersTypeOK, BuffersFree, OneOwner, Owns, Unused, MakeBuffer, Allocate, Make, Objects, Origins, Kinds, Releases
  <2>3. ReleasedAsMade'
    BY <1>2, <1>0, SMT
    DEF BuffersTypeOK, BuffersFree, OneOwner, ReleasedAsMade, Owns, Unused, MakeBuffer, Allocate, Make, Objects, Origins, Kinds, Releases
  <2>4. BuffersFree'
    BY <1>2, <1>0, SMT
    DEF BuffersTypeOK, BuffersFree, MakeBuffer, Allocate, Make, Objects, Origins, Kinds, Releases
  <2> QED BY <2>1, <2>2, <2>3, <2>4 DEF Inv
<1>3. ASSUME NEW s \in Slots, NEW n \in 0..MaxSize, FromFile(s, n) PROVE Inv'
  <2>1. BuffersTypeOK'
    BY <1>3, <1>0, SMT
    DEF BuffersTypeOK, Unused, FromFile, Allocate, EmptyOf, Make, Objects, Origins, Kinds, Releases
  <2>2. OneOwner'
    BY <1>3, <1>0, SMT
    DEF BuffersTypeOK, BuffersFree, OneOwner, Owns, Unused, FromFile, Allocate, EmptyOf, Make, Objects, Origins, Kinds, Releases
  <2>3. ReleasedAsMade'
    BY <1>3, <1>0, SMT
    DEF BuffersTypeOK, BuffersFree, OneOwner, ReleasedAsMade, Owns, Unused, FromFile, Allocate, EmptyOf, Make, Objects, Origins, Kinds, Releases
  <2>4. BuffersFree'
    BY <1>3, <1>0, SMT
    DEF BuffersTypeOK, BuffersFree, FromFile, Allocate, EmptyOf, Make, Objects, Origins, Kinds, Releases
  <2> QED BY <2>1, <2>2, <2>3, <2>4 DEF Inv
<1>4. ASSUME NEW s \in Slots, NEW b \in Blocks, FromStatic(s, b) PROVE Inv'
  <2>1. BuffersTypeOK'
    BY <1>4, <1>0, SMT
    DEF BuffersTypeOK, Unused, FromStatic, Make, Objects, Origins, Kinds, Releases
  <2>2. OneOwner'
    BY <1>4, <1>0, SMT
    DEF BuffersTypeOK, BuffersFree, OneOwner, Owns, Unused, FromStatic, Make, Objects, Origins, Kinds, Releases
  <2>3. ReleasedAsMade'
    BY <1>4, <1>0, SMT
    DEF BuffersTypeOK, BuffersFree, OneOwner, ReleasedAsMade, Owns, Unused, FromStatic, Make, Objects, Origins, Kinds, Releases
  <2>4. BuffersFree'
    BY <1>4, <1>0, SMT
    DEF BuffersTypeOK, BuffersFree, FromStatic, Make, Objects, Origins, Kinds, Releases
  <2> QED BY <2>1, <2>2, <2>3, <2>4 DEF Inv
<1>5. ASSUME NEW s \in Slots, Launcher(s) PROVE Inv'
  <2>1. BuffersTypeOK'
    BY <1>5, <1>0, SMT
    DEF BuffersTypeOK, Unused, Launcher, Allocate, Make, Objects, Origins, Kinds, Releases
  <2>2. OneOwner'
    BY <1>5, <1>0, SMT
    DEF BuffersTypeOK, BuffersFree, OneOwner, Owns, Unused, Launcher, Allocate, Make, Objects, Origins, Kinds, Releases
  <2>3. ReleasedAsMade'
    BY <1>5, <1>0, SMT
    DEF BuffersTypeOK, BuffersFree, OneOwner, ReleasedAsMade, Owns, Unused, Launcher, Allocate, Make, Objects, Origins, Kinds, Releases
  <2>4. BuffersFree'
    BY <1>5, <1>0, SMT
    DEF BuffersTypeOK, BuffersFree, Launcher, Allocate, Make, Objects, Origins, Kinds, Releases
  <2> QED BY <2>1, <2>2, <2>3, <2>4 DEF Inv
<1>6. ASSUME NEW s \in Slots, Destroy(s) PROVE Inv'
  <2>1. BuffersTypeOK'
    BY <1>6, <1>0, SMT
    DEF BuffersTypeOK, Unused, Destroy, Destroyed, Objects, Origins, Kinds, Releases
  <2>2. OneOwner'
    BY <1>6, <1>0, SMT
    DEF BuffersTypeOK, BuffersFree, OneOwner, Owns, Unused, Destroy, Destroyed, Objects, Origins, Kinds, Releases
  <2>3. ReleasedAsMade'
    BY <1>6, <1>0, SMT
    DEF BuffersTypeOK, BuffersFree, OneOwner, ReleasedAsMade, Owns, Unused, Destroy, Destroyed, Objects, Origins, Kinds, Releases
  <2>4. BuffersFree'
    BY <1>6, <1>0, SMT
    DEF BuffersTypeOK, BuffersFree, Destroy, Destroyed, Objects, Origins, Kinds, Releases
  <2> QED BY <2>1, <2>2, <2>3, <2>4 DEF Inv
<1>7. ASSUME NEW s \in Slots, Release(s) PROVE Inv'
  <2>1. BuffersTypeOK'
    BY <1>7, <1>0, SMT
    DEF BuffersTypeOK, Unused, Release, EmptyOf, Make, Objects, Origins, Kinds, Releases
  <2>2. OneOwner'
    BY <1>7, <1>0, SMT
    DEF BuffersTypeOK, BuffersFree, OneOwner, Owns, Unused, Release, EmptyOf, Make, Objects, Origins, Kinds, Releases
  <2>3. ReleasedAsMade'
    BY <1>7, <1>0, SMT
    DEF BuffersTypeOK, BuffersFree, OneOwner, ReleasedAsMade, Owns, Unused, Release, EmptyOf, Make, Objects, Origins, Kinds, Releases
  <2>4. BuffersFree'
    BY <1>7, <1>0, SMT
    DEF BuffersTypeOK, BuffersFree, Release, EmptyOf, Make, Objects, Origins, Kinds, Releases
  <2> QED BY <2>1, <2>2, <2>3, <2>4 DEF Inv
<1>8. ASSUME NEW s \in Slots, NEW d \in Slots, MoveConstruct(s, d) PROVE Inv'
  <2>1. BuffersTypeOK'
    BY <1>8, <1>0, SMT
    DEF BuffersTypeOK, Unused, MoveConstruct, MovedFrom, EmptyOf, Make, Objects, Origins, Kinds, Releases
  <2>2. OneOwner'
    BY <1>8, <1>0, SMT
    DEF BuffersTypeOK, BuffersFree, OneOwner, Owns, Unused, MoveConstruct, MovedFrom, EmptyOf, Make, Objects, Origins, Kinds, Releases
  <2>3. ReleasedAsMade'
    BY <1>8, <1>0, SMT
    DEF BuffersTypeOK, BuffersFree, OneOwner, ReleasedAsMade, Owns, Unused, MoveConstruct, MovedFrom, EmptyOf, Make, Objects, Origins, Kinds, Releases
  <2>4. BuffersFree'
    BY <1>8, <1>0, SMT
    DEF BuffersTypeOK, BuffersFree, MoveConstruct, MovedFrom, EmptyOf, Make, Objects, Origins, Kinds, Releases
  <2> QED BY <2>1, <2>2, <2>3, <2>4 DEF Inv
<1>9. ASSUME NEW s \in Slots, NEW d \in Slots, MoveAssign(s, d) PROVE Inv'
  <2>1. BuffersTypeOK'
    BY <1>9, <1>0, SMT
    DEF BuffersTypeOK, Unused, MoveAssign, Destroyed, MovedFrom, EmptyOf, Make, Objects, Origins, Kinds, Releases
  <2>2. OneOwner'
    BY <1>9, <1>0, SMT
    DEF BuffersTypeOK, BuffersFree, OneOwner, Owns, Unused, MoveAssign, Destroyed, MovedFrom, EmptyOf, Make, Objects, Origins, Kinds, Releases
  <2>3. ReleasedAsMade'
    BY <1>9, <1>0, SMT
    DEF BuffersTypeOK, BuffersFree, OneOwner, ReleasedAsMade, Owns, Unused, MoveAssign, Destroyed, MovedFrom, EmptyOf, Make, Objects, Origins, Kinds, Releases
  <2>4. BuffersFree'
    BY <1>9, <1>0, SMT
    DEF BuffersTypeOK, BuffersFree, MoveAssign, Destroyed, MovedFrom, EmptyOf, Make, Objects, Origins, Kinds, Releases
  <2> QED BY <2>1, <2>2, <2>3, <2>4 DEF Inv
<1>10. ASSUME NEW s \in Slots, NEW d \in Slots, FromBuffer(s, d) PROVE Inv'
  <2>1. BuffersTypeOK'
    BY <1>10, <1>0, SMT
    DEF BuffersTypeOK, Unused, FromBuffer, SizeOfBuffer, MovedFrom, EmptyOf, Make, Objects, Origins, Kinds, Releases
  <2>2. OneOwner'
    BY <1>10, <1>0, SMT
    DEF BuffersTypeOK, BuffersFree, OneOwner, Owns, Unused, FromBuffer, SizeOfBuffer, MovedFrom, EmptyOf, Make, Objects, Origins, Kinds, Releases
  <2>3. ReleasedAsMade'
    BY <1>10, <1>0, SMT
    DEF BuffersTypeOK, BuffersFree, OneOwner, ReleasedAsMade, Owns, Unused, FromBuffer, SizeOfBuffer, MovedFrom, EmptyOf, Make, Objects, Origins, Kinds, Releases
  <2>4. BuffersFree'
    BY <1>10, <1>0, SMT
    DEF BuffersTypeOK, BuffersFree, FromBuffer, SizeOfBuffer, MovedFrom, EmptyOf, Make, Objects, Origins, Kinds, Releases
  <2> QED BY <2>1, <2>2, <2>3, <2>4 DEF Inv
<1>11. ASSUME NEW b \in Blocks, Free(b) PROVE Inv'
  <2>1. BuffersTypeOK'
    BY <1>11, <1>0, SMT
    DEF BuffersTypeOK, Unused, Free, Objects, Origins, Kinds, Releases
  <2>2. OneOwner'
    BY <1>11, <1>0, SMT
    DEF BuffersTypeOK, BuffersFree, OneOwner, Owns, Unused, Free, Objects, Origins, Kinds, Releases
  <2>3. ReleasedAsMade'
    BY <1>11, <1>0, SMT
    DEF BuffersTypeOK, BuffersFree, OneOwner, ReleasedAsMade, Owns, Unused, Free, Objects, Origins, Kinds, Releases
  <2>4. BuffersFree'
    BY <1>11, <1>0, SMT
    DEF BuffersTypeOK, BuffersFree, Free, Objects, Origins, Kinds, Releases
  <2> QED BY <2>1, <2>2, <2>3, <2>4 DEF Inv
<1>12. CASE UNCHANGED bufferVars
  BY <1>12, <1>0 DEF Inv, BuffersTypeOK, BuffersFree, OneOwner, ReleasedAsMade, Owns, Unused, bufferVars
<1> QED
  BY <1>1, <1>2, <1>3, <1>4, <1>5, <1>6, <1>7, <1>8, <1>9, <1>10, <1>11, <1>12
  DEF BuffersNext

(* The inductive invariant always holds.                                   *)
THEOREM BuffersInvariant == BuffersSpec => []Inv
BY InitInv, NextInv, PTL DEF BuffersSpec

(* Whatever a program does with any number of objects, what they own has   *)
(* one owner that will release it: nothing is released twice or lost (the  *)
(* moves and destructors of buffer, blob_t and algorithm_launcher).        *)
THEOREM OwnedOnce == BuffersSpec => []OneOwner
<1>1. Inv => OneOwner BY DEF Inv
<1> QED BY BuffersInvariant, <1>1, PTL

(* And the owner releases it by the function it came from, with its whole  *)
(* size (from_buffer, from_file, from_static_data).                        *)
THEOREM MadeAndReleased == BuffersSpec => []ReleasedAsMade
<1>1. Inv => ReleasedAsMade BY DEF Inv
<1> QED BY BuffersInvariant, <1>1, PTL

-----------------------------------------------------------------------------
(* Induction over the natural numbers, for a set of them.                  *)
LEMMA SetInduction ==
  ASSUME NEW S, 0 \in S, \A n \in Nat : n \in S => n + 1 \in S
  PROVE  \A n \in Nat : n \in S
<1> SUFFICES ASSUME NEW m \in Nat, m \notin S PROVE FALSE
  OBVIOUS
<1> DEFINE R == {n \in Nat : n \notin S}
<1>1. R \subseteq Nat /\ R # {}
  OBVIOUS
<1>2. \E n \in R : \A k \in R : ~(<<k, n>> \in OpToRel(<, Nat))
  BY <1>1, NatLessThanWellFounded, WFMin, Zenon
<1>3. PICK n \in R : \A k \in R : ~(k < n)
  BY <1>2 DEF OpToRel
<1>4. n \in Nat /\ n # 0 /\ n - 1 \in Nat /\ n - 1 < n
  OBVIOUS
<1>5. n - 1 \in S
  BY <1>3, <1>4
<1> QED BY <1>4, <1>5

-----------------------------------------------------------------------------
(* Lists one after another: the recursion is well founded, ...             *)
Passes(f, lists, mark, n) ==
  [k \in 0..n |-> IF k = 0 THEN <<>> ELSE f[k - 1] \o lists[k] \o <<mark>>]

LEMMA TerminatedExists ==
  ASSUME NEW lists, NEW mark, NEW n \in Nat
  PROVE  \E f : f = Passes(f, lists, mark, n)
<1> DEFINE Defined(m, f) == f = Passes(f, lists, mark, m)
           S == {m \in Nat : \E f : Defined(m, f)}
<1>1. 0 \in S
  <2> DEFINE f == [k \in 0..0 |-> <<>>]
  <2>1. Defined(0, f)
    BY DEF Passes
  <2> QED BY <2>1
<1>2. ASSUME NEW m \in Nat, m \in S PROVE m + 1 \in S
  <2>1. PICK f : Defined(m, f)
    BY <1>2
  <2> DEFINE g == [k \in 0..(m + 1) |->
                     IF k <= m THEN f[k] ELSE f[m] \o lists[m + 1] \o <<mark>>]
             Step(k) == IF k = 0 THEN <<>> ELSE g[k - 1] \o lists[k] \o <<mark>>
  <2>2. ASSUME NEW k \in 0..(m + 1) PROVE g[k] = Step(k)
    <3>1. CASE k = 0
      <4>1. g[k] = f[k]
        BY <3>1
      <4>2. f[0] = <<>>
        BY <2>1 DEF Passes
      <4> QED BY <3>1, <4>1, <4>2
    <3>2. CASE k \in 1..m
      <4>1. g[k] = f[k] /\ g[k - 1] = f[k - 1] /\ k # 0 /\ k \in 0..m
        BY <3>2
      <4>2. f[k] = f[k - 1] \o lists[k] \o <<mark>>
        BY <2>1, <4>1 DEF Passes
      <4> HIDE DEF g
      <4> QED BY <4>1, <4>2
    <3>3. CASE k = m + 1
      <4>1. k # 0 /\ k - 1 = m /\ m + 1 = k /\ ~(k <= m)
        BY <3>3
      <4>2. g[k] = f[m] \o lists[m + 1] \o <<mark>>
        BY <4>1
      <4>3. g[k - 1] = f[m]
        BY <4>1
      <4> HIDE DEF g
      <4> QED BY <4>1, <4>2, <4>3, Zenon
    <3> QED BY <3>1, <3>2, <3>3
  <2>3. g = [k \in 0..(m + 1) |-> g[k]]
    OBVIOUS
  <2>4. Defined(m + 1, g)
    <3> HIDE DEF g
    <3> QED BY <2>2, <2>3, Zenon DEF Passes
  <2> HIDE DEF Defined, g
  <2> QED BY <2>4
<1>3. n \in S
  <2> HIDE DEF S
  <2> QED BY <1>1, <1>2, SetInduction
<1> QED BY <1>3

(* ... so that each pass appends one list and the mark.                    *)
LEMMA TerminatedSteps ==
  ASSUME NEW lists \in Seq(Seq(Bytes)), NEW mark
  PROVE  LET T == Terminated(lists, mark)
         IN  /\ T[0] = <<>>
             /\ \A k \in 1..Len(lists) : T[k] = T[k - 1] \o lists[k] \o <<mark>>
<1> DEFINE T == Terminated(lists, mark)
<1>1. T = CHOOSE f : f = Passes(f, lists, mark, Len(lists))
  BY Zenon DEF Terminated, Passes
<1>2. Len(lists) \in Nat
  OBVIOUS
<1>3. T = Passes(T, lists, mark, Len(lists))
  <2> HIDE DEF T
  <2> QED BY <1>1, <1>2, TerminatedExists, Zenon
<1> HIDE DEF T
<1>4. 0 \in 0..Len(lists) /\ \A k \in 1..Len(lists) : k \in 0..Len(lists) /\ k # 0
  OBVIOUS
<1>5. T[0] = <<>> /\ \A k \in 1..Len(lists) : T[k] = T[k - 1] \o lists[k] \o <<mark>>
  BY <1>3, <1>4, Zenon DEF Passes
<1> QED BY <1>5 DEF T

LEMMA Concatenation ==
  ASSUME NEW S, NEW a \in Seq(S), NEW b \in Seq(S)
  PROVE  /\ a \o b \in Seq(S)
         /\ Len(a \o b) = Len(a) + Len(b)
         /\ \A p \in 1..Len(a) : (a \o b)[p] = a[p]
         /\ \A p \in 1..Len(b) : (a \o b)[Len(a) + p] = b[p]
OBVIOUS

(* What one pass makes of a: b and the mark come after it.                 *)
IsPass(c, a, b, mark) ==
  /\ Len(c) = Len(a) + Len(b) + 1
  /\ \A p \in 1..Len(a) : c[p] = a[p]
  /\ \A p \in 1..Len(b) : c[Len(a) + p] = b[p]
  /\ c[Len(a) + Len(b) + 1] = mark

LEMMA Sums ==
  ASSUME NEW a \in Nat, NEW b \in Nat, NEW c, c = a + b + 1
  PROVE  /\ c \in 1..c /\ a <= c
         /\ \A p \in 1..b : a + p \in 1..c
         /\ \A d \in Nat : d <= a => d <= c
         /\ \A d \in Nat : c <= d => 1..c \subseteq 1..d
OBVIOUS

LEMMA OnePass ==
  ASSUME NEW S, NEW a \in Seq(S), NEW b \in Seq(S), NEW mark \in S
  PROVE  /\ a \o b \o <<mark>> \in Seq(S)
         /\ IsPass(a \o b \o <<mark>>, a, b, mark)
<1>1. PICK c : c = a \o b
  OBVIOUS
<1>2. /\ c \in Seq(S) /\ Len(c) = Len(a) + Len(b)
      /\ \A p \in 1..Len(a) : c[p] = a[p]
      /\ \A p \in 1..Len(b) : c[Len(a) + p] = b[p]
  BY <1>1, Concatenation
<1>3. /\ <<mark>> \in Seq(S) /\ Len(<<mark>>) = 1 /\ <<mark>>[1] = mark
  OBVIOUS
<1>4. PICK e \in Seq(S) : e = <<mark>> /\ Len(e) = 1 /\ e[1] = mark
  BY <1>3, Zenon
<1>5. /\ c \o e \in Seq(S) /\ Len(c \o e) = Len(c) + Len(e)
      /\ \A p \in 1..Len(c) : (c \o e)[p] = c[p]
      /\ \A p \in 1..Len(e) : (c \o e)[Len(c) + p] = e[p]
  <2>1. c \in Seq(S) /\ e \in Seq(S)
    BY <1>2
  <2> QED BY <2>1, Concatenation
<1>6. PICK d : d = c \o e
  OBVIOUS
<1>7. Len(a) \in Nat /\ Len(b) \in Nat /\ 1 \in 1..Len(e)
  BY <1>4
<1>8. /\ d \in Seq(S)
      /\ Len(d) = Len(a) + Len(b) + 1
      /\ \A p \in 1..Len(a) : d[p] = a[p]
      /\ \A p \in 1..Len(b) : d[Len(a) + p] = b[p]
      /\ d[Len(a) + Len(b) + 1] = mark
  BY <1>2, <1>4, <1>5, <1>6, <1>7
<1> QED BY <1>1, <1>4, <1>6, <1>8, Zenon DEF IsPass

LEMMA TerminatedTypes ==
  ASSUME NEW lists \in Seq(Seq(Bytes)), NEW mark \in Bytes
  PROVE  LET T == Terminated(lists, mark)
         IN  /\ T[0] = <<>>
             /\ \A k \in 0..Len(lists) : T[k] \in Seq(Bytes)
             /\ \A k \in 1..Len(lists) : IsPass(T[k], T[k - 1], lists[k], mark)
<1> DEFINE T == Terminated(lists, mark)
           S == {k \in Nat : k <= Len(lists) => T[k] \in Seq(Bytes)}
<1>1. T[0] = <<>> /\ \A k \in 1..Len(lists) : T[k] = T[k - 1] \o lists[k] \o <<mark>>
  BY TerminatedSteps
<1> HIDE DEF T
<1>2. ASSUME NEW k \in 1..Len(lists), T[k - 1] \in Seq(Bytes)
      PROVE  T[k] \in Seq(Bytes) /\ IsPass(T[k], T[k - 1], lists[k], mark)
  <2>1. lists[k] \in Seq(Bytes)
    OBVIOUS
  <2>2. T[k] = T[k - 1] \o lists[k] \o <<mark>>
    BY <1>1
  <2>3. /\ T[k - 1] \o lists[k] \o <<mark>> \in Seq(Bytes)
        /\ IsPass(T[k - 1] \o lists[k] \o <<mark>>, T[k - 1], lists[k], mark)
    BY <1>2, <2>1, OnePass, Zenon
  <2> QED BY <2>2, <2>3, Zenon
<1>3. 0 \in S
  <2>1. <<>> \in Seq(Bytes)
    OBVIOUS
  <2> QED BY <1>1, <2>1
<1>4. \A k \in Nat : k \in S => k + 1 \in S
  <2> SUFFICES ASSUME NEW k \in Nat, k \in S, k + 1 <= Len(lists)
               PROVE  T[k + 1] \in Seq(Bytes)
    OBVIOUS
  <2>1. k + 1 \in 1..Len(lists) /\ (k + 1) - 1 = k /\ T[k] \in Seq(Bytes)
    OBVIOUS
  <2> QED BY <1>2, <2>1
<1>5. \A k \in Nat : k \in S
  <2> HIDE DEF S
  <2> QED BY <1>3, <1>4, SetInduction
<1>6. \A k \in 0..Len(lists) : T[k] \in Seq(Bytes)
  BY <1>5
<1>7. \A k \in 1..Len(lists) : IsPass(T[k], T[k - 1], lists[k], mark)
  <2>1. \A k \in 1..Len(lists) : k - 1 \in 0..Len(lists)
    OBVIOUS
  <2> QED BY <1>2, <1>6, <2>1, Zenon
<1> QED BY <1>1, <1>6, <1>7, Zenon DEF T

(* What a pass has made stays at its place.                                *)
LEMMA TerminatedGrows ==
  ASSUME NEW lists \in Seq(Seq(Bytes)), NEW mark \in Bytes,
         NEW j \in 0..Len(lists), NEW k \in j..Len(lists)
  PROVE  LET T == Terminated(lists, mark)
         IN  /\ Len(T[j]) <= Len(T[k])
             /\ \A p \in 1..Len(T[j]) : T[k][p] = T[j][p]
<1> DEFINE T == Terminated(lists, mark)
           Kept(m) == Len(T[j]) <= Len(T[m]) /\ \A p \in 1..Len(T[j]) : T[m][p] = T[j][p]
           S == {d \in Nat : j + d <= Len(lists) => Kept(j + d)}
<1>1. /\ \A m \in 0..Len(lists) : T[m] \in Seq(Bytes)
      /\ \A m \in 1..Len(lists) : IsPass(T[m], T[m - 1], lists[m], mark)
  BY TerminatedTypes, Zenon
<1> HIDE DEF T
<1>2. 0 \in S
  <2>1. j + 0 = j /\ Len(T[j]) <= Len(T[j])
    BY <1>1
  <2> QED BY <2>1
<1>3. \A d \in Nat : d \in S => d + 1 \in S
  <2> SUFFICES ASSUME NEW d \in Nat, d \in S, j + (d + 1) <= Len(lists)
               PROVE  Kept(j + (d + 1))
    OBVIOUS
  <2> DEFINE m == j + (d + 1)
  <2>1. m \in 1..Len(lists) /\ m - 1 = j + d /\ m - 1 \in 0..Len(lists) /\ m \in 0..Len(lists)
    OBVIOUS
  <2>2. Kept(m - 1)
    <3> HIDE DEF m, Kept
    <3> QED BY <2>1
  <2> HIDE DEF m
  <2>3. IsPass(T[m], T[m - 1], lists[m], mark)
    BY <1>1, <2>1, Zenon
  <2>4. T[j] \in Seq(Bytes) /\ T[m - 1] \in Seq(Bytes) /\ lists[m] \in Seq(Bytes)
    BY <1>1, <2>1
  <2>5. Len(T[j]) \in Nat /\ Len(T[m - 1]) \in Nat /\ Len(lists[m]) \in Nat
    BY <2>4
  <2>6. Len(T[m]) = Len(T[m - 1]) + Len(lists[m]) + 1
    BY <2>3, Zenon DEF IsPass
  <2>7. Len(T[j]) <= Len(T[m - 1]) /\ Len(T[j]) <= Len(T[m])
    <3>1. Len(T[j]) <= Len(T[m - 1])
      BY <2>2
    <3> HIDE DEF Kept
    <3> QED BY <3>1, <2>5, <2>6, Sums, Zenon
  <2>8. ASSUME NEW p \in 1..Len(T[j]) PROVE T[m][p] = T[j][p]
    <3>1. p \in 1..Len(T[m - 1])
      BY <2>7, <2>5
    <3>2. T[m][p] = T[m - 1][p]
      BY <2>3, <3>1, Zenon DEF IsPass
    <3> QED BY <2>2, <3>2
  <2>9. Kept(m)
    BY <2>7, <2>8
  <2> QED BY <2>9 DEF m
<1>4. \A d \in Nat : d \in S
  <2> HIDE DEF S
  <2> QED BY <1>2, <1>3, SetInduction
<1>5. k - j \in Nat /\ j + (k - j) = k
  OBVIOUS
<1>6. Kept(k)
  <2> HIDE DEF Kept
  <2>1. k - j \in S /\ j + (k - j) <= Len(lists)
    <3> HIDE DEF S
    <3> QED BY <1>4, <1>5
  <2>2. Kept(j + (k - j))
    BY <2>1
  <2> QED BY <1>5, <2>2
<1> QED BY <1>6 DEF T

(* So each list has its place, with the mark after it, whatever follows.   *)
HasPlace(T, str, lists, mark, n, tail, k) ==
  /\ str \in Seq(Bytes)
  /\ Len(str) = Len(T[n]) + Len(tail)
  /\ Len(T[k]) = Len(T[k - 1]) + Len(lists[k]) + 1
  /\ Len(T[k]) <= Len(T[n])
  /\ \A p \in 1..Len(lists[k]) : str[Len(T[k - 1]) + p] = lists[k][p]
  /\ str[Len(T[k])] = mark

LEMMA Places ==
  ASSUME NEW lists \in Seq(Seq(Bytes)), NEW mark \in Bytes,
         NEW n \in 0..Len(lists), NEW tail \in Seq(Bytes), NEW k \in 1..n
  PROVE  HasPlace(Terminated(lists, mark), Terminated(lists, mark)[n] \o tail,
                  lists, mark, n, tail, k)
<1> DEFINE T == Terminated(lists, mark)
           str == T[n] \o tail
<1>1. k \in 1..Len(lists) /\ k - 1 \in 0..Len(lists) /\ k \in 0..Len(lists)
      /\ n \in k..Len(lists)
  OBVIOUS
<1>2. /\ \A m \in 0..Len(lists) : T[m] \in Seq(Bytes)
      /\ \A m \in 1..Len(lists) : IsPass(T[m], T[m - 1], lists[m], mark)
  BY TerminatedTypes, Zenon
<1>3. Len(T[k]) <= Len(T[n]) /\ \A p \in 1..Len(T[k]) : T[n][p] = T[k][p]
  BY <1>1, TerminatedGrows, Zenon
<1> HIDE DEF T
<1>4. /\ Len(lists[k]) \in Nat /\ Len(T[k - 1]) \in Nat /\ Len(T[n]) \in Nat
      /\ Len(T[k]) = Len(T[k - 1]) + Len(lists[k]) + 1
      /\ IsPass(T[k], T[k - 1], lists[k], mark)
  <2>1. IsPass(T[k], T[k - 1], lists[k], mark)
    BY <1>1, <1>2, Zenon
  <2>2. T[n] \in Seq(Bytes) /\ T[k - 1] \in Seq(Bytes) /\ lists[k] \in Seq(Bytes)
    BY <1>1, <1>2
  <2>3. Len(T[k]) = Len(T[k - 1]) + Len(lists[k]) + 1
    BY <2>1, Zenon DEF IsPass
  <2> QED BY <2>1, <2>2, <2>3
<1>5. /\ Len(lists[k]) \in Nat /\ Len(T[k - 1]) \in Nat /\ Len(T[n]) \in Nat
      /\ Len(T[k]) = Len(T[k - 1]) + Len(lists[k]) + 1
  BY <1>4, Zenon
<1>6. Len(T[k]) <= Len(T[n])
  BY <1>3, Zenon
<1>7. /\ Len(T[k]) \in 1..Len(T[k])
      /\ \A p \in 1..Len(lists[k]) : Len(T[k - 1]) + p \in 1..Len(T[k])
      /\ 1..Len(T[k]) \subseteq 1..Len(T[n])
  BY <1>5, <1>6, Sums, Zenon
<1>8. /\ str \in Seq(Bytes)
      /\ Len(str) = Len(T[n]) + Len(tail)
      /\ \A p \in 1..Len(T[n]) : str[p] = T[n][p]
  BY <1>2, Concatenation
<1> HIDE DEF str
<1>9. ASSUME NEW p \in 1..Len(lists[k]) PROVE str[Len(T[k - 1]) + p] = lists[k][p]
  <2>1. Len(T[k - 1]) + p \in 1..Len(T[k]) /\ Len(T[k - 1]) + p \in 1..Len(T[n])
    BY <1>5, <1>6, <1>7
  <2>2. T[k][Len(T[k - 1]) + p] = lists[k][p]
    BY <1>4, Zenon DEF IsPass
  <2> QED BY <1>3, <1>8, <2>1, <2>2, Zenon
<1>10. str[Len(T[k])] = mark
  <2>1. Len(T[k]) \in 1..Len(T[k]) /\ Len(T[k]) \in 1..Len(T[n])
    BY <1>7, Zenon
  <2>2. T[k][Len(T[k])] = mark
    BY <1>4, Zenon DEF IsPass
  <2> QED BY <1>3, <1>8, <2>1, <2>2, Zenon
<1> QED BY <1>3, <1>4, <1>8, <1>9, <1>10, Zenon DEF HasPlace, str, T
-----------------------------------------------------------------------------
(* The loop of split_string; it ends, for it goes on behind a delimiter.   *)
Delimiters(str, delimiter, start) == {p \in start..Len(str) : str[p] = delimiter}

Token(f, str, delimiter, start) ==
  IF Delimiters(str, delimiter, start) = {} THEN <<SubSeq(str, start, Len(str))>>
  ELSE LET pos == Min(Delimiters(str, delimiter, start))
       IN  <<SubSeq(str, start, pos - 1)>> \o f[pos + 1]

TokensFrom(f, str, delimiter, first) ==
  [start \in first..(Len(str) + 1) |-> Token(f, str, delimiter, start)]

LEMMA MinIsLeast ==
  ASSUME NEW R \in SUBSET Nat, R # {}
  PROVE  Min(R) \in R /\ \A n \in R : Min(R) <= n
<1>1. \E n \in R : \A k \in R : ~(<<k, n>> \in OpToRel(<, Nat))
  BY NatLessThanWellFounded, WFMin, Zenon
<1>2. PICK n \in R : \A k \in R : ~(<<k, n>> \in OpToRel(<, Nat))
  BY <1>1, Zenon
<1>3. ASSUME NEW k \in R PROVE n <= k
  <2>1. ~(<<k, n>> \in OpToRel(<, Nat))
    BY <1>2, Zenon
  <2>2. k \in Nat /\ n \in Nat
    OBVIOUS
  <2>3. ~(k < n)
    BY <2>1, <2>2 DEF OpToRel
  <2> QED BY <2>2, <2>3
<1>4. \E m \in R : \A k \in R : m <= k
  BY <1>3, Zenon
<1> QED BY <1>4, Zenon DEF Min

LEMMA TokenAgrees ==
  ASSUME NEW str \in Seq(Bytes), NEW delimiter, NEW f, NEW g,
         NEW start \in 1..(Len(str) + 1),
         \A q \in (start + 1)..(Len(str) + 1) : f[q] = g[q]
  PROVE  Token(f, str, delimiter, start) = Token(g, str, delimiter, start)
<1> DEFINE R == Delimiters(str, delimiter, start)
<1>1. CASE R = {}
  BY <1>1, Zenon DEF Token
<1>2. CASE R # {}
  <2>1. R \in SUBSET Nat /\ R \subseteq start..Len(str)
    BY DEF Delimiters
  <2>2. Min(R) \in R
    <3> HIDE DEF R
    <3> QED BY <1>2, <2>1, MinIsLeast
  <2>3. Min(R) + 1 \in (start + 1)..(Len(str) + 1)
    <3> HIDE DEF R
    <3> QED BY <2>1, <2>2
  <2> QED BY <1>2, <2>3, Zenon DEF Token
<1> QED BY <1>1, <1>2

LEMMA TokensExist ==
  ASSUME NEW str \in Seq(Bytes), NEW delimiter
  PROVE  \E f : f = TokensFrom(f, str, delimiter, 1)
<1> DEFINE N == Len(str)
           Defined(m, f) == f = TokensFrom(f, str, delimiter, (N + 1) - m)
           S == {m \in Nat : m <= N => \E f : Defined(m, f)}
<1>0. N \in Nat
  OBVIOUS
<1>1. 0 \in S
  <2> DEFINE f == TokensFrom(str, str, delimiter, N + 1)
  <2>1. ASSUME NEW start \in (N + 1)..(N + 1)
        PROVE  Token(f, str, delimiter, start) = Token(str, str, delimiter, start)
    <3>1. Delimiters(str, delimiter, start) = {}
      BY <1>0 DEF Delimiters
    <3> QED BY <3>1, Zenon DEF Token
  <2>2. f = [start \in (N + 1)..(N + 1) |-> Token(str, str, delimiter, start)]
    BY Zenon DEF TokensFrom
  <2> HIDE DEF f
  <2>3. f = TokensFrom(f, str, delimiter, N + 1)
    BY <2>1, <2>2, Zenon DEF TokensFrom
  <2>4. (N + 1) - 0 = N + 1
    BY <1>0
  <2>5. Defined(0, f)
    BY <2>3, <2>4, Zenon
  <2> HIDE DEF Defined
  <2> QED BY <2>5
<1>2. ASSUME NEW m \in Nat, m \in S PROVE m + 1 \in S
  <2> SUFFICES ASSUME m + 1 <= N PROVE \E f : Defined(m + 1, f)
    OBVIOUS
  <2>1. PICK f : Defined(m, f)
    <3> HIDE DEF Defined
    <3> QED BY <1>0, <1>2
  <2> DEFINE first == (N + 1) - (m + 1)
             g == TokensFrom(f, str, delimiter, first)
  <2>2. first \in 1..N /\ (N + 1) - m = first + 1
    BY <1>0
  <2> HIDE DEF first, N
  <2>3. /\ \A q \in (first + 1)..(N + 1) : f[q] = Token(f, str, delimiter, q)
        /\ \A q \in first..(N + 1) : g[q] = Token(f, str, delimiter, q)
    BY <2>1, <2>2, Zenon DEF TokensFrom, N
  <2>4. ASSUME NEW q \in (first + 1)..(N + 1) PROVE g[q] = f[q]
    <3>1. q \in first..(N + 1)
      BY <1>0, <2>2
    <3> QED BY <2>3, <3>1, Zenon
  <2>5. ASSUME NEW start \in first..(N + 1)
        PROVE  Token(g, str, delimiter, start) = Token(f, str, delimiter, start)
    <3>1. /\ start \in 1..(N + 1)
          /\ \A q \in (start + 1)..(N + 1) : q \in (first + 1)..(N + 1)
      BY <1>0, <2>2
    <3>2. \A q \in (start + 1)..(N + 1) : g[q] = f[q]
      BY <2>4, <3>1, Zenon
    <3> HIDE DEF g
    <3> QED BY <3>1, <3>2, TokenAgrees DEF N
  <2>6. g = TokensFrom(g, str, delimiter, first)
    <3>1. g = [start \in first..(N + 1) |-> Token(f, str, delimiter, start)]
      BY Zenon DEF TokensFrom, N
    <3> HIDE DEF g
    <3> QED BY <2>5, <3>1, Zenon DEF TokensFrom, N
  <2>7. Defined(m + 1, g)
    BY <2>6 DEF first, N
  <2> QED BY <2>7, Zenon
<1>3. N \in S
  <2> HIDE DEF S
  <2> QED BY <1>0, <1>1, <1>2, SetInduction
<1>4. PICK f : Defined(N, f)
  <2> HIDE DEF Defined
  <2> QED BY <1>0, <1>3
<1>5. (N + 1) - N = 1
  BY <1>0
<1> QED BY <1>4, <1>5, Zenon

LEMMA TokensSteps ==
  ASSUME NEW str \in Seq(Bytes), NEW delimiter, NEW start \in 1..(Len(str) + 1)
  PROVE  Tokens(str, delimiter)[start] = Token(Tokens(str, delimiter), str, delimiter, start)
<1> DEFINE f == Tokens(str, delimiter)
<1>1. f = CHOOSE g : g = TokensFrom(g, str, delimiter, 1)
  BY Zenon DEF Tokens, TokensFrom, Token, Delimiters
<1>2. f = TokensFrom(f, str, delimiter, 1)
  <2> HIDE DEF f
  <2> QED BY <1>1, TokensExist, Zenon
<1> HIDE DEF f
<1>3. f[start] = Token(f, str, delimiter, start)
  BY <1>2, Zenon DEF TokensFrom
<1> QED BY <1>3 DEF f
-----------------------------------------------------------------------------
(* What has been put together with marks comes apart again.                *)
Clear(bytes, mark) == \A p \in DOMAIN bytes : bytes[p] # mark

LEMMA PartOf ==
  ASSUME NEW str \in Seq(Bytes), NEW word \in Seq(Bytes), NEW a \in Nat,
         a + Len(word) <= Len(str),
         \A p \in 1..Len(word) : str[a + p] = word[p]
  PROVE  SubSeq(str, a + 1, a + Len(word)) = word
<1>1. PICK sub : sub = SubSeq(str, a + 1, a + Len(word))
  OBVIOUS
<1>2. Len(word) \in Nat /\ Len(str) \in Nat
  OBVIOUS
<1>3. sub \in Seq(Bytes) /\ Len(sub) = Len(word)
  BY <1>1, <1>2
<1>4. ASSUME NEW p \in 1..Len(word) PROVE sub[p] = word[p]
  <2>1. sub[p] = str[(a + 1) + p - 1]
    BY <1>1, <1>2
  <2>2. (a + 1) + p - 1 = a + p
    OBVIOUS
  <2> QED BY <2>1, <2>2
<1>5. sub = word
  BY <1>3, <1>4
<1> QED BY <1>1, <1>5

IsNext(str, mark, word, a) ==
  /\ Clear(word, mark)
  /\ a + Len(word) + 1 <= Len(str)
  /\ \A p \in 1..Len(word) : str[a + p] = word[p]
  /\ str[a + Len(word) + 1] = mark

LEMMA NextToken ==
  ASSUME NEW str \in Seq(Bytes), NEW mark, NEW word \in Seq(Bytes), NEW a \in Nat,
         IsNext(str, mark, word, a)
  PROVE  Tokens(str, mark)[a + 1] = <<word>> \o Tokens(str, mark)[a + Len(word) + 2]
<1> DEFINE R == Delimiters(str, mark, a + 1)
           last == a + Len(word) + 1
<1> USE DEF IsNext
<1>0. Len(word) \in Nat /\ Len(str) \in Nat /\ a + 1 \in 1..(Len(str) + 1)
  OBVIOUS
<1>1. last \in R
  BY <1>0 DEF Delimiters
<1>2. ASSUME NEW p \in R PROVE last <= p
  <2> SUFFICES ASSUME p < last PROVE FALSE
    BY <1>0 DEF Delimiters
  <2>1. p \in (a + 1)..Len(str) /\ str[p] = mark
    BY DEF Delimiters
  <2>2. p - a \in 1..Len(word) /\ a + (p - a) = p
    BY <1>0, <2>1
  <2>3. word[p - a] = mark /\ p - a \in DOMAIN word
    BY <2>1, <2>2
  <2> QED BY <2>3 DEF Clear
<1>3. R \in SUBSET Nat /\ R # {}
  BY <1>0, <1>1 DEF Delimiters
<1>4. Min(R) \in R /\ \A n \in R : Min(R) <= n
  <2> HIDE DEF R
  <2> QED BY <1>3, MinIsLeast
<1>5. Min(R) = last
  <2>1. Min(R) <= last /\ last <= Min(R)
    BY <1>1, <1>2, <1>4, Zenon
  <2>2. Min(R) \in Nat /\ last \in Nat
    <3> HIDE DEF R
    <3>1. Min(R) \in Nat
      BY <1>3, <1>4, Zenon
    <3> QED BY <1>0, <3>1
  <2> HIDE DEF R, last
  <2> QED BY <2>1, <2>2
<1>6. SubSeq(str, a + 1, last - 1) = word
  <2>1. last - 1 = a + Len(word) /\ a + Len(word) <= Len(str)
    BY <1>0
  <2> QED BY <2>1, PartOf
<1>7. Tokens(str, mark)[a + 1] = Token(Tokens(str, mark), str, mark, a + 1)
  BY <1>0, TokensSteps
<1>8. Tokens(str, mark)[a + 1]
        = <<SubSeq(str, a + 1, last - 1)>> \o Tokens(str, mark)[last + 1]
  <2> HIDE DEF last
  <2> QED BY <1>3, <1>5, <1>7, Zenon DEF Token
<1>9. last + 1 = a + Len(word) + 2
  BY <1>0
<1> HIDE DEF last
<1> QED BY <1>6, <1>8, <1>9, Zenon

LEMMA LastToken ==
  ASSUME NEW str \in Seq(Bytes), NEW mark, NEW word \in Seq(Bytes), NEW a \in Nat,
         Clear(word, mark),
         a + Len(word) = Len(str),
         \A p \in 1..Len(word) : str[a + p] = word[p]
  PROVE  Tokens(str, mark)[a + 1] = <<word>>
<1>0. Len(word) \in Nat /\ Len(str) \in Nat /\ a + 1 \in 1..(Len(str) + 1)
  OBVIOUS
<1>1. Delimiters(str, mark, a + 1) = {}
  <2> SUFFICES ASSUME NEW p \in (a + 1)..Len(str), str[p] = mark PROVE FALSE
    BY DEF Delimiters
  <2>1. p - a \in 1..Len(word) /\ a + (p - a) = p
    BY <1>0
  <2>2. word[p - a] = mark /\ p - a \in DOMAIN word
    BY <2>1
  <2> QED BY <2>2 DEF Clear
<1>2. Tokens(str, mark)[a + 1] = Token(Tokens(str, mark), str, mark, a + 1)
  BY <1>0, TokensSteps
<1>3. Tokens(str, mark)[a + 1] = <<SubSeq(str, a + 1, Len(str))>>
  BY <1>1, <1>2, Zenon DEF Token
<1>4. SubSeq(str, a + 1, a + Len(word)) = word
  BY <1>0, PartOf
<1> QED BY <1>3, <1>4, Zenon

(* The tokens of marked lists and a tail are the lists and the tail.       *)
AreTokens(R, lists, k, n, tail) ==
  /\ R \in Seq(Seq(Bytes))
  /\ Len(R) = n - k + 1
  /\ \A j \in 1..(n - k) : R[j] = lists[k + j]
  /\ R[n - k + 1] = tail

LEMMA OneMoreToken ==
  ASSUME NEW lists \in Seq(Seq(Bytes)), NEW n \in 0..Len(lists), NEW tail \in Seq(Bytes),
         NEW k \in 1..n, NEW R, AreTokens(R, lists, k, n, tail)
  PROVE  AreTokens(<<lists[k]>> \o R, lists, k - 1, n, tail)
<1>1. PICK one : one = <<lists[k]>>
  OBVIOUS
<1>2. /\ one \in Seq(Seq(Bytes)) /\ Len(one) = 1 /\ one[1] = lists[k]
      /\ R \in Seq(Seq(Bytes))
  BY <1>1 DEF AreTokens
<1>3. PICK both : both = one \o R
  OBVIOUS
<1>4. /\ both \in Seq(Seq(Bytes))
      /\ Len(both) = 1 + Len(R)
      /\ \A p \in 1..1 : both[p] = one[p]
      /\ \A p \in 1..Len(R) : both[1 + p] = R[p]
  <2>1. /\ one \o R \in Seq(Seq(Bytes))
        /\ Len(one \o R) = Len(one) + Len(R)
        /\ \A p \in 1..Len(one) : (one \o R)[p] = one[p]
        /\ \A p \in 1..Len(R) : (one \o R)[Len(one) + p] = R[p]
    <3>1. one \in Seq(Seq(Bytes)) /\ R \in Seq(Seq(Bytes))
      BY <1>2
    <3> QED BY <3>1, Concatenation
  <2> QED BY <1>2, <1>3, <2>1, Zenon
<1>5. /\ Len(R) = n - k + 1
      /\ \A j \in 1..(n - k) : R[j] = lists[k + j]
      /\ R[n - k + 1] = tail
  BY Zenon DEF AreTokens
<1>6. Len(both) = n - (k - 1) + 1
  BY <1>4, <1>5
<1>7. ASSUME NEW j \in 1..(n - (k - 1)) PROVE both[j] = lists[(k - 1) + j]
  <2>1. CASE j = 1
    <3>1. (k - 1) + j = k /\ 1 \in 1..1
      BY <2>1
    <3> QED BY <1>2, <1>4, <2>1, <3>1, Zenon
  <2>2. CASE j # 1
    <3>1. /\ j - 1 \in 1..(n - k) /\ 1 + (j - 1) = j /\ k + (j - 1) = (k - 1) + j
          /\ j - 1 \in 1..(n - k + 1)
      BY <2>2
    <3> QED BY <1>4, <1>5, <3>1, Zenon
  <2> QED BY <2>1, <2>2
<1>8. both[n - (k - 1) + 1] = tail
  <2>1. n - k + 1 \in 1..(n - k + 1) /\ n - (k - 1) + 1 = 1 + (n - k + 1)
    OBVIOUS
  <2>2. PICK m : m = n - k + 1
    OBVIOUS
  <2>3. m \in 1..Len(R) /\ R[m] = tail
    BY <1>5, <2>1, <2>2, Zenon
  <2>4. both[1 + m] = tail
    BY <1>4, <2>3, Zenon
  <2> QED BY <2>1, <2>2, <2>4, Zenon
<1>9. AreTokens(both, lists, k - 1, n, tail)
  BY <1>4, <1>6, <1>7, <1>8, Zenon DEF AreTokens
<1> QED BY <1>1, <1>3, <1>9, Zenon

LEMMA TokensOfTerminated ==
  ASSUME NEW lists \in Seq(Seq(Bytes)), NEW mark \in Bytes,
         NEW n \in 0..Len(lists), NEW tail \in Seq(Bytes),
         \A k \in 1..n : Clear(lists[k], mark),
         Clear(tail, mark)
  PROVE  AreTokens(Tokens(Terminated(lists, mark)[n] \o tail, mark)[1], lists, 0, n, tail)
<1> DEFINE T == Terminated(lists, mark)
           str == T[n] \o tail
           R(k) == Tokens(str, mark)[Len(T[k]) + 1]
           S == {m \in Nat : m <= n => AreTokens(R(n - m), lists, n - m, n, tail)}
<1>1. /\ T[0] = <<>>
      /\ \A k \in 0..Len(lists) : T[k] \in Seq(Bytes)
  BY TerminatedTypes, Zenon
<1>2. ASSUME NEW k \in 1..n PROVE HasPlace(T, str, lists, mark, n, tail, k)
  BY Places, Zenon
<1>3. /\ str \in Seq(Bytes)
      /\ Len(str) = Len(T[n]) + Len(tail)
      /\ \A p \in 1..Len(tail) : str[Len(T[n]) + p] = tail[p]
  <2>1. T[n] \in Seq(Bytes)
    BY <1>1
  <2> HIDE DEF T
  <2> QED BY <2>1, Concatenation
<1> HIDE DEF T, str
<1>4. 0 \in S
  <2>1. T[n] \in Seq(Bytes) /\ Len(T[n]) \in Nat
    BY <1>1
  <2>2. R(n) = <<tail>>
    BY <1>3, <2>1, LastToken
  <2>3. AreTokens(<<tail>>, lists, n, n, tail)
    BY DEF AreTokens
  <2>4. n - 0 = n
    OBVIOUS
  <2> HIDE DEF R
  <2>5. AreTokens(R(n - 0), lists, n - 0, n, tail)
    BY <2>2, <2>3, <2>4, Zenon
  <2> QED BY <2>5
<1>5. \A m \in Nat : m \in S => m + 1 \in S
  <2> SUFFICES ASSUME NEW m \in Nat, m \in S, m + 1 <= n
               PROVE  AreTokens(R(n - (m + 1)), lists, n - (m + 1), n, tail)
    <3> HIDE DEF R
    <3> QED OBVIOUS
  <2> DEFINE k == n - m
  <2>1. k \in 1..n /\ k \in 1..Len(lists) /\ n - (m + 1) = k - 1 /\ k - 1 \in 0..Len(lists)
    OBVIOUS
  <2>2. AreTokens(R(k), lists, k, n, tail)
    <3> HIDE DEF R
    <3>1. m <= n
      OBVIOUS
    <3> QED BY <3>1
  <2> HIDE DEF k
  <2>3. /\ T[k - 1] \in Seq(Bytes) /\ lists[k] \in Seq(Bytes) /\ T[n] \in Seq(Bytes)
    BY <1>1, <2>1
  <2>4. Len(T[k - 1]) \in Nat /\ Len(lists[k]) \in Nat /\ Len(tail) \in Nat /\ Len(T[n]) \in Nat
    BY <2>3
  <2>5. /\ Len(str) = Len(T[n]) + Len(tail)
        /\ Len(T[k]) = Len(T[k - 1]) + Len(lists[k]) + 1
        /\ Len(T[k]) <= Len(T[n])
        /\ \A p \in 1..Len(lists[k]) : str[Len(T[k - 1]) + p] = lists[k][p]
        /\ str[Len(T[k])] = mark
    BY <1>2, <2>1, Zenon DEF HasPlace
  <2>6. PICK a \in Nat : a = Len(T[k - 1])
    BY <2>4
  <2>7. PICK b \in Seq(Bytes) : b = lists[k]
    BY <2>3
  <2>8. /\ Clear(b, mark)
        /\ \A p \in 1..Len(b) : str[a + p] = b[p]
        /\ Len(T[k]) = a + Len(b) + 1
        /\ str[a + Len(b) + 1] = mark
    BY <2>1, <2>5, <2>6, <2>7, Zenon
  <2>9. a + Len(b) + 1 <= Len(str)
    <3>1. a + Len(b) + 1 <= Len(T[n])
      BY <2>5, <2>8
    <3>2. PICK x \in Nat, y \in Nat : x = Len(T[n]) /\ y = Len(tail)
      BY <2>4
    <3>3. Len(str) = x + y /\ a + Len(b) + 1 <= x
      BY <2>5, <3>1, <3>2, Zenon
    <3> QED BY <3>3
  <2>10. Tokens(str, mark)[a + 1] = <<b>> \o Tokens(str, mark)[a + Len(b) + 2]
    <3>1. IsNext(str, mark, b, a)
      BY <2>8, <2>9, Zenon DEF IsNext
    <3>2. str \in Seq(Bytes)
      BY <1>3, Zenon
    <3> HIDE DEF T
    <3> QED BY <3>1, <3>2, NextToken, Zenon
  <2>11. a + Len(b) + 2 = (a + Len(b) + 1) + 1
    OBVIOUS
  <2>12. R(k - 1) = <<lists[k]>> \o R(k)
    BY <2>6, <2>7, <2>8, <2>10, <2>11, Zenon
  <2> HIDE DEF R
  <2>13. AreTokens(R(k - 1), lists, k - 1, n, tail)
    BY <2>1, <2>2, <2>12, OneMoreToken, Zenon
  <2> QED BY <2>1, <2>13, Zenon
<1>6. \A m \in Nat : m \in S
  <2> HIDE DEF S
  <2> QED BY <1>4, <1>5, SetInduction
<1>7. AreTokens(R(n - n), lists, n - n, n, tail)
  <2> HIDE DEF R
  <2> QED BY <1>6
<1>8. n - n = 0 /\ Len(T[0]) + 1 = 1
  BY <1>1
<1> QED BY <1>7, <1>8, Zenon DEF T, str

LEMMA SameSequence ==
  ASSUME NEW S, NEW a \in Seq(S), NEW b \in Seq(S), Len(a) = Len(b),
         \A j \in 1..Len(a) : a[j] = b[j]
  PROVE  a = b
OBVIOUS

(* The lists of CMake come back in the runner (embed.cmake, split_string). *)
LEMMA ListsComeBack ==
  ASSUME NEW items \in Seq(Word)
  PROVE  Listed(items) = items
<1>1. CASE items = <<>>
  BY <1>1 DEF Listed, Joined, split_string
<1>2. CASE items # <<>>
  <2> DEFINE n == Len(items) - 1
             tail == items[Len(items)]
             str == Terminated(items, Semicolon)[n] \o tail
             R == Tokens(str, Semicolon)[1]
  <2>1. Len(items) \in Nat /\ Len(items) # 0 /\ n \in 0..Len(items) /\ n + 1 = Len(items)
    BY <1>2
  <2>2. \A k \in 1..Len(items) : items[k] \in Word
    OBVIOUS
  <2>3. \A w \in Word : w \in Seq(Bytes) /\ w # <<>> /\ Clear(w, Semicolon)
    BY Zenon DEF Word, Clear
  <2>4. items \in Seq(Seq(Bytes))
    BY <2>2, <2>3
  <2>5. /\ tail \in Seq(Bytes) /\ tail # <<>> /\ Clear(tail, Semicolon)
        /\ \A k \in 1..n : Clear(items[k], Semicolon)
    <3>1. Len(items) \in 1..Len(items) /\ \A k \in 1..n : k \in 1..Len(items)
      BY <2>1
    <3> QED BY <2>2, <2>3, <3>1, Zenon
  <2> HIDE DEF n, tail
  <2>6. Semicolon \in Bytes
    BY EmbedAssumption
  <2>7. AreTokens(R, items, 0, n, tail)
    BY <2>1, <2>4, <2>5, <2>6, TokensOfTerminated, Zenon
  <2>8. str # <<>>
    <3>1. Terminated(items, Semicolon)[n] \in Seq(Bytes)
      BY <2>1, <2>4, <2>6, TerminatedTypes, Zenon
    <3>2. Len(str) = Len(Terminated(items, Semicolon)[n]) + Len(tail)
      BY <2>5, <3>1, Concatenation
    <3>3. Len(tail) \in Nat /\ Len(tail) # 0 /\ Len(Terminated(items, Semicolon)[n]) \in Nat
      BY <2>5, <3>1
    <3>4. Len(str) # 0
      BY <3>2, <3>3
    <3> QED BY <3>4
  <2>9. Joined(items) = str
    BY <1>2, Zenon DEF Joined, n, tail
  <2> HIDE DEF str
  <2>10. Listed(items) = R
    BY <2>8, <2>9, Zenon DEF Listed, split_string
  <2> HIDE DEF R
  <2>11. /\ R \in Seq(Seq(Bytes))
         /\ Len(R) = n - 0 + 1
         /\ \A j \in 1..(n - 0) : R[j] = items[0 + j]
         /\ R[n - 0 + 1] = tail
    BY <2>7, Zenon DEF AreTokens
  <2>12. ASSUME NEW j \in 1..Len(items) PROVE R[j] = items[j]
    <3>1. CASE j = n + 1
      <4>1. n - 0 + 1 = j /\ j = Len(items)
        BY <2>1, <3>1
      <4> QED BY <2>11, <4>1, Zenon DEF tail
    <3>2. CASE j # n + 1
      <4>1. j \in 1..(n - 0) /\ 0 + j = j
        BY <2>1, <3>2
      <4> QED BY <2>11, <4>1, Zenon
    <3> QED BY <3>1, <3>2
  <2>13. Len(R) = Len(items)
    BY <2>1, <2>11
  <2>14. R = items
    BY <2>4, <2>11, <2>12, <2>13, SameSequence, Zenon
  <2> QED BY <2>10, <2>14
<1> QED BY <1>1, <1>2

-----------------------------------------------------------------------------
(* What compute_embed_hash is fed with tells what was given to it.         *)
LEMMA Associative ==
  ASSUME NEW a \in Seq(Bytes), NEW b \in Seq(Bytes), NEW c \in Seq(Bytes)
  PROVE  (a \o b) \o c = a \o (b \o c)
OBVIOUS

LEMMA PartsOf ==
  ASSUME NEW S, NEW a \in Seq(S), NEW b \in Seq(S)
  PROVE  /\ Len(a \o b) = Len(a) + Len(b)
         /\ Len(a) \in Nat /\ Len(b) \in Nat
         /\ \A p \in 1..Len(a) : (a \o b)[p] = a[p]
         /\ \A p \in 1..Len(b) : (a \o b)[Len(a) + p] = b[p]
OBVIOUS

LEMMA PartsOfConcatenation ==
  ASSUME NEW S, NEW a \in Seq(S), NEW b \in Seq(S), NEW c \in Seq(S), NEW d \in Seq(S)
  PROVE  a \o b = c \o d /\ Len(a) = Len(c) => a = c /\ b = d
<1>1. /\ Len(a \o b) = Len(a) + Len(b)
      /\ Len(b) \in Nat
      /\ \A p \in 1..Len(a) : (a \o b)[p] = a[p]
      /\ \A p \in 1..Len(b) : (a \o b)[Len(a) + p] = b[p]
  BY PartsOf
<1>2. /\ Len(c \o d) = Len(c) + Len(d)
      /\ Len(c) \in Nat /\ Len(d) \in Nat
      /\ \A p \in 1..Len(c) : (c \o d)[p] = c[p]
      /\ \A p \in 1..Len(d) : (c \o d)[Len(c) + p] = d[p]
  BY PartsOf
<1>3. PICK e, f : e = a \o b /\ f = c \o d
  OBVIOUS
<1>4. ASSUME e = f, Len(a) = Len(c) PROVE a = c /\ b = d
  <2>1. PICK x \in Nat, y \in Nat, z \in Nat : x = Len(c) /\ y = Len(b) /\ z = Len(d)
    BY <1>1, <1>2, Zenon
  <2>2. x + y = x + z
    BY <1>1, <1>2, <1>3, <1>4, <2>1, Zenon
  <2>3. y = z
    BY <2>2
  <2>4. Len(b) = Len(d)
    BY <2>1, <2>3, Zenon
  <2>5. \A p \in 1..Len(a) : a[p] = c[p]
    BY <1>1, <1>2, <1>3, <1>4, Zenon
  <2>6. \A p \in 1..Len(b) : b[p] = d[p]
    BY <1>1, <1>2, <1>3, <1>4, <2>4, Zenon
  <2>7. a = c
    BY <1>4, <2>5, SameSequence, Zenon
  <2>8. b = d
    BY <2>4, <2>6, SameSequence, Zenon
  <2> QED BY <2>7, <2>8
<1> QED BY <1>3, <1>4, Zenon

LEMMA MergedIsBytes ==
  ASSUME NEW lists \in Seq(Seq(Bytes))
  PROVE  Merged(lists) \in Seq(Bytes)
<1>1. Len(lists) \in 0..Len(lists) /\ NUL \in Bytes
  BY EmbedAssumption
<1> QED BY <1>1, TerminatedTypes, Zenon DEF Merged

LEMMA MergedOfConcatenation ==
  ASSUME NEW a \in Seq(Seq(Bytes)), NEW b \in Seq(Seq(Bytes))
  PROVE  Merged(a) \o Merged(b) = Merged(a \o b)
<1> DEFINE A == Terminated(a, NUL)
           B == Terminated(b, NUL)
           C == Terminated(a \o b, NUL)
           S == {k \in Nat : k <= Len(a) => C[k] = A[k]}
           R == {k \in Nat : k <= Len(b) => C[Len(a) + k] = A[Len(a)] \o B[k]}
<1>1. /\ a \o b \in Seq(Seq(Bytes))
      /\ Len(a \o b) = Len(a) + Len(b)
      /\ \A p \in 1..Len(a) : (a \o b)[p] = a[p]
      /\ \A p \in 1..Len(b) : (a \o b)[Len(a) + p] = b[p]
  BY Concatenation
<1>2. PICK ab \in Seq(Seq(Bytes)) : ab = a \o b
  BY <1>1
<1>3. /\ A[0] = <<>> /\ B[0] = <<>> /\ C[0] = <<>>
      /\ \A k \in 1..Len(a) : A[k] = A[k - 1] \o a[k] \o <<NUL>>
      /\ \A k \in 1..Len(b) : B[k] = B[k - 1] \o b[k] \o <<NUL>>
      /\ \A k \in 1..Len(ab) : C[k] = C[k - 1] \o ab[k] \o <<NUL>>
  BY <1>2, TerminatedSteps, Zenon
<1>4. /\ \A k \in 0..Len(a) : A[k] \in Seq(Bytes)
      /\ \A k \in 0..Len(b) : B[k] \in Seq(Bytes)
  <2>1. NUL \in Bytes
    BY EmbedAssumption
  <2> QED BY <2>1, TerminatedTypes, Zenon
<1>5. /\ Len(ab) = Len(a) + Len(b)
      /\ \A p \in 1..Len(a) : ab[p] = a[p]
      /\ \A p \in 1..Len(b) : ab[Len(a) + p] = b[p]
  BY <1>1, <1>2, Zenon
<1>6. Merged(a) = A[Len(a)] /\ Merged(b) = B[Len(b)] /\ Merged(a \o b) = C[Len(a) + Len(b)]
  BY <1>1, Zenon DEF Merged
<1> HIDE DEF A, B, C
<1>7. \A k \in Nat : k \in S
  <2>1. 0 \in S
    BY <1>3
  <2>2. ASSUME NEW k \in Nat, k \in S PROVE k + 1 \in S
    <3> SUFFICES ASSUME k + 1 <= Len(a) PROVE C[k + 1] = A[k + 1]
      OBVIOUS
    <3>1. /\ k + 1 \in 1..Len(a) /\ k + 1 \in 1..Len(ab) /\ (k + 1) - 1 = k /\ k <= Len(a)
      BY <1>5
    <3>2. C[k] = A[k]
      BY <2>2, <3>1
    <3> QED BY <1>3, <1>5, <3>1, <3>2, Zenon
  <2> HIDE DEF S
  <2> QED BY <2>1, <2>2, SetInduction
<1>8. \A k \in Nat : k \in R
  <2>1. 0 \in R
    <3>1. Len(a) \in Nat /\ Len(a) + 0 = Len(a) /\ Len(a) \in 0..Len(a)
      OBVIOUS
    <3>2. C[Len(a)] = A[Len(a)]
      BY <1>7, <3>1
    <3>3. PICK x \in Seq(Bytes) : x = A[Len(a)]
      BY <1>4, <3>1
    <3>4. x \o <<>> = x
      OBVIOUS
    <3>5. C[Len(a) + 0] = A[Len(a)] \o B[0]
      BY <1>3, <3>1, <3>2, <3>3, <3>4, Zenon
    <3> QED BY <3>5
  <2>2. ASSUME NEW k \in Nat, k \in R PROVE k + 1 \in R
    <3> SUFFICES ASSUME k + 1 <= Len(b) PROVE C[Len(a) + (k + 1)] = A[Len(a)] \o B[k + 1]
      <4>1. k + 1 \in Nat
        OBVIOUS
      <4> QED BY <4>1, Zenon
    <3>1. /\ k + 1 \in 1..Len(b) /\ (k + 1) - 1 = k /\ k <= Len(b) /\ k \in 0..Len(b)
          /\ Len(a) + (k + 1) \in 1..Len(ab) /\ (Len(a) + (k + 1)) - 1 = Len(a) + k
          /\ Len(a) \in 0..Len(a)
      BY <1>5
    <3>2. C[Len(a) + k] = A[Len(a)] \o B[k]
      BY <2>2, <3>1
    <3>3. C[Len(a) + (k + 1)] = C[Len(a) + k] \o b[k + 1] \o <<NUL>>
      BY <1>3, <1>5, <3>1, Zenon
    <3>4. B[k + 1] = B[k] \o b[k + 1] \o <<NUL>>
      BY <1>3, <3>1, Zenon
    <3>5. PICK x \in Seq(Bytes), y \in Seq(Bytes), z \in Seq(Bytes), w \in Seq(Bytes) :
            x = A[Len(a)] /\ y = B[k] /\ z = b[k + 1] /\ w = <<NUL>>
      <4>1. A[Len(a)] \in Seq(Bytes) /\ B[k] \in Seq(Bytes) /\ b[k + 1] \in Seq(Bytes)
        BY <1>4, <3>1
      <4>2. <<NUL>> \in Seq(Bytes)
        BY EmbedAssumption
      <4> QED BY <4>1, <4>2, Zenon
    <3>6. ((x \o y) \o z) \o w = x \o ((y \o z) \o w)
      <4>1. y \o z \in Seq(Bytes)
        OBVIOUS
      <4>2. (x \o y) \o z = x \o (y \o z)
        BY Associative, Zenon
      <4>3. (x \o (y \o z)) \o w = x \o ((y \o z) \o w)
        BY <4>1, Associative, Zenon
      <4> QED BY <4>2, <4>3, Zenon
    <3> QED BY <3>2, <3>3, <3>4, <3>5, <3>6, Zenon
  <2> HIDE DEF R
  <2> QED BY <2>1, <2>2, SetInduction
<1>9. C[Len(a) + Len(b)] = A[Len(a)] \o B[Len(b)]
  <2>1. Len(b) \in Nat /\ Len(b) <= Len(b)
    OBVIOUS
  <2> QED BY <1>8, <2>1, Zenon
<1> QED BY <1>6, <1>9, Zenon

Texts(lists) == \A k \in DOMAIN lists : Text(lists[k])

LEMMA MergedTells ==
  ASSUME NEW x \in Seq(Seq(Bytes)), NEW y \in Seq(Seq(Bytes)),
         NEW s \in Seq(Bytes), NEW t \in Seq(Bytes),
         Texts(x), Texts(y), Text(s), Text(t),
         Merged(x) \o s = Merged(y) \o t
  PROVE  x = y /\ s = t
<1> DEFINE R == Tokens(Merged(x) \o s, NUL)[1]
<1>1. NUL \in Bytes /\ Len(x) \in 0..Len(x) /\ Len(y) \in 0..Len(y)
  BY EmbedAssumption
<1>2. /\ \A k \in 1..Len(x) : Clear(x[k], NUL)
      /\ \A k \in 1..Len(y) : Clear(y[k], NUL)
      /\ Clear(s, NUL) /\ Clear(t, NUL)
  <2>1. DOMAIN x = 1..Len(x) /\ DOMAIN y = 1..Len(y)
    OBVIOUS
  <2> QED BY <2>1, Zenon DEF Texts, Text, Clear
<1>3. AreTokens(R, x, 0, Len(x), s)
  BY <1>1, <1>2, TokensOfTerminated, Zenon DEF Merged
<1>4. AreTokens(Tokens(Merged(y) \o t, NUL)[1], y, 0, Len(y), t)
  BY <1>1, <1>2, TokensOfTerminated, Zenon DEF Merged
<1>5. AreTokens(R, y, 0, Len(y), t)
  BY <1>4, Zenon
<1> HIDE DEF R
<1>6. /\ Len(R) = Len(x) - 0 + 1 /\ Len(R) = Len(y) - 0 + 1
      /\ \A j \in 1..(Len(x) - 0) : R[j] = x[0 + j]
      /\ \A j \in 1..(Len(y) - 0) : R[j] = y[0 + j]
      /\ R[Len(x) - 0 + 1] = s /\ R[Len(y) - 0 + 1] = t
  BY <1>3, <1>5, Zenon DEF AreTokens
<1>7. Len(x) = Len(y)
  BY <1>6
<1>8. ASSUME NEW j \in 1..Len(x) PROVE x[j] = y[j]
  <2>1. j \in 1..(Len(x) - 0) /\ j \in 1..(Len(y) - 0) /\ 0 + j = j
    BY <1>7
  <2> QED BY <1>6, <2>1, Zenon
<1>9. x = y
  BY <1>7, <1>8, SameSequence, Zenon
<1> QED BY <1>6, <1>9, Zenon

-----------------------------------------------------------------------------
(* The generator.                                                          *)
Ids(c) == [k \in DOMAIN c.files |-> c.files[k].id]
FilePaths(c) == [k \in DOMAIN c.files |-> c.files[k].path]
Dests(c) == [k \in DOMAIN c.files |-> c.files[k].dest]

(* A header that has been made for a configuration and contents.           *)
HeaderFor(header, c, files) ==
  /\ header.ids = Ids(c)
  /\ header.dsts = Dests(c)
  /\ header.ranges = Ranges(files)
  /\ header.size = Len(Merged(files))
  /\ header.compression = c.compression

(* What a run is made of, with its hash.                                   *)
RunOf(b) ==
  /\ b.config \in Configs
  /\ b.files \in Seq(Contents)
  /\ Len(b.files) = Len(b.config.files)
  /\ b.hash = EmbedHash(b.files, Dests(b.config), b.config.dirs, b.config.compression)

EmbedInv ==
  /\ EmbedTypeOK
  /\ loaded \in Seq(Contents)
  /\ stage = "rest" => loaded = <<>>
  /\ stage \in Writing => Len(loaded) = Len(config.files)
  /\ out = [f \in Writing |-> out[f]]
  /\ stage \in {"asm", "bin"} =>
       out["header"] = Short \/ HeaderFor(out["header"], config, loaded)
  /\ built # Missing => RunOf(built)
  /\ built # Missing /\ ~torn =>
       /\ HeaderFor(out["header"], built.config, built.files)
       /\ out["bin"] = Compressed(Merged(built.files), built.config.compression)

LEMMA ElementOf ==
  ASSUME NEW S, NEW s \in Seq(S), NEW k \in 1..Len(s)
  PROVE  s[k] \in S
OBVIOUS

LEMMA ConfigFacts ==
  ASSUME NEW c \in Configs
  PROVE  /\ Len(c.files) \in Nat /\ DOMAIN c.files = 1..Len(c.files)
         /\ Ids(c) \in Seq(Word) /\ FilePaths(c) \in Seq(Word) /\ Dests(c) \in Seq(Word)
         /\ Len(Ids(c)) = Len(c.files)
         /\ Len(FilePaths(c)) = Len(c.files)
         /\ Len(Dests(c)) = Len(c.files)
         /\ \A k \in 1..Len(c.files) : FilePaths(c)[k] \in Paths
         /\ c.dirs \in Seq(Word)
<1>1. c.files \in Seq([id : Word, path : Paths, dest : Word]) /\ c.dirs \in Seq(Word)
      /\ Paths \subseteq Word
  BY EmbedAssumption, Zenon
<1>2. PICK files \in Seq([id : Word, path : Paths, dest : Word]) : files = c.files
  BY <1>1
<1>3. /\ Len(files) \in Nat /\ DOMAIN files = 1..Len(files)
      /\ \A k \in 1..Len(files) :
           files[k].id \in Word /\ files[k].path \in Paths /\ files[k].dest \in Word
  <2>1. Len(files) \in Nat /\ DOMAIN files = 1..Len(files)
    OBVIOUS
  <2>2. ASSUME NEW k \in 1..Len(files)
        PROVE  files[k].id \in Word /\ files[k].path \in Paths /\ files[k].dest \in Word
    <3>1. files[k] \in [id : Word, path : Paths, dest : Word]
      BY ElementOf, Zenon
    <3> QED BY <3>1
  <2> QED BY <2>1, <2>2, Zenon
<1>4. /\ Ids(c) = [k \in 1..Len(files) |-> files[k].id]
      /\ FilePaths(c) = [k \in 1..Len(files) |-> files[k].path]
      /\ Dests(c) = [k \in 1..Len(files) |-> files[k].dest]
  BY <1>2, <1>3, Zenon DEF Ids, FilePaths, Dests
<1>5. /\ [k \in 1..Len(files) |-> files[k].id] \in Seq(Word)
      /\ Len([k \in 1..Len(files) |-> files[k].id]) = Len(files)
  BY <1>3
<1>6. /\ [k \in 1..Len(files) |-> files[k].path] \in Seq(Word)
      /\ Len([k \in 1..Len(files) |-> files[k].path]) = Len(files)
  BY <1>1, <1>3
<1>7. /\ [k \in 1..Len(files) |-> files[k].dest] \in Seq(Word)
      /\ Len([k \in 1..Len(files) |-> files[k].dest]) = Len(files)
  BY <1>3
<1>8. \A k \in 1..Len(c.files) : FilePaths(c)[k] \in Paths
  BY <1>2, <1>3, <1>4
<1> QED BY <1>1, <1>2, <1>3, <1>4, <1>5, <1>6, <1>7, <1>8, Zenon

LEMMA ListsOfConfig ==
  ASSUME config \in Configs
  PROVE  /\ file_ids = Ids(config) /\ file_paths = FilePaths(config)
         /\ file_dsts = Dests(config) /\ include_dirs = config.dirs
<1>1. /\ file_ids = Listed(Ids(config)) /\ file_paths = Listed(FilePaths(config))
      /\ file_dsts = Listed(Dests(config)) /\ include_dirs = Listed(config.dirs)
  BY Zenon DEF file_ids, file_paths, file_dsts, include_dirs, Ids, FilePaths, Dests
<1>2. /\ Ids(config) \in Seq(Word) /\ FilePaths(config) \in Seq(Word)
      /\ Dests(config) \in Seq(Word) /\ config.dirs \in Seq(Word)
  BY ConfigFacts, Zenon
<1> QED BY <1>1, <1>2, ListsComeBack, Zenon

LEMMA HeaderIsForConfig ==
  ASSUME config \in Configs
  PROVE  /\ HeaderFor(Header, config, loaded)
         /\ Header.hash = EmbedHash(loaded, Dests(config), config.dirs, config.compression)
<1>1. /\ Header.ids = file_ids /\ Header.dsts = file_dsts
      /\ Header.ranges = Ranges(loaded) /\ Header.size = Len(Merged(loaded))
      /\ Header.compression = config.compression
      /\ Header.hash = EmbedHash(loaded, file_dsts, include_dirs, config.compression)
  BY DEF Header
<1> QED BY <1>1, ListsOfConfig, Zenon DEF HeaderFor

LEMMA EmbedStart == EmbedInit => EmbedInv
<1> SUFFICES ASSUME EmbedInit PROVE EmbedInv
  OBVIOUS
<1>1. /\ config \in Configs /\ onDisk \in [Paths -> Contents] /\ stage = "rest"
      /\ loaded = <<>> /\ out = [f \in Writing |-> Missing] /\ torn = FALSE
      /\ built = Missing /\ builds = 0
  BY DEF EmbedInit
<1>2. Len(loaded) <= Len(config.files) /\ loaded \in Seq(Contents) /\ DOMAIN loaded = {}
  <2>1. Len(config.files) \in Nat
    BY <1>1, ConfigFacts
  <2> QED BY <1>1, <2>1
<1>3. EmbedTypeOK
  <2>1. onDisk \in [Paths -> Contents \cup {Missing}]
    BY <1>1
  <2>2. builds \in 0..MaxBuilds
    BY <1>1, EmbedAssumption
  <2> QED BY <1>1, <1>2, <2>1, <2>2 DEF EmbedTypeOK
<1>4. out = [f \in Writing |-> out[f]]
  BY <1>1
<1> QED BY <1>1, <1>2, <1>3, <1>4 DEF EmbedInv, Writing

(* The steps between which the outputs are not touched.                    *)
LEMMA ProjectSteps ==
  ASSUME EmbedInv, Configure \/ Edit \/ Build
  PROVE  EmbedInv'
<1> USE DEF EmbedInv, EmbedTypeOK
<1>1. CASE Configure
  <2>1. Len(config'.files) \in Nat
    BY <1>1, ConfigFacts DEF Configure
  <2>2. (Len(loaded) <= Len(config.files))'
    BY <1>1, <2>1 DEF Configure
  <2> QED BY <1>1, <2>2 DEF Configure, Writing, RunOf, HeaderFor
<1>2. CASE Edit
  <2>1. onDisk' \in [Paths -> Contents \cup {Missing}]
    BY <1>2 DEF Edit
  <2> QED BY <1>2, <2>1 DEF Edit, Writing, RunOf, HeaderFor
<1>3. CASE Build
  <2>1. builds' \in 0..MaxBuilds
    BY <1>3, EmbedAssumption DEF Build
  <2>2. loaded' = <<>> /\ config' = config /\ loaded' = loaded
    BY <1>3 DEF Build
  <2> QED BY <1>3, <2>1, <2>2 DEF Build, Writing, RunOf, HeaderFor
<1> QED BY <1>1, <1>2, <1>3

LEMMA LoadStep ==
  ASSUME EmbedInv, Load
  PROVE  EmbedInv'
<1> USE DEF EmbedInv, EmbedTypeOK
<1>1. /\ Len(config.files) \in Nat
      /\ Len(file_paths) = Len(config.files)
      /\ \A k \in 1..Len(config.files) : file_paths[k] \in Paths
  BY ConfigFacts, ListsOfConfig
<1>2. Len(loaded) \in Nat /\ Len(loaded) + 1 \in 1..Len(config.files)
  BY <1>1 DEF Load
<1>3. NextPath \in Paths
  BY <1>1, <1>2 DEF NextPath
<1>4. onDisk[NextPath] \in Contents
  BY <1>3 DEF Load, Readable
<1>5. loaded' \in Seq(Contents) /\ Len(loaded') = Len(loaded) + 1
  BY <1>4 DEF Load
<1>6. Len(loaded') <= Len(config.files) /\ \A k \in DOMAIN loaded' : loaded'[k] \in Contents
  BY <1>1, <1>2, <1>5
<1>7. stage = "load" /\ UNCHANGED <<config, onDisk, stage, out, torn, built, builds>>
  BY DEF Load
<1> QED BY <1>5, <1>6, <1>7 DEF Writing, RunOf, HeaderFor

LEMMA GenerateSteps ==
  ASSUME EmbedInv, Generate \/ GenerateThrows
  PROVE  EmbedInv'
<1> USE DEF EmbedInv, EmbedTypeOK
<1>1. CASE Generate
  <2>1. Len(loaded) = Len(config.files)
    BY <1>1, ConfigFacts, ListsOfConfig DEF Generate
  <2> QED BY <1>1, <2>1 DEF Generate, Writing, RunOf, HeaderFor
<1>2. CASE GenerateThrows
  <2>1. Len(config.files) \in Nat
    BY ConfigFacts
  <2>2. /\ loaded' = <<>> /\ stage' = "rest"
        /\ UNCHANGED <<config, onDisk, out, torn, built, builds>>
    BY <1>2 DEF GenerateThrows
  <2>3. Len(loaded') <= Len(config.files) /\ loaded' \in Seq(Contents) /\ DOMAIN loaded' = {}
    BY <2>1, <2>2
  <2> QED BY <2>2, <2>3 DEF Writing, RunOf, HeaderFor
<1> QED BY <1>1, <1>2

(* A run that has come to its end is made of what it has read.             *)
LEMMA WriteStep ==
  ASSUME EmbedInv, NEW f \in Writing, Write(f)
  PROVE  EmbedInv' /\ (built' # built => RunOf(built'))
<1> USE DEF EmbedInv, EmbedTypeOK
<1>1. /\ stage = f /\ stage' = AfterWrite[f]
      /\ out' = [out EXCEPT ![f] = out'[f]]
      /\ out'[f] = Made(f) \/ out'[f] = Short
      /\ torn' = (stage' # "rest" \/ \E g \in Writing : out'[g] = Short)
      /\ UNCHANGED <<config, onDisk, builds>>
  <2>1. PICK w \in {Made(f)} \cup (IF "io" \in EmbedFaults THEN {Short} ELSE {}) :
          out' = [out EXCEPT ![f] = w]
    BY DEF Write
  <2>2. DOMAIN out = Writing
    OBVIOUS
  <2>3. out'[f] = w
    BY <2>1, <2>2
  <2>4. w = Made(f) \/ w = Short
    BY <2>1
  <2> QED BY <2>1, <2>3, <2>4, Zenon DEF Write
<1>2. /\ out' = [g \in Writing |-> out'[g]]
      /\ \A g \in Writing : g # f => out'[g] = out[g]
  <2>1. DOMAIN out = Writing
    OBVIOUS
  <2> QED BY <1>1, <2>1
<1>3. torn' \in BOOLEAN /\ Len(config.files) \in Nat
  BY <1>1, ConfigFacts
<1>4. Len(loaded) = Len(config.files)
  BY <1>1
<1>5. CASE f = "header"
  <2>1. stage' = "asm" /\ torn' = TRUE /\ UNCHANGED <<built, loaded>>
    BY <1>1, <1>5 DEF AfterWrite, Write
  <2>2. out'["header"] = Short \/ HeaderFor(out'["header"], config, loaded)
    BY <1>1, <1>5, HeaderIsForConfig, Zenon DEF Made
  <2> QED BY <1>1, <1>2, <1>3, <1>4, <2>1, <2>2 DEF Writing, RunOf, HeaderFor
<1>6. CASE f = "asm"
  <2>1. stage' = "bin" /\ torn' = TRUE /\ UNCHANGED <<built, loaded>>
    BY <1>1, <1>6 DEF AfterWrite, Write
  <2>2. out'["header"] = out["header"]
    BY <1>2, <1>6 DEF Writing
  <2>3. out["header"] = Short \/ HeaderFor(out["header"], config, loaded)
    BY <1>1, <1>6
  <2> QED BY <1>1, <1>2, <1>3, <1>4, <2>1, <2>2, <2>3 DEF Writing, RunOf, HeaderFor
<1>7. CASE f = "bin"
  <2>1. /\ stage' = "rest" /\ loaded' = <<>>
        /\ built' = [config |-> config, files |-> loaded, hash |-> Header.hash]
    BY <1>1, <1>7 DEF AfterWrite, Write
  <2>2. RunOf(built')
    <3>1. Header.hash = EmbedHash(loaded, Dests(config), config.dirs, config.compression)
      BY HeaderIsForConfig, Zenon
    <3>2. built'.config = config /\ built'.files = loaded /\ built'.hash = Header.hash
      BY <2>1
    <3>3. config \in Configs /\ loaded \in Seq(Contents)
      OBVIOUS
    <3> QED BY <1>4, <3>1, <3>2, <3>3, Zenon DEF RunOf
  <2>3. ASSUME ~torn'
        PROVE  /\ HeaderFor(out'["header"], built'.config, built'.files)
               /\ out'["bin"] = Compressed(Merged(built'.files), built'.config.compression)
    <3>1. out'["header"] # Short /\ out'["bin"] # Short
      BY <1>1, <2>3 DEF Writing
    <3>2. out'["header"] = out["header"]
      BY <1>2, <1>7 DEF Writing
    <3>3. HeaderFor(out["header"], config, loaded)
      BY <1>1, <1>7, <3>1, <3>2
    <3>4. out'["bin"] = Compressed(Merged(loaded), config.compression)
      BY <1>1, <1>7, <3>1 DEF Made
    <3>5. built'.config = config /\ built'.files = loaded
      BY <2>1
    <3> QED BY <3>2, <3>3, <3>4, <3>5, Zenon
  <2>4. /\ (Len(loaded) <= Len(config.files))'
        /\ loaded' \in Seq(Contents) /\ DOMAIN loaded' = {}
    BY <1>1, <1>3, <2>1
  <2>5. EmbedTypeOK'
    BY <1>1, <1>3, <2>1, <2>4
  <2>6. stage' \notin Writing /\ stage' \notin {"asm", "bin"}
    BY <2>1 DEF Writing
  <2> QED BY <1>2, <2>1, <2>2, <2>3, <2>4, <2>5, <2>6, Zenon DEF EmbedInv
<1> QED BY <1>5, <1>6, <1>7 DEF Writing

LEMMA KillStep ==
  ASSUME EmbedInv, Kill
  PROVE  EmbedInv'
<1> USE DEF EmbedInv, EmbedTypeOK
<1>1. /\ stage' = "rest" /\ loaded' = <<>>
      /\ UNCHANGED <<config, onDisk, built, builds>>
      /\ \/ UNCHANGED <<out, torn>>
         \/ out' = [out EXCEPT ![stage] = Short] /\ torn' = TRUE
  BY DEF Kill
<1>2. Len(config.files) \in Nat
  BY ConfigFacts
<1>3. Len(loaded') <= Len(config.files) /\ loaded' \in Seq(Contents) /\ DOMAIN loaded' = {}
  BY <1>1, <1>2
<1>4. CASE UNCHANGED <<out, torn>>
  BY <1>1, <1>3, <1>4 DEF Writing, RunOf, HeaderFor
<1>5. CASE out' = [out EXCEPT ![stage] = Short] /\ torn' = TRUE
  <2>1. DOMAIN out = Writing
    OBVIOUS
  <2>2. out' = [g \in Writing |-> out'[g]]
    BY <1>5, <2>1
  <2> QED BY <1>1, <1>3, <1>5, <2>2 DEF Writing, RunOf, HeaderFor
<1> QED BY <1>1, <1>4, <1>5

LEMMA EmbedStep ==
  ASSUME EmbedInv, [EmbedNext]_embedVars
  PROVE  EmbedInv' /\ (built' # built => RunOf(built'))
<1>1. CASE Configure \/ Edit \/ Build
  BY <1>1, ProjectSteps DEF Configure, Edit, Build
<1>2. CASE Load
  BY <1>2, LoadStep DEF Load
<1>3. CASE Generate \/ GenerateThrows
  BY <1>3, GenerateSteps DEF Generate, GenerateThrows
<1>4. CASE \E f \in Writing : Write(f)
  BY <1>4, WriteStep, Zenon
<1>5. CASE Kill
  BY <1>5, KillStep DEF Kill
<1>6. CASE UNCHANGED embedVars
  BY <1>6 DEF embedVars, EmbedInv, EmbedTypeOK, RunOf, HeaderFor
<1> QED BY <1>1, <1>2, <1>3, <1>4, <1>5, <1>6 DEF EmbedNext, Rest

LEMMA EmbedInvariant == EmbedSpec => []EmbedInv
<1>1. EmbedInv /\ [EmbedNext]_embedVars => EmbedInv'
  BY EmbedStep, Zenon
<1> QED BY EmbedStart, <1>1, PTL DEF EmbedSpec

(* The types of the generator, whatever is registered and whatever the     *)
(* files hold: it never reads more files than are registered, and none     *)
(* that is not there (load_file_bytes).                                    *)
THEOREM EmbedTyped == EmbedSpec => []EmbedTypeOK
<1>1. EmbedInv => EmbedTypeOK
  BY Zenon DEF EmbedInv
<1> QED BY EmbedInvariant, <1>1, PTL

(* For any files, names and compressions, and any runs that fail or are    *)
(* killed: the index, the range and the destination that the header gives  *)
(* a file lead to the bytes it had in the last complete run                *)
(* (generate_cxx_source_files_data, decompress_blob).                      *)
THEOREM EveryFileComesBack == EmbedSpec => []FilesComeBack
<1>1. EmbedInv => FilesComeBack
  <2> SUFFICES ASSUME EmbedInv, Embedded PROVE
          LET files == built.config.files
          IN  /\ Len(out["header"].ids) = Len(files)
              /\ out["bin"].packed = (out["header"].compression # "none")
              /\ Len(Decompressed) = out["header"].size
              /\ \A k \in DOMAIN files :
                   LET range == out["header"].ranges[k]
                   IN  /\ out["header"].ids[k] = files[k].id
                       /\ out["header"].dsts[k] = files[k].dest
                       /\ Cut(range) = built.files[k]
                       /\ Decompressed[range.offset + range.size + 1] = NUL
    BY Zenon DEF FilesComeBack
  <2> DEFINE c == built.config
             files == built.files
             header == out["header"]
             n == Len(files)
             T == Terminated(files, NUL)
  <2>1. RunOf(built) /\ HeaderFor(header, c, files)
        /\ out["bin"] = Compressed(Merged(files), c.compression)
    BY Zenon DEF EmbedInv, Embedded
  <2>2. /\ c \in Configs /\ files \in Seq(Contents) /\ Len(files) = Len(c.files)
    BY <2>1, Zenon DEF RunOf
  <2>3. /\ header.ids = Ids(c) /\ header.dsts = Dests(c) /\ header.ranges = Ranges(files)
        /\ header.size = Len(Merged(files)) /\ header.compression = c.compression
    BY <2>1, Zenon DEF HeaderFor
  <2>4. Decompressed = Merged(files) /\ out["bin"].packed = (c.compression # "none")
    BY <2>1 DEF Decompressed, Compressed
  <2>5. Len(Ids(c)) = Len(c.files) /\ DOMAIN c.files = 1..Len(c.files) /\ Len(c.files) \in Nat
    BY <2>2, ConfigFacts, Zenon
  <2>6. files \in Seq(Seq(Bytes)) /\ n \in Nat /\ DOMAIN files = 1..n
    BY <2>2, EmbedAssumption
  <2> HIDE DEF c, files, header
  <2>7. ASSUME NEW k \in DOMAIN c.files
        PROVE  LET range == header.ranges[k]
               IN  /\ header.ids[k] = c.files[k].id
                   /\ header.dsts[k] = c.files[k].dest
                   /\ Cut(range) = files[k]
                   /\ Decompressed[range.offset + range.size + 1] = NUL
    <3>1. k \in 1..n /\ k \in DOMAIN files /\ n \in 0..Len(files) /\ NUL \in Bytes
      BY <2>2, <2>5, <2>6, EmbedAssumption
    <3>2. header.ids[k] = c.files[k].id /\ header.dsts[k] = c.files[k].dest
      BY <2>3, Zenon DEF Ids, Dests
    <3>3. /\ header.ranges[k].offset = Len(T[k - 1])
          /\ header.ranges[k].size = Len(files[k])
      BY <2>3, <3>1 DEF Ranges
    <3>4. \A m \in 0..Len(files) : T[m] \in Seq(Bytes)
      BY <2>6, <3>1, TerminatedTypes, Zenon
    <3>5. T[n] \in Seq(Bytes) /\ T[k - 1] \in Seq(Bytes) /\ files[k] \in Seq(Bytes)
      BY <2>6, <3>1, <3>4
    <3>6. <<>> \in Seq(Bytes)
      OBVIOUS
    <3> HIDE DEF n
    <3>7. HasPlace(T, T[n] \o <<>>, files, NUL, n, <<>>, k)
      BY <2>6, <3>1, <3>6, Places, Zenon
    <3> HIDE DEF T
    <3>8. PICK str \in Seq(Bytes) : str = T[n]
      BY <3>5
    <3>9. str \o <<>> = str
      OBVIOUS
    <3>10. /\ Len(T[k]) = Len(T[k - 1]) + Len(files[k]) + 1
           /\ Len(T[k]) <= Len(str)
           /\ \A p \in 1..Len(files[k]) : str[Len(T[k - 1]) + p] = files[k][p]
           /\ str[Len(T[k])] = NUL
      <4>1. Len(T[n]) = Len(str)
        BY <3>8
      <4> QED BY <3>7, <3>8, <3>9, <4>1, Zenon DEF HasPlace
    <3>11. PICK a \in Nat, b \in Seq(Bytes) : a = Len(T[k - 1]) /\ b = files[k]
      BY <3>5
    <3>12. /\ a + Len(b) + 1 <= Len(str)
           /\ \A p \in 1..Len(b) : str[a + p] = b[p]
           /\ str[a + Len(b) + 1] = NUL
      BY <3>10, <3>11, Zenon
    <3>13. SubSeq(str, a + 1, a + Len(b)) = b
      <4>1. Len(b) \in Nat /\ Len(str) \in Nat
        OBVIOUS
      <4>2. a + Len(b) <= Len(str)
        BY <3>12, <4>1
      <4> QED BY <3>12, <4>2, PartOf
    <3>14. Decompressed = str
      BY <2>4, <3>8, Zenon DEF Merged, T, n
    <3> QED BY <3>2, <3>3, <3>11, <3>12, <3>13, <3>14, Zenon DEF Cut
  <2>8. /\ Len(header.ids) = Len(c.files)
        /\ out["bin"].packed = (header.compression # "none")
        /\ Len(Decompressed) = header.size
    BY <2>3, <2>4, <2>5, Zenon
  <2> QED BY <2>7, <2>8, Zenon DEF c, files, header
<1> QED BY EmbedInvariant, <1>1, PTL

-----------------------------------------------------------------------------
(* What is hashed, and nothing else, decides about the hash.               *)
LEMMA HashDecides ==
  ASSUME NEW b, NEW d, RunOf(b), RunOf(d), Len(b.files) = Len(d.files),
         Texts(b.files), Texts(d.files)
  PROVE  b.hash = d.hash <=> Described(b) = Described(d)
<1> DEFINE Fed(r) == (Merged(r.files) \o Merged(Dests(r.config))) \o Merged(r.config.dirs)
           All(r) == (r.files \o Dests(r.config)) \o r.config.dirs
           Name(r) == NameOf[r.config.compression]
<1>1. ASSUME NEW r, RunOf(r), Texts(r.files)
      PROVE  /\ r.config \in Configs
             /\ r.files \in Seq(Seq(Bytes)) /\ Dests(r.config) \in Seq(Seq(Bytes))
             /\ r.config.dirs \in Seq(Seq(Bytes))
             /\ r.files \o Dests(r.config) \in Seq(Seq(Bytes)) /\ All(r) \in Seq(Seq(Bytes))
             /\ Name(r) \in Seq(Bytes) /\ Text(Name(r))
             /\ Len(Dests(r.config)) = Len(r.files)
             /\ Texts(All(r))
             /\ r.hash = Merged(All(r)) \o Name(r)
  <2>1. /\ r.config \in Configs /\ r.files \in Seq(Contents)
        /\ Len(r.files) = Len(r.config.files)
        /\ r.hash = EmbedHash(r.files, Dests(r.config), r.config.dirs, r.config.compression)
    BY <1>1, Zenon DEF RunOf
  <2>2. /\ Dests(r.config) \in Seq(Word) /\ r.config.dirs \in Seq(Word)
        /\ Len(Dests(r.config)) = Len(r.config.files)
    BY <2>1, ConfigFacts, Zenon
  <2>3. PICK x \in Seq(Contents), y \in Seq(Word), z \in Seq(Word) :
          x = r.files /\ y = Dests(r.config) /\ z = r.config.dirs
    BY <2>1, <2>2, Zenon
  <2>4. Contents \subseteq Seq(Bytes) /\ \A w \in Word : w \in Seq(Bytes) /\ Text(w)
    <3>1. \A w \in Word : w \in Seq(Bytes) /\ Text(w)
      BY Zenon DEF Word
    <3> QED BY <3>1, EmbedAssumption
  <2>5. x \in Seq(Seq(Bytes)) /\ y \in Seq(Seq(Bytes)) /\ z \in Seq(Seq(Bytes))
    BY <2>4
  <2>6. x \o y \in Seq(Seq(Bytes)) /\ (x \o y) \o z \in Seq(Seq(Bytes))
    BY <2>5
  <2>7. Texts(x) /\ Texts(y) /\ Texts(z)
    <3>1. \A k \in DOMAIN y : y[k] \in Word
      OBVIOUS
    <3>2. \A k \in DOMAIN z : z[k] \in Word
      OBVIOUS
    <3> QED BY <1>1, <2>3, <2>4, <3>1, <3>2, Zenon DEF Texts
  <2>8. ASSUME NEW u \in Seq(Seq(Bytes)), NEW v \in Seq(Seq(Bytes)), Texts(u), Texts(v)
        PROVE  Texts(u \o v)
    <3>1. /\ u \o v \in Seq(Seq(Bytes)) /\ Len(u \o v) = Len(u) + Len(v)
          /\ \A p \in 1..Len(u) : (u \o v)[p] = u[p]
          /\ \A p \in 1..Len(v) : (u \o v)[Len(u) + p] = v[p]
      BY Concatenation
    <3>2. PICK uv \in Seq(Seq(Bytes)) : uv = u \o v
      BY <3>1
    <3>3. /\ Len(uv) = Len(u) + Len(v)
          /\ \A p \in 1..Len(u) : uv[p] = u[p]
          /\ \A p \in 1..Len(v) : uv[Len(u) + p] = v[p]
      BY <3>1, <3>2, Zenon
    <3>4. DOMAIN u = 1..Len(u) /\ DOMAIN v = 1..Len(v) /\ DOMAIN uv = 1..Len(uv)
      OBVIOUS
    <3>5. ASSUME NEW p \in DOMAIN uv PROVE Text(uv[p])
      <4>1. CASE p \in 1..Len(u)
        BY <2>8, <3>3, <3>4, <4>1, Zenon DEF Texts
      <4>2. CASE p \notin 1..Len(u)
        <5>1. p - Len(u) \in 1..Len(v) /\ Len(u) + (p - Len(u)) = p
          BY <3>3, <3>4, <4>2
        <5> QED BY <2>8, <3>3, <3>4, <5>1, Zenon DEF Texts
      <4> QED BY <4>1, <4>2
    <3> QED BY <3>2, <3>5, Zenon DEF Texts
  <2>9. Texts((x \o y) \o z)
    BY <2>5, <2>6, <2>7, <2>8, Zenon
  <2>10. /\ Merged(x) \o Merged(y) = Merged(x \o y)
         /\ Merged(x \o y) \o Merged(z) = Merged((x \o y) \o z)
    BY <2>5, <2>6, MergedOfConcatenation, Zenon
  <2>11. r.hash = ((Merged(x) \o Merged(y)) \o Merged(z)) \o Name(r)
    BY <2>1, <2>3, Zenon DEF EmbedHash
  <2>12. Name(r) \in Seq(Bytes) /\ Text(Name(r))
    BY <2>1, EmbedAssumption, Zenon
  <2> QED BY <2>1, <2>2, <2>3, <2>5, <2>6, <2>9, <2>10, <2>11, <2>12, Zenon
<1>2. ASSUME b.hash = d.hash PROVE Described(b) = Described(d)
  <2>1. All(b) = All(d) /\ Name(b) = Name(d)
    <3>1. Merged(All(b)) \o Name(b) = Merged(All(d)) \o Name(d)
      BY <1>1, <1>2, Zenon
    <3>2. /\ All(b) \in Seq(Seq(Bytes)) /\ Name(b) \in Seq(Bytes) /\ Text(Name(b)) /\ Texts(All(b))
          /\ All(d) \in Seq(Seq(Bytes)) /\ Name(d) \in Seq(Bytes) /\ Text(Name(d)) /\ Texts(All(d))
      BY <1>1, Zenon
    <3> HIDE DEF All, Name
    <3> QED BY <3>1, <3>2, MergedTells, Zenon
  <2>2. PICK x1 \in Seq(Seq(Bytes)), y1 \in Seq(Seq(Bytes)), z1 \in Seq(Seq(Bytes)) :
          x1 = b.files /\ y1 = Dests(b.config) /\ z1 = b.config.dirs
    BY <1>1, Zenon
  <2>3. PICK x2 \in Seq(Seq(Bytes)), y2 \in Seq(Seq(Bytes)), z2 \in Seq(Seq(Bytes)) :
          x2 = d.files /\ y2 = Dests(d.config) /\ z2 = d.config.dirs
    BY <1>1, Zenon
  <2>4. /\ (x1 \o y1) \o z1 = (x2 \o y2) \o z2
        /\ Len(x1) = Len(x2) /\ Len(y1) = Len(y2)
    BY <1>1, <2>1, <2>2, <2>3, Zenon
  <2>5. /\ x1 \o y1 \in Seq(Seq(Bytes)) /\ x2 \o y2 \in Seq(Seq(Bytes))
        /\ Len(x1 \o y1) = Len(x1) + Len(y1) /\ Len(x2 \o y2) = Len(x2) + Len(y2)
    BY Concatenation
  <2>6. Len(x1 \o y1) = Len(x2 \o y2)
    BY <2>4, <2>5, Zenon
  <2>7. x1 \o y1 = x2 \o y2 /\ z1 = z2
    BY <2>4, <2>5, <2>6, PartsOfConcatenation, Zenon
  <2>8. x1 = x2 /\ y1 = y2
    BY <2>4, <2>7, PartsOfConcatenation, Zenon
  <2>9. b.config.compression = d.config.compression
    BY <1>1, <2>1, EmbedAssumption, Zenon
  <2> QED BY <2>2, <2>3, <2>7, <2>8, <2>9, Zenon DEF Described, Dests
<1>3. ASSUME Described(b) = Described(d) PROVE b.hash = d.hash
  <2>1. /\ b.files = d.files /\ Dests(b.config) = Dests(d.config)
        /\ b.config.dirs = d.config.dirs /\ b.config.compression = d.config.compression
    BY <1>3 DEF Described, Dests
  <2> QED BY <2>1, Zenon DEF RunOf
<1> QED BY <1>2, <1>3, Zenon

(* The hash of the header follows what it is made of, for any files without*)
(* a NUL, any names and any number of directories (compute_embed_hash).    *)
THEOREM HashTells == EmbedSpec => HashFollowsContents
<1>1. EmbedInv /\ [EmbedNext]_embedVars =>
        [built # Missing /\ Len(built.files) = Len(built'.files)
           /\ (\A k \in DOMAIN built.files : Text(built.files[k]) /\ Text(built'.files[k]))
         => (built.hash = built'.hash <=> Described(built) = Described(built'))]_built
  <2> SUFFICES ASSUME EmbedInv, [EmbedNext]_embedVars, built' # built,
                      built # Missing, Len(built.files) = Len(built'.files),
                      \A k \in DOMAIN built.files : Text(built.files[k]) /\ Text(built'.files[k])
               PROVE  built.hash = built'.hash <=> Described(built) = Described(built')
    BY Zenon
  <2>1. RunOf(built) /\ RunOf(built')
    BY EmbedStep, Zenon DEF EmbedInv
  <2>2. PICK b : b = built
    OBVIOUS
  <2>3. PICK d : d = built'
    OBVIOUS
  <2>4. b.files \in Seq(Contents) /\ d.files \in Seq(Contents)
    BY <2>1, <2>2, <2>3, Zenon DEF RunOf
  <2>5. DOMAIN b.files = DOMAIN d.files
    BY <2>2, <2>3, <2>4
  <2>6. Texts(b.files) /\ Texts(d.files)
    BY <2>2, <2>3, <2>5, Zenon DEF Texts
  <2>7. b.hash = d.hash <=> Described(b) = Described(d)
    BY <2>1, <2>2, <2>3, <2>6, HashDecides, Zenon
  <2> QED BY <2>2, <2>3, <2>7, Zenon
<1> QED BY EmbedInvariant, <1>1, PTL DEF EmbedSpec, HashFollowsContents

-----------------------------------------------------------------------------
(* The three parts one beside the other.                                   *)
SequentialInv == IInv /\ EmbedInv /\ Inv

LEMMA PartsRest ==
  /\ HashRests => IInv
  /\ EmbedRests => EmbedInit
<1>1. ASSUME HashRests PROVE IInv
  <2>1. hex \in Seq(Chars) /\ source = None /\ i \in 0..NumBytes /\ status = "invalid"
        /\ data \in Hash
    BY <1>1, HashAssumption DEF HashRests, Hash, Byte
  <2> QED BY <2>1 DEF IInv, TypeOK, SoFar
<1>2. ASSUME EmbedRests PROVE EmbedInit
  <2>1. (CHOOSE c \in Configs : TRUE) \in Configs /\ (CHOOSE c \in Contents : TRUE) \in Contents
    BY EmbedAssumption, Zenon
  <2>2. [p \in Paths |-> CHOOSE c \in Contents : TRUE] \in [Paths -> Contents]
    BY <2>1, Zenon
  <2> QED BY <1>2, <2>1, <2>2 DEF EmbedRests, EmbedInit
<1> QED BY <1>1, <1>2

(* Whichever of them runs, all keep their types, for any constants: hash,  *)
(* generator and owners touch nothing of one another.                      *)
THEOREM SequentialTyped == SequentialSpec => []SequentialTypeOK
<1>1. SequentialInit => SequentialInv
  BY PartsRest, InvariantInit, EmbedStart, InitInv DEF SequentialInit, SequentialInv
<1>2. SequentialInv /\ [SequentialNext]_<<part, vars, embedVars, bufferVars>> => SequentialInv'
  <2>1. [SequentialNext]_<<part, vars, embedVars, bufferVars>>
          => [Next]_vars /\ [EmbedNext]_embedVars /\ [BuffersNext]_bufferVars
    BY DEF SequentialNext
  <2> QED BY <2>1, InvariantNext, EmbedStep, NextInv DEF SequentialInv
<1>3. SequentialInv => SequentialTypeOK
  BY DEF SequentialInv, IInv, EmbedInv, Inv, SequentialTypeOK
<1> QED BY <1>1, <1>2, <1>3, PTL DEF SequentialSpec
=============================================================================
