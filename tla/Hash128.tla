------------------------------- MODULE Hash128 -------------------------------
(* The hexadecimal form of a hash: hash128_hex_string::make and            *)
(* hash128::parse of hash.cpp.                                             *)
(*                                                                         *)
(* A hash is the sequence of its bytes in memory, the order that make and  *)
(* parse share; the hash of the code has NumBytes = 16.  parse is a loop   *)
(* over the bytes, one step per pass.  It is given the name of a file of   *)
(* the cache (preload_from_disk): one that was made from a hash, or one    *)
(* that somebody else has left there.                                      *)
EXTENDS Integers, Sequences

CONSTANTS
  NumBytes,  \* NUM_HEX_BYTES
  Chars,     \* characters
  DigitOf,   \* the digit a character stands for in from_chars, or NotADigit
  HexChars,  \* HEX_CHARS
  Printed,   \* hashes whose strings are parsed
  Foreign,   \* other strings that are parsed
  None

NotADigit == 16

ASSUME HashAssumption ==
  /\ NumBytes \in Nat
  /\ DigitOf \in [Chars -> 0..NotADigit]
  /\ HexChars \in [0..15 -> Chars]
  /\ \A d \in 0..15 : DigitOf[HexChars[d]] = d
  /\ Foreign \subseteq Seq(Chars)

Byte == 0..255
Hash == [0..(NumBytes - 1) -> Byte]
NumDigits == 2 * NumBytes

ASSUME PrintedAssumption == Printed \subseteq Hash /\ None \notin Hash

\* The low half of each byte first.
LowFirst(b) == <<HexChars[b % 16], HexChars[b \div 16]>>

(* The two digits of a byte, the high half first. *)
HexByte(b) == <<HexChars[b \div 16], HexChars[b % 16]>>

(* make: byte i gives the characters 2i and 2i+1. *)
ToHex(hash) ==
  [n \in 1..NumDigits |->
     HexByte(hash[(n - 1) \div 2])[IF n % 2 = 1 THEN 1 ELSE 2]]

VARIABLES
  hex,    \* the string to be parsed
  source, \* the hash it was made from, or None
  i,      \* the byte that comes next
  data,   \* the bytes so far
  status  \* "parsing", "done", or "invalid" where the code throws

vars == <<hex, source, i, data, status>>

TypeOK ==
  /\ hex \in Seq(Chars)
  /\ source \in Printed \cup {None}
  /\ i \in 0..NumBytes
  /\ data \in Hash
  /\ status \in {"parsing", "done", "invalid"}

(* The check of the length comes first. *)
LengthOK(s) == Len(s) = NumDigits

Init ==
  /\ \/ source \in Printed /\ hex = ToHex(source)
     \/ source = None /\ hex \in Foreign
  /\ i = 0
  /\ data = [j \in 0..(NumBytes - 1) |-> 0]
  /\ status = IF LengthOK(hex) THEN "parsing" ELSE "invalid"

High == DigitOf[hex[2 * i + 1]]
Low == DigitOf[hex[2 * i + 2]]

(* from_chars takes the digits it finds and reports no error if there is   *)
(* one at least; where it stopped is not looked at.                        *)
HasDigit == High # NotADigit

ByteValue == IF Low = NotADigit THEN High ELSE 16 * High + Low

ParseByte ==
  /\ status = "parsing"
  /\ i < NumBytes
  /\ HasDigit
  /\ data' = [data EXCEPT ![i] = ByteValue]
  /\ i' = i + 1
  /\ UNCHANGED <<hex, source, status>>

RejectByte ==
  /\ status = "parsing"
  /\ i < NumBytes
  /\ ~HasDigit
  /\ status' = "invalid"
  /\ UNCHANGED <<hex, source, i, data>>

Finish ==
  /\ status = "parsing"
  /\ i = NumBytes
  /\ status' = "done"
  /\ UNCHANGED <<hex, source, i, data>>

Stop == status # "parsing" /\ UNCHANGED vars

Next == ParseByte \/ RejectByte \/ Finish \/ Stop

Spec == Init /\ [][Next]_vars

-----------------------------------------------------------------------------
(* parse undoes make: the string of a hash is never refused, and gives     *)
(* that hash again (to_hex_string names the files of the cache, and parse  *)
(* reads their names back in preload_from_disk).                           *)
RoundTrip ==
  source # None =>
    /\ status # "invalid"
    /\ status = "done" => data = source
=============================================================================
