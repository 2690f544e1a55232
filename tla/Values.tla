------------------------------- MODULE Values -------------------------------
(***************************************************************************)
(* Values of a D-Bus message and what the library makes of them.           *)
(*                                                                         *)
(* A value on the wire is a record of its type and its data.  Numbers keep *)
(* their width: the moduli 2^16, 2^32 and 2^64 are the constants Short,    *)
(* Word and Long.  A text is the number its decimal digits say, or NoNumber*)
(* for a text that starts with no digit.  A variant's data is the value in *)
(* it.                                                                     *)
(***************************************************************************)
EXTENDS Integers

CONSTANTS
    Short, Word, Long,  \* the moduli of 16, 32 and 64 bits
    NoNumber,           \* a text that is no number
    Nothing             \* the data of an array

ASSUME WidthAssumption ==
    /\ Short \in Nat /\ Word \in Nat /\ Long \in Nat
    /\ 1 < Short /\ 2 * Short <= Word /\ 2 * Word <= Long
    /\ Short % 2 = 0 /\ Word % 2 = 0 /\ Long % 2 = 0

ASSUME TextAssumption == NoNumber \notin Int

-----------------------------------------------------------------------------

(* What is left of n in an unsigned or signed integer of modulus m. *)
Unsigned(m, n) == n % m
Signed(m, n) == IF (n % m) < (m \div 2) THEN n % m ELSE (n % m) - m

UnsignedRange(m) == 0 .. m - 1
SignedRange(m) == -(m \div 2) .. (m \div 2) - 1

Truth(b) == IF b THEN 1 ELSE 0

(* What atoi and its relatives read, before they cut it to an int. *)
Digits(text) == IF text = NoNumber THEN 0 ELSE text

NumberTypes == {"int16", "uint16", "int32", "uint32", "int64", "uint64"}

(* The numbers a type can have. *)
TypeRange(type) ==
    CASE type = "int16"  -> SignedRange(Short)
      [] type = "uint16" -> UnsignedRange(Short)
      [] type = "int32"  -> SignedRange(Word)
      [] type = "uint32" -> UnsignedRange(Word)
      [] type = "int64"  -> SignedRange(Long)
      [] type = "uint64" -> UnsignedRange(Long)
      [] type = "boolean" -> 0 .. 1

Value(type, data) == [type |-> type, data |-> data]

(* The value inside of a variant. *)
Plain(v) == IF v.type = "variant" THEN v.data ELSE v

(* What dbus_message_iter_get_basic can read. *)
Basic(v) == Plain(v).type # "array"

(* to_value, for an Udjat::Value: the types it knows. *)
ValueTypes == {"string", "object_path", "boolean", "int16", "int32", "uint32"}

(* The number that a value stands for, if it does. *)
Number(v) == IF v.type = "string" THEN Digits(v.data) ELSE v.data
=============================================================================
