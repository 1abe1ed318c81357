--------------------------------- MODULE Chars ---------------------------------
(***************************************************************************)
(* Characters: the report orders them by their ordinal numbers; in the     *)
(* compiler and in C they are signed numbers of CharBits bits.             *)
(***************************************************************************)
EXTENDS Integers

CONSTANT CharBits

ASSUME CharAssumption == CharBits \in Nat \ {0}

ByteMax == 2^CharBits - 1
Char == 0..ByteMax
Signed(c) == IF c < 2^(CharBits - 1) THEN c ELSE c - 2^CharBits
Ordinal(char) == char % 2^CharBits
==============================================================================
