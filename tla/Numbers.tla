-------------------------------- MODULE Numbers --------------------------------
(***************************************************************************)
(* Compressed integers in a file (Files.WriteNum and Files.ReadNum in      *)
(* lib/obnc/Files.c): groups of GroupBits bits, the lowest first, each in  *)
(* a byte whose highest bit says that more follow; the sign is the highest *)
(* bit of the last group. One rider writes at the end of the file, as long *)
(* as there is room, and another one reads from its beginning.             *)
(*                                                                         *)
(* DIV and MOD are exact for a divisor that is a power of two (Arithmetic, *)
(* DivModExact). Compilers make shift and negation instructions of << and  *)
(* unary - also where a result beyond int is undefined; a shift by the     *)
(* width of int or more may give anything, taken as Garbage.               *)
(***************************************************************************)
EXTENDS Integers, SequencesExt

CONSTANTS
    GroupBits,           \* 7
    NumBits,             \* the bits of INTEGER
    NumCBits,            \* the bits of int
    MaxNumbers,          \* bound: numbers in the file
    Garbage

ASSUME NumbersAssumption ==
    /\ GroupBits \in Nat \ {0} /\ NumBits \in Nat \ {0} /\ NumCBits \in Nat \ {0}
    /\ MaxNumbers \in Nat /\ Garbage \notin Int

(* The law of powers, which says nothing of the constants.                 *)
ASSUME NumberPowersAssumption ==
    /\ 2^0 = 1
    /\ \A n \in 0..(GroupBits + NumBits + NumCBits) : 2^n \in Nat /\ 2^(n + 1) = 2 * 2^n

VARIABLES
    text,       \* the bytes of the file
    numbers,    \* those written entirely
    full,       \* a write failed
    pos,        \* of the reading rider
    eof,        \* of the reading rider
    got         \* the numbers read

numberVars == <<text, numbers, full, pos, eof, got>>

Group == 2^GroupBits
Half == Group \div 2
Number == -(2^(NumBits - 1))..(2^(NumBits - 1) - 1)

CInt(x) == ((x + 2^(NumCBits - 1)) % 2^NumCBits) - 2^(NumCBits - 1)
ShiftLeft(x, s) == IF s < NumCBits THEN CInt(x * 2^s) ELSE Garbage
Negative(x) == IF x = Garbage THEN x ELSE CInt(-x)
Sum(x, y) == IF Garbage \in {x, y} THEN Garbage ELSE x + y

(* The bytes of x (WriteNum). Mutant: the limits of the last group do not  *)
(* leave its highest bit for the sign.                                     *)
BytesUnsigned(x) ==
    LET left[i \in 0..NumBits] == IF i = 0 THEN x ELSE left[i - 1] \div Group
        last == Min({i \in 0..NumBits : left[i] \in -Group..(Group - 1)})
    IN [i \in 1..(last + 1) |-> (left[i - 1] % Group) + (IF i <= last THEN Group ELSE 0)]
Bytes(x) ==
    LET left[i \in 0..NumBits] == IF i = 0 THEN x ELSE left[i - 1] \div Group
        last == Min({i \in 0..NumBits : left[i] \in -Half..(Half - 1)})
    IN [i \in 1..(last + 1) |-> (left[i - 1] % Group) + (IF i <= last THEN Group ELSE 0)]

(* The number that the bytes b stand for, of which the last has its        *)
(* highest bit clear (ReadNum).                                            *)
Value(b) ==
    LET s == GroupBits * (Len(b) - 1)
        read[i \in 0..(Len(b) - 1)] ==
            IF i = 0 THEN 0 ELSE Sum(read[i - 1], ShiftLeft(b[i] - Group, GroupBits * (i - 1)))
        n == read[Len(b) - 1]
        y == (Last(b) % Half) - (Last(b) \div Half) * Half
        z == IF y < 0 THEN Negative(ShiftLeft(-y, s)) ELSE ShiftLeft(y, s)
    IN Sum(n, z)

-----------------------------------------------------------------------------
NumbersInit ==
    /\ text = <<>> /\ numbers = <<>> /\ full = FALSE
    /\ pos = 0 /\ eof = FALSE /\ got = <<>>

(* The first k bytes find room; fwrite says how many did.                  *)
WriteNum(x) ==
    /\ ~full /\ Len(numbers) < MaxNumbers
    /\ \E k \in 0..Len(Bytes(x)) :
          /\ text' = text \o SubSeq(Bytes(x), 1, k)
          /\ full' = (k < Len(Bytes(x)))
          /\ numbers' = IF k = Len(Bytes(x)) THEN Append(numbers, x) ELSE numbers
    /\ UNCHANGED <<pos, eof, got>>

ReadNum ==
    LET rest == SubSeq(text, pos + 1, Len(text))
        ends == {i \in DOMAIN rest : rest[i] < Group}
    IN /\ IF ends = {}
          THEN /\ pos' = Len(text) /\ eof' = TRUE
               /\ UNCHANGED got
          ELSE /\ pos' = pos + Min(ends)
               /\ got' = Append(got, Value(SubSeq(rest, 1, Min(ends))))
               /\ UNCHANGED eof
       /\ UNCHANGED <<text, numbers, full>>

(* The rider is set to the beginning again.                                *)
SetRider ==
    /\ pos' = 0 /\ eof' = FALSE /\ got' = <<>>
    /\ UNCHANGED <<text, numbers, full>>

NumbersNext ==
    \/ \E x \in Number : WriteNum(x)
    \/ ReadNum
    \/ SetRider

NumbersSpec == NumbersInit /\ [][NumbersNext]_numberVars

-----------------------------------------------------------------------------
(* What is read is what was written, each number once and in this order;   *)
(* of a number that was cut off nothing is delivered, and the reader is    *)
(* told of the end of the file (WriteNum, ReadNum).                        *)
NumbersReadBack ==
    /\ IsPrefix(got, numbers)
    /\ pos = Len(text) => got = numbers
    /\ pos = Len(text) /\ pos > 0 /\ text[pos] >= Group => eof
================================================================================
