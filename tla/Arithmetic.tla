------------------------------ MODULE Arithmetic ------------------------------
(***************************************************************************)
(* Expressions: what the parser computes when the operands are constants   *)
(* (Oberon.y, Range.c) and what the generated C program computes when they *)
(* are not (Generate.c, OBNC.h). An expression is built operation by       *)
(* operation, of constants and variables in any mixture, and carries the   *)
(* value it has in the translated program together with the value it has   *)
(* by the language report.                                                 *)
(*                                                                         *)
(* INTEGER is a C type of IntBits bits, which may differ from the CIntBits *)
(* of int; CHAR is signed char and BYTE unsigned char, of CharBits bits.   *)
(* A value of type SET is an unsigned number, taken here as the set of the *)
(* bits that are 1. Real numbers and strings of several characters are     *)
(* left out.                                                               *)
(***************************************************************************)
EXTENDS Chars

CONSTANTS
    IntBits, IntMax,      \* OBNC_INTEGER: its bits and its greatest value
    CIntBits, CIntMax,    \* int
    MaxOperations,        \* bound: the operations of an expression
    Undefined             \* the result of undefined behaviour in C

ASSUME WidthAssumption ==
    /\ IntBits \in Nat \ {0} /\ IntMax \in Nat /\ IntMax + 1 = 2^(IntBits - 1)
    /\ CIntBits \in Nat /\ CIntMax \in Nat /\ CIntMax + 1 = 2^(CIntBits - 1)
    /\ CharBits < CIntBits
    /\ MaxOperations \in Nat

ASSUME UndefinedAssumption ==
    Undefined \notin Int /\ \A set \in SUBSET (0..(IntBits - 1)) : set # Undefined

(* The law of powers, which says nothing of the constants.                 *)
ASSUME PowerAssumption ==
    /\ 2^0 = 1
    /\ \A n \in 0..(IntBits + CIntBits) : 2^n \in Nat /\ 2^(n + 1) = 2 * 2^n

VARIABLES
    exp,         \* the expression built so far
    operation,   \* the last operation
    warned,      \* the compiler warned of the last operation
    reader,      \* "reads", "refused" the program, or "crashed"
    operations,  \* how many operations exp has
    deviations   \* where exp has met a known deviation from the report

expVars == <<exp, operation, warned, reader, operations, deviations>>

IntMin == -IntMax - 1
Integer == IntMin..IntMax
Element == 0..(IntBits - 1)

-----------------------------------------------------------------------------
(* C's arithmetic on signed numbers of w bits, of which only the widths    *)
(* of int and of OBNC_INTEGER occur.                                       *)

Promoted(bits) == IF bits < CIntBits THEN CIntBits ELSE bits
Common(b1, b2) == IF Promoted(b1) >= Promoted(b2) THEN Promoted(b1) ELSE Promoted(b2)

Fits(x, w) == IF w = IntBits THEN x \in Integer ELSE x \in (-CIntMax - 1)..CIntMax
OrUndefined(x, w) == IF Fits(x, w) THEN x ELSE Undefined
Wrap(x, w) == ((x + 2^(w - 1)) % 2^w) - 2^(w - 1)

Magnitude(x) == IF x >= 0 THEN x ELSE -x
CQuotient(x, y) ==
    IF (x >= 0) = (y > 0) THEN Magnitude(x) \div Magnitude(y)
                          ELSE -(Magnitude(x) \div Magnitude(y))
CRemainder(x, y) == x - y * CQuotient(x, y)

(* The bits of a number, and the number of the bits.                       *)
BitsOf(x) == {i \in Element : ((x % 2^IntBits) \div 2^i) % 2 = 1}
Unsigned(mask) ==
    LET upTo[n \in 0..Promoted(IntBits)] ==
            IF n = 0 THEN 0 ELSE upTo[n - 1] + (IF n - 1 \in mask THEN 2^(n - 1) ELSE 0)
    IN upTo[Promoted(IntBits)]
(* Mutant of Shifted: the bits shifted out at the top remain.              *)
ShiftedBeyond(mask, n) == {i + n : i \in mask} \cap Nat
Shifted(mask, n) == {i + n : i \in mask} \cap Element

-----------------------------------------------------------------------------
(* The macros of OBNC.h, whose operands are of w bits.                     *)

(* Mutant of MOD: C's remainder.                                           *)
MODTruncated(x, y) == CRemainder(x, y)
MOD(x, y) == IF x >= 0 THEN CRemainder(x, y) ELSE CRemainder(CRemainder(x, y) + y, y)
DIV(x, y, w) ==
    IF x >= 0 THEN CQuotient(x, y)
    ELSE IF Fits(x - MOD(x, y), w) THEN CQuotient(x - MOD(x, y), y) ELSE Undefined

LSL(x, n) == Wrap(x * 2^n, Promoted(IntBits))
ASR(x, n) == x \div 2^n
ROR(x, n) ==
    Wrap(Unsigned(Shifted(BitsOf(x), -n) \cup Shifted(BitsOf(x), IntBits - n)), IntBits)

RANGE(m, n) ==
    IF m > n THEN {}
    ELSE LET high == Shifted(1..(IntBits - 1), n)   \* -2 << n
             low == Shifted(Element, m)             \* -1 << m
         IN  (high \ low) \cup (low \ high)

(* 1 << x is of type int: its highest bit is a sign.                       *)
INCL(set, x) ==
    CASE x < CIntBits - 1 -> set \cup {x}
      [] x = CIntBits - 1 -> set \cup {i \in Element : i >= x}
      [] OTHER -> Undefined
EXCL(set, x) == set \ {x}

-----------------------------------------------------------------------------
(* The checks of Range.c. Only a negative set element ends the compiler.   *)

(* Mutant of SumWarning: compared before the operand is taken off.        *)
SumWarningLate(a, b) == \/ b > 0 /\ a > IntMax
                        \/ b < 0 /\ a < IntMin - b
SumWarning(a, b) == \/ b > 0 /\ a > IntMax - b
                    \/ b < 0 /\ a < IntMin - b
DifferenceWarning(a, b) == \/ b < 0 /\ a > IntMax + b
                           \/ b > 0 /\ a < IntMin + b
ProductWarning(a, b) ==
    \/ b > 0 /\ a > 0 /\ a > CQuotient(IntMax, b)
    \/ b > 0 /\ a < 0 /\ a < CQuotient(IntMin, b)
    \/ b < 0 /\ a > 0 /\ a < CQuotient(IntMin, b)
    \/ b < 0 /\ a < 0 /\ a < CQuotient(IntMax, b)
(* The division of the least integer by -1.                                *)
ProductTraps(a, b) == b = -1 /\ a > 0

-----------------------------------------------------------------------------
(* Expressions. Constants are computed by the parser and kept in nodes of  *)
(* the syntax tree, of the C type that variables of the type have.         *)

Converted(type, val) ==
    CASE type = "INTEGER" -> Wrap(val, IntBits)
      [] type = "BYTE" -> val % 2^CharBits
      [] type = "SET" -> val \cap Element
      [] OTHER -> val
Kept(type, val) == IF val = Undefined THEN Undefined ELSE Converted(type, val)

(* A constant is printed as a literal, whose C type depends on the value.  *)
IntegerLiteralBits(i) ==
    IF IntBits <= CIntBits \/ i \in (-CIntMax)..CIntMax THEN CIntBits ELSE IntBits
SetLiteralBits(set) ==
    IF IntBits <= CIntBits \/ set \subseteq 0..(CIntBits - 1) THEN CIntBits ELSE IntBits

LiteralBits(type, val) ==
    CASE val = Undefined -> CIntBits
      [] type = "INTEGER" -> IntegerLiteralBits(val)
      [] type = "SET" -> SetLiteralBits(val)
      [] OTHER -> CIntBits
VariableBits(type) ==
    CASE type \in {"INTEGER", "SET"} -> IntBits
      [] type = "BOOLEAN" -> CIntBits
      [] OTHER -> CharBits

Exp(type, form, val, bits, exact) ==
    [type |-> type, form |-> form, val |-> val, bits |-> bits, exact |-> exact]
ConstantOf(type, val, exact) ==
    Exp(type, "constant", Kept(type, val), LiteralBits(type, Kept(type, val)), exact)
VariableOf(type, val, exact) == Exp(type, "variable", val, VariableBits(type), exact)

Operand ==
    {ConstantOf("INTEGER", i, i) : i \in Integer} \cup {VariableOf("INTEGER", i, i) : i \in Integer}
        \cup {VariableOf("BYTE", i, i) : i \in 0..ByteMax}
        \cup {ConstantOf("SET", {}, {})} \cup {VariableOf("SET", s, s) : s \in SUBSET Element}
        \cup {ConstantOf("BOOLEAN", b, b) : b \in BOOLEAN}
        \cup {VariableOf("BOOLEAN", b, b) : b \in BOOLEAN}
        \cup {Exp("CHAR", "string", Signed(c), CIntBits, c) : c \in Char}
        \cup {VariableOf("CHAR", Signed(c), c) : c \in Char}

IsConst(e) == e.form \in {"constant", "string"}
IntegerTypes == {"INTEGER", "BYTE"}
IsInteger(e) == e.type \in IntegerTypes

(* The value is one of the type.                                           *)
Proper(e) ==
    /\ e.exact # Undefined
    /\ e.type = "INTEGER" => e.exact \in Integer
    /\ e.type \in {"BYTE", "CHAR"} => e.exact \in 0..ByteMax

(* The value in the translated program, as one of the report's.            *)
Meaning(e) == IF e.type = "CHAR" /\ e.val # Undefined THEN Ordinal(e.val) ELSE e.val

-----------------------------------------------------------------------------
(* Operations with two operands: the value computed from operands of w     *)
(* bits, and the value by the report, or Undefined if it gives none.       *)

Relations == {"=", "#", "<", "<=", ">", ">="}
Holds(relation, x, y) ==
    CASE relation = "=" -> x = y
      [] relation = "#" -> x # y
      [] relation = "<" -> x < y
      [] relation = "<=" -> x <= y
      [] relation = ">" -> x > y
      [] relation = ">=" -> x >= y

IntegerOps == {"+", "-", "*", "DIV", "MOD"}
IntegerValue(op, x, y, w) ==
    CASE op = "+" -> OrUndefined(x + y, w)
      [] op = "-" -> OrUndefined(x - y, w)
      [] op = "*" -> OrUndefined(x * y, w)
      [] op = "DIV" -> DIV(x, y, w)
      [] op = "MOD" -> MOD(x, y)
IntegerExact(op, x, y) ==
    CASE op = "+" -> x + y
      [] op = "-" -> x - y
      [] op = "*" -> x * y
      [] op = "DIV" -> IF y > 0 THEN x \div y ELSE Undefined
      [] op = "MOD" -> IF y > 0 THEN x % y ELSE Undefined

Shifts == {"LSL", "ASR", "ROR"}
ShiftValue(op, x, n) ==
    CASE op = "LSL" -> LSL(x, n)
      [] op = "ASR" -> ASR(x, n)
      [] op = "ROR" -> ROR(x, n)
ShiftExact(op, x, n) ==
    CASE op = "LSL" -> x * 2^n
      [] op = "ASR" -> x \div 2^n
      [] op = "ROR" -> Wrap(Unsigned({(i - n) % IntBits : i \in BitsOf(x)}), IntBits)
ShiftDefined(op, n) == n \in Element /\ (op = "ROR" => n > 0)

SetOps == {"+", "-", "*", "/"}
SetValue(op, s, t, bits) ==
    CASE op = "+" -> s \cup t
      [] op = "-" -> s \cap ((0..(Promoted(bits) - 1)) \ t)   \* s & ~ t
      [] op = "*" -> s \cap t
      [] op = "/" -> (s \ t) \cup (t \ s)
SetExact(op, s, t) ==
    CASE op = "+" -> s \cup t
      [] op = "-" -> s \ t
      [] op = "*" -> s \cap t
      [] op = "/" -> (s \cup t) \ (s \cap t)

(* Generated comparisons of order are of unsigned characters; constants    *)
(* are compared as they are, unless both are strings.                      *)
CharsHold(relation, a, b) ==
    IF IsConst(a) /\ IsConst(b) /\ ~(a.form = "string" /\ b.form = "string")
    THEN Holds(relation, a.val, b.val)
    ELSE Holds(relation, Ordinal(a.val), Ordinal(b.val))

(* The types of operands that an operator is for; without a second operand *)
(* it is a sign or a negation. (Of the other types, reals are not in this  *)
(* model, and the comparisons of arrays are in Arrays.)                    *)
ExpressionCompatible(op, first, second) ==
    \/ /\ {first, second} \subseteq IntegerTypes
       /\ op \in IntegerOps \cup Relations
    \/ first = "SET" /\ second = "SET" /\ op \in SetOps \cup {"=", "#"}
    \/ first = "CHAR" /\ second = "CHAR" /\ op \in Relations
    \/ first = "BOOLEAN" /\ second = "BOOLEAN" /\ op \in {"&", "OR", "=", "#"}
    \/ first \in IntegerTypes /\ second = "SET" /\ op = "IN"
    \/ first \in IntegerTypes \cup {"SET"} /\ second = "none" /\ op \in {"+", "-"}
    \/ first = "BOOLEAN" /\ second = "none" /\ op = "~"

Accepts(op, a, b) ==
    \/ ExpressionCompatible(op, a.type, b.type)
    \/ op \in Shifts \cup {"range"} /\ IsInteger(a) /\ IsInteger(b)

(* Bound: expressions whose operands C or the report leaves undefined end  *)
(* there, and are taken for constants only, of which the parser reports.   *)
Defined(op, a, b) ==
    /\ op \in {"DIV", "MOD"} => b.val > 0
    /\ op \in Shifts => ShiftDefined(op, b.val)
    /\ op = "range" => a.val \in Element /\ b.val \in Element
    /\ op = "IN" => a.val \in Element

Both(type, a, b, val, exact) ==
    IF IsConst(a) /\ IsConst(b) THEN ConstantOf(type, val, exact)
    ELSE Exp(type, "expression", val,
             IF type = "SET" \/ type = "INTEGER" THEN Common(a.bits, b.bits) ELSE CIntBits, exact)

(* The compiler computes with INTEGERs, and C with what it converts to.    *)
Width(a, b) ==
    IF IsConst(a) /\ IsConst(b) THEN Promoted(IntBits) ELSE Common(a.bits, b.bits)

Node(op, a, b) ==
    IF ~Defined(op, a, b) THEN Both("INTEGER", a, b, Undefined, Undefined)
    ELSE CASE op \in IntegerOps /\ IsInteger(a) ->
                Both("INTEGER", a, b, IntegerValue(op, a.val, b.val, Width(a, b)),
                     IntegerExact(op, a.exact, b.exact))
          [] op \in Shifts ->
                [Both("INTEGER", a, b, ShiftValue(op, a.val, b.val),
                      ShiftExact(op, a.exact, b.exact)) EXCEPT !.bits = Promoted(IntBits)]
          [] op \in SetOps /\ a.type = "SET" ->
                Both("SET", a, b,
                     SetValue(op, a.val, b.val,
                              IF IsConst(a) /\ IsConst(b) THEN IntBits ELSE b.bits),
                     SetExact(op, a.exact, b.exact))
          [] op = "range" ->
                [Both("SET", a, b, RANGE(a.val, b.val), a.exact..b.exact) EXCEPT !.bits = IntBits]
          [] op = "IN" -> Both("BOOLEAN", a, b, a.val \in b.val, a.exact \in b.exact)
          [] op \in Relations /\ a.type = "CHAR" ->
                Both("BOOLEAN", a, b, CharsHold(op, a, b), Holds(op, a.exact, b.exact))
          [] op \in Relations /\ a.type # "CHAR" ->
                Both("BOOLEAN", a, b, Holds(op, a.val, b.val), Holds(op, a.exact, b.exact))
          [] op = "&" -> Both("BOOLEAN", a, b, a.val /\ b.val, a.exact /\ b.exact)
          [] op = "OR" -> Both("BOOLEAN", a, b, a.val \/ b.val, a.exact \/ b.exact)

(* Functions of one operand, and the signs.                                *)
UnaryOps == {"minus", "~", "ABS", "ODD", "ORD", "CHR", "element"}
UnaryAccepts(op, a) ==
    \/ op = "minus" /\ ExpressionCompatible("-", a.type, "none")
    \/ op = "~" /\ ExpressionCompatible("~", a.type, "none")
    \/ op \in {"ABS", "ODD", "CHR", "element"} /\ IsInteger(a)
    \/ op = "ORD" /\ a.type \in {"CHAR", "BOOLEAN", "SET"}

UnaryType(op, a) ==
    CASE op = "minus" -> IF a.type = "SET" THEN "SET" ELSE "INTEGER"
      [] op = "ABS" -> a.type
      [] op \in {"~", "ODD"} -> "BOOLEAN"
      [] op = "ORD" -> "INTEGER"
      [] op = "CHR" -> "CHAR"
      [] op = "element" -> "SET"

Single(i, width) == IF i \in 0..(width - 1) THEN {i} ELSE Undefined

UnaryValue(op, a) ==
    LET w == IF IsConst(a) THEN Promoted(IntBits) ELSE Promoted(a.bits)
    IN  CASE op = "minus" /\ a.type = "SET" ->
                IF IsConst(a) THEN Element \ a.val ELSE (0..(w - 1)) \ a.val
          [] op = "minus" /\ IsInteger(a) -> OrUndefined(-a.val, w)
          [] op = "~" -> ~a.val
          [] op = "ABS" -> IF a.val >= 0 THEN a.val ELSE OrUndefined(-a.val, Promoted(IntBits))
          [] op = "ODD" -> a.val % 2 = 1
          [] op = "ORD" /\ a.type = "CHAR" -> Ordinal(a.val)
          [] op = "ORD" /\ a.type = "BOOLEAN" -> IF a.val THEN 1 ELSE 0
          [] op = "ORD" /\ a.type = "SET" -> Wrap(Unsigned(a.val), IntBits)
          [] op = "CHR" -> Wrap(a.val, CharBits)
          [] op = "element" -> Single(a.val, IF IsConst(a) THEN IntBits ELSE CIntBits)  \* 0x1u << x

UnaryExact(op, a) ==
    CASE op = "minus" /\ a.type = "SET" -> Element \ a.exact
      [] op = "minus" /\ IsInteger(a) -> -a.exact
      [] op = "~" -> ~a.exact
      [] op = "ABS" -> Magnitude(a.exact)
      [] op = "ODD" -> a.exact % 2 = 1
      [] op = "ORD" /\ a.type = "CHAR" -> a.exact
      [] op = "ORD" /\ a.type = "BOOLEAN" -> IF a.exact THEN 1 ELSE 0
      [] op = "ORD" /\ a.type = "SET" -> Wrap(Unsigned(a.exact), IntBits)
      [] op = "CHR" -> a.exact
      [] op = "element" -> Single(a.exact, IntBits)

(* ORD of a character that CHR made is not computed by the parser.         *)
UnaryFolds(op, a) == IsConst(a) /\ ~(op = "ORD" /\ a.type = "CHAR" /\ a.form = "constant")

UnaryNode(op, a) ==
    IF UnaryFolds(op, a)
    THEN ConstantOf(UnaryType(op, a), UnaryValue(op, a), UnaryExact(op, a))
    ELSE Exp(UnaryType(op, a), "expression", UnaryValue(op, a),
             CASE op \in {"ABS", "ORD"} -> Promoted(IntBits)
               [] op = "CHR" -> CharBits
               [] op = "minus" -> Promoted(a.bits)
               [] OTHER -> CIntBits,
             UnaryExact(op, a))

-----------------------------------------------------------------------------
(* What the parser says of the operation.                                  *)

Warning(op, a, b) ==
    \/ IsConst(a) /\ IsConst(b) /\ IsInteger(a) /\ IsInteger(b)
       /\ \/ op = "+" /\ SumWarning(a.val, b.val)
          \/ op = "-" /\ DifferenceWarning(a.val, b.val)
          \/ op = "*" /\ ProductWarning(a.val, b.val)
    \/ op \in Shifts /\ IsConst(b) /\ ~ShiftDefined(op, b.val)
    \/ op \in {"IN", "range"} /\ IsConst(a) /\ a.val >= IntBits
    \/ op = "range" /\ IsConst(b) /\ b.val >= IntBits

UnaryWarning(op, a) ==
    /\ IsConst(a)
    /\ \/ op = "minus" /\ IsInteger(a) /\ DifferenceWarning(0, a.val)
       \/ op = "CHR" /\ a.val \notin 0..ByteMax
       \/ op = "element" /\ a.val >= IntBits

Refused(op, a, b) ==
    \/ op \in {"DIV", "MOD"} /\ IsConst(a) /\ IsConst(b) /\ b.val <= 0
    \/ op \in {"IN", "range"} /\ IsConst(a) /\ a.val < 0
    \/ op = "range" /\ IsConst(b) /\ b.val < 0

Traps(op, a, b) ==
    op = "*" /\ IsConst(a) /\ IsConst(b) /\ IsInteger(a) /\ ProductTraps(a.val, b.val)

(* The quotient of a number near the least one, whose remainder cannot be  *)
(* subtracted; and the order of constants of which CHR made one.           *)
Deviates(op, a, b) ==
    \/ op = "DIV" /\ DIV(a.val, b.val, Width(a, b)) = Undefined
    \/ op \in Relations /\ a.type = "CHAR" /\ CharsHold(op, a, b) # Holds(op, a.exact, b.exact)

-----------------------------------------------------------------------------
(* The actions.                                                            *)

ArithmeticInit ==
    /\ exp = ConstantOf("BOOLEAN", FALSE, FALSE) /\ operation = "none"
    /\ warned = FALSE /\ reader = "reads" /\ operations = 0 /\ deviations = {}

Factor ==
    /\ operations = 0 /\ operations' = 1 /\ operation' = "none"
    /\ exp' \in Operand
    /\ UNCHANGED <<warned, reader, deviations>>

Operates(op) ==
    /\ reader = "reads" /\ operations \in 1..MaxOperations /\ Proper(exp)
    /\ exp.val # Undefined
    /\ operation' = op /\ operations' = operations + 1

Operation(op) ==
    /\ Operates(op)
    /\ \E other \in Operand :
         \E operands \in {<<exp, other>>, <<other, exp>>} :
            LET a == operands[1]
                b == operands[2] IN
            /\ Accepts(op, a, b)
            /\ Defined(op, a, b) \/ (IsConst(a) /\ IsConst(b))
            /\ warned' = Warning(op, a, b)
            /\ exp' = Node(op, a, b)
            /\ deviations' = deviations \cup
                 IF Defined(op, a, b) /\ Deviates(op, a, b) THEN {op} ELSE {}
            /\ \/ reader' = IF Refused(op, a, b) THEN "refused" ELSE "reads"
               \/ Traps(op, a, b) /\ reader' = "crashed"

UnaryOperation(op) ==
    /\ Operates(op)
    /\ UnaryAccepts(op, exp)
    /\ op = "element" => (exp.val \in Element \/ IsConst(exp))
    /\ warned' = UnaryWarning(op, exp)
    /\ exp' = UnaryNode(op, exp) /\ UNCHANGED deviations
    /\ reader' = IF op = "element" /\ IsConst(exp) /\ exp.val < 0 THEN "refused" ELSE "reads"

(* The expression is assigned to a variable, which is the operand of what  *)
(* follows.                                                                *)
Assignable(type) ==
    \/ exp.type = type
    \/ {exp.type, type} \subseteq {"INTEGER", "BYTE"}
Assignment(type) ==
    /\ Operates(":=")
    /\ Assignable(type)
    /\ warned' = FALSE /\ UNCHANGED deviations
    /\ exp' = VariableOf(type, Converted(type, exp.val), exp.exact)
    /\ reader' = IF type = "BYTE" /\ exp.form = "constant" /\ exp.val \notin 0..ByteMax
                 THEN "refused" ELSE "reads"

(* INC, DEC, INCL and EXCL of a variable.                                  *)
Update(op, x) ==
    CASE op = "INC" ->
            VariableOf(exp.type, Kept(exp.type, OrUndefined(exp.val + x.val, Promoted(IntBits))),
                       exp.exact + x.exact)
      [] op = "DEC" ->
            VariableOf(exp.type, Kept(exp.type, OrUndefined(exp.val - x.val, Promoted(IntBits))),
                       exp.exact - x.exact)
      [] op = "INCL" -> VariableOf("SET", INCL(exp.val, x.val), exp.exact \cup {x.exact})
      [] op = "EXCL" -> VariableOf("SET", EXCL(exp.val, x.val), exp.exact \ {x.exact})
ProperProcedure(op) ==
    /\ Operates(op)
    /\ exp.form = "variable" /\ UNCHANGED deviations
    /\ IF op \in {"INC", "DEC"} THEN IsInteger(exp) ELSE exp.type = "SET"
    /\ \E x \in {o \in Operand : IsInteger(o)} :
         /\ op \in {"INCL", "EXCL"} => (x.val \in Element \/ IsConst(x))
         /\ warned' = (op \in {"INCL", "EXCL"} /\ IsConst(x) /\ x.val >= IntBits)
         /\ exp' = IF op \in {"INCL", "EXCL"} /\ x.val \notin Element
                   THEN VariableOf("SET", Undefined, Undefined) ELSE Update(op, x)
         /\ reader' = IF op \in {"INCL", "EXCL"} /\ IsConst(x) /\ x.val < 0
                      THEN "refused" ELSE "reads"

ArithmeticNext ==
    \/ Factor
    \/ \E op \in IntegerOps \cup SetOps \cup Relations \cup Shifts \cup {"range", "IN", "&", "OR"} :
         Operation(op)
    \/ \E op \in UnaryOps : UnaryOperation(op)
    \/ \E type \in {"INTEGER", "BYTE", "SET", "BOOLEAN", "CHAR"} : Assignment(type)
    \/ \E op \in {"INC", "DEC", "INCL", "EXCL"} : ProperProcedure(op)

ArithmeticSpec == ArithmeticInit /\ [][ArithmeticNext]_expVars

-----------------------------------------------------------------------------
(* The properties.                                                         *)

(* Translated values are of the C type that stands for the Oberon type:    *)
(* what a constant or a variable holds is one of its own values, whatever  *)
(* was computed for it, and what is computed in between has no bits but    *)
(* those of int or INTEGER, whichever is wider.                            *)
ValuesOf(type) ==
    CASE type = "INTEGER" -> Integer
      [] type = "BYTE" -> 0..ByteMax
      [] type = "SET" -> SUBSET Element
      [] type = "BOOLEAN" -> BOOLEAN
      [] type = "CHAR" -> Signed(ByteMax \div 2 + 1)..Signed(ByteMax \div 2)
ComputedOf(type) ==
    CASE type \in IntegerTypes ->
            -(2^(Promoted(IntBits) - 1))..(2^(Promoted(IntBits) - 1) - 1)
      [] type = "SET" -> SUBSET (0..(Promoted(IntBits) - 1))
      [] OTHER -> ValuesOf(type)
ArithmeticInv ==
    /\ reader \in {"reads", "refused", "crashed"} /\ warned \in BOOLEAN
    /\ exp.val # Undefined =>
         exp.val \in IF exp.form = "expression" THEN ComputedOf(exp.type) ELSE ValuesOf(exp.type)

(* Whichever operands are constants, and however the operations are        *)
(* divided between the compiler and the generated program, the translated  *)
(* expression has the value of the report, but for the known deviations.   *)
ValuesExact == reader = "reads" /\ Proper(exp) /\ deviations = {} => Meaning(exp) = exp.exact

(* The compiler warns of a sum or difference of constants exactly if it    *)
(* cannot be represented, where it knows the values of the operands.       *)
WarnedExactly ==
    reader = "reads" /\ deviations = {} /\ operation \in {"+", "-", "minus"} /\ exp.form = "constant"
        => warned = ~Proper(exp)

(* The same for products; and the compiler survives the check.             *)
ProductsWarned ==
    operation = "*" /\ exp.form = "constant" => reader = "reads" /\ warned = ~Proper(exp)
==============================================================================
