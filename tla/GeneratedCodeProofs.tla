-------------------------- MODULE GeneratedCodeProofs --------------------------
(***************************************************************************)
(* That expressions have the values of the report and overflows of         *)
(* constants are warned of (Arithmetic), for every width of INTEGER and of *)
(* int and any number of operations, and that the lengths of array         *)
(* parameters are true and every access is to the elements that are meant  *)
(* (Arrays), for any variables, procedures, array types of any number of   *)
(* dimensions and any depth of calls, where types have distinct names and  *)
(* no array or string is passed for a value parameter of another length.   *)
(*                                                                         *)
(* Arithmetic: the value of an expression, as the compiler or C computed   *)
(* it, stands for the report's and is one of its type, as long as the      *)
(* report's is one, no known deviation was met, and either INTEGER is as   *)
(* wide as int or all operands were constants. An operation then computes  *)
(* the report's result, unless that is not of its type. Whatever the       *)
(* widths, what is computed is a number of the wider of the two, and       *)
(* what a constant or a variable holds is a value of its Oberon type.      *)
(*                                                                         *)
(* Arrays: each dimension of a parameter has the extent of the dimension   *)
(* of the object that it stands for, the length being the type's or the    *)
(* one that was passed; the path of a parameter and the dimensions of its  *)
(* type make up those of the object, and the offset that it was passed is  *)
(* the number of elements before that path. These numbers are products and *)
(* sums over dimensions, so that the lemmas about them are by induction,   *)
(* with a set of numbers in the place of a predicate.                      *)
(***************************************************************************)
EXTENDS Arithmetic, Arrays, SequenceTheorems, WellFoundedInduction, TLAPS

-----------------------------------------------------------------------------
(* Of numbers.                                                             *)

(* Induction, with a set in the place of a predicate.                      *)
LEMMA SetInduction ==
    ASSUME NEW S, 0 \in S, \A n \in Nat : n \in S => n + 1 \in S
    PROVE  Nat \subseteq S
<1> DEFINE R == OpToRel(<, Nat)
<1>1. IsWellFoundedOn(R, Nat)
    BY NatLessThanWellFounded
<1>2. \A y, x \in Nat : y < x => <<y, x>> \in R
    BY DEF OpToRel
<1> HIDE DEF R
<1> SUFFICES ASSUME Nat \ S /= {} PROVE FALSE
    OBVIOUS
<1>3. PICK x \in Nat \ S : \A y \in Nat \ S : ~(<<y, x>> \in R)
    <2>1. \A T \in SUBSET Nat : T /= {} => \E x \in T : \A y \in T : ~(<<y, x>> \in R)
        BY <1>1, WFMin, Zenon
    <2> QED
        BY <2>1
<1>4. x - 1 \in Nat /\ x - 1 < x
    OBVIOUS
<1>5. x - 1 \in S
    BY <1>2, <1>3, <1>4
<1> QED
    BY <1>4, <1>5

(* The same up to a bound.                                                 *)
LEMMA BoundedInduction ==
    ASSUME NEW n \in Nat, NEW S, 0 \in S, \A k \in 0..(n - 1) : k \in S => k + 1 \in S
    PROVE  0..n \subseteq S
<1> DEFINE T == {k \in Nat : k <= n => k \in S}
<1>1. 0 \in T /\ \A k \in Nat : k \in T => k + 1 \in T
    OBVIOUS
<1> HIDE DEF T
<1>2. Nat \subseteq T
    BY <1>1, SetInduction
<1> QED
    BY <1>2 DEF T

(* A function that is computed step by step, multiplying and adding.       *)
Computed(f, n, first, factor, summand) ==
    /\ f \in [0..n -> Int] /\ f[0] = first
    /\ \A k \in 1..n : f[k] = f[k - 1] * factor[k] + summand[k]

LEMMA ComputedExists ==
    ASSUME NEW n \in Nat, NEW first \in Int,
           NEW factor \in [1..n -> Int], NEW summand \in [1..n -> Int]
    PROVE  \E f : Computed(f, n, first, factor, summand)
<1> DEFINE S == {j \in Nat : \E f : Computed(f, j, first, factor, summand)}
<1>1. 0 \in S
    <2>1. Computed([k \in 0..0 |-> first], 0, first, factor, summand)
        BY DEF Computed
    <2> QED
        BY <2>1
<1>2. ASSUME NEW j \in 0..(n - 1), j \in S PROVE j + 1 \in S
    <2>1. PICK f : Computed(f, j, first, factor, summand)
        BY <1>2
    <2> DEFINE g == [k \in 0..(j + 1) |-> IF k <= j THEN f[k]
                                          ELSE f[j] * factor[j + 1] + summand[j + 1]]
    <2>2. f[j] * factor[j + 1] + summand[j + 1] \in Int
        BY <2>1 DEF Computed
    <2>3. g \in [0..(j + 1) -> Int]
        BY <2>1, <2>2 DEF Computed
    <2>4. ASSUME NEW k \in 1..(j + 1) PROVE g[k] = g[k - 1] * factor[k] + summand[k]
        <3>1. CASE k <= j
            <4>1. k \in 1..j /\ g[k] = f[k] /\ g[k - 1] = f[k - 1]
                BY <3>1
            <4>2. f[k] = f[k - 1] * factor[k] + summand[k]
                BY <2>1, <4>1 DEF Computed
            <4> HIDE DEF g
            <4> QED
                BY <4>1, <4>2
        <3>2. CASE k = j + 1
            <4>1. g[j + 1] = f[j] * factor[j + 1] + summand[j + 1] /\ g[j] = f[j] /\ (j + 1) - 1 = j
                OBVIOUS
            <4> HIDE DEF g
            <4> QED
                BY <3>2, <4>1
        <3> QED
            BY <3>1, <3>2
    <2>5. Computed(g, j + 1, first, factor, summand)
        <3>1. g[0] = first
            BY <2>1 DEF Computed
        <3> HIDE DEF g
        <3> QED
            BY <2>3, <2>4, <3>1 DEF Computed
    <2> QED
        BY <2>5
<1> HIDE DEF S
<1>3. 0..n \subseteq S
    BY <1>1, <1>2, BoundedInduction
<1> QED
    BY <1>3 DEF S

(* Two functions that are computed in the same way are the same.           *)
Alike(f, g, n) == f[0] = g[0] /\ \A k \in 1..n : f[k - 1] = g[k - 1] => f[k] = g[k]

LEMMA StepByStep ==
    ASSUME NEW n \in Nat, NEW f, NEW g, Alike(f, g, n)
    PROVE  \A k \in 0..n : f[k] = g[k]
<1> DEFINE S == {k \in Nat : f[k] = g[k]}
<1>1. 0 \in S
    BY DEF Alike
<1>2. ASSUME NEW k \in 0..(n - 1), k \in S PROVE k + 1 \in S
    <2>1. k + 1 \in 1..n /\ (k + 1) - 1 = k
        OBVIOUS
    <2> QED
        BY <1>2, <2>1 DEF Alike
<1> HIDE DEF S
<1>3. 0..n \subseteq S
    BY <1>1, <1>2, BoundedInduction
<1> QED
    BY <1>3 DEF S

Ones(n) == [k \in 1..n |-> 1]
Zeros(n) == [k \in 1..n |-> 0]

(* Range_CheckIntSum warns exactly of the sums that an INTEGER cannot      *)
(* represent, and computes nothing that overflows.                         *)
THEOREM SumWarningExact ==
    ASSUME NEW a \in Integer, NEW b \in Integer
    PROVE  SumWarning(a, b) <=> a + b \notin Integer
BY WidthAssumption, SMT DEF SumWarning, Integer, IntMin

(* Range_CheckIntDiff likewise.                                            *)
THEOREM DifferenceWarningExact ==
    ASSUME NEW a \in Integer, NEW b \in Integer
    PROVE  DifferenceWarning(a, b) <=> a - b \notin Integer
BY WidthAssumption, SMT DEF DifferenceWarning, Integer, IntMin

(* OBNC_RANGE, and with it OBNC_Range, makes the set of the elements       *)
(* between the limits, up to the greatest element.                         *)
THEOREM RangeExact ==
    ASSUME NEW m \in Element, NEW n \in Element
    PROVE  RANGE(m, n) = m..n
<1>1. CASE m > n
    BY <1>1, WidthAssumption, SMT DEF RANGE, Element
<1>2. CASE m <= n
  <2>1. Shifted(1..(IntBits - 1), n) = {i \in Element : i >= n + 1}
    <3>1. ASSUME NEW i \in Element, i >= n + 1
          PROVE  i - n \in 1..(IntBits - 1) /\ i = (i - n) + n
        BY <3>1, WidthAssumption, SMT DEF Element
    <3> QED
        BY <3>1, WidthAssumption, SMT DEF Shifted, Element
  <2>2. Shifted(Element, m) = {i \in Element : i >= m}
    <3>1. ASSUME NEW i \in Element, i >= m
          PROVE  i - m \in Element /\ i = (i - m) + m
        BY <3>1, WidthAssumption, SMT DEF Element
    <3> QED
        BY <3>1, WidthAssumption, SMT DEF Shifted, Element
  <2>3. RANGE(m, n) = (Shifted(1..(IntBits - 1), n) \ Shifted(Element, m))
                          \cup (Shifted(Element, m) \ Shifted(1..(IntBits - 1), n))
      BY <1>2, WidthAssumption, SMT DEF RANGE, Element
  <2>4. ASSUME NEW i
        PROVE  i \in RANGE(m, n) <=> i \in Element /\ m <= i /\ i <= n
      BY <1>2, <2>1, <2>2, <2>3, WidthAssumption, SMT DEF Element
  <2>5. ASSUME NEW i
        PROVE  i \in RANGE(m, n) <=> i \in m..n
      BY <2>4, WidthAssumption, SMT DEF Element
  <2> QED
      BY <2>5, Zenon
<1> QED
    BY <1>1, <1>2, WidthAssumption, SMT DEF Element

(* For numbers that are not negative C's division is the report's.         *)
LEMMA DivisionOfNatural ==
    ASSUME NEW x \in Nat, NEW y \in Nat \ {0}
    PROVE  CQuotient(x, y) = x \div y /\ CRemainder(x, y) = x % y
<1>1. CQuotient(x, y) = x \div y
    BY SMT DEF CQuotient, Magnitude
<1>2. x = y * (x \div y) + (x % y) /\ x \div y \in Int /\ x % y \in Int
    BY SMT
<1> QED
    BY <1>1, <1>2, SMT DEF CRemainder

(* A product with the divisor that lies strictly between two neighbouring  *)
(* multiples of it is the lower one.                                       *)
LEMMA MultipleBetween ==
    ASSUME NEW y \in Nat \ {0}, NEW q \in Int, NEW k \in Int,
           y * q - y < y * k, y * k < y * q + y
    PROVE  k = q
<1>1. CASE k >= q + 1
  <2>1. y * k >= y * (q + 1)
      BY <1>1, SMT
  <2> QED
      BY <2>1, SMT
<1>2. CASE k <= q - 1
  <2>1. y * k <= y * (q - 1)
      BY <1>2, SMT
  <2> QED
      BY <2>1, SMT
<1> QED
    BY <1>1, <1>2, SMT

(* C's remainder of a negative number is that of its absolute value,       *)
(* negated.                                                                *)
LEMMA RemainderOfNegative ==
    ASSUME NEW x \in Int, x < 0, NEW y \in Nat \ {0}
    PROVE  /\ CRemainder(x, y) \in (-y + 1)..0
           /\ CQuotient(x, y) \in Int
           /\ x = y * CQuotient(x, y) + CRemainder(x, y)
<1>1. CQuotient(x, y) = -((-x) \div y)
    BY SMT DEF CQuotient, Magnitude
<1> DEFINE q == (-x) \div y
           r == (-x) % y
<1>2. -x = y * q + r /\ q \in Int /\ r \in 0..(y - 1)
    BY SMT
<1>3. CRemainder(x, y) = x - y * (-q)
    BY <1>1 DEF CRemainder
<1> HIDE DEF q, r
<1>4. y * (-q) = -(y * q)
    BY <1>2, SMT
<1>5. CRemainder(x, y) = -r
    BY <1>2, <1>3, <1>4, SMT
<1>6. CQuotient(x, y) = -q
    BY <1>1 DEF q
<1> QED
    BY <1>2, <1>4, <1>5, <1>6, SMT

(* The quotient of a multiple is exact.                                    *)
LEMMA QuotientOfMultiple ==
    ASSUME NEW k \in Int, k <= 0, NEW y \in Nat \ {0}
    PROVE  CQuotient(y * k, y) = k
<1> DEFINE j == -k
<1>1. j \in Nat /\ y * j \in Nat /\ y * k = -(y * j)
    BY SMT
<1>2. (y * j) \div y = j
  <2> DEFINE q == (y * j) \div y
             r == (y * j) % y
  <2>1. y * j = y * q + r /\ q \in Int /\ r \in 0..(y - 1)
      BY <1>1, SMT
  <2> HIDE DEF q, r, j
  <2>2. y * j - y < y * q /\ y * q < y * j + y
      BY <2>1, <1>1, SMT
  <2>3. q = j
      BY <2>1, <2>2, <1>1, MultipleBetween
  <2> QED
      BY <2>3 DEF q
<1>3. CASE k = 0
  <2>1. y * k = 0 /\ 0 \div y = 0
      BY <1>3, SMT
  <2> QED
      BY <2>1, <1>3, SMT DEF CQuotient, Magnitude
<1>4. CASE k < 0
  <2>1. y * k < 0
      BY <1>4, SMT
  <2>2. CQuotient(y * k, y) = -((-(y * k)) \div y)
      BY <2>1, SMT DEF CQuotient, Magnitude
  <2>3. -(y * k) = y * j
      BY <1>1, SMT
  <2> QED
      BY <2>2, <2>3, <1>2, SMT
<1> QED
    BY <1>3, <1>4, SMT

(* OBNC_DIV and OBNC_MOD, and with them OBNC_Div and OBNC_Mod, meet the    *)
(* equation of the report, unless the subtraction in OBNC_DIV overflows.   *)
THEOREM DivModExact ==
    ASSUME NEW x \in Int, NEW y \in Nat \ {0}, NEW w,
           x < 0 => Fits(x - MOD(x, y), w)
    PROVE  /\ MOD(x, y) \in 0..(y - 1)
           /\ DIV(x, y, w) \in Int
           /\ x = y * DIV(x, y, w) + MOD(x, y)
<1>1. CASE x >= 0
  <2>1. x \in Nat /\ x = y * (x \div y) + (x % y) /\ x \div y \in Int /\ x % y \in 0..(y - 1)
      BY <1>1, SMT
  <2> QED
      BY <1>1, <2>1, DivisionOfNatural DEF MOD, DIV
<1>2. CASE x < 0
  <2> DEFINE R == CRemainder(x, y)
             Q == CQuotient(x, y)
  <2>1. R \in (-y + 1)..0 /\ Q \in Int /\ x = y * Q + R
      BY <1>2, RemainderOfNegative
  <2>2. MOD(x, y) = (R + y) % y
    <3>1. R + y \in Nat
        BY <2>1, SMT
    <3>2. MOD(x, y) = CRemainder(R + y, y)
        BY <1>2, SMT DEF MOD
    <3> QED
        BY <3>1, <3>2, DivisionOfNatural
  <2>3. DIV(x, y, w) = CQuotient(x - MOD(x, y), y)
      BY <1>2, SMT DEF DIV
  <2> HIDE DEF R, Q
  <2>4. CASE R = 0
    <3>1. MOD(x, y) = 0
        BY <2>2, <2>4, SMT
    <3>2. x - MOD(x, y) = y * Q /\ Q <= 0
      <4>1. x = y * Q
          BY <2>1, <2>4, SMT
      <4>2. ~(Q > 0)
          BY <4>1, <1>2, <2>1, SMT
      <4> QED
          BY <4>1, <4>2, <3>1, <2>1, SMT
    <3>3. DIV(x, y, w) = Q
        BY <2>1, <2>3, <3>2, QuotientOfMultiple
    <3> QED
        BY <2>1, <2>4, <3>1, <3>3, SMT
  <2>5. CASE R < 0
    <3>1. MOD(x, y) = R + y
        BY <2>1, <2>2, <2>5, SMT
    <3>2. y * (Q - 1) = y * Q - y
        BY <2>1, SMT
    <3>3. x - MOD(x, y) = y * (Q - 1)
        BY <2>1, <3>1, <3>2, SMT
    <3>4. Q - 1 \in Int /\ Q - 1 <= 0
      <4>1. ~(Q - 1 > 0)
          BY <1>2, <2>1, <2>5, <3>2, SMT
      <4> QED
          BY <4>1, <2>1, SMT
    <3>5. DIV(x, y, w) = Q - 1
        BY <2>3, <3>3, <3>4, QuotientOfMultiple
    <3>6. x = y * (Q - 1) + (R + y)
        BY <2>1, <3>2, SMT
    <3>7. R + y \in 0..(y - 1)
        BY <2>1, <2>5, SMT
    <3> QED
        BY <3>1, <3>4, <3>5, <3>6, <3>7
  <2>6. R = 0 \/ R < 0
      BY <2>1, SMT
  <2> QED
      BY <2>4, <2>5, <2>6
<1> QED
    BY <1>1, <1>2, SMT

-----------------------------------------------------------------------------
(* Numbers of the C types.                                                 *)

(* A power is not 0, and greater exponents make greater powers.            *)
LEMMA PowersGrow ==
    ASSUME NEW m \in Nat, NEW n \in Nat, m <= n, n <= IntBits + CIntBits
    PROVE  2^m \in Nat \ {0} /\ 2^n \in Nat \ {0} /\ 2^m <= 2^n
<1>1. IntBits + CIntBits \in Nat
    BY WidthAssumption
<1> DEFINE N == IntBits + CIntBits
           Positive == {k \in 0..N : 2^k \in Nat /\ 2^k > 0}
           Above == {k \in 0..(N - m) : 2^(m + k) >= 2^m}
<1>2. 0..N \subseteq Positive
  <2>1. 0 \in Positive
      BY <1>1, PowerAssumption
  <2>2. ASSUME NEW k \in 0..(N - 1), k \in Positive
        PROVE  k + 1 \in Positive
      BY <1>1, <2>2, PowerAssumption
  <2> HIDE DEF Positive, N
  <2>3. N \in Nat
      BY <1>1 DEF N
  <2> QED
      BY <2>1, <2>2, <2>3, BoundedInduction
<1>3. \A k \in 0..N : 2^k \in Nat /\ 2^k > 0
    BY <1>2
<1>4. 0..(N - m) \subseteq Above
  <2>1. 0 \in Above
      BY <1>1, <1>3
  <2>2. ASSUME NEW k \in 0..(N - m - 1), k \in Above
        PROVE  k + 1 \in Above
    <3>1. m + k \in 0..N /\ m + (k + 1) = (m + k) + 1 /\ k + 1 \in 0..(N - m)
        BY <1>1
    <3>2. 2^((m + k) + 1) = 2 * 2^(m + k)
        BY <3>1, PowerAssumption
    <3>3. 2^(m + k) \in Nat /\ 2^m \in Nat /\ 2^(m + k) >= 2^m
        BY <1>1, <1>3, <2>2, <3>1
    <3>4. 2^(m + (k + 1)) >= 2^m
        BY <3>1, <3>2, <3>3
    <3> QED
        BY <3>1, <3>4
  <2>3. N - m \in Nat
      BY <1>1
  <2> HIDE DEF Above, N
  <2> QED
      BY <2>1, <2>2, <2>3, BoundedInduction
<1>5. n - m \in 0..(N - m) /\ m + (n - m) = n
    BY <1>1
<1>6. 2^(m + (n - m)) >= 2^m
    BY <1>4, <1>5
<1> QED
    BY <1>1, <1>3, <1>5, <1>6

(* The least of the bits of a type that make a sign.                       *)
HalfOf(w) == 2^(w - 1)

(* The three signed types.                                                 *)
LEMMA Halves ==
    ASSUME NEW w \in {CharBits, CIntBits, IntBits}
    PROVE  HalfOf(w) \in Nat \ {0} /\ 2^w = 2 * HalfOf(w)
<1>1. w \in Nat \ {0} /\ w - 1 \in 0..(IntBits + CIntBits) /\ (w - 1) + 1 = w
    BY WidthAssumption, CharAssumption
<1>2. 2^((w - 1) + 1) = 2 * 2^(w - 1)
    BY <1>1, PowerAssumption
<1>3. 2^(w - 1) \in Nat \ {0}
    BY <1>1, WidthAssumption, PowersGrow
<1> QED
    BY <1>1, <1>2, <1>3 DEF HalfOf

(* A number below the divisor is its own remainder.                        *)
LEMMA RemainderIs ==
    ASSUME NEW m \in Nat \ {0}, NEW q \in Int, NEW r \in 0..(m - 1)
    PROVE  (m * q + r) % m = r /\ (m * q + r) \div m = q
<1> DEFINE x == m * q + r
           k == x \div m
           s == x % m
<1>1. x \in Int /\ x = m * k + s /\ k \in Int /\ s \in 0..(m - 1)
    BY SMT
<1> HIDE DEF k, s
<1>2. m * q - m < m * k /\ m * k < m * q + m
    BY <1>1, SMT
<1> HIDE DEF x
<1>3. k = q
    BY <1>2, <1>1, MultipleBetween
<1>4. s = r
    BY <1>1, <1>3, SMT DEF x
<1> QED
    BY <1>3, <1>4 DEF k, s, x

(* Conversion to a signed type leaves its numbers alone.                   *)
LEMMA WrapWithin ==
    ASSUME NEW w \in {CharBits, CIntBits, IntBits}, NEW x \in Int,
           -HalfOf(w) <= x, x < HalfOf(w)
    PROVE  Wrap(x, w) = x
<1> DEFINE h == HalfOf(w)
<1>1. h \in Nat \ {0} /\ 2^w = 2 * h
    BY Halves
<1>2. Wrap(x, w) = ((x + h) % (2 * h)) - h
    BY <1>1 DEF Wrap, HalfOf
<1> HIDE DEF h
<1>3. x + h \in 0..(2 * h - 1)
    BY <1>1 DEF h
<1>4. (2 * h) * 0 + (x + h) = x + h
    BY <1>1
<1>5. 2 * h \in Nat \ {0} /\ 0 \in Int
    BY <1>1
<1>6. (x + h) % (2 * h) = x + h
    BY <1>3, <1>4, <1>5, RemainderIs
<1> QED
    BY <1>1, <1>2, <1>6

(* The type in which the compiler computes has every INTEGER.              *)
LEMMA IntegerFits ==
    ASSUME NEW x \in Integer
    PROVE  /\ Fits(x, Promoted(IntBits))
           /\ Wrap(x, Promoted(IntBits)) = x
           /\ Wrap(x, IntBits) = x
<1>1. IntMax + 1 = HalfOf(IntBits) /\ CIntMax + 1 = HalfOf(CIntBits)
    BY WidthAssumption DEF HalfOf
<1>2. x \in Int /\ -HalfOf(IntBits) <= x /\ x < HalfOf(IntBits)
    BY <1>1, WidthAssumption DEF Integer, IntMin
<1>3. IntBits <= CIntBits => HalfOf(IntBits) <= HalfOf(CIntBits)
    BY WidthAssumption, PowersGrow DEF HalfOf
<1>4. HalfOf(IntBits) \in Nat /\ HalfOf(CIntBits) \in Nat
    BY Halves
<1>5. CASE IntBits < CIntBits
  <2>1. Promoted(IntBits) = CIntBits
      BY <1>5 DEF Promoted
  <2>2. -HalfOf(CIntBits) <= x /\ x < HalfOf(CIntBits)
      BY <1>2, <1>3, <1>4, <1>5, WidthAssumption
  <2>3. x \in (-CIntMax - 1)..CIntMax
      BY <2>2, <1>1, <1>2, <1>4, WidthAssumption
  <2>4. Wrap(x, CIntBits) = x /\ Wrap(x, IntBits) = x
      BY <1>2, <2>2, WrapWithin
  <2> QED
      BY <1>5, <2>1, <2>3, <2>4, WidthAssumption DEF Fits
<1>6. CASE ~(IntBits < CIntBits)
  <2>1. Promoted(IntBits) = IntBits
      BY <1>6 DEF Promoted
  <2>2. Wrap(x, IntBits) = x
      BY <1>2, WrapWithin
  <2> QED
      BY <2>1, <2>2 DEF Fits
<1> QED
    BY <1>5, <1>6

(* The number of a character.                                              *)
LEMMA CharactersExact ==
    ASSUME NEW c \in 0..ByteMax
    PROVE  /\ c \in Nat
           /\ Signed(c) \in Int /\ Ordinal(Signed(c)) = c
           /\ Wrap(c, CharBits) \in Int /\ Ordinal(Wrap(c, CharBits)) = c
           /\ c % 2^CharBits = c
<1> DEFINE h == HalfOf(CharBits)
<1>1. h \in Nat \ {0} /\ 2^CharBits = 2 * h /\ h = 2^(CharBits - 1)
    BY Halves DEF HalfOf
<1> HIDE DEF h
<1>2. c \in 0..(2 * h - 1) /\ 2 * h \in Nat \ {0}
    BY <1>1 DEF ByteMax
<1>3. c % (2 * h) = c
    BY <1>2, (2 * h) * 0 + c = c, RemainderIs
<1>4. (c - 2 * h) % (2 * h) = c
    BY <1>2, (2 * h) * (-1) + c = c - 2 * h, RemainderIs
<1>5. Signed(c) \in {c, c - 2 * h}
    BY <1>1 DEF Signed
<1>6. Wrap(c, CharBits) \in {c, c - 2 * h}
  <2>1. CASE c < h
    <3>1. -HalfOf(CharBits) <= c /\ c < HalfOf(CharBits)
        BY <2>1, <1>1, <1>2 DEF h
    <3> QED
        BY <3>1, <1>2, WrapWithin
  <2>2. CASE c >= h
    <3>1. c - h \in 0..(2 * h - 1) /\ (2 * h) * 1 + (c - h) = c + h
        BY <2>2, <1>1, <1>2
    <3>2. (c + h) % (2 * h) = c - h
        BY <3>1, <1>2, RemainderIs
    <3>3. Wrap(c, CharBits) = ((c + h) % (2 * h)) - h
        BY <1>1 DEF Wrap
    <3> QED
        BY <3>2, <3>3, <1>1, <1>2
  <2> QED
      BY <2>1, <2>2, <1>1, <1>2
<1>7. Ordinal(c) = c /\ Ordinal(c - 2 * h) = c
    BY <1>1, <1>3, <1>4, Zenon DEF Ordinal
<1>8. Ordinal(Signed(c)) = c /\ Ordinal(Wrap(c, CharBits)) = c
    BY <1>5, <1>6, <1>7
<1>9. c \in Nat /\ Signed(c) \in Int /\ Wrap(c, CharBits) \in Int
    BY <1>1, <1>2, <1>5, <1>6
<1>10. c % 2^CharBits = c
    BY <1>1, <1>3
<1> QED
    BY <1>8, <1>9, <1>10

-----------------------------------------------------------------------------
(* What the operations compute.                                            *)

(* OBNC_MOD is the modulus of the report.                                  *)
LEMMA ModulusExact ==
    ASSUME NEW x \in Int, NEW y \in Nat \ {0}
    PROVE  MOD(x, y) = x % y
<1>1. CASE x >= 0
  <2>1. x \in Nat
      BY <1>1
  <2> QED
      BY <1>1, <2>1, DivisionOfNatural DEF MOD
<1>2. CASE x < 0
  <2> DEFINE R == CRemainder(x, y)
             Q == CQuotient(x, y)
  <2>1. R \in (-y + 1)..0 /\ Q \in Int /\ x = y * Q + R
      BY <1>2, RemainderOfNegative
  <2>2. MOD(x, y) = (R + y) % y
    <3>1. R + y \in Nat
        BY <2>1, SMT
    <3>2. MOD(x, y) = CRemainder(R + y, y)
        BY <1>2, SMT DEF MOD
    <3> QED
        BY <3>1, <3>2, DivisionOfNatural
  <2> HIDE DEF R, Q
  <2>3. y * (Q - 1) = y * Q - y /\ Q - 1 \in Int
      BY <2>1, SMT
  <2>4. CASE R = 0
    <3>1. R + y = y * 1 + 0 /\ x = y * Q + 0 /\ 0 \in 0..(y - 1)
        BY <2>1, <2>4, SMT
    <3>2. (R + y) % y = 0 /\ x % y = 0
        BY <3>1, <2>1, RemainderIs
    <3> QED
        BY <3>2, <2>2
  <2>5. CASE R # 0
    <3>1. R + y \in 0..(y - 1) /\ R + y = y * 0 + (R + y) /\ x = y * (Q - 1) + (R + y)
        BY <2>1, <2>3, <2>5, SMT
    <3>2. (y * 0 + (R + y)) % y = R + y
        BY <3>1, RemainderIs
    <3>3. (y * (Q - 1) + (R + y)) % y = R + y
      <4> DEFINE k == Q - 1
                 r == R + y
      <4>1. k \in Int /\ r \in 0..(y - 1)
          BY <2>3, <3>1
      <4> HIDE DEF k, r
      <4>2. (y * k + r) % y = r
          BY <4>1, RemainderIs
      <4> QED
          BY <4>2 DEF k, r
    <3> QED
        BY <3>1, <3>2, <3>3, <2>2
  <2> QED
      BY <2>4, <2>5
<1> QED
    BY <1>1, <1>2, SMT

(* OBNC_DIV is the quotient of the report, unless it overflows.            *)
LEMMA QuotientExact ==
    ASSUME NEW x \in Int, NEW y \in Nat \ {0}, NEW w, DIV(x, y, w) # Undefined
    PROVE  DIV(x, y, w) = x \div y
<1>1. x < 0 => Fits(x - MOD(x, y), w)
    BY SMT DEF DIV
<1>2. /\ MOD(x, y) \in 0..(y - 1)
      /\ DIV(x, y, w) \in Int
      /\ x = y * DIV(x, y, w) + MOD(x, y)
    BY <1>1, DivModExact
<1> QED
    BY <1>2, RemainderIs

(* Sums, differences, products, quotients and moduli: where the report     *)
(* gives an INTEGER, and OBNC_DIV does not overflow.                       *)
LEMMA IntegerOpsExact ==
    ASSUME NEW op \in IntegerOps, NEW x \in Int, NEW y \in Int, NEW w,
           op \in {"DIV", "MOD"} => y > 0,
           op = "DIV" => DIV(x, y, w) # Undefined,
           \A i \in Integer : Fits(i, w),
           IntegerExact(op, x, y) \in Integer
    PROVE  IntegerValue(op, x, y, w) = IntegerExact(op, x, y)
<1>1. CASE op = "+"
    BY <1>1 DEF IntegerValue, IntegerExact, OrUndefined
<1>2. CASE op = "-"
    BY <1>2 DEF IntegerValue, IntegerExact, OrUndefined
<1>3. CASE op = "*"
    BY <1>3 DEF IntegerValue, IntegerExact, OrUndefined
<1>4. CASE op = "DIV"
  <2>1. y \in Nat \ {0} /\ y > 0
      BY <1>4
  <2>2. DIV(x, y, w) = x \div y
      BY <1>4, <2>1, QuotientExact
  <2>3. IntegerValue(op, x, y, w) = DIV(x, y, w) /\ IntegerExact(op, x, y) = x \div y
      BY <1>4, <2>1 DEF IntegerValue, IntegerExact
  <2> QED
      BY <2>2, <2>3
<1>5. CASE op = "MOD"
  <2>1. y \in Nat \ {0} /\ y > 0
      BY <1>5
  <2>2. MOD(x, y) = x % y
      BY <2>1, ModulusExact
  <2>3. IntegerValue(op, x, y, w) = MOD(x, y) /\ IntegerExact(op, x, y) = x % y
      BY <1>5, <2>1 DEF IntegerValue, IntegerExact
  <2> QED
      BY <2>2, <2>3
<1> QED
    BY <1>1, <1>2, <1>3, <1>4, <1>5 DEF IntegerOps

(* OBNC_ROR rotates: the bits moved out at the bottom come in at the top.  *)
LEMMA RotationExact ==
    ASSUME NEW x, NEW n \in Element, n > 0
    PROVE  ShiftValue("ROR", x, n) = ShiftExact("ROR", x, n)
<1> DEFINE B == BitsOf(x)
           Down == Shifted(B, -n)
           Up == Shifted(B, IntBits - n)
           Round == {(i - n) % IntBits : i \in B}
<1>1. B \subseteq Element
    BY DEF BitsOf
<1>2. IntBits \in Nat \ {0} /\ n \in 1..(IntBits - 1)
    BY WidthAssumption DEF Element
<1> HIDE DEF B
<1>3. \A i \in B : (i - n) % IntBits = IF i >= n THEN i - n ELSE i - n + IntBits
  <2> TAKE i \in B
  <2>1. i \in 0..(IntBits - 1)
      BY <1>1 DEF Element
  <2>2. CASE i >= n
    <3>1. i - n \in 0..(IntBits - 1) /\ IntBits * 0 + (i - n) = i - n
        BY <1>2, <2>1, <2>2
    <3> QED
        BY <3>1, <2>2, <1>2, RemainderIs
  <2>3. CASE i < n
    <3>1. /\ i - n + IntBits \in 0..(IntBits - 1) /\ -1 \in Int
          /\ IntBits * (-1) + (i - n + IntBits) = i - n
        BY <1>2, <2>1, <2>3
    <3>2. (i - n) % IntBits = i - n + IntBits
        BY <3>1, <1>2, RemainderIs
    <3> QED
        BY <3>2, <2>1, <2>3, <1>2
  <2> QED
      BY <2>1, <2>2, <2>3, <1>2
<1>4. ASSUME NEW j \in Round
      PROVE  j \in Down \cup Up
  <2>1. PICK i \in B : j = (i - n) % IntBits
      BY <1>4
  <2>2. i \in 0..(IntBits - 1)
      BY <1>1, <2>1 DEF Element
  <2>3. CASE i >= n
    <3>1. j = i + (-n) /\ j \in Element
        BY <1>2, <1>3, <2>1, <2>2, <2>3 DEF Element
    <3> QED
        BY <3>1, <2>1 DEF Shifted
  <2>4. CASE i < n
    <3>1. j = i + (IntBits - n) /\ j \in Element
        BY <1>2, <1>3, <2>1, <2>2, <2>4 DEF Element
    <3> QED
        BY <3>1, <2>1 DEF Shifted
  <2> QED
      BY <2>2, <2>3, <2>4, <1>2
<1>5. ASSUME NEW j \in Down \cup Up
      PROVE  j \in Round
  <2>1. CASE j \in Down
    <3>1. PICK i \in B : j = i + (-n) /\ j \in Element
        BY <2>1 DEF Shifted
    <3>2. i \in 0..(IntBits - 1) /\ i >= n /\ j = i - n
        BY <1>1, <1>2, <3>1 DEF Element
    <3> QED
        BY <3>1, <3>2, <1>3
  <2>2. CASE j \in Up
    <3>1. PICK i \in B : j = i + (IntBits - n) /\ j \in Element
        BY <2>2 DEF Shifted
    <3>2. i \in 0..(IntBits - 1) /\ ~(i >= n) /\ j = i - n + IntBits
        BY <1>1, <1>2, <3>1 DEF Element
    <3> QED
        BY <3>1, <3>2, <1>3
  <2> QED
      BY <2>1, <2>2
<1>6. Down \cup Up = Round
    BY <1>4, <1>5, Zenon
<1> QED
    BY <1>6 DEF ShiftValue, ShiftExact, ROR, B

(* Shifts and rotations, where the report gives an INTEGER.                *)
LEMMA ShiftsExact ==
    ASSUME NEW op \in Shifts, NEW x \in Int, NEW n \in Int, ShiftDefined(op, n),
           ShiftExact(op, x, n) \in Integer
    PROVE  ShiftValue(op, x, n) = ShiftExact(op, x, n)
<1>1. CASE op = "LSL"
  <2>1. ShiftExact(op, x, n) = x * 2^n /\ ShiftValue(op, x, n) = Wrap(x * 2^n, Promoted(IntBits))
      BY <1>1 DEF ShiftExact, ShiftValue, LSL
  <2> QED
      BY <2>1, IntegerFits
<1>2. CASE op = "ASR"
    BY <1>2 DEF ShiftExact, ShiftValue, ASR
<1>3. CASE op = "ROR"
  <2>1. n \in Element /\ n > 0
      BY <1>3 DEF ShiftDefined
  <2> QED
      BY <1>3, <2>1, RotationExact
<1> QED
    BY <1>1, <1>2, <1>3 DEF Shifts

(* Operations on sets of at least as many bits as an INTEGER.              *)
LEMMA SetOpsExact ==
    ASSUME NEW op \in SetOps, NEW s \in SUBSET Element, NEW t, NEW bits,
           Element \subseteq 0..(Promoted(bits) - 1)
    PROVE  SetValue(op, s, t, bits) = SetExact(op, s, t)
<1>1. CASE op = "+"
    BY <1>1 DEF SetValue, SetExact
<1>2. CASE op = "-"
    BY <1>2 DEF SetValue, SetExact
<1>3. CASE op = "*"
    BY <1>3 DEF SetValue, SetExact
<1>4. CASE op = "/"
    BY <1>4 DEF SetValue, SetExact
<1> QED
    BY <1>1, <1>2, <1>3, <1>4 DEF SetOps

-----------------------------------------------------------------------------
(* Expressions whose value is that of the report.                          *)

(* OBNC_INTEGER is as wide as int: then it does not matter which of the    *)
(* operands are constants. (With other widths some values differ, such as  *)
(* that of -{} where a constant is an operand.)                            *)
SameWidth == IntBits = CIntBits

Widths == {CharBits, CIntBits, IntBits}

(* A value is one of its type, and a constant was not read from a BYTE.    *)
Typed(e) ==
    /\ e.type \in {"INTEGER", "BYTE", "SET", "BOOLEAN", "CHAR"}
    /\ e.bits \in Widths
    /\ e.type \in {"INTEGER", "BYTE", "CHAR"} => e.val \in Int
    /\ e.type = "SET" => e.val \in SUBSET Element
    /\ e.type = "BOOLEAN" => e.val \in BOOLEAN
    /\ e.type = "BYTE" => ~IsConst(e)

Sound(e) == Typed(e) /\ Meaning(e) = e.exact

(* The compiler itself computes with INTEGERs only.                        *)
Reliable(e) == SameWidth \/ IsConst(e)

(* The inductive invariant.                                                *)
ExpressionSound ==
    reader = "reads" /\ Proper(exp) /\ deviations = {} /\ Reliable(exp) => Sound(exp)

LEMMA SoundValue ==
    ASSUME NEW e, Sound(e)
    PROVE  /\ e.type # "CHAR" => e.val = e.exact
           /\ e.type = "CHAR" => Ordinal(e.val) = e.exact
BY UndefinedAssumption DEF Sound, Typed, Meaning

LEMMA WidthsKnown ==
    /\ \A w \in Widths : Promoted(w) \in Widths
    /\ \A v, w \in Widths : Common(v, w) \in Widths
    /\ \A type, val : LiteralBits(type, val) \in Widths /\ VariableBits(type) \in Widths
    /\ SameWidth => /\ \A w \in Widths : Promoted(w) = Promoted(IntBits)
                    /\ \A v, w \in Widths : Common(v, w) = Promoted(IntBits)
<1>1. CharBits < CIntBits /\ \A w \in Widths : w \in Nat
    BY WidthAssumption, CharAssumption DEF Widths
<1>2. \A w \in Widths : Promoted(w) \in Widths
    BY DEF Promoted, Widths
<1>3. \A v, w \in Widths : Common(v, w) \in Widths
    BY <1>2 DEF Common
<1>4. ASSUME NEW type, NEW val
      PROVE  LiteralBits(type, val) \in Widths
  <2>1. IntegerLiteralBits(val) \in Widths /\ SetLiteralBits(val) \in Widths /\ CIntBits \in Widths
      BY DEF IntegerLiteralBits, SetLiteralBits, Widths
  <2>2. CASE val = Undefined
      BY <2>1, <2>2 DEF LiteralBits
  <2>3. CASE val # Undefined
      BY <2>1, <2>3 DEF LiteralBits
  <2> QED
      BY <2>2, <2>3
<1>5. ASSUME NEW type
      PROVE  VariableBits(type) \in Widths
    BY DEF VariableBits, Widths
<1>6. ASSUME SameWidth, NEW w \in Widths
      PROVE  Promoted(w) = Promoted(IntBits)
    BY <1>1, <1>6 DEF SameWidth, Promoted, Widths
<1>7. ASSUME SameWidth, NEW v \in Widths, NEW w \in Widths
      PROVE  Common(v, w) = Promoted(IntBits)
    BY <1>6, <1>7 DEF Common
<1> QED
    BY <1>2, <1>3, <1>4, <1>5, <1>6, <1>7

(* The fields of an expression.                                            *)
LEMMA ExpFields ==
    ASSUME NEW type, NEW form, NEW val, NEW bits, NEW exact
    PROVE  LET e == Exp(type, form, val, bits, exact)
           IN  /\ e.type = type /\ e.form = form /\ e.val = val
               /\ e.bits = bits /\ e.exact = exact
BY DEF Exp

(* An expression whose value is typed and exact is sound.                  *)
LEMMA ExpSound ==
    ASSUME NEW type \in {"INTEGER", "BYTE", "SET", "BOOLEAN"}, NEW form, NEW exact,
           NEW bits \in Widths,
           type \in {"INTEGER", "BYTE"} => exact \in Int,
           type = "SET" => exact \in SUBSET Element,
           type = "BOOLEAN" => exact \in BOOLEAN,
           type = "BYTE" => form \notin {"constant", "string"}
    PROVE  Sound(Exp(type, form, exact, bits, exact))
<1> DEFINE e == Exp(type, form, exact, bits, exact)
<1>1. e.type = type /\ e.form = form /\ e.val = exact /\ e.bits = bits /\ e.exact = exact
    BY ExpFields
<1> HIDE DEF e
<1>2. Typed(e)
    BY <1>1 DEF Typed, IsConst
<1>3. Meaning(e) = e.exact
    BY <1>1 DEF Meaning
<1> QED
    BY <1>2, <1>3 DEF Sound, e

(* The same for characters.                                                *)
LEMMA CharSound ==
    ASSUME NEW form, NEW val \in Int, NEW bits \in Widths, NEW exact, Ordinal(val) = exact
    PROVE  Sound(Exp("CHAR", form, val, bits, exact))
<1> DEFINE e == Exp("CHAR", form, val, bits, exact)
<1>1. e.type = "CHAR" /\ e.form = form /\ e.val = val /\ e.bits = bits /\ e.exact = exact
    BY ExpFields
<1> HIDE DEF e
<1>2. Typed(e)
    BY <1>1 DEF Typed
<1>3. Meaning(e) = e.exact
    BY <1>1, UndefinedAssumption DEF Meaning
<1> QED
    BY <1>2, <1>3 DEF Sound, e

(* A value of the type is stored as it is.                                 *)
LEMMA ConvertedExact ==
    ASSUME NEW type, NEW x,
           \/ type = "INTEGER" /\ x \in Integer
           \/ type = "BYTE" /\ x \in 0..ByteMax
           \/ type = "SET" /\ x \in SUBSET Element
           \/ type \in {"BOOLEAN", "CHAR"}
    PROVE  Converted(type, x) = x
<1>1. CASE type = "INTEGER"
    BY <1>1, IntegerFits DEF Converted
<1>2. CASE type = "BYTE"
    BY <1>2, CharactersExact DEF Converted
<1>3. CASE type = "SET"
    BY <1>3 DEF Converted
<1>4. CASE type \in {"BOOLEAN", "CHAR"}
    BY <1>4 DEF Converted
<1> QED
    BY <1>1, <1>2, <1>3, <1>4

(* The same for the value of a constant.                                   *)
LEMMA KeptExact ==
    ASSUME NEW type, NEW x,
           \/ type = "INTEGER" /\ x \in Integer
           \/ type = "BYTE" /\ x \in 0..ByteMax
           \/ type = "SET" /\ x \in SUBSET Element
           \/ type \in {"BOOLEAN", "CHAR"}
    PROVE  Kept(type, x) = x
<1>1. Converted(type, x) = x
    BY ConvertedExact
<1> QED
    BY <1>1 DEF Kept

(* Constants and variables are sound to begin with.                        *)
LEMMA OperandSound ==
    ASSUME NEW o \in Operand
    PROVE  /\ Sound(o)
           /\ o.type = "INTEGER" => o.exact \in Integer
           /\ o.type = "BYTE" => o.exact \in 0..ByteMax
<1>1. Integer \subseteq Int /\ CIntBits \in Widths
    BY WidthAssumption DEF Integer, IntMin, Widths
<1>2. ASSUME NEW i \in Integer, o \in {ConstantOf("INTEGER", i, i), VariableOf("INTEGER", i, i)}
      PROVE  Sound(o) /\ o.type = "INTEGER" /\ o.exact \in Integer
  <2>1. Kept("INTEGER", i) = i
      BY KeptExact
  <2> QED
      BY <1>1, <1>2, <2>1, WidthsKnown, ExpSound, ExpFields DEF ConstantOf, VariableOf
<1>3. ASSUME NEW i \in 0..ByteMax, o = VariableOf("BYTE", i, i)
      PROVE  Sound(o) /\ o.type = "BYTE" /\ o.exact \in 0..ByteMax
  <2>1. i \in Int
      BY CharactersExact
  <2> QED
      BY <2>1, <1>3, WidthsKnown, ExpSound, ExpFields DEF VariableOf
<1>4. ASSUME NEW s \in SUBSET Element, o \in {ConstantOf("SET", s, s), VariableOf("SET", s, s)}
      PROVE  Sound(o) /\ o.type = "SET"
  <2>1. Kept("SET", s) = s
      BY KeptExact
  <2> QED
      BY <1>4, <2>1, WidthsKnown, ExpSound, ExpFields DEF ConstantOf, VariableOf
<1>5. ASSUME NEW x \in BOOLEAN, o \in {ConstantOf("BOOLEAN", x, x), VariableOf("BOOLEAN", x, x)}
      PROVE  Sound(o) /\ o.type = "BOOLEAN"
  <2>1. Kept("BOOLEAN", x) = x
      BY KeptExact
  <2> QED
      BY <1>5, <2>1, WidthsKnown, ExpSound, ExpFields DEF ConstantOf, VariableOf
<1>6. ASSUME NEW c \in Char,
             o \in {Exp("CHAR", "string", Signed(c), CIntBits, c), VariableOf("CHAR", Signed(c), c)}
      PROVE  Sound(o) /\ o.type = "CHAR"
  <2>1. Signed(c) \in Int /\ Ordinal(Signed(c)) = c
      BY CharactersExact DEF Char
  <2> QED
      BY <1>1, <1>6, <2>1, WidthsKnown, CharSound, ExpFields DEF VariableOf
<1>7. \/ \E i \in Integer : o \in {ConstantOf("INTEGER", i, i), VariableOf("INTEGER", i, i)}
      \/ \E i \in 0..ByteMax : o = VariableOf("BYTE", i, i)
      \/ \E s \in SUBSET Element : o \in {ConstantOf("SET", s, s), VariableOf("SET", s, s)}
      \/ \E x \in BOOLEAN : o \in {ConstantOf("BOOLEAN", x, x), VariableOf("BOOLEAN", x, x)}
      \/ \E c \in Char :
            o \in {Exp("CHAR", "string", Signed(c), CIntBits, c), VariableOf("CHAR", Signed(c), c)}
  <2>1. {} \in SUBSET Element
      OBVIOUS
  <2> HIDE DEF Integer
  <2> QED
      BY <2>1 DEF Operand
<1>8. Sound(o) /\ (o.type = "INTEGER" => o.exact \in Integer)
               /\ (o.type = "BYTE" => o.exact \in 0..ByteMax)
  <2>1. CASE \E i \in Integer : o \in {ConstantOf("INTEGER", i, i), VariableOf("INTEGER", i, i)}
      BY <2>1, <1>2
  <2>2. CASE \E i \in 0..ByteMax : o = VariableOf("BYTE", i, i)
      BY <2>2, <1>3
  <2>3. CASE \E s \in SUBSET Element : o \in {ConstantOf("SET", s, s), VariableOf("SET", s, s)}
      BY <2>3, <1>4
  <2>4. CASE \E x \in BOOLEAN : o \in {ConstantOf("BOOLEAN", x, x), VariableOf("BOOLEAN", x, x)}
      BY <2>4, <1>5
  <2>5. CASE \E c \in Char : o \in {Exp("CHAR", "string", Signed(c), CIntBits, c),
                                    VariableOf("CHAR", Signed(c), c)}
      BY <2>5, <1>6
  <2> QED
      BY <1>7, <2>1, <2>2, <2>3, <2>4, <2>5, Zenon
<1> QED
    BY <1>8

(* An operation of sound operands is sound, where C and the compiler give  *)
(* the values that its result needs.                                       *)
LEMMA BothSound ==
    ASSUME NEW type \in {"INTEGER", "SET", "BOOLEAN"}, NEW a, NEW b, NEW exact,
           a.bits \in Widths, b.bits \in Widths,
           type = "INTEGER" => exact \in Integer,
           type = "SET" => exact \in SUBSET Element,
           type = "BOOLEAN" => exact \in BOOLEAN
    PROVE  /\ Sound(Both(type, a, b, exact, exact))
           /\ \A w \in Widths : Sound([Both(type, a, b, exact, exact) EXCEPT !.bits = w])
<1>1. CIntBits \in Widths /\ Common(a.bits, b.bits) \in Widths
    BY WidthsKnown DEF Widths
<1>2. PICK form, bits :
         bits \in Widths /\ Both(type, a, b, exact, exact) = Exp(type, form, exact, bits, exact)
  <2>1. CASE IsConst(a) /\ IsConst(b)
    <3>1. Both(type, a, b, exact, exact)
             = Exp(type, "constant", exact, LiteralBits(type, exact), exact)
      <4>1. Kept(type, exact) = exact
          BY KeptExact
      <4> QED
          BY <2>1, <4>1 DEF Both, ConstantOf
    <3>2. LiteralBits(type, exact) \in Widths
        BY WidthsKnown
    <3> QED
        BY <3>1, <3>2, Zenon
  <2>2. CASE ~(IsConst(a) /\ IsConst(b))
    <3> DEFINE bits == IF type = "SET" \/ type = "INTEGER" THEN Common(a.bits, b.bits) ELSE CIntBits
    <3>1. Both(type, a, b, exact, exact) = Exp(type, "expression", exact, bits, exact)
        BY <2>2 DEF Both
    <3>2. bits \in Widths
        BY <1>1
    <3> HIDE DEF bits
    <3> QED
        BY <3>1, <3>2, Zenon
  <2> QED
      BY <2>1, <2>2
<1>3. ASSUME NEW w \in Widths
      PROVE  [Both(type, a, b, exact, exact) EXCEPT !.bits = w] = Exp(type, form, exact, w, exact)
    BY <1>2 DEF Exp
<1>4. \A w \in Widths : Sound(Exp(type, form, exact, w, exact))
  <2>1. Integer \subseteq Int
      BY WidthAssumption DEF Integer, IntMin
  <2> QED
      BY <2>1, ExpSound
<1> QED
    BY <1>2, <1>3, <1>4

(* What the report says of the result is what it says of the operation.    *)
LEMMA BothFields ==
    ASSUME NEW type, NEW a, NEW b, NEW val, NEW exact, NEW w
    PROVE  /\ Both(type, a, b, val, exact).type = type
           /\ Both(type, a, b, val, exact).exact = exact
           /\ [Both(type, a, b, val, exact) EXCEPT !.bits = w].type = type
           /\ [Both(type, a, b, val, exact) EXCEPT !.bits = w].exact = exact
BY DEF Both, ConstantOf, Exp

(* The result is a constant just if both operands are.                     *)
FormOf(a, b) == IF IsConst(a) /\ IsConst(b) THEN "constant" ELSE "expression"

LEMMA BothForm ==
    ASSUME NEW type, NEW a, NEW b, NEW val, NEW exact, NEW w
    PROVE  /\ Both(type, a, b, val, exact).form = FormOf(a, b)
           /\ [Both(type, a, b, val, exact) EXCEPT !.bits = w].form = FormOf(a, b)
BY DEF Both, ConstantOf, Exp, FormOf

BinaryOps ==
    IntegerOps \cup SetOps \cup Relations \cup Shifts \cup {"range", "IN", "&", "OR"}

(* The operands of the operation are sound, and none of the exceptions     *)
(* occurs.                                                                 *)
Regular(op, a, b) ==
    /\ Sound(a) /\ Sound(b)
    /\ Accepts(op, a, b) /\ Defined(op, a, b) /\ ~Deviates(op, a, b)
    /\ SameWidth \/ (IsConst(a) /\ IsConst(b))

LEMMA WidthRegular ==
    ASSUME NEW op, NEW a, NEW b, Regular(op, a, b)
    PROVE  /\ a.bits \in Widths /\ b.bits \in Widths
           /\ Width(a, b) = Promoted(IntBits)
           /\ ~(IsConst(a) /\ IsConst(b)) => Promoted(b.bits) = Promoted(IntBits)
BY WidthsKnown DEF Regular, Sound, Typed, Width

LEMMA IntegerNodeSound ==
    ASSUME NEW op \in IntegerOps, NEW a, NEW b, Regular(op, a, b), IsInteger(a), IsInteger(b),
           Proper(Node(op, a, b))
    PROVE  Sound(Node(op, a, b))
<1> DEFINE val == IntegerValue(op, a.val, b.val, Width(a, b))
           exact == IntegerExact(op, a.exact, b.exact)
<1>1. Node(op, a, b) = Both("INTEGER", a, b, val, exact)
    BY DEF Node, Regular, IntegerOps, Shifts, SetOps, Relations, IsInteger, IntegerTypes
<1>2. exact \in Integer
    BY <1>1, BothFields DEF Proper
<1>3. a.val = a.exact /\ b.val = b.exact /\ a.val \in Int /\ b.val \in Int
    BY SoundValue DEF Regular, Sound, Typed, IsInteger, IntegerTypes
<1>4. val = exact
  <2>1. op \in {"DIV", "MOD"} => b.val > 0
      BY DEF Regular, Defined
  <2>2. op = "DIV" => DIV(a.val, b.val, Width(a, b)) # Undefined
      BY DEF Regular, Deviates
  <2>3. \A i \in Integer : Fits(i, Width(a, b))
      BY WidthRegular, IntegerFits
  <2> QED
      BY <1>2, <1>3, <2>1, <2>2, <2>3, IntegerOpsExact
<1> QED
    BY <1>1, <1>2, <1>4, WidthRegular, BothSound

LEMMA ShiftNodeSound ==
    ASSUME NEW op \in Shifts, NEW a, NEW b, Regular(op, a, b), IsInteger(a), IsInteger(b),
           Proper(Node(op, a, b))
    PROVE  Sound(Node(op, a, b))
<1> DEFINE val == ShiftValue(op, a.val, b.val)
           exact == ShiftExact(op, a.exact, b.exact)
<1>1. Node(op, a, b) = [Both("INTEGER", a, b, val, exact) EXCEPT !.bits = Promoted(IntBits)]
    BY DEF Node, Regular, IntegerOps, Shifts, SetOps, Relations, IsInteger, IntegerTypes
<1>2. exact \in Integer
    BY <1>1, BothFields DEF Proper
<1>3. a.val = a.exact /\ b.val = b.exact /\ a.val \in Int /\ b.val \in Int
    BY SoundValue DEF Regular, Sound, Typed, IsInteger, IntegerTypes
<1>4. ShiftDefined(op, b.val)
    BY DEF Regular, Defined
<1>5. val = exact
    BY <1>2, <1>3, <1>4, ShiftsExact
<1>6. Promoted(IntBits) \in Widths
    BY WidthsKnown DEF Widths
<1> QED
    BY <1>1, <1>2, <1>5, <1>6, WidthRegular, BothSound

LEMMA SetNodeSound ==
    ASSUME NEW op \in SetOps, NEW a, NEW b, Regular(op, a, b), a.type = "SET", b.type = "SET"
    PROVE  Sound(Node(op, a, b))
<1> DEFINE bits == IF IsConst(a) /\ IsConst(b) THEN IntBits ELSE b.bits
           val == SetValue(op, a.val, b.val, bits)
           exact == SetExact(op, a.exact, b.exact)
<1>1. Node(op, a, b) = Both("SET", a, b, val, exact)
    BY DEF Node, Regular, IntegerOps, Shifts, SetOps, Relations, IsInteger, IntegerTypes
<1>2. a.val = a.exact /\ b.val = b.exact /\ a.val \in SUBSET Element /\ b.val \in SUBSET Element
    BY SoundValue DEF Regular, Sound, Typed
<1>3. Element \subseteq 0..(Promoted(bits) - 1)
  <2>1. Promoted(bits) = Promoted(IntBits)
      BY WidthRegular
  <2>2. Promoted(IntBits) \in Nat /\ IntBits <= Promoted(IntBits) /\ IntBits \in Nat
      BY WidthAssumption DEF Promoted
  <2> QED
      BY <2>1, <2>2 DEF Element
<1>4. val = exact
    BY <1>2, <1>3, SetOpsExact
<1>5. exact \in SUBSET Element
    BY <1>2 DEF SetExact, SetOps
<1> QED
    BY <1>1, <1>4, <1>5, WidthRegular, BothSound

LEMMA RangeNodeSound ==
    ASSUME NEW a, NEW b, Regular("range", a, b), IsInteger(a), IsInteger(b)
    PROVE  Sound(Node("range", a, b))
<1>1. Node("range", a, b)
         = [Both("SET", a, b, RANGE(a.val, b.val), a.exact..b.exact) EXCEPT !.bits = IntBits]
    BY DEF Node, Regular, IntegerOps, Shifts, SetOps, Relations, IsInteger, IntegerTypes
<1>2. a.val = a.exact /\ b.val = b.exact
    BY SoundValue DEF Regular, Sound, Typed, IsInteger, IntegerTypes
<1>3. a.val \in Element /\ b.val \in Element
    BY DEF Regular, Defined
<1>4. RANGE(a.val, b.val) = a.exact..b.exact
    BY <1>2, <1>3, RangeExact
<1>5. a.exact..b.exact \in SUBSET Element
    BY <1>2, <1>3, WidthAssumption DEF Element
<1>6. IntBits \in Widths
    BY DEF Widths
<1>7. Sound([Both("SET", a, b, a.exact..b.exact, a.exact..b.exact) EXCEPT !.bits = IntBits])
    BY <1>5, <1>6, WidthRegular, BothSound
<1> QED
    BY <1>1, <1>4, <1>7

(* Comparisons and the operations on truth values.                         *)
LEMMA HoldsBoolean ==
    ASSUME NEW op \in Relations, NEW x, NEW y
    PROVE  Holds(op, x, y) \in BOOLEAN
<1>1. CASE op = "="
    BY <1>1, Zenon DEF Holds
<1>2. CASE op = "#"
    BY <1>2 DEF Holds
<1>3. CASE op = "<"
    BY <1>3 DEF Holds
<1>4. CASE op = "<="
    BY <1>4 DEF Holds
<1>5. CASE op = ">"
    BY <1>5 DEF Holds
<1>6. CASE op = ">="
    BY <1>6 DEF Holds
<1> QED
    BY <1>1, <1>2, <1>3, <1>4, <1>5, <1>6 DEF Relations

LEMMA MembershipNodeSound ==
    ASSUME NEW a, NEW b, Regular("IN", a, b), IsInteger(a), b.type = "SET"
    PROVE  Sound(Node("IN", a, b))
<1>1. Node("IN", a, b) = Both("BOOLEAN", a, b, a.val \in b.val, a.exact \in b.exact)
    BY DEF Node, Regular, IntegerOps, Shifts, SetOps, Relations
<1>2. a.val = a.exact /\ b.val = b.exact
    BY SoundValue DEF Regular, Sound, Typed, IsInteger, IntegerTypes
<1>3. (a.exact \in b.exact) \in BOOLEAN
    OBVIOUS
<1>4. Sound(Both("BOOLEAN", a, b, a.exact \in b.exact, a.exact \in b.exact))
    BY <1>3, WidthRegular, BothSound
<1> QED
    BY <1>1, <1>2, <1>4

LEMMA RelationNodeSound ==
    ASSUME NEW op \in Relations, NEW a, NEW b, Regular(op, a, b), a.type # "CHAR", b.type # "CHAR"
    PROVE  Sound(Node(op, a, b))
<1>1. Node(op, a, b) = Both("BOOLEAN", a, b, Holds(op, a.val, b.val), Holds(op, a.exact, b.exact))
    BY DEF Node, Regular, IntegerOps, Shifts, SetOps, Relations
<1>2. a.val = a.exact /\ b.val = b.exact
    BY SoundValue DEF Regular
<1>3. Holds(op, a.exact, b.exact) \in BOOLEAN
    BY HoldsBoolean
<1>4. Sound(Both("BOOLEAN", a, b, Holds(op, a.exact, b.exact), Holds(op, a.exact, b.exact)))
    BY <1>3, WidthRegular, BothSound
<1> QED
    BY <1>1, <1>2, <1>4

LEMMA CharRelationNodeSound ==
    ASSUME NEW op \in Relations, NEW a, NEW b, Regular(op, a, b), a.type = "CHAR", b.type = "CHAR"
    PROVE  Sound(Node(op, a, b))
<1>1. Node(op, a, b) = Both("BOOLEAN", a, b, CharsHold(op, a, b), Holds(op, a.exact, b.exact))
    BY DEF Node, Regular, IntegerOps, Shifts, SetOps, Relations, IsInteger, IntegerTypes
<1>2. CharsHold(op, a, b) = Holds(op, a.exact, b.exact)
    BY DEF Regular, Deviates
<1>3. Holds(op, a.exact, b.exact) \in BOOLEAN
    BY HoldsBoolean
<1>4. Sound(Both("BOOLEAN", a, b, Holds(op, a.exact, b.exact), Holds(op, a.exact, b.exact)))
    BY <1>3, WidthRegular, BothSound
<1> QED
    BY <1>1, <1>2, <1>4

LEMMA TruthNodeSound ==
    ASSUME NEW op \in {"&", "OR"}, NEW a, NEW b, Regular(op, a, b),
           a.type = "BOOLEAN", b.type = "BOOLEAN"
    PROVE  Sound(Node(op, a, b))
<1>1. a.val = a.exact /\ b.val = b.exact
    BY SoundValue DEF Regular
<1>2. CASE op = "&"
  <2>1. Node(op, a, b) = Both("BOOLEAN", a, b, a.val /\ b.val, a.exact /\ b.exact)
      BY <1>2 DEF Node, Regular, IntegerOps, Shifts, SetOps, Relations
  <2>2. (a.exact /\ b.exact) \in BOOLEAN
      OBVIOUS
  <2>3. Sound(Both("BOOLEAN", a, b, a.exact /\ b.exact, a.exact /\ b.exact))
      BY <2>2, WidthRegular, BothSound
  <2> QED
      BY <1>1, <2>1, <2>3
<1>3. CASE op = "OR"
  <2>1. Node(op, a, b) = Both("BOOLEAN", a, b, a.val \/ b.val, a.exact \/ b.exact)
      BY <1>3 DEF Node, Regular, IntegerOps, Shifts, SetOps, Relations
  <2>2. (a.exact \/ b.exact) \in BOOLEAN
      OBVIOUS
  <2>3. Sound(Both("BOOLEAN", a, b, a.exact \/ b.exact, a.exact \/ b.exact))
      BY <2>2, WidthRegular, BothSound
  <2> QED
      BY <1>1, <2>1, <2>3
<1> QED
    BY <1>2, <1>3

(* Every operation with two operands.                                      *)
LEMMA NodeSound ==
    ASSUME NEW op \in BinaryOps, NEW a, NEW b, Regular(op, a, b), Proper(Node(op, a, b))
    PROVE  Sound(Node(op, a, b))
<1>1. a.type \in {"INTEGER", "BYTE", "SET", "BOOLEAN", "CHAR"}
      /\ b.type \in {"INTEGER", "BYTE", "SET", "BOOLEAN", "CHAR"}
    BY DEF Regular, Sound, Typed
<1>2. \/ IsInteger(a) /\ IsInteger(b) /\ op \in IntegerOps \cup Shifts \cup {"range"}
      \/ a.type = "SET" /\ b.type = "SET" /\ op \in SetOps
      \/ IsInteger(a) /\ b.type = "SET" /\ op = "IN"
      \/ a.type = "CHAR" /\ b.type = "CHAR" /\ op \in Relations
      \/ a.type # "CHAR" /\ b.type # "CHAR" /\ op \in Relations
      \/ a.type = "BOOLEAN" /\ b.type = "BOOLEAN" /\ op \in {"&", "OR"}
  <2>1. Accepts(op, a, b)
      BY DEF Regular
  <2> QED
      BY <1>1, <2>1 DEF Accepts, ExpressionCompatible, IsInteger, IntegerTypes, Relations
<1> QED
    BY <1>2, IntegerNodeSound, ShiftNodeSound, RangeNodeSound, SetNodeSound, MembershipNodeSound,
       CharRelationNodeSound, RelationNodeSound, TruthNodeSound

(* The result is a constant just if the operands are.                      *)
LEMMA NodeForm ==
    ASSUME NEW op \in BinaryOps, NEW a, NEW b, Accepts(op, a, b), Defined(op, a, b)
    PROVE  Node(op, a, b).form = FormOf(a, b)
<1>1. CASE op \in IntegerOps /\ IsInteger(a)
  <2>1. Node(op, a, b)
           = Both("INTEGER", a, b, IntegerValue(op, a.val, b.val, Width(a, b)),
                  IntegerExact(op, a.exact, b.exact))
      BY <1>1 DEF Node, IntegerOps, Shifts, SetOps, Relations, IsInteger, IntegerTypes
  <2> QED
      BY <2>1, BothForm
<1>2. CASE op \in Shifts
  <2>1. Node(op, a, b)
           = [Both("INTEGER", a, b, ShiftValue(op, a.val, b.val), ShiftExact(op, a.exact, b.exact))
                 EXCEPT !.bits = Promoted(IntBits)]
      BY <1>2 DEF Node, IntegerOps, Shifts, SetOps, Relations
  <2> QED
      BY <2>1, BothForm
<1>3. CASE op \in SetOps /\ a.type = "SET"
  <2>1. Node(op, a, b)
           = Both("SET", a, b,
                  SetValue(op, a.val, b.val, IF IsConst(a) /\ IsConst(b) THEN IntBits ELSE b.bits),
                  SetExact(op, a.exact, b.exact))
      BY <1>3 DEF Node, IntegerOps, Shifts, SetOps, Relations, IsInteger, IntegerTypes
  <2> QED
      BY <2>1, BothForm
<1>4. CASE op = "range"
  <2>1. Node(op, a, b)
           = [Both("SET", a, b, RANGE(a.val, b.val), a.exact..b.exact) EXCEPT !.bits = IntBits]
      BY <1>4 DEF Node, IntegerOps, Shifts, SetOps, Relations
  <2> QED
      BY <2>1, BothForm
<1>5. CASE op = "IN"
  <2>1. Node(op, a, b) = Both("BOOLEAN", a, b, a.val \in b.val, a.exact \in b.exact)
      BY <1>5 DEF Node, IntegerOps, Shifts, SetOps, Relations
  <2> QED
      BY <2>1, BothForm
<1>6. CASE op \in Relations /\ a.type = "CHAR"
  <2>1. Node(op, a, b) = Both("BOOLEAN", a, b, CharsHold(op, a, b), Holds(op, a.exact, b.exact))
      BY <1>6 DEF Node, IntegerOps, Shifts, SetOps, Relations
  <2> QED
      BY <2>1, BothForm
<1>7. CASE op \in Relations /\ a.type # "CHAR"
  <2>1. Node(op, a, b)
           = Both("BOOLEAN", a, b, Holds(op, a.val, b.val), Holds(op, a.exact, b.exact))
      BY <1>7 DEF Node, IntegerOps, Shifts, SetOps, Relations
  <2> QED
      BY <2>1, BothForm
<1>8. CASE op = "&"
  <2>1. Node(op, a, b) = Both("BOOLEAN", a, b, a.val /\ b.val, a.exact /\ b.exact)
      BY <1>8 DEF Node, IntegerOps, Shifts, SetOps, Relations
  <2> QED
      BY <2>1, BothForm
<1>9. CASE op = "OR"
  <2>1. Node(op, a, b) = Both("BOOLEAN", a, b, a.val \/ b.val, a.exact \/ b.exact)
      BY <1>9 DEF Node, IntegerOps, Shifts, SetOps, Relations
  <2> QED
      BY <2>1, BothForm
<1>10. \/ op \in IntegerOps /\ IsInteger(a)
       \/ op \in SetOps /\ a.type = "SET"
       \/ op \in Relations \cup Shifts \cup {"range", "IN", "&", "OR"}
    BY DEF Accepts, ExpressionCompatible, BinaryOps, IsInteger, IntegerTypes, IntegerOps, SetOps,
           Relations, Shifts
<1> QED
    BY <1>1, <1>2, <1>3, <1>4, <1>5, <1>6, <1>7, <1>8, <1>9, <1>10

-----------------------------------------------------------------------------
(* Functions of one operand.                                               *)

RegularOperand(op, a) ==
    /\ op \in UnaryOps /\ UnaryAccepts(op, a)
    /\ Sound(a) /\ Proper(a)
    /\ SameWidth \/ UnaryFolds(op, a)

(* The value computed is the report's, and typed.                          *)
UnaryExactly(op, a) ==
    /\ UnaryValue(op, a) = UnaryExact(op, a)
    /\ UnaryType(op, a) \in {"INTEGER", "BYTE"} => UnaryExact(op, a) \in Int
    /\ UnaryType(op, a) = "SET" => UnaryExact(op, a) \in SUBSET Element
    /\ UnaryType(op, a) = "BOOLEAN" => UnaryExact(op, a) \in BOOLEAN

(* The result of an operation, as the compiler or C gives it.              *)
LEMMA UnaryFields ==
    ASSUME NEW op, NEW a
    PROVE  /\ UnaryNode(op, a).type = UnaryType(op, a)
           /\ UnaryNode(op, a).exact = UnaryExact(op, a)
           /\ (UnaryNode(op, a).form = "constant") <=> UnaryFolds(op, a)
           /\ IsConst(UnaryNode(op, a)) <=> UnaryFolds(op, a)
BY DEF UnaryNode, ConstantOf, Exp, IsConst

LEMMA UnaryNodeForm ==
    ASSUME NEW op, NEW a, RegularOperand(op, a)
    PROVE  \E form, val, bits :
              /\ UnaryNode(op, a) = Exp(UnaryType(op, a), form, val, bits, UnaryExact(op, a))
              /\ val \in {UnaryValue(op, a), Kept(UnaryType(op, a), UnaryValue(op, a))}
              /\ bits \in Widths
              /\ UnaryType(op, a) = "BYTE" => form \notin {"constant", "string"}
<1>1. CASE UnaryFolds(op, a)
  <2> DEFINE val == Kept(UnaryType(op, a), UnaryValue(op, a))
             bits == LiteralBits(UnaryType(op, a), val)
  <2>1. UnaryNode(op, a) = Exp(UnaryType(op, a), "constant", val, bits, UnaryExact(op, a))
      BY <1>1 DEF UnaryNode, ConstantOf
  <2>2. bits \in Widths
      BY WidthsKnown
  <2>3. UnaryType(op, a) # "BYTE"
    <3>1. a.type # "BYTE"
        BY <1>1 DEF UnaryFolds, RegularOperand, Sound, Typed
    <3> QED
        BY <3>1 DEF UnaryType, RegularOperand, UnaryOps
  <2> HIDE DEF bits
  <2> QED
      BY <2>1, <2>2, <2>3, Zenon
<1>2. CASE ~UnaryFolds(op, a)
  <2> DEFINE bits == CASE op \in {"ABS", "ORD"} -> Promoted(IntBits)
                       [] op = "CHR" -> CharBits
                       [] op = "minus" -> Promoted(a.bits)
                       [] OTHER -> CIntBits
  <2>1. UnaryNode(op, a)
           = Exp(UnaryType(op, a), "expression", UnaryValue(op, a), bits, UnaryExact(op, a))
      BY <1>2 DEF UnaryNode
  <2>2. bits \in Widths
    <3>1. /\ Promoted(IntBits) \in Widths /\ CharBits \in Widths /\ CIntBits \in Widths
          /\ Promoted(a.bits) \in Widths
        BY WidthsKnown DEF RegularOperand, Sound, Typed, Widths
    <3> QED
        BY <3>1
  <2> HIDE DEF bits
  <2>3. "expression" \notin {"constant", "string"}
      OBVIOUS
  <2> QED
      BY <2>1, <2>2, <2>3, Zenon
<1> QED
    BY <1>1, <1>2, Zenon

LEMMA MinusExact ==
    ASSUME NEW a, RegularOperand("minus", a), Proper(UnaryNode("minus", a))
    PROVE  UnaryExactly("minus", a)
<1> DEFINE w == IF IsConst(a) THEN Promoted(IntBits) ELSE Promoted(a.bits)
<1>1. a.type \in {"INTEGER", "BYTE", "SET"}
    BY DEF RegularOperand, UnaryAccepts, ExpressionCompatible, IntegerTypes, Relations, IntegerOps
<1>2. a.val = a.exact
    BY <1>1, SoundValue DEF RegularOperand
<1>3. w = Promoted(IntBits) /\ (~IsConst(a) => SameWidth)
    BY WidthsKnown DEF RegularOperand, UnaryFolds, Sound, Typed
<1>4. CASE a.type = "SET"
  <2>1. UnaryType("minus", a) = "SET" /\ UnaryExact("minus", a) = Element \ a.exact
      BY <1>4 DEF UnaryType, UnaryExact, IsInteger, IntegerTypes
  <2>2. UnaryValue("minus", a) = IF IsConst(a) THEN Element \ a.val ELSE (0..(w - 1)) \ a.val
      BY <1>4 DEF UnaryValue, IsInteger, IntegerTypes
  <2>3. ~IsConst(a) => Element = 0..(w - 1)
      BY <1>3 DEF SameWidth, Element, Promoted
  <2> HIDE DEF w
  <2>4. UnaryValue("minus", a) = Element \ a.exact
      BY <1>2, <2>2, <2>3
  <2> QED
      BY <2>1, <2>4 DEF UnaryExactly
<1>5. CASE a.type # "SET"
  <2>1. UnaryType("minus", a) = "INTEGER" /\ UnaryExact("minus", a) = -a.exact
      BY <1>1, <1>5 DEF UnaryType, UnaryExact, IsInteger, IntegerTypes
  <2>2. UnaryValue("minus", a) = OrUndefined(-a.val, w)
      BY <1>1, <1>5 DEF UnaryValue, IsInteger, IntegerTypes
  <2>3. -a.exact \in Integer
      BY <2>1, UnaryFields DEF Proper
  <2>4. Fits(-a.exact, w)
      BY <1>3, <2>3, IntegerFits
  <2> HIDE DEF w
  <2>5. UnaryValue("minus", a) = -a.exact
      BY <1>2, <2>2, <2>4 DEF OrUndefined
  <2>6. -a.exact \in Int
      BY <2>3, WidthAssumption DEF Integer, IntMin
  <2> QED
      BY <2>1, <2>5, <2>6 DEF UnaryExactly
<1> QED
    BY <1>4, <1>5

LEMMA AbsExact ==
    ASSUME NEW a, RegularOperand("ABS", a), Proper(UnaryNode("ABS", a))
    PROVE  UnaryExactly("ABS", a)
<1>1. a.type \in {"INTEGER", "BYTE"}
    BY DEF RegularOperand, UnaryAccepts, IsInteger, IntegerTypes
<1>2. a.val = a.exact /\ a.val \in Int
    BY <1>1, SoundValue DEF RegularOperand, Sound, Typed
<1>3. UnaryType("ABS", a) = a.type /\ UnaryExact("ABS", a) = Magnitude(a.exact)
    BY DEF UnaryType, UnaryExact
<1>4. UnaryValue("ABS", a) = IF a.val >= 0 THEN a.val ELSE OrUndefined(-a.val, Promoted(IntBits))
    BY DEF UnaryValue
<1>5. a.type = "INTEGER" => Magnitude(a.exact) \in Integer
    BY <1>3, UnaryFields DEF Proper
<1>6. a.type = "BYTE" => a.exact >= 0
    BY CharactersExact DEF RegularOperand, Proper
<1>7. CASE a.exact >= 0
  <2>1. Magnitude(a.exact) = a.exact /\ UnaryValue("ABS", a) = a.exact
      BY <1>2, <1>4, <1>7 DEF Magnitude
  <2> QED
      BY <1>1, <1>2, <1>3, <2>1 DEF UnaryExactly
<1>8. CASE ~(a.exact >= 0)
  <2>1. Magnitude(a.exact) = -a.exact
      BY <1>8 DEF Magnitude
  <2>2. -a.exact \in Integer
      BY <1>1, <1>5, <1>6, <1>8, <2>1
  <2>3. UnaryValue("ABS", a) = -a.exact
      BY <1>2, <1>4, <1>8, <2>2, IntegerFits DEF OrUndefined
  <2>4. -a.exact \in Int
      BY <1>2
  <2> QED
      BY <1>1, <1>3, <2>1, <2>3, <2>4 DEF UnaryExactly
<1> QED
    BY <1>7, <1>8

LEMMA OrdExact ==
    ASSUME NEW a, RegularOperand("ORD", a), Proper(UnaryNode("ORD", a))
    PROVE  UnaryExactly("ORD", a)
<1>1. a.type \in {"CHAR", "BOOLEAN", "SET"}
    BY DEF RegularOperand, UnaryAccepts
<1>2. UnaryType("ORD", a) = "INTEGER"
    BY DEF UnaryType
<1>3. UnaryExact("ORD", a) \in Integer
    BY <1>2, UnaryFields DEF Proper
<1>4. UnaryExact("ORD", a) \in Int
    BY <1>3, WidthAssumption DEF Integer, IntMin
<1>5. /\ a.type # "CHAR" => a.val = a.exact
      /\ a.type = "CHAR" => Ordinal(a.val) = a.exact
    BY SoundValue DEF RegularOperand
<1>6. UnaryValue("ORD", a) = UnaryExact("ORD", a)
  <2>1. CASE a.type = "CHAR"
      BY <1>5, <2>1 DEF UnaryValue, UnaryExact
  <2>2. CASE a.type = "BOOLEAN"
      BY <1>5, <2>2 DEF UnaryValue, UnaryExact
  <2>3. CASE a.type = "SET"
      BY <1>5, <2>3 DEF UnaryValue, UnaryExact
  <2> QED
      BY <1>1, <2>1, <2>2, <2>3
<1> QED
    BY <1>2, <1>4, <1>6 DEF UnaryExactly

LEMMA TruthExact ==
    ASSUME NEW op \in {"~", "ODD"}, NEW a, RegularOperand(op, a)
    PROVE  UnaryExactly(op, a)
<1>1. a.type \in {"INTEGER", "BYTE", "BOOLEAN"}
    BY DEF RegularOperand, UnaryAccepts, ExpressionCompatible, IsInteger, IntegerTypes,
           IntegerOps, Relations
<1>2. a.val = a.exact
    BY <1>1, SoundValue DEF RegularOperand
<1>3. UnaryType(op, a) = "BOOLEAN"
    BY DEF UnaryType
<1>4. CASE op = "~"
  <2>1. UnaryValue(op, a) = ~a.val /\ UnaryExact(op, a) = ~a.exact
      BY <1>4 DEF UnaryValue, UnaryExact
  <2>2. (~a.exact) \in BOOLEAN
      OBVIOUS
  <2> QED
      BY <1>2, <1>3, <2>1, <2>2 DEF UnaryExactly
<1>5. CASE op = "ODD"
  <2>1. UnaryValue(op, a) = (a.val % 2 = 1) /\ UnaryExact(op, a) = (a.exact % 2 = 1)
      BY <1>5 DEF UnaryValue, UnaryExact
  <2>2. (a.exact % 2 = 1) \in BOOLEAN
      OBVIOUS
  <2> QED
      BY <1>2, <1>3, <2>1, <2>2 DEF UnaryExactly
<1> QED
    BY <1>4, <1>5

LEMMA ElementExact ==
    ASSUME NEW a, RegularOperand("element", a), Proper(UnaryNode("element", a))
    PROVE  UnaryExactly("element", a)
<1> DEFINE width == IF IsConst(a) THEN IntBits ELSE CIntBits
<1>1. a.type \in {"INTEGER", "BYTE"}
    BY DEF RegularOperand, UnaryAccepts, IsInteger, IntegerTypes
<1>2. a.val = a.exact
    BY <1>1, SoundValue DEF RegularOperand
<1>3. width = IntBits
    BY DEF RegularOperand, UnaryFolds, SameWidth
<1>4. UnaryValue("element", a) = Single(a.val, width)
    BY DEF UnaryValue
<1>5. UnaryType("element", a) = "SET" /\ UnaryExact("element", a) = Single(a.exact, IntBits)
    BY DEF UnaryType, UnaryExact
<1>6. Single(a.exact, IntBits) # Undefined
    BY <1>5, UnaryFields DEF Proper
<1>7. Single(a.exact, IntBits) \in SUBSET Element
    BY <1>6 DEF Single, Element
<1> HIDE DEF width
<1> QED
    BY <1>2, <1>3, <1>4, <1>5, <1>7 DEF UnaryExactly

(* Every function of one operand, and the signs.                           *)
LEMMA UnaryNodeSound ==
    ASSUME NEW op, NEW a, RegularOperand(op, a), Proper(UnaryNode(op, a))
    PROVE  Sound(UnaryNode(op, a))
<1>1. PICK form, val, bits :
         /\ UnaryNode(op, a) = Exp(UnaryType(op, a), form, val, bits, UnaryExact(op, a))
         /\ val \in {UnaryValue(op, a), Kept(UnaryType(op, a), UnaryValue(op, a))}
         /\ bits \in Widths
         /\ UnaryType(op, a) = "BYTE" => form \notin {"constant", "string"}
    BY UnaryNodeForm
<1>2. CASE op = "CHR"
  <2>1. UnaryType(op, a) = "CHAR" /\ UnaryValue(op, a) = Wrap(a.val, CharBits)
        /\ UnaryExact(op, a) = a.exact
      BY <1>2 DEF UnaryType, UnaryValue, UnaryExact
  <2>2. a.val = a.exact
    <3>1. a.type # "CHAR"
        BY <1>2 DEF RegularOperand, UnaryAccepts, IsInteger, IntegerTypes
    <3> QED
        BY <3>1, SoundValue DEF RegularOperand
  <2>3. a.exact \in 0..ByteMax
      BY <2>1, UnaryFields DEF Proper
  <2>4. Wrap(a.exact, CharBits) \in Int /\ Ordinal(Wrap(a.exact, CharBits)) = a.exact
      BY <2>3, CharactersExact
  <2>5. Sound(Exp("CHAR", form, Wrap(a.exact, CharBits), bits, a.exact))
      BY <1>1, <2>4, CharSound
  <2>6. val = Wrap(a.exact, CharBits)
      BY <1>1, <2>1, <2>2, KeptExact
  <2> QED
      BY <1>1, <2>1, <2>5, <2>6
<1>3. CASE op # "CHR"
  <2>1. UnaryExactly(op, a)
    <3>1. op \in {"minus", "~", "ABS", "ODD", "ORD", "element"}
        BY <1>3 DEF RegularOperand, UnaryOps
    <3> QED
        BY <3>1, MinusExact, AbsExact, OrdExact, TruthExact, ElementExact
  <2>2. UnaryType(op, a) \in {"INTEGER", "BYTE", "SET", "BOOLEAN"}
    <3>1. op = "ABS" => a.type \in {"INTEGER", "BYTE"}
        BY DEF RegularOperand, UnaryAccepts, IsInteger, IntegerTypes
    <3> QED
        BY <1>3, <3>1 DEF UnaryType, RegularOperand, UnaryOps
  <2>3. Sound(Exp(UnaryType(op, a), form, UnaryExact(op, a), bits, UnaryExact(op, a)))
      BY <1>1, <2>1, <2>2, ExpSound DEF UnaryExactly
  <2>4. /\ UnaryType(op, a) = "INTEGER" => UnaryExact(op, a) \in Integer
        /\ UnaryType(op, a) = "BYTE" => UnaryExact(op, a) \in 0..ByteMax
      BY UnaryFields DEF Proper
  <2>5. Kept(UnaryType(op, a), UnaryExact(op, a)) = UnaryExact(op, a)
      BY <2>1, <2>2, <2>4, KeptExact DEF UnaryExactly
  <2>6. val = UnaryExact(op, a)
      BY <1>1, <2>1, <2>5 DEF UnaryExactly
  <2> QED
      BY <1>1, <2>3, <2>6
<1> QED
    BY <1>2, <1>3

-----------------------------------------------------------------------------
(* Statements.                                                             *)

(* Where INTEGER is as wide as int, it has every BYTE.                     *)
LEMMA BytesFit ==
    ASSUME SameWidth, NEW x \in 0..ByteMax
    PROVE  x \in Integer
<1>1. IntMax + 1 = 2^(IntBits - 1) /\ CharBits <= IntBits - 1
      /\ CharBits \in Nat /\ IntBits - 1 \in Nat /\ IntBits - 1 <= IntBits + CIntBits
    BY WidthAssumption, CharAssumption DEF SameWidth
<1>2. 2^CharBits <= 2^(IntBits - 1) /\ 2^CharBits \in Nat
    BY <1>1, PowersGrow
<1> QED
    BY <1>1, <1>2, WidthAssumption DEF ByteMax, Integer, IntMin

(* What an assignment stores in a variable.                                *)
LEMMA AssignedSound ==
    ASSUME SameWidth, NEW e, Sound(e), NEW type \in {"INTEGER", "BYTE", "SET", "BOOLEAN", "CHAR"},
           e.type = type \/ {e.type, type} \subseteq {"INTEGER", "BYTE"},
           Proper(VariableOf(type, Converted(type, e.val), e.exact))
    PROVE  Sound(VariableOf(type, Converted(type, e.val), e.exact))
<1> DEFINE v == VariableOf(type, Converted(type, e.val), e.exact)
<1>1. v = Exp(type, "variable", Converted(type, e.val), VariableBits(type), e.exact)
    BY DEF VariableOf
<1>2. v.type = type /\ v.exact = e.exact
    BY <1>1, ExpFields
<1>3. VariableBits(type) \in Widths
    BY WidthsKnown
<1>4. CASE type = "CHAR"
  <2>1. e.type = "CHAR" /\ e.val \in Int /\ Ordinal(e.val) = e.exact
      BY <1>4, SoundValue DEF Sound, Typed
  <2>2. Converted(type, e.val) = e.val
      BY <1>4, ConvertedExact
  <2> QED
      BY <1>1, <1>3, <1>4, <2>1, <2>2, CharSound
<1>5. CASE type # "CHAR"
  <2>1. e.type # "CHAR" /\ e.val = e.exact
      BY <1>5, SoundValue DEF Sound, Typed
  <2>2. /\ type \in {"INTEGER", "BYTE"} => e.val \in Int
        /\ type = "SET" => e.val \in SUBSET Element
        /\ type = "BOOLEAN" => e.val \in BOOLEAN
      BY DEF Sound, Typed
  <2>3. /\ type = "INTEGER" => e.exact \in Integer
        /\ type = "BYTE" => e.exact \in 0..ByteMax
      BY <1>2 DEF Proper
  <2>4. Converted(type, e.val) = e.exact
      BY <1>5, <2>1, <2>2, <2>3, ConvertedExact
  <2>5. Sound(Exp(type, "variable", e.exact, VariableBits(type), e.exact))
      BY <1>3, <1>5, <2>1, <2>2, ExpSound
  <2> QED
      BY <1>1, <2>4, <2>5
<1> QED
    BY <1>4, <1>5

(* What OBNC_INCL adds.                                                    *)
LEMMA InclusionExact ==
    ASSUME SameWidth, NEW s \in SUBSET Element, NEW x \in Element
    PROVE  INCL(s, x) = s \cup {x}
<1>1. IntBits = CIntBits /\ x \in 0..(IntBits - 1) /\ IntBits \in Nat
    BY WidthAssumption DEF SameWidth, Element
<1>2. CASE x < CIntBits - 1
    BY <1>1, <1>2 DEF INCL
<1>3. CASE x = CIntBits - 1
  <2>1. INCL(s, x) = s \cup {i \in Element : i >= x}
      BY <1>1, <1>3 DEF INCL
  <2>2. {i \in Element : i >= x} = {x}
      BY <1>1, <1>3 DEF Element
  <2> QED
      BY <2>1, <2>2
<1> QED
    BY <1>1, <1>2, <1>3

(* A variable of a given type with an exact value.                         *)
LEMMA VariableSound ==
    ASSUME NEW type, NEW exact,
           \/ type \in {"INTEGER", "BYTE"} /\ exact \in Int
           \/ type = "SET" /\ exact \in SUBSET Element
    PROVE  Sound(VariableOf(type, exact, exact))
<1>1. VariableOf(type, exact, exact) = Exp(type, "variable", exact, VariableBits(type), exact)
    BY DEF VariableOf
<1>2. VariableBits(type) \in Widths
    BY WidthsKnown
<1> QED
    BY <1>1, <1>2, ExpSound

(* INC and DEC of a variable, where the sum is one of its type.            *)
LEMMA SteppedExact ==
    ASSUME SameWidth, NEW type \in {"INTEGER", "BYTE"}, NEW x \in Int,
           type = "INTEGER" => x \in Integer,
           type = "BYTE" => x \in 0..ByteMax
    PROVE  Kept(type, OrUndefined(x, Promoted(IntBits))) = x
<1>1. x \in Integer
    BY BytesFit
<1>2. OrUndefined(x, Promoted(IntBits)) = x
    BY <1>1, IntegerFits DEF OrUndefined
<1>3. Kept(type, x) = x
    BY KeptExact
<1> QED
    BY <1>2, <1>3

LEMMA UpdateSound ==
    ASSUME SameWidth, Sound(exp), NEW op \in {"INC", "DEC", "INCL", "EXCL"}, NEW x,
           Sound(x), IsInteger(x),
           IF op \in {"INC", "DEC"} THEN IsInteger(exp) ELSE exp.type = "SET",
           op \in {"INCL", "EXCL"} => x.val \in Element,
           Proper(Update(op, x))
    PROVE  Sound(Update(op, x))
<1>1. x.val = x.exact /\ x.val \in Int
    BY SoundValue DEF Sound, Typed, IsInteger, IntegerTypes
<1>2. exp.val = exp.exact
    BY SoundValue DEF IsInteger, IntegerTypes
<1>3. ASSUME op \in {"INC", "DEC"}
      PROVE  exp.type \in {"INTEGER", "BYTE"} /\ exp.val \in Int
    BY <1>3 DEF IsInteger, IntegerTypes, Sound, Typed
<1>4. ASSUME op \in {"INCL", "EXCL"}
      PROVE  exp.type = "SET" /\ exp.val \in SUBSET Element
    BY <1>4 DEF Sound, Typed
<1>5. CASE op = "INC"
  <2> DEFINE y == exp.exact + x.exact
  <2>1. Update(op, x) = VariableOf(exp.type, Kept(exp.type, OrUndefined(y, Promoted(IntBits))), y)
      BY <1>1, <1>2, <1>5 DEF Update
  <2>2. y \in Int
      BY <1>1, <1>2, <1>3, <1>5
  <2>3. /\ exp.type = "INTEGER" => y \in Integer
        /\ exp.type = "BYTE" => y \in 0..ByteMax
      BY <2>1, ExpFields DEF Proper, VariableOf
  <2> HIDE DEF y
  <2>4. Kept(exp.type, OrUndefined(y, Promoted(IntBits))) = y
      BY <1>3, <1>5, <2>2, <2>3, SteppedExact
  <2> QED
      BY <1>3, <1>5, <2>1, <2>2, <2>4, VariableSound
<1>6. CASE op = "DEC"
  <2> DEFINE y == exp.exact - x.exact
  <2>1. Update(op, x) = VariableOf(exp.type, Kept(exp.type, OrUndefined(y, Promoted(IntBits))), y)
      BY <1>1, <1>2, <1>6 DEF Update
  <2>2. y \in Int
      BY <1>1, <1>2, <1>3, <1>6
  <2>3. /\ exp.type = "INTEGER" => y \in Integer
        /\ exp.type = "BYTE" => y \in 0..ByteMax
      BY <2>1, ExpFields DEF Proper, VariableOf
  <2> HIDE DEF y
  <2>4. Kept(exp.type, OrUndefined(y, Promoted(IntBits))) = y
      BY <1>3, <1>6, <2>2, <2>3, SteppedExact
  <2> QED
      BY <1>3, <1>6, <2>1, <2>2, <2>4, VariableSound
<1>7. CASE op = "INCL"
  <2>1. Update(op, x) = VariableOf("SET", exp.exact \cup {x.exact}, exp.exact \cup {x.exact})
      BY <1>1, <1>2, <1>4, <1>7, InclusionExact DEF Update
  <2>2. exp.exact \cup {x.exact} \in SUBSET Element
      BY <1>1, <1>2, <1>4, <1>7
  <2> QED
      BY <2>1, <2>2, VariableSound
<1>8. CASE op = "EXCL"
  <2>1. Update(op, x) = VariableOf("SET", exp.exact \ {x.exact}, exp.exact \ {x.exact})
      BY <1>1, <1>2, <1>8 DEF Update, EXCL
  <2>2. exp.exact \ {x.exact} \in SUBSET Element
      BY <1>1, <1>2, <1>4, <1>8
  <2> QED
      BY <2>1, <2>2, VariableSound
<1> QED
    BY <1>5, <1>6, <1>7, <1>8

-----------------------------------------------------------------------------
(* The steps.                                                              *)

(* The operands of a step are sound if the invariant holds before it.      *)
LEMMA OperandsSound ==
    ASSUME ExpressionSound, NEW op, Operates(op), deviations = {}, NEW other \in Operand,
           NEW a, NEW b, <<a, b>> \in {<<exp, other>>, <<other, exp>>},
           SameWidth \/ (IsConst(a) /\ IsConst(b))
    PROVE  Sound(a) /\ Sound(b)
<1>1. {a, b} = {exp, other}
    OBVIOUS
<1>2. Reliable(exp)
    BY <1>1 DEF Reliable
<1>3. Sound(exp)
    BY <1>2 DEF ExpressionSound, Operates
<1>4. Sound(other)
    BY OperandSound
<1> QED
    BY <1>1, <1>3, <1>4

LEMMA FactorSound ==
    ASSUME Factor
    PROVE  ExpressionSound'
<1>1. PICK o \in Operand : exp' = o
    BY DEF Factor
<1>2. Sound(o)
    BY OperandSound
<1>3. Sound(exp)'
    BY <1>1, <1>2 DEF Sound, Typed, Meaning, IsConst
<1> QED
    BY <1>3 DEF ExpressionSound

LEMMA OperationSound ==
    ASSUME ExpressionSound, NEW op \in BinaryOps, Operation(op)
    PROVE  ExpressionSound'
<1> SUFFICES ASSUME Proper(exp'), deviations' = {}, Reliable(exp')
             PROVE  Sound(exp')
    BY DEF ExpressionSound, Proper, Reliable, Sound, Typed, Meaning, IsConst
<1>1. Operates(op)
    BY DEF Operation
<1>2. PICK other \in Operand :
         \E operands \in {<<exp, other>>, <<other, exp>>} :
            /\ Accepts(op, operands[1], operands[2])
            /\ exp' = Node(op, operands[1], operands[2])
            /\ deviations' = deviations \cup
                 IF Defined(op, operands[1], operands[2]) /\ Deviates(op, operands[1], operands[2])
                 THEN {op} ELSE {}
    BY DEF Operation
<1>3. PICK operands \in {<<exp, other>>, <<other, exp>>} :
         /\ Accepts(op, operands[1], operands[2])
         /\ exp' = Node(op, operands[1], operands[2])
         /\ deviations' = deviations \cup
              IF Defined(op, operands[1], operands[2]) /\ Deviates(op, operands[1], operands[2])
              THEN {op} ELSE {}
    BY <1>2
<1> DEFINE a == operands[1]
           b == operands[2]
<1>4. <<a, b>> \in {<<exp, other>>, <<other, exp>>}
    OBVIOUS
<1>5. /\ Accepts(op, a, b) /\ exp' = Node(op, a, b)
      /\ deviations' = deviations \cup IF Defined(op, a, b) /\ Deviates(op, a, b) THEN {op} ELSE {}
    BY <1>3
<1> HIDE DEF a, b
<1>6. Defined(op, a, b)
  <2>1. ASSUME ~Defined(op, a, b) PROVE FALSE
    <3>1. exp' = Both("INTEGER", a, b, Undefined, Undefined)
        BY <1>5, <2>1 DEF Node
    <3>2. exp'.exact = Undefined
        BY <3>1, BothFields
    <3> QED
        BY <3>2 DEF Proper
  <2> QED
      BY <2>1
<1>7. deviations = {} /\ ~Deviates(op, a, b)
    BY <1>5, <1>6
<1>8. SameWidth \/ (IsConst(a) /\ IsConst(b))
  <2>1. IsConst(Node(op, a, b)) => IsConst(a) /\ IsConst(b)
      BY <1>5, <1>6, NodeForm DEF FormOf, IsConst
  <2> QED
      BY <1>5, <2>1 DEF Reliable
<1>9. Sound(a) /\ Sound(b)
    BY <1>1, <1>4, <1>7, <1>8, OperandsSound
<1>10. Regular(op, a, b)
    BY <1>5, <1>6, <1>7, <1>8, <1>9 DEF Regular
<1> QED
    BY <1>5, <1>10, NodeSound

LEMMA UnaryOperationSound ==
    ASSUME ExpressionSound, NEW op \in UnaryOps, UnaryOperation(op)
    PROVE  ExpressionSound'
<1> SUFFICES ASSUME Proper(exp'), deviations' = {}, Reliable(exp')
             PROVE  Sound(exp')
    BY DEF ExpressionSound, Proper, Reliable, Sound, Typed, Meaning, IsConst
<1>1. Operates(op) /\ UnaryAccepts(op, exp) /\ exp' = UnaryNode(op, exp) /\ deviations = {}
    BY DEF UnaryOperation
<1>2. SameWidth \/ UnaryFolds(op, exp)
    BY <1>1, UnaryFields DEF Reliable
<1>3. Reliable(exp)
    BY <1>2 DEF Reliable, UnaryFolds
<1>4. Sound(exp) /\ Proper(exp)
    BY <1>1, <1>3 DEF ExpressionSound, Operates
<1>5. RegularOperand(op, exp)
    BY <1>1, <1>2, <1>4 DEF RegularOperand
<1> QED
    BY <1>1, <1>5, UnaryNodeSound

LEMMA AssignmentSound ==
    ASSUME ExpressionSound, NEW type \in {"INTEGER", "BYTE", "SET", "BOOLEAN", "CHAR"},
           Assignment(type)
    PROVE  ExpressionSound'
<1> SUFFICES ASSUME Proper(exp'), deviations' = {}, Reliable(exp')
             PROVE  Sound(exp')
    BY DEF ExpressionSound, Proper, Reliable, Sound, Typed, Meaning, IsConst
<1>1. /\ Operates(":=") /\ Assignable(type) /\ deviations = {}
      /\ exp' = VariableOf(type, Converted(type, exp.val), exp.exact)
    BY DEF Assignment
<1>2. SameWidth
    BY <1>1, ExpFields DEF Reliable, IsConst, VariableOf
<1>3. Sound(exp)
    BY <1>1, <1>2 DEF ExpressionSound, Operates, Reliable
<1> QED
    BY <1>1, <1>2, <1>3, AssignedSound DEF Assignable

LEMMA ProcedureSound ==
    ASSUME ExpressionSound, NEW op \in {"INC", "DEC", "INCL", "EXCL"}, ProperProcedure(op)
    PROVE  ExpressionSound'
<1> SUFFICES ASSUME Proper(exp'), deviations' = {}, Reliable(exp')
             PROVE  Sound(exp')
    BY DEF ExpressionSound, Proper, Reliable, Sound, Typed, Meaning, IsConst
<1>1. /\ Operates(op) /\ deviations = {}
      /\ IF op \in {"INC", "DEC"} THEN IsInteger(exp) ELSE exp.type = "SET"
    BY DEF ProperProcedure
<1>2. PICK x \in Operand :
         /\ IsInteger(x)
         /\ exp' = IF op \in {"INCL", "EXCL"} /\ x.val \notin Element
                   THEN VariableOf("SET", Undefined, Undefined) ELSE Update(op, x)
    BY DEF ProperProcedure
<1>3. ~(op \in {"INCL", "EXCL"} /\ x.val \notin Element)
    BY <1>2, ExpFields DEF Proper, VariableOf
<1>4. exp' = Update(op, x)
    BY <1>2, <1>3
<1>5. SameWidth
  <2>1. exp'.form = "variable"
      BY <1>4, ExpFields DEF Update, VariableOf
  <2> QED
      BY <2>1 DEF Reliable, IsConst
<1>6. Sound(exp)
    BY <1>1, <1>5 DEF ExpressionSound, Operates, Reliable
<1>7. Sound(x)
    BY OperandSound
<1> QED
    BY <1>1, <1>2, <1>3, <1>4, <1>5, <1>6, <1>7, UpdateSound

LEMMA ExpressionsSound == ArithmeticSpec => []ExpressionSound
<1>1. ArithmeticInit => ExpressionSound
  <2>1. CIntBits \in Widths
      BY DEF Widths
  <2>2. ConstantOf("BOOLEAN", FALSE, FALSE)
           = Exp("BOOLEAN", "constant", FALSE, LiteralBits("BOOLEAN", FALSE), FALSE)
      BY KeptExact DEF ConstantOf
  <2>3. Sound(ConstantOf("BOOLEAN", FALSE, FALSE))
      BY <2>2, WidthsKnown, ExpSound
  <2> QED
      BY <2>3 DEF ArithmeticInit, ExpressionSound
<1>2. ExpressionSound /\ [ArithmeticNext]_expVars => ExpressionSound'
  <2> SUFFICES ASSUME ExpressionSound, [ArithmeticNext]_expVars PROVE ExpressionSound'
      OBVIOUS
  <2>1. CASE Factor
      BY <2>1, FactorSound
  <2>2. ASSUME NEW op \in BinaryOps, Operation(op) PROVE ExpressionSound'
      BY <2>2, OperationSound
  <2>3. ASSUME NEW op \in UnaryOps, UnaryOperation(op) PROVE ExpressionSound'
      BY <2>3, UnaryOperationSound
  <2>4. ASSUME NEW type \in {"INTEGER", "BYTE", "SET", "BOOLEAN", "CHAR"}, Assignment(type)
        PROVE  ExpressionSound'
      BY <2>4, AssignmentSound
  <2>5. ASSUME NEW op \in {"INC", "DEC", "INCL", "EXCL"}, ProperProcedure(op)
        PROVE  ExpressionSound'
      BY <2>5, ProcedureSound
  <2>6. CASE UNCHANGED expVars
      BY <2>6 DEF expVars, ExpressionSound, Proper, Reliable, Sound, Typed, Meaning, IsConst
  <2> QED
      BY <2>1, <2>2, <2>3, <2>4, <2>5, <2>6 DEF ArithmeticNext, BinaryOps
<1> QED
    BY <1>1, <1>2, PTL DEF ArithmeticSpec

(* ValuesExact: with whatever mixture of constants and variables an        *)
(* expression was built, and however many operations it has, the value     *)
(* computed by the compiler and the generated program is the report's,     *)
(* where INTEGER is as wide as int and no known deviation was met.         *)
THEOREM ValuesAreExact ==
    ASSUME SameWidth
    PROVE  ArithmeticSpec => []ValuesExact
<1>1. ExpressionSound => ValuesExact
    BY DEF ExpressionSound, ValuesExact, Reliable, Sound
<1> QED
    BY <1>1, ExpressionsSound, PTL

-----------------------------------------------------------------------------
(* Warnings.                                                               *)

(* A constant number among the operands of a step is an INTEGER.           *)
LEMMA ConstantOperand ==
    ASSUME NEW op, Operates(op), NEW other \in Operand, NEW e \in {exp, other},
           Sound(e), IsConst(e), IsInteger(e)
    PROVE  e.val = e.exact /\ e.val \in Integer
<1>1. e.type = "INTEGER"
    BY DEF Sound, Typed, IsInteger, IntegerTypes
<1>2. e.val = e.exact
    BY <1>1, SoundValue
<1>3. e = exp => e.exact \in Integer
    BY <1>1 DEF Operates, Proper
<1>4. e = other => e.exact \in Integer
    BY <1>1, OperandSound
<1> QED
    BY <1>2, <1>3, <1>4

(* What it takes for the result of a constant operation to be of its type. *)
LEMMA SetsProper ==
    ASSUME NEW e, e.type = "SET", e.exact \in SUBSET Element
    PROVE  Proper(e)
<1>1. e.exact # Undefined
    BY UndefinedAssumption DEF Element
<1> QED
    BY <1>1 DEF Proper

LEMMA IntegersProper ==
    ASSUME NEW e, e.type = "INTEGER", e.exact \in Int
    PROVE  Proper(e) <=> e.exact \in Integer
BY UndefinedAssumption DEF Proper

LEMMA OperationWarned ==
    ASSUME ExpressionSound, NEW op \in BinaryOps, Operation(op)
    PROVE  WarnedExactly'
<1> SUFFICES ASSUME op \in {"+", "-"}, exp'.form = "constant", deviations' = {}
             PROVE  warned' = ~Proper(exp')
  <2>1. operation' = op /\ "minus" \notin BinaryOps
      BY DEF Operation, Operates, BinaryOps, IntegerOps, SetOps, Relations, Shifts
  <2> QED
      BY <2>1 DEF WarnedExactly, Proper
<1>1. Operates(op)
    BY DEF Operation
<1>2. PICK other \in Operand :
         \E operands \in {<<exp, other>>, <<other, exp>>} :
            /\ Accepts(op, operands[1], operands[2])
            /\ exp' = Node(op, operands[1], operands[2])
            /\ warned' = Warning(op, operands[1], operands[2])
    BY DEF Operation
<1>3. PICK operands \in {<<exp, other>>, <<other, exp>>} :
         /\ Accepts(op, operands[1], operands[2])
         /\ exp' = Node(op, operands[1], operands[2])
         /\ warned' = Warning(op, operands[1], operands[2])
    BY <1>2
<1> DEFINE a == operands[1]
           b == operands[2]
<1>4. <<a, b>> \in {<<exp, other>>, <<other, exp>>} /\ a \in {exp, other} /\ b \in {exp, other}
    OBVIOUS
<1>5. Accepts(op, a, b) /\ exp' = Node(op, a, b) /\ warned' = Warning(op, a, b)
    BY <1>3
<1> HIDE DEF a, b
<1>6. Defined(op, a, b)
    BY DEF Defined, Shifts
<1>7. IsConst(a) /\ IsConst(b)
    BY <1>5, <1>6, NodeForm DEF FormOf
<1>8. deviations = {}
    BY DEF Operation
<1>9. Sound(a) /\ Sound(b)
    BY <1>1, <1>4, <1>7, <1>8, OperandsSound
<1>10. CASE IsInteger(a) /\ IsInteger(b)
  <2>1. /\ a.val = a.exact /\ a.val \in Integer
        /\ b.val = b.exact /\ b.val \in Integer
      BY <1>1, <1>4, <1>7, <1>9, <1>10, ConstantOperand
  <2>2. a.val \in Int /\ b.val \in Int
      BY <2>1, WidthAssumption DEF Integer, IntMin
  <2>3. exp' = Both("INTEGER", a, b, IntegerValue(op, a.val, b.val, Width(a, b)),
                    IntegerExact(op, a.exact, b.exact))
      BY <1>5, <1>6, <1>10 DEF Node, IntegerOps, Shifts, SetOps, Relations, IsInteger, IntegerTypes
  <2>4. exp'.type = "INTEGER" /\ exp'.exact = IntegerExact(op, a.exact, b.exact)
      BY <2>3, BothFields
  <2>5. CASE op = "+"
    <3>1. exp'.exact = a.val + b.val
        BY <2>1, <2>4, <2>5 DEF IntegerExact
    <3>2. Warning(op, a, b) <=> SumWarning(a.val, b.val)
        BY <1>7, <1>10, <2>5 DEF Warning, Shifts
    <3>3. SumWarning(a.val, b.val) <=> a.val + b.val \notin Integer
        BY <2>1, SumWarningExact
    <3>4. Proper(exp') <=> a.val + b.val \in Integer
        BY <2>2, <2>4, <3>1, IntegersProper
    <3>5. warned' \in BOOLEAN
        BY <1>5 DEF Warning
    <3> QED
        BY <1>5, <3>2, <3>3, <3>4, <3>5
  <2>6. CASE op = "-"
    <3>1. exp'.exact = a.val - b.val
        BY <2>1, <2>4, <2>6 DEF IntegerExact
    <3>2. Warning(op, a, b) <=> DifferenceWarning(a.val, b.val)
        BY <1>7, <1>10, <2>6 DEF Warning, Shifts
    <3>3. DifferenceWarning(a.val, b.val) <=> a.val - b.val \notin Integer
        BY <2>1, DifferenceWarningExact
    <3>4. Proper(exp') <=> a.val - b.val \in Integer
        BY <2>2, <2>4, <3>1, IntegersProper
    <3>5. warned' \in BOOLEAN
        BY <1>5 DEF Warning
    <3> QED
        BY <1>5, <3>2, <3>3, <3>4, <3>5
  <2> QED
      BY <2>5, <2>6
<1>11. CASE a.type = "SET" /\ b.type = "SET"
  <2>1. ~Warning(op, a, b)
      BY <1>11 DEF Warning, Shifts, IsInteger, IntegerTypes
  <2>2. exp' = Both("SET", a, b,
                    SetValue(op, a.val, b.val, IF IsConst(a) /\ IsConst(b) THEN IntBits ELSE b.bits),
                    SetExact(op, a.exact, b.exact))
      BY <1>5, <1>6, <1>11 DEF Node, IntegerOps, Shifts, SetOps, Relations, IsInteger, IntegerTypes
  <2>3. exp'.type = "SET" /\ exp'.exact = SetExact(op, a.exact, b.exact)
      BY <2>2, BothFields
  <2>4. a.exact \in SUBSET Element /\ b.exact \in SUBSET Element
      BY <1>9, <1>11, SoundValue DEF Sound, Typed
  <2>5. SetExact(op, a.exact, b.exact) \in SUBSET Element
      BY <2>4 DEF SetExact
  <2>6. Proper(exp')
      BY <2>3, <2>5, SetsProper
  <2>7. warned' \in BOOLEAN
      BY <1>5 DEF Warning
  <2> QED
      BY <1>5, <2>1, <2>6, <2>7
<1>12. (IsInteger(a) /\ IsInteger(b)) \/ (a.type = "SET" /\ b.type = "SET")
  <2>1. b.type # "none"
      BY <1>9 DEF Sound, Typed
  <2> QED
      BY <1>5, <2>1 DEF Accepts, ExpressionCompatible, IsInteger, IntegerTypes, Relations, Shifts
<1> QED
    BY <1>10, <1>11, <1>12

LEMMA UnaryOperationWarned ==
    ASSUME ExpressionSound, NEW op \in UnaryOps, UnaryOperation(op)
    PROVE  WarnedExactly'
<1> SUFFICES ASSUME op = "minus", exp'.form = "constant", deviations' = {}
             PROVE  warned' = ~Proper(exp')
  <2>1. operation' = op /\ "+" \notin UnaryOps /\ "-" \notin UnaryOps
      BY DEF UnaryOperation, Operates, UnaryOps
  <2> QED
      BY <2>1 DEF WarnedExactly, Proper
<1>1. /\ Operates(op) /\ UnaryAccepts(op, exp) /\ exp' = UnaryNode(op, exp) /\ deviations = {}
      /\ warned' = UnaryWarning(op, exp)
    BY DEF UnaryOperation
<1>2. IsConst(exp)
    BY <1>1, UnaryFields DEF UnaryFolds
<1>3. Sound(exp)
    BY <1>1, <1>2 DEF ExpressionSound, Operates, Reliable
<1>4. exp'.type = UnaryType(op, exp) /\ exp'.exact = UnaryExact(op, exp)
    BY <1>1, UnaryFields
<1>5. warned' \in BOOLEAN
    BY <1>1 DEF UnaryWarning
<1>6. CASE IsInteger(exp)
  <2>1. exp.val = exp.exact /\ exp.val \in Integer
    <3>1. exp.type = "INTEGER"
        BY <1>2, <1>3, <1>6 DEF Sound, Typed, IsInteger, IntegerTypes
    <3> QED
        BY <1>1, <1>3, <3>1, SoundValue DEF Operates, Proper
  <2>2. 0 \in Integer /\ exp.val \in Int
    <3>1. 0 \in Integer /\ Integer \subseteq Int
        BY WidthAssumption DEF Integer, IntMin
    <3> QED
        BY <2>1, <3>1
  <2>3. exp'.type = "INTEGER" /\ exp'.exact = 0 - exp.val
    <3>1. exp.type # "SET"
        BY <1>6 DEF IsInteger, IntegerTypes
    <3>2. exp'.exact = -exp.exact
        BY <1>4, <1>6, <3>1 DEF UnaryExact
    <3> QED
        BY <1>4, <2>1, <2>2, <3>1, <3>2 DEF UnaryType
  <2>4. UnaryWarning(op, exp) <=> DifferenceWarning(0, exp.val)
      BY <1>2, <1>6 DEF UnaryWarning
  <2>5. DifferenceWarning(0, exp.val) <=> 0 - exp.val \notin Integer
      BY <2>1, <2>2, DifferenceWarningExact
  <2>6. Proper(exp') <=> 0 - exp.val \in Integer
      BY <2>2, <2>3, IntegersProper
  <2> QED
      BY <1>1, <1>5, <2>4, <2>5, <2>6
<1>7. CASE exp.type = "SET"
  <2>1. ~UnaryWarning(op, exp)
      BY <1>7 DEF UnaryWarning, IsInteger, IntegerTypes
  <2>2. exp'.type = "SET" /\ exp'.exact = Element \ exp.exact
      BY <1>4, <1>7 DEF UnaryType, UnaryExact, IsInteger, IntegerTypes
  <2>3. Element \ exp.exact \in SUBSET Element
      OBVIOUS
  <2>4. Proper(exp')
      BY <2>2, <2>3, SetsProper
  <2> QED
      BY <1>1, <1>5, <2>1, <2>4
<1>8. IsInteger(exp) \/ exp.type = "SET"
    BY <1>1 DEF UnaryAccepts, ExpressionCompatible, IsInteger, IntegerTypes, IntegerOps, Relations
<1> QED
    BY <1>6, <1>7, <1>8

(* WarnedExactly: for every width of INTEGER and of int, the compiler      *)
(* warns of a sum, a difference or a negation of constants just if the     *)
(* report's value is no INTEGER, in expressions of any length.             *)
THEOREM WarnedJustThen == ArithmeticSpec => []WarnedExactly
<1>1. ArithmeticInit => WarnedExactly
    BY DEF ArithmeticInit, WarnedExactly
<1>2. ExpressionSound /\ WarnedExactly /\ [ArithmeticNext]_expVars => WarnedExactly'
  <2> SUFFICES ASSUME ExpressionSound, WarnedExactly, [ArithmeticNext]_expVars
               PROVE  WarnedExactly'
      OBVIOUS
  <2>1. CASE Factor
      BY <2>1 DEF Factor, WarnedExactly
  <2>2. ASSUME NEW op \in BinaryOps, Operation(op) PROVE WarnedExactly'
      BY <2>2, OperationWarned
  <2>3. ASSUME NEW op \in UnaryOps, UnaryOperation(op) PROVE WarnedExactly'
      BY <2>3, UnaryOperationWarned
  <2>4. ASSUME NEW type, Assignment(type) PROVE WarnedExactly'
      BY <2>4 DEF Assignment, Operates, WarnedExactly
  <2>5. ASSUME NEW op \in {"INC", "DEC", "INCL", "EXCL"}, ProperProcedure(op)
        PROVE  WarnedExactly'
    <3>1. operation' = op
        BY <2>5 DEF ProperProcedure, Operates
    <3> QED
        BY <3>1 DEF WarnedExactly
  <2>6. CASE UNCHANGED expVars
      BY <2>6 DEF expVars, WarnedExactly, Proper
  <2> QED
      BY <2>1, <2>2, <2>3, <2>4, <2>5, <2>6 DEF ArithmeticNext, BinaryOps
<1> QED
    BY <1>1, <1>2, ExpressionsSound, PTL DEF ArithmeticSpec

-----------------------------------------------------------------------------
(* The ranges of the types.                                                *)

(* A number divided by a positive one comes no farther from 0.             *)
LEMMA QuotientWithin ==
    ASSUME NEW x \in Nat, NEW y \in Nat \ {0}
    PROVE  x \div y \in 0..x
<1> DEFINE q == x \div y
           r == x % y
<1>1. x = y * q + r /\ q \in Int /\ r \in 0..(y - 1)
    BY SMT
<1> HIDE DEF q, r
<1>2. q >= 0
  <2>1. ASSUME q <= -1 PROVE y * q <= y * (-1)
      BY <1>1, <2>1, SMT
  <2> QED
      BY <1>1, <2>1, SMT
<1>3. q <= y * q
  <2>1. y - 1 \in Nat /\ q \in Nat
      BY <1>1, <1>2
  <2>2. y * q = (y - 1) * q + q /\ (y - 1) * q \in Nat
      BY <2>1, SMT
  <2> QED
      BY <2>1, <2>2
<1>4. y * q \in Int
    BY <1>1
<1>5. q <= x
    BY <1>1, <1>3, <1>4
<1> QED
    BY <1>1, <1>2, <1>5 DEF q

LEMMA ShiftedWithin ==
    ASSUME NEW x \in Int, NEW y \in Nat \ {0}, NEW h \in Nat, -h <= x, x < h
    PROVE  x \div y \in (-h)..(h - 1)
<1>1. CASE x >= 0
  <2>1. x \in Nat
      BY <1>1
  <2>2. x \div y \in 0..x
      BY <2>1, QuotientWithin
  <2> QED
      BY <2>2
<1>2. CASE x < 0
  <2> DEFINE q == x \div y
             r == x % y
  <2>1. x = y * q + r /\ q \in Int /\ r \in 0..(y - 1)
      BY SMT
  <2> HIDE DEF q, r
  <2>2. q < 0
    <3>1. ASSUME q >= 0 PROVE y * q >= 0
        BY <2>1, <3>1, SMT
    <3> QED
        BY <1>2, <2>1, <3>1, SMT
  <2>3. q >= x
    <3>1. y - 1 \in Nat /\ -q - 1 \in Nat
        BY <2>1, <2>2
    <3>2. (y - 1) * (-q - 1) \in Nat
        BY <3>1, SMT
    <3>3. (y - 1) * (-q - 1) = -(y * q) - y + q + 1
        BY <2>1, SMT
    <3>4. y * q \in Int
        BY <2>1
    <3> QED
        BY <2>1, <3>2, <3>3, <3>4
  <2> QED
      BY <1>2, <2>1, <2>2, <2>3 DEF q
<1> QED
    BY <1>1, <1>2

(* Conversion to a signed type makes one of its numbers.                   *)
LEMMA WrapRange ==
    ASSUME NEW w \in Widths, NEW x \in Int
    PROVE  Wrap(x, w) \in (-HalfOf(w))..(HalfOf(w) - 1)
<1> DEFINE h == HalfOf(w)
<1>1. h \in Nat \ {0} /\ 2^w = 2 * h
    BY Halves DEF Widths
<1>2. Wrap(x, w) = ((x + h) % (2 * h)) - h
    BY <1>1 DEF Wrap, HalfOf
<1> HIDE DEF h
<1>3. 2 * h \in Nat \ {0} /\ x + h \in Int
    BY <1>1
<1>4. (x + h) % (2 * h) \in 0..(2 * h - 1)
    BY <1>3
<1>5. ((x + h) % (2 * h)) - h \in (-h)..(h - 1)
    BY <1>1, <1>4
<1> QED
    BY <1>2, <1>5 DEF h

(* Numbers of INTEGER and of int are among those computed with, and so     *)
(* are the bytes.                                                          *)
Half == HalfOf(Promoted(IntBits))

LEMMA RangesKnown ==
    /\ Half \in Nat \ {0} /\ Promoted(IntBits) \in Widths
    /\ Integer = (-HalfOf(IntBits))..(HalfOf(IntBits) - 1)
    /\ ComputedOf("INTEGER") = (-Half)..(Half - 1)
    /\ ComputedOf("BYTE") = (-Half)..(Half - 1)
    /\ ComputedOf("SET") = SUBSET (0..(Promoted(IntBits) - 1))
    /\ ComputedOf("BOOLEAN") = BOOLEAN
    /\ ComputedOf("CHAR") = ValuesOf("CHAR")
    /\ Integer \subseteq ComputedOf("INTEGER") /\ Integer \subseteq Int
    /\ (-CIntMax - 1)..CIntMax \subseteq ComputedOf("INTEGER")
    /\ 0..ByteMax \subseteq ComputedOf("INTEGER")
    /\ 0 \in 0..ByteMax /\ 1 \in 0..ByteMax
<1>1. Promoted(IntBits) \in Widths
    BY WidthsKnown DEF Widths
<1>2. /\ Half \in Nat \ {0} /\ HalfOf(IntBits) \in Nat \ {0} /\ HalfOf(CIntBits) \in Nat \ {0}
      /\ HalfOf(CharBits) \in Nat \ {0} /\ 2^CharBits = 2 * HalfOf(CharBits)
    BY <1>1, Halves DEF Half, Widths
<1>3. IntMax + 1 = HalfOf(IntBits) /\ CIntMax + 1 = HalfOf(CIntBits)
      /\ IntMax \in Nat /\ CIntMax \in Nat
    BY WidthAssumption DEF HalfOf
<1>4. Integer = (-HalfOf(IntBits))..(HalfOf(IntBits) - 1)
    BY <1>2, <1>3 DEF Integer, IntMin
<1>5. /\ ComputedOf("INTEGER") = (-Half)..(Half - 1) /\ ComputedOf("BYTE") = (-Half)..(Half - 1)
      /\ ComputedOf("SET") = SUBSET (0..(Promoted(IntBits) - 1))
      /\ ComputedOf("BOOLEAN") = BOOLEAN /\ ComputedOf("CHAR") = ValuesOf("CHAR")
  <2>1. ComputedOf("INTEGER") = (-Half)..(Half - 1) /\ ComputedOf("BYTE") = (-Half)..(Half - 1)
      BY DEF ComputedOf, IntegerTypes, Half, HalfOf
  <2>2. ComputedOf("SET") = SUBSET (0..(Promoted(IntBits) - 1))
      BY DEF ComputedOf, IntegerTypes
  <2>3. ComputedOf("BOOLEAN") = BOOLEAN /\ ComputedOf("CHAR") = ValuesOf("CHAR")
      BY DEF ComputedOf, IntegerTypes, ValuesOf
  <2> QED
      BY <2>1, <2>2, <2>3
<1>6. IntBits - 1 \in Nat /\ CIntBits - 1 \in Nat /\ CharBits \in Nat /\ Promoted(IntBits) - 1 \in Nat
      /\ IntBits <= Promoted(IntBits) /\ CIntBits <= Promoted(IntBits) /\ CharBits <= CIntBits - 1
      /\ Promoted(IntBits) <= IntBits + CIntBits
    BY WidthAssumption, CharAssumption DEF Promoted
<1>7. HalfOf(IntBits) <= Half /\ HalfOf(CIntBits) <= Half
  <2> DEFINE n == Promoted(IntBits) - 1
  <2>1. /\ n \in Nat /\ IntBits - 1 <= n /\ CIntBits - 1 <= n /\ n <= IntBits + CIntBits
        /\ IntBits - 1 \in Nat /\ CIntBits - 1 \in Nat
      BY <1>6, <1>1, WidthAssumption, CharAssumption DEF Widths
  <2> HIDE DEF n
  <2>2. 2^(IntBits - 1) <= 2^n /\ 2^(CIntBits - 1) <= 2^n
      BY <2>1, PowersGrow
  <2> QED
      BY <2>2 DEF Half, HalfOf, n
<1>8. 2^CharBits <= HalfOf(CIntBits)
    BY <1>6, WidthAssumption, PowersGrow DEF HalfOf
<1>9. ByteMax \in Nat \ {0} /\ ByteMax < Half
    BY <1>2, <1>7, <1>8 DEF ByteMax
<1>10. Integer \subseteq (-Half)..(Half - 1)
    BY <1>2, <1>4, <1>7
<1>11. (-CIntMax - 1)..CIntMax \subseteq (-Half)..(Half - 1)
    BY <1>2, <1>3, <1>7
<1>12. 0..ByteMax \subseteq (-Half)..(Half - 1) /\ 0 \in 0..ByteMax /\ 1 \in 0..ByteMax
    BY <1>2, <1>9
<1>13. Integer \subseteq Int
    BY <1>4
<1> QED
    BY <1>1, <1>2, <1>4, <1>5, <1>10, <1>11, <1>12, <1>13

(* The characters of C are the numbers of a signed type.                   *)
LEMMA CharactersRange ==
    /\ ValuesOf("CHAR") = (-HalfOf(CharBits))..(HalfOf(CharBits) - 1)
    /\ \A c \in Char : Signed(c) \in ValuesOf("CHAR")
<1> DEFINE h == HalfOf(CharBits)
<1>1. h \in Nat \ {0} /\ 2^CharBits = 2 * h /\ h = 2^(CharBits - 1)
    BY Halves DEF HalfOf
<1> HIDE DEF h
<1>2. ByteMax = 2 * h - 1
    BY <1>1 DEF ByteMax
<1>3. ByteMax \div 2 = h - 1
  <2>1. ByteMax = 2 * (h - 1) + 1 /\ h - 1 \in Int
      BY <1>1, <1>2
  <2> QED
      BY <2>1, SMT
<1>4. Signed(h) = -h /\ Signed(h - 1) = h - 1
    BY <1>1 DEF Signed
<1>5. (ByteMax \div 2) + 1 = h
    BY <1>1, <1>3
<1>6. ValuesOf("CHAR") = Signed(h)..Signed(h - 1)
    BY <1>3, <1>5 DEF ValuesOf
<1>7. ASSUME NEW c \in Char PROVE Signed(c) \in (-h)..(h - 1)
  <2>1. c \in 0..(2 * h - 1)
      BY <1>2 DEF Char
  <2> QED
      BY <1>1, <2>1 DEF Signed
<1>8. ValuesOf("CHAR") = (-h)..(h - 1)
    BY <1>4, <1>6
<1> QED
    BY <1>7, <1>8 DEF h

(* A conversion, and the value of a constant or variable.                  *)
OberonTypes == {"INTEGER", "BYTE", "SET", "BOOLEAN", "CHAR"}

LEMMA ConvertedRange ==
    ASSUME NEW type \in OberonTypes, NEW x,
           x \in ComputedOf(type)
              \/ (type = "INTEGER" /\ x \in ComputedOf("BYTE"))
              \/ (type = "BYTE" /\ x \in ComputedOf("INTEGER"))
    PROVE  Converted(type, x) \in ValuesOf(type)
<1>1. CASE type = "INTEGER"
  <2>1. x \in Int
      BY <1>1, RangesKnown
  <2>2. Wrap(x, IntBits) \in Integer
      BY <2>1, WrapRange, RangesKnown DEF Widths
  <2> QED
      BY <1>1, <2>2 DEF Converted, ValuesOf
<1>2. CASE type = "BYTE"
  <2>1. x \in Int
      BY <1>2, RangesKnown
  <2>2. 2^CharBits \in Nat \ {0}
    <3>1. HalfOf(CharBits) \in Nat \ {0} /\ 2^CharBits = 2 * HalfOf(CharBits)
        BY Halves
    <3> QED
        BY <3>1
  <2>3. x % 2^CharBits \in 0..(2^CharBits - 1)
      BY <2>1, <2>2
  <2> QED
      BY <1>2, <2>3 DEF Converted, ValuesOf, ByteMax
<1>3. CASE type = "SET"
    BY <1>3 DEF Converted, ValuesOf
<1>4. CASE type \in {"BOOLEAN", "CHAR"}
    BY <1>4, RangesKnown DEF Converted, ValuesOf
<1> QED
    BY <1>1, <1>2, <1>3, <1>4 DEF OberonTypes

(* What a variable of a type can hold is among what is computed.           *)
LEMMA ValuesComputed ==
    ASSUME NEW type \in OberonTypes
    PROVE  ValuesOf(type) \subseteq ComputedOf(type)
<1>1. CASE type = "INTEGER"
    BY <1>1, RangesKnown DEF ValuesOf
<1>2. CASE type = "BYTE"
  <2>1. ValuesOf("BYTE") = 0..ByteMax /\ ComputedOf("BYTE") = ComputedOf("INTEGER")
      BY RangesKnown DEF ValuesOf
  <2> QED
      BY <1>2, <2>1, RangesKnown
<1>3. CASE type = "SET"
  <2>1. Element \subseteq 0..(Promoted(IntBits) - 1)
      BY WidthAssumption DEF Element, Promoted
  <2>2. ValuesOf("SET") = SUBSET Element
      BY DEF ValuesOf
  <2> QED
      BY <1>3, <2>1, <2>2, RangesKnown
<1>4. CASE type \in {"BOOLEAN", "CHAR"}
    BY <1>4, RangesKnown DEF ValuesOf
<1> QED
    BY <1>1, <1>2, <1>3, <1>4 DEF OberonTypes

(* The number that a set of bits makes is a number.                        *)
IsUnsigned(f, mask) ==
    f = [n \in 0..Promoted(IntBits) |->
            IF n = 0 THEN 0 ELSE f[n - 1] + (IF n - 1 \in mask THEN 2^(n - 1) ELSE 0)]

LEMMA UnsignedNumber ==
    ASSUME NEW mask
    PROVE  Unsigned(mask) \in Int
<1> DEFINE N == Promoted(IntBits)
           summand == [k \in 1..N |-> IF k - 1 \in mask THEN 2^(k - 1) ELSE 0]
           p == CHOOSE f : IsUnsigned(f, mask)
<1>1. N \in Nat /\ N <= IntBits + CIntBits
    BY WidthAssumption DEF Promoted
<1>2. summand \in [1..N -> Int] /\ Ones(N) \in [1..N -> Int]
  <2>1. ASSUME NEW k \in 1..N PROVE 2^(k - 1) \in Int
    <3>1. k - 1 \in 0..(IntBits + CIntBits)
        BY <1>1, WidthAssumption
    <3> QED
        BY <3>1, PowerAssumption
  <2> QED
      BY <2>1 DEF Ones
<1>3. \A k \in 1..N : /\ summand[k] = IF k - 1 \in mask THEN 2^(k - 1) ELSE 0
                      /\ Ones(N)[k] = 1
    BY DEF Ones
<1> HIDE DEF summand
<1>4. PICK f : Computed(f, N, 0, Ones(N), summand)
  <2>1. 0 \in Int
      OBVIOUS
  <2> HIDE DEF N
  <2> QED
      BY <1>1, <1>2, <2>1, ComputedExists
<1>5. f \in [0..N -> Int] /\ f[0] = 0 /\ \A k \in 1..N : f[k] = f[k - 1] + summand[k]
  <2>1. f \in [0..N -> Int] /\ f[0] = 0 /\ \A k \in 1..N : f[k] = f[k - 1] * Ones(N)[k] + summand[k]
      BY <1>4 DEF Computed
  <2>2. ASSUME NEW k \in 1..N PROVE f[k - 1] * Ones(N)[k] = f[k - 1]
    <3>1. k - 1 \in 0..N
        BY <1>1
    <3>2. f[k - 1] \in Int /\ Ones(N)[k] = 1
        BY <1>3, <2>1, <3>1
    <3> QED
        BY <3>2
  <2> QED
      BY <2>1, <2>2
<1>6. IsUnsigned(f, mask)
  <2>1. \A k \in 0..N : k /= 0 => k \in 1..N
      BY <1>1
  <2>2. f = [k \in 0..N |->
                IF k = 0 THEN 0 ELSE f[k - 1] + (IF k - 1 \in mask THEN 2^(k - 1) ELSE 0)]
      BY <1>3, <1>5, <2>1
  <2> QED
      BY <2>2 DEF IsUnsigned
<1>7. IsUnsigned(p, mask)
    BY <1>6, Zenon
<1>8. Unsigned(mask) = p[N]
    BY Zenon DEF Unsigned, IsUnsigned
<1> HIDE DEF p
<1>9. p[0] = 0 /\ \A k \in 1..N : p[k] = p[k - 1] + summand[k]
  <2>1. p = [k \in 0..N |->
                IF k = 0 THEN 0 ELSE p[k - 1] + (IF k - 1 \in mask THEN 2^(k - 1) ELSE 0)]
      BY <1>7 DEF IsUnsigned
  <2>2. 0 \in 0..N /\ \A k \in 1..N : k \in 0..N /\ k /= 0
      BY <1>1
  <2> QED
      BY <1>3, <2>1, <2>2
<1> DEFINE S == {k \in 0..N : p[k] \in Int}
<1>10. 0 \in S
    BY <1>1, <1>9
<1>11. ASSUME NEW k \in 0..(N - 1), k \in S PROVE k + 1 \in S
  <2>1. k + 1 \in 1..N /\ k + 1 \in 0..N /\ (k + 1) - 1 = k
      BY <1>1
  <2>2. summand[k + 1] \in Int
      BY <1>2, <2>1
  <2>3. p[k + 1] = p[k] + summand[k + 1]
      BY <1>9, <2>1
  <2> QED
      BY <1>11, <2>1, <2>2, <2>3
<1> HIDE DEF S, N
<1>12. 0..N \subseteq S
    BY <1>1, <1>10, <1>11, BoundedInduction
<1>13. N \in 0..N
    BY <1>1
<1> QED
    BY <1>8, <1>12, <1>13 DEF S

(* Whatever is computed of numbers, C leaves it undefined or it is one of  *)
(* those computed with.                                                    *)
LEMMA DefinedRange ==
    ASSUME NEW x, NEW w, OrUndefined(x, w) # Undefined
    PROVE  OrUndefined(x, w) = x /\ x \in ComputedOf("INTEGER")
<1>1. Fits(x, w) /\ OrUndefined(x, w) = x
    BY DEF OrUndefined
<1> QED
    BY <1>1, RangesKnown DEF Fits

LEMMA IntegerRange ==
    ASSUME NEW op \in IntegerOps, NEW x \in ComputedOf("INTEGER"), NEW y \in ComputedOf("INTEGER"),
           NEW w, op \in {"DIV", "MOD"} => y > 0, IntegerValue(op, x, y, w) # Undefined
    PROVE  IntegerValue(op, x, y, w) \in ComputedOf("INTEGER")
<1>1. x \in Int /\ y \in Int /\ x \in (-Half)..(Half - 1) /\ y \in (-Half)..(Half - 1) /\ Half \in Nat
    BY RangesKnown
<1>2. CASE op \in {"+", "-", "*"}
  <2>1. \E z : IntegerValue(op, x, y, w) = OrUndefined(z, w)
      BY <1>2 DEF IntegerValue
  <2> QED
      BY <2>1, DefinedRange
<1>3. CASE op = "MOD"
  <2>1. y \in Nat \ {0}
      BY <1>1, <1>3
  <2>2. MOD(x, y) = x % y /\ x % y \in 0..(y - 1)
      BY <1>1, <2>1, ModulusExact
  <2>3. IntegerValue(op, x, y, w) = MOD(x, y)
      BY <1>3 DEF IntegerValue
  <2>4. x % y \in (-Half)..(Half - 1)
      BY <1>1, <2>1, <2>2
  <2> QED
      BY <2>2, <2>3, <2>4, RangesKnown
<1>4. CASE op = "DIV"
  <2>1. y \in Nat \ {0}
      BY <1>1, <1>4
  <2>2. IntegerValue(op, x, y, w) = DIV(x, y, w)
      BY <1>4 DEF IntegerValue
  <2>3. CASE x >= 0
    <3>1. DIV(x, y, w) = x \div y
        BY <1>1, <2>1, <2>3, DivisionOfNatural DEF DIV
    <3>2. x \div y \in 0..x
        BY <1>1, <2>1, <2>3, QuotientWithin
    <3>3. x \div y \in (-Half)..(Half - 1)
        BY <1>1, <3>2
    <3> QED
        BY <2>2, <3>1, <3>3, RangesKnown
  <2>4. CASE x < 0
    <3> DEFINE z == x - MOD(x, y)
    <3>1. Fits(z, w) /\ DIV(x, y, w) = CQuotient(z, y)
        BY <2>2, <2>4, <1>1 DEF DIV
    <3>2. z \in (-Half)..(Half - 1)
        BY <3>1, RangesKnown DEF Fits
    <3>3. MOD(x, y) \in 0..(y - 1)
      <4>1. MOD(x, y) = x % y
          BY <1>1, <2>1, ModulusExact
      <4>2. x % y \in 0..(y - 1)
          BY <1>1, <2>1
      <4> QED
          BY <4>1, <4>2
    <3>4. z < 0
        BY <1>1, <2>4, <3>3
    <3> HIDE DEF z
    <3>5. CQuotient(z, y) = -((-z) \div y)
        BY <1>1, <2>1, <3>2, <3>4 DEF CQuotient, Magnitude
    <3>6. -z \in Nat
        BY <1>1, <3>2, <3>4
    <3>7. (-z) \div y \in 0..(-z)
        BY <2>1, <3>6, QuotientWithin
    <3>8. CQuotient(z, y) \in (-Half)..(Half - 1)
        BY <1>1, <3>2, <3>4, <3>5, <3>7
    <3> QED
        BY <2>2, <3>1, <3>8, RangesKnown
  <2> QED
      BY <1>1, <2>3, <2>4
<1> QED
    BY <1>2, <1>3, <1>4 DEF IntegerOps

LEMMA ShiftRange ==
    ASSUME NEW op \in Shifts, NEW x \in ComputedOf("INTEGER"), NEW n \in Element
    PROVE  ShiftValue(op, x, n) \in ComputedOf("INTEGER")
<1>1. x \in Int /\ -Half <= x /\ x < Half /\ Half \in Nat
    BY RangesKnown
<1>2. 2^n \in Nat \ {0}
  <2>1. n \in Nat /\ n <= IntBits + CIntBits
      BY WidthAssumption DEF Element
  <2> QED
      BY <2>1, PowersGrow
<1>3. CASE op = "LSL"
  <2>1. x * 2^n \in Int
      BY <1>1, <1>2
  <2>2. Wrap(x * 2^n, Promoted(IntBits)) \in ComputedOf("INTEGER")
      BY <2>1, WrapRange, RangesKnown DEF Half
  <2> QED
      BY <1>3, <2>2 DEF ShiftValue, LSL
<1>4. CASE op = "ASR"
  <2>1. x \div 2^n \in (-Half)..(Half - 1)
      BY <1>1, <1>2, ShiftedWithin
  <2> QED
      BY <1>4, <2>1, RangesKnown DEF ShiftValue, ASR
<1>5. CASE op = "ROR"
  <2> DEFINE mask == Shifted(BitsOf(x), -n) \cup Shifted(BitsOf(x), IntBits - n)
  <2>1. ROR(x, n) = Wrap(Unsigned(mask), IntBits)
      BY DEF ROR
  <2> HIDE DEF mask
  <2>2. Wrap(Unsigned(mask), IntBits) \in Integer
      BY UnsignedNumber, WrapRange, RangesKnown DEF Widths
  <2> QED
      BY <1>5, <2>1, <2>2, RangesKnown DEF ShiftValue
<1> QED
    BY <1>3, <1>4, <1>5 DEF Shifts

(* The sets of operations on sets are of the elements of the operands.     *)
LEMMA SetRange ==
    ASSUME NEW op \in SetOps, NEW s \in ComputedOf("SET"), NEW t \in ComputedOf("SET"), NEW bits
    PROVE  SetValue(op, s, t, bits) \in ComputedOf("SET")
<1>1. s \in SUBSET (0..(Promoted(IntBits) - 1)) /\ t \in SUBSET (0..(Promoted(IntBits) - 1))
    BY RangesKnown
<1>2. SetValue(op, s, t, bits) \in SUBSET (0..(Promoted(IntBits) - 1))
    BY <1>1 DEF SetValue, SetOps
<1> QED
    BY <1>2, RangesKnown

-----------------------------------------------------------------------------
(* Expressions of values in range.                                         *)

(* What an expression computes, if anything, is in the range of its form.  *)
RangeOf(e) == IF e.form = "expression" THEN ComputedOf(e.type) ELSE ValuesOf(e.type)
InRange(e) ==
    /\ e.type \in OberonTypes /\ e.bits \in Widths
    /\ e.val # Undefined => e.val \in RangeOf(e)

LEMMA RangeComputed ==
    ASSUME NEW e, InRange(e), e.val # Undefined
    PROVE  e.type \in OberonTypes /\ e.bits \in Widths /\ e.val \in ComputedOf(e.type)
BY ValuesComputed DEF InRange, RangeOf

LEMMA ExpRange ==
    ASSUME NEW type \in OberonTypes, NEW form, NEW val, NEW bits \in Widths, NEW exact,
           val # Undefined =>
              val \in IF form = "expression" THEN ComputedOf(type) ELSE ValuesOf(type)
    PROVE  InRange(Exp(type, form, val, bits, exact))
<1> DEFINE e == Exp(type, form, val, bits, exact)
<1>1. e.type = type /\ e.form = form /\ e.val = val /\ e.bits = bits
    BY ExpFields
<1> HIDE DEF e
<1>2. InRange(e)
    BY <1>1 DEF InRange, RangeOf
<1> QED
    BY <1>2 DEF e

LEMMA KeptRange ==
    ASSUME NEW type \in OberonTypes, NEW val, val # Undefined => val \in ComputedOf(type),
           Kept(type, val) # Undefined
    PROVE  Kept(type, val) \in ValuesOf(type)
<1>1. val # Undefined /\ Kept(type, val) = Converted(type, val)
    BY DEF Kept
<1> QED
    BY <1>1, ConvertedRange

LEMMA ConstantRange ==
    ASSUME NEW type \in OberonTypes, NEW val, NEW exact, NEW w \in Widths,
           val # Undefined => val \in ComputedOf(type)
    PROVE  /\ InRange(ConstantOf(type, val, exact))
           /\ InRange([ConstantOf(type, val, exact) EXCEPT !.bits = w])
<1> DEFINE v == Kept(type, val)
           bits == LiteralBits(type, v)
<1>1. v # Undefined => v \in ValuesOf(type)
    BY KeptRange
<1>2. bits \in Widths
    BY WidthsKnown
<1>3. ConstantOf(type, val, exact) = Exp(type, "constant", v, bits, exact)
    BY DEF ConstantOf
<1> HIDE DEF v, bits
<1>4. [ConstantOf(type, val, exact) EXCEPT !.bits = w] = Exp(type, "constant", v, w, exact)
    BY <1>3 DEF Exp
<1>5. InRange(Exp(type, "constant", v, bits, exact)) /\ InRange(Exp(type, "constant", v, w, exact))
    BY <1>1, <1>2, ExpRange
<1> QED
    BY <1>3, <1>4, <1>5

LEMMA VariableRange ==
    ASSUME NEW type \in OberonTypes, NEW val, NEW exact, val # Undefined => val \in ValuesOf(type)
    PROVE  InRange(VariableOf(type, val, exact))
<1>1. VariableBits(type) \in Widths
    BY WidthsKnown
<1> QED
    BY <1>1, ExpRange DEF VariableOf

(* An operand of a known value.                                            *)
LEMMA KnownRange ==
    ASSUME NEW type \in OberonTypes, NEW val \in ValuesOf(type), NEW exact, Kept(type, val) = val,
           NEW o, o \in {ConstantOf(type, val, exact), VariableOf(type, val, exact)}
    PROVE  InRange(o) /\ o.val \in ComputedOf(o.type)
<1>1. val \in ComputedOf(type) /\ CIntBits \in Widths
    BY ValuesComputed DEF Widths
<1>2. InRange(ConstantOf(type, val, exact)) /\ InRange(VariableOf(type, val, exact))
    BY <1>1, ConstantRange, VariableRange
<1>3. o.val = val /\ o.type = type
    BY ExpFields DEF ConstantOf, VariableOf
<1> QED
    BY <1>1, <1>2, <1>3

LEMMA OperandRange ==
    ASSUME NEW o \in Operand
    PROVE  InRange(o) /\ o.val \in ComputedOf(o.type)
<1>1. ASSUME NEW i \in Integer, o \in {ConstantOf("INTEGER", i, i), VariableOf("INTEGER", i, i)}
      PROVE  InRange(o) /\ o.val \in ComputedOf(o.type)
  <2>1. i \in ValuesOf("INTEGER") /\ Kept("INTEGER", i) = i
      BY KeptExact DEF ValuesOf
  <2> QED
      BY <1>1, <2>1, KnownRange DEF OberonTypes
<1>2. ASSUME NEW i \in 0..ByteMax, o = VariableOf("BYTE", i, i)
      PROVE  InRange(o) /\ o.val \in ComputedOf(o.type)
  <2>1. i \in ValuesOf("BYTE") /\ Kept("BYTE", i) = i
      BY KeptExact DEF ValuesOf
  <2> QED
      BY <1>2, <2>1, KnownRange DEF OberonTypes
<1>3. ASSUME NEW s \in SUBSET Element, o \in {ConstantOf("SET", s, s), VariableOf("SET", s, s)}
      PROVE  InRange(o) /\ o.val \in ComputedOf(o.type)
  <2>1. s \in ValuesOf("SET") /\ Kept("SET", s) = s
      BY KeptExact DEF ValuesOf
  <2> QED
      BY <1>3, <2>1, KnownRange DEF OberonTypes
<1>4. ASSUME NEW x \in BOOLEAN, o \in {ConstantOf("BOOLEAN", x, x), VariableOf("BOOLEAN", x, x)}
      PROVE  InRange(o) /\ o.val \in ComputedOf(o.type)
  <2>1. x \in ValuesOf("BOOLEAN") /\ Kept("BOOLEAN", x) = x
      BY KeptExact DEF ValuesOf
  <2> QED
      BY <1>4, <2>1, KnownRange DEF OberonTypes
<1>5. ASSUME NEW c \in Char, o = VariableOf("CHAR", Signed(c), c)
      PROVE  InRange(o) /\ o.val \in ComputedOf(o.type)
  <2>1. Signed(c) \in ValuesOf("CHAR") /\ Kept("CHAR", Signed(c)) = Signed(c)
      BY CharactersRange, KeptExact
  <2> QED
      BY <1>5, <2>1, KnownRange DEF OberonTypes
<1>6. ASSUME NEW c \in Char, o = Exp("CHAR", "string", Signed(c), CIntBits, c)
      PROVE  InRange(o) /\ o.val \in ComputedOf(o.type)
  <2>1. Signed(c) \in ValuesOf("CHAR") /\ Signed(c) \in ComputedOf("CHAR") /\ CIntBits \in Widths
      BY CharactersRange, RangesKnown DEF Widths
  <2>2. InRange(o)
      BY <1>6, <2>1, ExpRange DEF OberonTypes
  <2>3. o.val = Signed(c) /\ o.type = "CHAR"
      BY <1>6, ExpFields
  <2> QED
      BY <2>1, <2>2, <2>3
<1>7. {} \in SUBSET Element
    OBVIOUS
<1> HIDE DEF Integer
<1> QED
    BY <1>1, <1>2, <1>3, <1>4, <1>5, <1>6, <1>7 DEF Operand

(* The result of an operation is in the range of its form if what was      *)
(* computed is among what is computed.                                     *)
LEMMA BothRange ==
    ASSUME NEW type \in OberonTypes, NEW a, NEW b, NEW val, NEW exact, NEW w \in Widths,
           a.bits \in Widths, b.bits \in Widths,
           val # Undefined => val \in ComputedOf(type)
    PROVE  /\ InRange(Both(type, a, b, val, exact))
           /\ InRange([Both(type, a, b, val, exact) EXCEPT !.bits = w])
<1>1. CASE IsConst(a) /\ IsConst(b)
    BY <1>1, ConstantRange DEF Both
<1>2. CASE ~(IsConst(a) /\ IsConst(b))
  <2> DEFINE bits == IF type = "SET" \/ type = "INTEGER" THEN Common(a.bits, b.bits) ELSE CIntBits
  <2>1. bits \in Widths
      BY WidthsKnown DEF Widths
  <2>2. Both(type, a, b, val, exact) = Exp(type, "expression", val, bits, exact)
      BY <1>2 DEF Both
  <2> HIDE DEF bits
  <2>3. [Both(type, a, b, val, exact) EXCEPT !.bits = w] = Exp(type, "expression", val, w, exact)
      BY <2>2 DEF Exp
  <2>4. /\ InRange(Exp(type, "expression", val, bits, exact))
        /\ InRange(Exp(type, "expression", val, w, exact))
      BY <2>1, ExpRange
  <2> QED
      BY <2>2, <2>3, <2>4
<1> QED
    BY <1>1, <1>2

(* Every operation with two operands, of whatever widths.                  *)
LEMMA NodeRange ==
    ASSUME NEW op \in BinaryOps, NEW a, NEW b, Accepts(op, a, b),
           a.type \in OberonTypes, a.bits \in Widths, a.val \in ComputedOf(a.type),
           b.type \in OberonTypes, b.bits \in Widths, b.val \in ComputedOf(b.type)
    PROVE  InRange(Node(op, a, b))
<1> DEFINE w == Promoted(IntBits)
<1>1. w \in Widths /\ IntBits \in Widths
    BY RangesKnown DEF Widths
<1>2. CASE ~Defined(op, a, b)
  <2>1. Node(op, a, b) = Both("INTEGER", a, b, Undefined, Undefined)
      BY <1>2 DEF Node
  <2>2. InRange(Both("INTEGER", a, b, Undefined, Undefined))
      BY <1>1, BothRange DEF OberonTypes
  <2> QED
      BY <2>1, <2>2
<1>3. CASE Defined(op, a, b)
  <2>1. ASSUME op \in IntegerOps, IsInteger(a)
        PROVE  InRange(Node(op, a, b))
    <3> DEFINE val == IntegerValue(op, a.val, b.val, Width(a, b))
    <3>1. Node(op, a, b) = Both("INTEGER", a, b, val, IntegerExact(op, a.exact, b.exact))
        BY <1>3, <2>1 DEF Node, IntegerOps, Shifts, SetOps, Relations, IsInteger, IntegerTypes
    <3>2. b.type \in IntegerTypes
        BY <2>1 DEF Accepts, ExpressionCompatible, OberonTypes, IntegerOps, IsInteger, IntegerTypes,
                    Shifts
    <3>3. a.val \in ComputedOf("INTEGER") /\ b.val \in ComputedOf("INTEGER")
        BY <2>1, <3>2, RangesKnown DEF IsInteger, IntegerTypes
    <3>4. op \in {"DIV", "MOD"} => b.val > 0
        BY <1>3 DEF Defined
    <3>5. val # Undefined => val \in ComputedOf("INTEGER")
        BY <2>1, <3>3, <3>4, IntegerRange
    <3> HIDE DEF val
    <3>6. InRange(Both("INTEGER", a, b, val, IntegerExact(op, a.exact, b.exact)))
        BY <1>1, <3>5, BothRange DEF OberonTypes
    <3> QED
        BY <3>1, <3>6
  <2>2. ASSUME op \in Shifts
        PROVE  InRange(Node(op, a, b))
    <3> DEFINE val == ShiftValue(op, a.val, b.val)
               exact == ShiftExact(op, a.exact, b.exact)
    <3>1. Node(op, a, b) = [Both("INTEGER", a, b, val, exact) EXCEPT !.bits = w]
        BY <1>3, <2>2 DEF Node, IntegerOps, Shifts, SetOps, Relations
    <3>2. a.val \in ComputedOf("INTEGER")
      <4>1. a.type \in IntegerTypes
          BY <2>2 DEF Accepts, ExpressionCompatible, IsInteger, IntegerOps, SetOps, Relations, Shifts
      <4> QED
          BY <4>1, RangesKnown DEF IntegerTypes
    <3>3. b.val \in Element
        BY <1>3, <2>2 DEF Defined, ShiftDefined
    <3>4. val \in ComputedOf("INTEGER")
        BY <2>2, <3>2, <3>3, ShiftRange
    <3> HIDE DEF val, exact, w
    <3>5. InRange([Both("INTEGER", a, b, val, exact) EXCEPT !.bits = w])
        BY <1>1, <3>4, BothRange DEF OberonTypes
    <3> QED
        BY <3>1, <3>5
  <2>3. ASSUME op \in SetOps, a.type = "SET"
        PROVE  InRange(Node(op, a, b))
    <3> DEFINE val == SetValue(op, a.val, b.val, IF IsConst(a) /\ IsConst(b) THEN IntBits ELSE b.bits)
               exact == SetExact(op, a.exact, b.exact)
    <3>1. Node(op, a, b) = Both("SET", a, b, val, exact)
        BY <1>3, <2>3 DEF Node, IntegerOps, Shifts, SetOps, Relations, IsInteger, IntegerTypes
    <3>2. b.type = "SET"
        BY <2>3 DEF Accepts, ExpressionCompatible, OberonTypes, SetOps, IsInteger, IntegerTypes,
                    Shifts
    <3>3. val \in ComputedOf("SET")
        BY <2>3, <3>2, SetRange
    <3> HIDE DEF val, exact
    <3>4. InRange(Both("SET", a, b, val, exact))
        BY <1>1, <3>3, BothRange DEF OberonTypes
    <3> QED
        BY <3>1, <3>4
  <2>4. ASSUME op = "range"
        PROVE  InRange(Node(op, a, b))
    <3> DEFINE val == RANGE(a.val, b.val)
               exact == a.exact..b.exact
    <3>1. Node(op, a, b) = [Both("SET", a, b, val, exact) EXCEPT !.bits = IntBits]
        BY <1>3, <2>4 DEF Node, IntegerOps, Shifts, SetOps, Relations
    <3>2. val \in ValuesOf("SET")
        BY DEF RANGE, Shifted, ValuesOf
    <3>3. val \in ComputedOf("SET")
        BY <3>2, ValuesComputed DEF OberonTypes
    <3> HIDE DEF val, exact
    <3>4. InRange([Both("SET", a, b, val, exact) EXCEPT !.bits = IntBits])
        BY <1>1, <3>3, BothRange DEF OberonTypes
    <3> QED
        BY <3>1, <3>4
  <2>5. ASSUME op \in {"IN", "&", "OR"} \cup Relations
        PROVE  InRange(Node(op, a, b))
    <3>1. \E val, exact : val \in BOOLEAN /\ Node(op, a, b) = Both("BOOLEAN", a, b, val, exact)
      <4>1. CASE op = "IN"
        <5> DEFINE val == a.val \in b.val
                   exact == a.exact \in b.exact
        <5>1. Node(op, a, b) = Both("BOOLEAN", a, b, val, exact)
            BY <1>3, <4>1 DEF Node, IntegerOps, Shifts, SetOps, Relations
        <5>2. val \in BOOLEAN
            OBVIOUS
        <5> HIDE DEF val, exact
        <5> QED
            BY <5>1, <5>2
      <4>2. CASE op \in Relations /\ a.type = "CHAR"
        <5>1. Node(op, a, b)
                 = Both("BOOLEAN", a, b, CharsHold(op, a, b), Holds(op, a.exact, b.exact))
            BY <1>3, <4>2 DEF Node, IntegerOps, Shifts, SetOps, Relations
        <5>2. CharsHold(op, a, b) \in BOOLEAN
            BY <4>2, HoldsBoolean DEF CharsHold
        <5> QED
            BY <5>1, <5>2
      <4>3. CASE op \in Relations /\ a.type # "CHAR"
        <5>1. Node(op, a, b)
                 = Both("BOOLEAN", a, b, Holds(op, a.val, b.val), Holds(op, a.exact, b.exact))
            BY <1>3, <4>3 DEF Node, IntegerOps, Shifts, SetOps, Relations
        <5>2. Holds(op, a.val, b.val) \in BOOLEAN
            BY <4>3, HoldsBoolean
        <5> QED
            BY <5>1, <5>2
      <4>4. CASE op = "&"
        <5>1. Node(op, a, b) = Both("BOOLEAN", a, b, a.val /\ b.val, a.exact /\ b.exact)
            BY <1>3, <4>4 DEF Node, IntegerOps, Shifts, SetOps, Relations
        <5>2. (a.val /\ b.val) \in BOOLEAN
            OBVIOUS
        <5> QED
            BY <5>1, <5>2
      <4>5. CASE op = "OR"
        <5>1. Node(op, a, b) = Both("BOOLEAN", a, b, a.val \/ b.val, a.exact \/ b.exact)
            BY <1>3, <4>5 DEF Node, IntegerOps, Shifts, SetOps, Relations
        <5>2. (a.val \/ b.val) \in BOOLEAN
            OBVIOUS
        <5> QED
            BY <5>1, <5>2
      <4> QED
          BY <2>5, <4>1, <4>2, <4>3, <4>4, <4>5
    <3>2. PICK val, exact : val \in BOOLEAN /\ Node(op, a, b) = Both("BOOLEAN", a, b, val, exact)
        BY <3>1
    <3>3. val \in ComputedOf("BOOLEAN")
        BY <3>2, RangesKnown
    <3>4. InRange(Both("BOOLEAN", a, b, val, exact))
        BY <1>1, <3>3, BothRange DEF OberonTypes
    <3> QED
        BY <3>2, <3>4
  <2>6. \/ op \in IntegerOps /\ IsInteger(a)
        \/ op \in SetOps /\ a.type = "SET"
        \/ op \in Shifts \/ op = "range"
        \/ op \in {"IN", "&", "OR"} \cup Relations
      BY DEF Accepts, ExpressionCompatible, BinaryOps, IsInteger, IntegerTypes, IntegerOps, SetOps,
             Relations, Shifts
  <2> QED
      BY <2>1, <2>2, <2>3, <2>4, <2>5, <2>6
<1> QED
    BY <1>2, <1>3

(* Functions of one operand, and the signs.                                *)
LEMMA UnaryValueRange ==
    ASSUME NEW op \in UnaryOps, NEW a, UnaryAccepts(op, a),
           a.type \in OberonTypes, a.bits \in Widths, a.val \in ComputedOf(a.type),
           UnaryValue(op, a) # Undefined
    PROVE  UnaryType(op, a) \in OberonTypes /\ UnaryValue(op, a) \in ComputedOf(UnaryType(op, a))
<1> DEFINE w == IF IsConst(a) THEN Promoted(IntBits) ELSE Promoted(a.bits)
<1>1. w \in Nat /\ w <= Promoted(IntBits) /\ IntBits <= Promoted(IntBits) /\ CIntBits <= Promoted(IntBits)
      /\ IntBits \in Nat /\ CIntBits \in Nat /\ Promoted(IntBits) \in Nat
    BY WidthAssumption, CharAssumption DEF Promoted, Widths
<1>2. CASE op = "minus"
  <2>1. CASE a.type = "SET"
    <3>1. UnaryType(op, a) = "SET"
        BY <1>2, <2>1 DEF UnaryType
    <3>2. UnaryValue(op, a) = IF IsConst(a) THEN Element \ a.val ELSE (0..(w - 1)) \ a.val
        BY <1>2, <2>1 DEF UnaryValue, IsInteger, IntegerTypes
    <3> HIDE DEF w
    <3>3. Element \subseteq 0..(Promoted(IntBits) - 1) /\ 0..(w - 1) \subseteq 0..(Promoted(IntBits) - 1)
        BY <1>1 DEF Element
    <3>4. UnaryValue(op, a) \in SUBSET (0..(Promoted(IntBits) - 1))
        BY <3>2, <3>3
    <3> QED
        BY <3>1, <3>4, RangesKnown DEF OberonTypes
  <2>2. CASE a.type # "SET"
    <3>1. UnaryType(op, a) = "INTEGER"
        BY <1>2, <2>2 DEF UnaryType
    <3>2. IsInteger(a)
        BY <1>2, <2>2 DEF UnaryAccepts, ExpressionCompatible, IsInteger, IntegerTypes, Relations
    <3>3. UnaryValue(op, a) = OrUndefined(-a.val, w)
        BY <1>2, <2>2, <3>2 DEF UnaryValue
    <3> QED
        BY <3>1, <3>3, DefinedRange DEF OberonTypes
  <2> QED
      BY <2>1, <2>2
<1>3. CASE op \in {"~", "ODD"}
  <2>1. UnaryType(op, a) = "BOOLEAN"
      BY <1>3 DEF UnaryType
  <2>2. UnaryValue(op, a) \in BOOLEAN
    <3>1. CASE op = "~"
      <4>1. UnaryValue(op, a) = ~a.val
          BY <3>1 DEF UnaryValue
      <4>2. (~a.val) \in BOOLEAN
          OBVIOUS
      <4> QED
          BY <4>1, <4>2
    <3>2. CASE op = "ODD"
        BY <3>2 DEF UnaryValue
    <3> QED
        BY <1>3, <3>1, <3>2
  <2> QED
      BY <2>1, <2>2, RangesKnown DEF OberonTypes
<1>4. CASE op = "ABS"
  <2>1. UnaryType(op, a) = a.type /\ a.type \in {"INTEGER", "BYTE"}
      BY <1>4 DEF UnaryType, UnaryAccepts, IsInteger, IntegerTypes
  <2>2. UnaryValue(op, a) = IF a.val >= 0 THEN a.val ELSE OrUndefined(-a.val, Promoted(IntBits))
      BY <1>4 DEF UnaryValue
  <2>3. UnaryValue(op, a) \in ComputedOf("INTEGER")
    <3>1. a.val \in ComputedOf("INTEGER")
        BY <2>1, RangesKnown
    <3> QED
        BY <2>2, <3>1, DefinedRange
  <2> QED
      BY <2>1, <2>3, RangesKnown DEF OberonTypes
<1>5. CASE op = "ORD"
  <2>1. UnaryType(op, a) = "INTEGER" /\ a.type \in {"CHAR", "BOOLEAN", "SET"}
      BY <1>5 DEF UnaryType, UnaryAccepts
  <2>2. UnaryValue(op, a) \in ComputedOf("INTEGER")
    <3>1. CASE a.type = "CHAR"
      <4>1. a.val \in Int
          BY <3>1, RangesKnown, CharactersRange, Halves
      <4>2. 2^CharBits \in Nat \ {0}
          BY CharactersRange, Halves
      <4>3. Ordinal(a.val) \in 0..ByteMax
          BY <4>1, <4>2 DEF Ordinal, ByteMax
      <4>4. UnaryValue(op, a) = Ordinal(a.val)
          BY <1>5, <3>1 DEF UnaryValue
      <4> QED
          BY <4>3, <4>4, RangesKnown
    <3>2. CASE a.type = "BOOLEAN"
      <4>1. UnaryValue(op, a) = IF a.val THEN 1 ELSE 0
          BY <1>5, <3>2 DEF UnaryValue
      <4>2. UnaryValue(op, a) \in 0..ByteMax
          BY <4>1, RangesKnown
      <4> QED
          BY <4>2, RangesKnown
    <3>3. CASE a.type = "SET"
      <4>1. UnaryValue(op, a) = Wrap(Unsigned(a.val), IntBits)
          BY <1>5, <3>3 DEF UnaryValue
      <4>2. Wrap(Unsigned(a.val), IntBits) \in Integer
          BY UnsignedNumber, WrapRange, RangesKnown DEF Widths
      <4> QED
          BY <4>1, <4>2, RangesKnown
    <3> QED
        BY <2>1, <3>1, <3>2, <3>3
  <2> QED
      BY <2>1, <2>2 DEF OberonTypes
<1>6. CASE op = "CHR"
  <2>1. UnaryType(op, a) = "CHAR" /\ UnaryValue(op, a) = Wrap(a.val, CharBits)
      BY <1>6 DEF UnaryType, UnaryValue
  <2>2. a.val \in Int
    <3>1. a.type \in {"INTEGER", "BYTE"}
        BY <1>6 DEF UnaryAccepts, IsInteger, IntegerTypes
    <3> QED
        BY <3>1, RangesKnown
  <2>3. Wrap(a.val, CharBits) \in ValuesOf("CHAR")
      BY <2>2, WrapRange, CharactersRange DEF Widths
  <2> QED
      BY <2>1, <2>3, RangesKnown DEF OberonTypes
<1>7. CASE op = "element"
  <2> DEFINE width == IF IsConst(a) THEN IntBits ELSE CIntBits
  <2>1. UnaryType(op, a) = "SET" /\ UnaryValue(op, a) = Single(a.val, width)
      BY <1>7 DEF UnaryType, UnaryValue
  <2>2. width \in Nat /\ width <= Promoted(IntBits)
      BY <1>1
  <2> HIDE DEF width
  <2>3. Single(a.val, width) \in SUBSET (0..(Promoted(IntBits) - 1))
      BY <1>1, <2>1, <2>2 DEF Single
  <2> QED
      BY <2>1, <2>3, RangesKnown DEF OberonTypes
<1> QED
    BY <1>2, <1>3, <1>4, <1>5, <1>6, <1>7 DEF UnaryOps

LEMMA UnaryRange ==
    ASSUME NEW op \in UnaryOps, NEW a, UnaryAccepts(op, a),
           a.type \in OberonTypes, a.bits \in Widths, a.val \in ComputedOf(a.type)
    PROVE  InRange(UnaryNode(op, a))
<1> DEFINE type == UnaryType(op, a)
           val == UnaryValue(op, a)
           exact == UnaryExact(op, a)
<1>1. type \in OberonTypes
  <2>1. op = "ABS" => a.type \in {"INTEGER", "BYTE"}
      BY DEF UnaryAccepts, IsInteger, IntegerTypes
  <2> QED
      BY <2>1 DEF UnaryType, UnaryOps, OberonTypes
<1>2. val # Undefined => val \in ComputedOf(type)
    BY UnaryValueRange
<1>3. CASE UnaryFolds(op, a)
  <2>1. UnaryNode(op, a) = ConstantOf(type, val, exact)
      BY <1>3 DEF UnaryNode
  <2>2. IntBits \in Widths
      BY DEF Widths
  <2> HIDE DEF type, val, exact
  <2> QED
      BY <1>1, <1>2, <2>1, <2>2, ConstantRange
<1>4. CASE ~UnaryFolds(op, a)
  <2> DEFINE bits == CASE op \in {"ABS", "ORD"} -> Promoted(IntBits)
                       [] op = "CHR" -> CharBits
                       [] op = "minus" -> Promoted(a.bits)
                       [] OTHER -> CIntBits
  <2>1. UnaryNode(op, a) = Exp(type, "expression", val, bits, exact)
      BY <1>4 DEF UnaryNode
  <2>2. bits \in Widths
    <3>1. /\ Promoted(IntBits) \in Widths /\ CharBits \in Widths /\ CIntBits \in Widths
          /\ Promoted(a.bits) \in Widths
        BY WidthsKnown DEF Widths
    <3> QED
        BY <3>1
  <2> HIDE DEF type, val, exact, bits
  <2> QED
      BY <1>1, <1>2, <2>1, <2>2, ExpRange
<1> QED
    BY <1>3, <1>4

(* What the predefined procedures store in a variable.                     *)
LEMMA UpdateRange ==
    ASSUME InRange(exp), exp.form = "variable", exp.val # Undefined,
           NEW op \in {"INC", "DEC", "INCL", "EXCL"}, NEW x,
           IF op \in {"INC", "DEC"} THEN IsInteger(exp) ELSE exp.type = "SET",
           op \in {"INCL", "EXCL"} => x.val \in Element
    PROVE  InRange(Update(op, x))
<1>1. exp.type \in OberonTypes /\ exp.val \in ValuesOf(exp.type)
    BY DEF InRange, RangeOf
<1>2. CASE op \in {"INC", "DEC"}
  <2>1. PICK sum, exact :
           Update(op, x)
              = VariableOf(exp.type, Kept(exp.type, OrUndefined(sum, Promoted(IntBits))), exact)
      BY <1>2 DEF Update
  <2> DEFINE val == OrUndefined(sum, Promoted(IntBits))
  <2>2. exp.type \in {"INTEGER", "BYTE"}
      BY <1>2 DEF IsInteger, IntegerTypes
  <2>3. val # Undefined => val \in ComputedOf(exp.type)
      BY <2>2, DefinedRange, RangesKnown
  <2> HIDE DEF val
  <2>4. Kept(exp.type, val) # Undefined => Kept(exp.type, val) \in ValuesOf(exp.type)
      BY <1>1, <2>3, KeptRange
  <2>5. InRange(VariableOf(exp.type, Kept(exp.type, val), exact))
      BY <1>1, <2>4, VariableRange
  <2> QED
      BY <2>1, <2>5 DEF val
<1>3. CASE op \in {"INCL", "EXCL"}
  <2>1. exp.val \in SUBSET Element
      BY <1>1, <1>3 DEF ValuesOf
  <2> DEFINE val == IF op = "INCL" THEN INCL(exp.val, x.val) ELSE EXCL(exp.val, x.val)
  <2>2. PICK exact : Update(op, x) = VariableOf("SET", val, exact)
      BY <1>3 DEF Update
  <2>3. ASSUME val # Undefined
        PROVE  val \in ValuesOf("SET")
    <3>1. x.val \in Element
        BY <1>3
    <3>2. CASE op = "INCL"
      <4>1. INCL(exp.val, x.val) # Undefined
          BY <2>3, <3>2
      <4>2. INCL(exp.val, x.val) \in SUBSET Element
          BY <2>1, <3>1, <4>1 DEF INCL
      <4> QED
          BY <3>2, <4>2 DEF ValuesOf
    <3>3. CASE op = "EXCL"
        BY <2>1, <3>3 DEF EXCL, ValuesOf
    <3> QED
        BY <1>3, <3>2, <3>3
  <2> HIDE DEF val
  <2>4. InRange(VariableOf("SET", val, exact))
      BY <2>3, VariableRange DEF OberonTypes
  <2> QED
      BY <2>2, <2>4
<1> QED
    BY <1>2, <1>3

(* The inductive invariant.                                                *)
ExpressionInRange ==
    /\ InRange(exp) /\ reader \in {"reads", "refused", "crashed"} /\ warned \in BOOLEAN

LEMMA OperationInRange ==
    ASSUME ExpressionInRange, NEW op \in BinaryOps, Operation(op)
    PROVE  ExpressionInRange'
<1>1. exp.val # Undefined
    BY DEF Operation, Operates
<1>2. PICK other \in Operand :
         \E operands \in {<<exp, other>>, <<other, exp>>} :
            LET a == operands[1]
                b == operands[2]
            IN  /\ Accepts(op, a, b)
                /\ warned' = Warning(op, a, b)
                /\ exp' = Node(op, a, b)
                /\ reader' \in {"reads", "refused", "crashed"}
  <2> HIDE DEF Operand
  <2> QED
      BY DEF Operation
<1>3. PICK operands \in {<<exp, other>>, <<other, exp>>} :
         /\ Accepts(op, operands[1], operands[2])
         /\ warned' = Warning(op, operands[1], operands[2])
         /\ exp' = Node(op, operands[1], operands[2])
         /\ reader' \in {"reads", "refused", "crashed"}
    BY <1>2
<1> DEFINE a == operands[1]
           b == operands[2]
<1>4. {a, b} = {exp, other}
    OBVIOUS
<1> HIDE DEF a, b
<1>5. /\ exp.type \in OberonTypes /\ exp.bits \in Widths /\ exp.val \in ComputedOf(exp.type)
      /\ other.type \in OberonTypes /\ other.bits \in Widths /\ other.val \in ComputedOf(other.type)
  <2>1. InRange(other) /\ other.val \in ComputedOf(other.type)
      BY OperandRange
  <2> QED
      BY <1>1, <2>1, RangeComputed DEF ExpressionInRange, InRange
<1>6. /\ a.type \in OberonTypes /\ a.bits \in Widths /\ a.val \in ComputedOf(a.type)
      /\ b.type \in OberonTypes /\ b.bits \in Widths /\ b.val \in ComputedOf(b.type)
    BY <1>4, <1>5
<1>7. InRange(Node(op, a, b))
    BY <1>3, <1>6, NodeRange DEF a, b
<1>8. Warning(op, a, b) \in BOOLEAN
    BY DEF Warning
<1>9. exp' = Node(op, a, b) /\ warned' = Warning(op, a, b)
    BY <1>3 DEF a, b
<1>10. InRange(exp')
    BY <1>7, <1>9
<1> QED
    BY <1>3, <1>8, <1>9, <1>10 DEF ExpressionInRange, InRange, RangeOf

LEMMA UnaryOperationInRange ==
    ASSUME ExpressionInRange, NEW op \in UnaryOps, UnaryOperation(op)
    PROVE  ExpressionInRange'
<1>1. exp.val # Undefined /\ UnaryAccepts(op, exp) /\ exp' = UnaryNode(op, exp)
      /\ warned' = UnaryWarning(op, exp) /\ reader' \in {"reads", "refused"}
    BY DEF UnaryOperation, Operates
<1>2. exp.type \in OberonTypes /\ exp.bits \in Widths /\ exp.val \in ComputedOf(exp.type)
    BY <1>1, RangeComputed DEF ExpressionInRange
<1>3. InRange(exp')
    BY <1>1, <1>2, UnaryRange
<1>4. UnaryWarning(op, exp) \in BOOLEAN
    BY DEF UnaryWarning
<1> QED
    BY <1>1, <1>3, <1>4 DEF ExpressionInRange, InRange, RangeOf

LEMMA AssignmentInRange ==
    ASSUME ExpressionInRange, NEW type \in OberonTypes, Assignment(type)
    PROVE  ExpressionInRange'
<1>1. /\ exp.val # Undefined /\ Assignable(type) /\ warned' = FALSE
      /\ exp' = VariableOf(type, Converted(type, exp.val), exp.exact)
      /\ reader' \in {"reads", "refused"}
    BY DEF Assignment, Operates
<1>2. exp.val \in ComputedOf(exp.type)
    BY <1>1, RangeComputed DEF ExpressionInRange
<1>3. \/ exp.type = type
      \/ type = "INTEGER" /\ exp.type = "BYTE"
      \/ type = "BYTE" /\ exp.type = "INTEGER"
    BY <1>1 DEF Assignable
<1>4. Converted(type, exp.val) \in ValuesOf(type)
    BY <1>2, <1>3, ConvertedRange
<1>5. InRange(exp')
    BY <1>1, <1>4, VariableRange
<1> QED
    BY <1>1, <1>5 DEF ExpressionInRange, InRange, RangeOf

LEMMA ProcedureInRange ==
    ASSUME ExpressionInRange, NEW op \in {"INC", "DEC", "INCL", "EXCL"}, ProperProcedure(op)
    PROVE  ExpressionInRange'
<1>1. /\ exp.val # Undefined /\ exp.form = "variable"
      /\ IF op \in {"INC", "DEC"} THEN IsInteger(exp) ELSE exp.type = "SET"
    BY DEF ProperProcedure, Operates
<1>2. PICK x :
         /\ warned' = (op \in {"INCL", "EXCL"} /\ IsConst(x) /\ x.val >= IntBits)
         /\ exp' = IF op \in {"INCL", "EXCL"} /\ x.val \notin Element
                   THEN VariableOf("SET", Undefined, Undefined) ELSE Update(op, x)
         /\ reader' \in {"reads", "refused"}
  <2> HIDE DEF Operand
  <2> QED
      BY DEF ProperProcedure
<1>3. CASE op \in {"INCL", "EXCL"} /\ x.val \notin Element
  <2>1. InRange(VariableOf("SET", Undefined, Undefined))
      BY VariableRange DEF OberonTypes
  <2>2. InRange(exp')
      BY <1>2, <1>3, <2>1
  <2> QED
      BY <1>2, <2>2 DEF ExpressionInRange, InRange, RangeOf
<1>4. CASE ~(op \in {"INCL", "EXCL"} /\ x.val \notin Element)
  <2>1. InRange(Update(op, x))
      BY <1>1, <1>4, UpdateRange DEF ExpressionInRange
  <2>2. InRange(exp')
      BY <1>2, <1>4, <2>1
  <2> QED
      BY <1>2, <2>2 DEF ExpressionInRange, InRange, RangeOf
<1> QED
    BY <1>3, <1>4

(* ArithmeticInv: whatever the widths of INTEGER and of int, a constant or *)
(* a variable holds a value of its type, the compiler's constants being    *)
(* converted as the variables are, and what is computed in between has no  *)
(* bits but those of the wider of the two types.                           *)
THEOREM ValuesAreInRange == ArithmeticSpec => []ArithmeticInv
<1>1. ArithmeticInit => ExpressionInRange
  <2>1. FALSE \in ComputedOf("BOOLEAN") /\ IntBits \in Widths
      BY RangesKnown DEF Widths
  <2>2. InRange(ConstantOf("BOOLEAN", FALSE, FALSE))
      BY <2>1, ConstantRange DEF OberonTypes
  <2> QED
      BY <2>2 DEF ArithmeticInit, ExpressionInRange
<1>2. ExpressionInRange /\ [ArithmeticNext]_expVars => ExpressionInRange'
  <2> SUFFICES ASSUME ExpressionInRange, [ArithmeticNext]_expVars PROVE ExpressionInRange'
      OBVIOUS
  <2>1. CASE Factor
    <3>1. PICK o \in Operand : exp' = o
        BY <2>1 DEF Factor
    <3>2. InRange(exp')
        BY <3>1, OperandRange
    <3> QED
        BY <2>1, <3>2 DEF Factor, ExpressionInRange, InRange, RangeOf
  <2>2. ASSUME NEW op \in BinaryOps, Operation(op) PROVE ExpressionInRange'
      BY <2>2, OperationInRange
  <2>3. ASSUME NEW op \in UnaryOps, UnaryOperation(op) PROVE ExpressionInRange'
      BY <2>3, UnaryOperationInRange
  <2>4. ASSUME NEW type \in OberonTypes, Assignment(type) PROVE ExpressionInRange'
      BY <2>4, AssignmentInRange
  <2>5. ASSUME NEW op \in {"INC", "DEC", "INCL", "EXCL"}, ProperProcedure(op)
        PROVE  ExpressionInRange'
      BY <2>5, ProcedureInRange
  <2>6. CASE UNCHANGED expVars
      BY <2>6 DEF expVars, ExpressionInRange, InRange, RangeOf
  <2> QED
      BY <2>1, <2>2, <2>3, <2>4, <2>5, <2>6 DEF ArithmeticNext, BinaryOps, OberonTypes
<1>3. ExpressionInRange => ArithmeticInv
    BY DEF ExpressionInRange, InRange, RangeOf, ArithmeticInv
<1> QED
    BY <1>1, <1>2, <1>3, PTL DEF ArithmeticSpec

-----------------------------------------------------------------------------
(* The k-th dimension of a parameter or variable has the extent that it    *)
(* has in the object.                                                      *)
DimensionTrue(b, k) ==
    (IF b.type[k].len = Open THEN b.lens[k] ELSE b.type[k].len)
        = Extents(b.object)[Len(b.path) + k]

BaseTrue(b) ==
    /\ b.kind \in {"variable", "value", "var"}
    /\ b.object \in ArrayVar \union Literal
    /\ b.type \in DeclaredTypes
    /\ b.path \in Seq(Int)
    /\ Len(b.path) + Len(b.type) = Len(Extents(b.object))
    /\ \A k \in 1..Len(b.type) : DimensionTrue(b, k)

DesignatorTrue(e) ==
    /\ BaseTrue(e.base)
    /\ e.index \in Seq(Int)
    /\ Len(e.index) <= Len(e.base.type)

CallsInv ==
    /\ calls \in Seq({calls[c] : c \in DOMAIN calls})
    /\ \A c \in 1..Len(calls) : \A i \in DOMAIN calls[c] : BaseTrue(calls[c][i])
    /\ procValue \in [ProcedureVar -> Procedure \union {NoProcedure}]
    /\ \A g \in ProcedureVar :
          procValue[g] /= NoProcedure =>
              FormalParametersMatch(Formals[procValue[g]], VarFormals[g])

(* The conditions under which the lengths are true.                        *)
SameLengths == NamesDistinct /\ "short values" \notin ArrayUsage

-----------------------------------------------------------------------------
(* Types and their dimensions.                                             *)

(* The rest of a sequence, element by element.                             *)
LEMMA RestFact ==
    ASSUME NEW S, NEW s \in Seq(S), NEW k \in 0..Len(s)
    PROVE  /\ Rest(s, k) \in Seq(S)
           /\ Len(Rest(s, k)) = Len(s) - k
           /\ \A i \in 1..(Len(s) - k) : Rest(s, k)[i] = s[k + i]
<1>1. Len(s) \in Nat
    BY LenProperties
<1>2. \A i \in (k + 1)..Len(s) : s[i] \in S
    BY <1>1, ElementOfSeq
<1> QED
    BY <1>1, <1>2, SubSeqProperties DEF Rest

(* What is left behind n dimensions, and then behind k more.               *)
LEMMA RestOfRest ==
    ASSUME NEW S, NEW s \in Seq(S), NEW n \in 0..Len(s), NEW k \in 0..(Len(s) - n)
    PROVE  Rest(Rest(s, n), k) = Rest(s, n + k)
<1>1. Len(s) \in Nat
    BY LenProperties
<1>2. /\ Rest(s, n) \in Seq(S) /\ Len(Rest(s, n)) = Len(s) - n
      /\ \A i \in 1..(Len(s) - n) : Rest(s, n)[i] = s[n + i]
    BY RestFact
<1>3. /\ Rest(Rest(s, n), k) \in Seq(S) /\ Len(Rest(Rest(s, n), k)) = Len(s) - n - k
      /\ \A i \in 1..(Len(s) - n - k) : Rest(Rest(s, n), k)[i] = Rest(s, n)[k + i]
    <2>1. k \in 0..Len(Rest(s, n))
        BY <1>1, <1>2
    <2>2. /\ Rest(Rest(s, n), k) \in Seq(S) /\ Len(Rest(Rest(s, n), k)) = Len(Rest(s, n)) - k
          /\ \A i \in 1..(Len(Rest(s, n)) - k) : Rest(Rest(s, n), k)[i] = Rest(s, n)[k + i]
        BY <1>2, <2>1, RestFact
    <2> QED
        BY <1>2, <2>2
<1>4. /\ Rest(s, n + k) \in Seq(S) /\ Len(Rest(s, n + k)) = Len(s) - (n + k)
      /\ \A i \in 1..(Len(s) - (n + k)) : Rest(s, n + k)[i] = s[n + k + i]
    <2>1. n + k \in 0..Len(s)
        BY <1>1
    <2> QED
        BY <2>1, RestFact
<1>5. ASSUME NEW i \in 1..Len(Rest(s, n + k)) PROVE Rest(Rest(s, n), k)[i] = Rest(s, n + k)[i]
    <2>1. i \in 1..(Len(s) - n - k) /\ i \in 1..(Len(s) - (n + k)) /\ k + i \in 1..(Len(s) - n)
        BY <1>1, <1>4
    <2>2. n + (k + i) = n + k + i
        BY <1>1, <2>1
    <2> QED
        BY <1>2, <1>3, <1>4, <2>1, <2>2
<1>6. Len(Rest(Rest(s, n), k)) = Len(Rest(s, n + k))
    BY <1>1, <1>3, <1>4
<1> QED
    BY <1>3, <1>4, <1>5, <1>6, SeqEqual

(* The types of variables and parameters are sequences of dimensions, of   *)
(* which the first ones may be open.                                       *)
LEMMA TypeFact ==
    ASSUME NEW t \in DeclaredTypes
    PROVE  /\ t \in Seq(Dimension)
           /\ \A j, k \in 1..Len(t) : j < k /\ t[k].len = Open => t[j].len = Open
<1>1. CASE \E x \in ArrayVar : t = ArrayVarType[x]
    <2>1. PICK x \in ArrayVar : t = ArrayVarType[x]
        BY <1>1
    <2>2. t \in Seq(Dimension)
        BY <2>1, ArraysAssumption
    <2>3. \A k \in 1..Len(t) : t[k].len \in Nat
        BY <2>1, <2>2, ArraysAssumption, LenProperties
    <2> QED
        BY <2>2, <2>3, ArraysAssumption
<1>2. ASSUME NEW fs \in Seq(FormalParameter), OpenFirst(fs), NEW i \in DOMAIN fs, t = fs[i].type
      PROVE  /\ t \in Seq(Dimension)
             /\ \A j, k \in 1..Len(t) : j < k /\ t[k].len = Open => t[j].len = Open
    <2>1. t \in Seq(Dimension)
        <3>1. i \in 1..Len(fs)
            BY <1>2, LenProperties
        <3>2. fs[i] \in FormalParameter
            BY <3>1, ElementOfSeq
        <3> QED
            BY <1>2, <3>2 DEF FormalParameter
    <2> QED
        <3>1. DOMAIN t = 1..Len(t)
            BY <2>1, LenProperties
        <3> QED
            BY <1>2, <2>1, <3>1 DEF OpenFirst
<1>3. CASE \E f \in Procedure : \E i \in DOMAIN Formals[f] : t = Formals[f][i].type
    BY <1>3, <1>2, ArraysAssumption
<1>4. CASE \E g \in ProcedureVar : \E i \in DOMAIN VarFormals[g] : t = VarFormals[g][i].type
    BY <1>4, <1>2, ArraysAssumption
<1>5. \/ \E x \in ArrayVar : t = ArrayVarType[x]
      \/ \E f \in Procedure : t \in FormalTypes(Formals[f])
      \/ \E g \in ProcedureVar : t \in FormalTypes(VarFormals[g])
    <2> DEFINE OfVariables  == {ArrayVarType[x] : x \in ArrayVar}
               OfProcedures == UNION {FormalTypes(Formals[f]) : f \in Procedure}
               OfProcedureVars == UNION {FormalTypes(VarFormals[g]) : g \in ProcedureVar}
    <2>1. t \in OfProcedures => \E f \in Procedure : t \in FormalTypes(Formals[f])
        OBVIOUS
    <2>2. t \in OfProcedureVars => \E g \in ProcedureVar : t \in FormalTypes(VarFormals[g])
        OBVIOUS
    <2>3. DeclaredTypes = OfVariables \union OfProcedures \union OfProcedureVars
        BY DEF DeclaredTypes
    <2>4. t \in OfVariables => \E x \in ArrayVar : t = ArrayVarType[x]
        OBVIOUS
    <2> HIDE DEF OfVariables, OfProcedures, OfProcedureVars
    <2> QED
        BY <2>1, <2>2, <2>3, <2>4
<1> QED
    BY <1>1, <1>3, <1>4, <1>5 DEF FormalTypes

(* Where names are distinct, types that are the same are equal.            *)
LEMMA SameEqual ==
    ASSUME NamesDistinct, NEW t \in DeclaredTypes, NEW u \in DeclaredTypes,
           NEW j \in 0..Len(t), NEW k \in 0..Len(u), Same(Rest(t, j), Rest(u, k))
    PROVE  Rest(t, j) = Rest(u, k)
<1>1. t \in Seq(Dimension) /\ u \in Seq(Dimension) /\ Len(t) \in Nat /\ Len(u) \in Nat
    BY TypeFact, LenProperties
<1>2. SUFFICES ASSUME Rest(t, j) /= <<>>, Rest(u, k) /= <<>>,
                      Rest(t, j)[1].name /= "", Rest(t, j)[1].name = Rest(u, k)[1].name
               PROVE  Rest(t, j) = Rest(u, k)
    BY DEF Same
<1>3. Len(Rest(t, j)) \in Nat \ {0} /\ Len(Rest(u, k)) \in Nat \ {0}
    BY <1>1, <1>2, RestFact, EmptySeq
<1>4. j + 1 \in 1..Len(t) /\ k + 1 \in 1..Len(u)
    <2>1. Len(Rest(t, j)) = Len(t) - j /\ Len(Rest(u, k)) = Len(u) - k
        BY <1>1, RestFact
    <2> QED
        BY <1>1, <1>3, <2>1
<1>5. Rest(t, j)[1] = t[j + 1] /\ Rest(u, k)[1] = u[k + 1]
    <2>1. 1 \in 1..(Len(t) - j) /\ 1 \in 1..(Len(u) - k)
        BY <1>1, <1>4
    <2> QED
        BY <1>1, <2>1, RestFact
<1>6. Rest(t, (j + 1) - 1) = Rest(u, (k + 1) - 1)
    <2>1. t[j + 1].name /= "" /\ t[j + 1].name = u[k + 1].name
        BY <1>2, <1>5
    <2>2. \A m \in 1..Len(t), n \in 1..Len(u) :
              t[m].name /= "" /\ t[m].name = u[n].name => Rest(t, m - 1) = Rest(u, n - 1)
        BY DEF NamesDistinct
    <2> QED
        BY <1>4, <2>1, <2>2
<1> QED
    BY <1>1, <1>6

(* Equal types have the same lengths.                                      *)
LEMMA EqualLengths ==
    ASSUME NamesDistinct, NEW t \in DeclaredTypes, NEW u \in DeclaredTypes, TypesEqual(t, u)
    PROVE  Len(t) = Len(u) /\ \A k \in 1..Len(t) : t[k].len = u[k].len
<1>1. t \in Seq(Dimension) /\ u \in Seq(Dimension) /\ Len(t) \in Nat /\ Len(u) \in Nat
    BY TypeFact, LenProperties
<1>2. PICK k \in 0..Len(t) :
          /\ k <= Len(u)
          /\ \A i \in 1..k : t[i].len = Open /\ u[i].len = Open
          /\ Same(Rest(t, k), Rest(u, k))
    BY DEF TypesEqual
<1>3. Rest(t, k) = Rest(u, k)
    BY <1>1, <1>2, SameEqual
<1>4. /\ Len(Rest(t, k)) = Len(t) - k /\ Len(Rest(u, k)) = Len(u) - k
      /\ \A i \in 1..(Len(t) - k) : Rest(t, k)[i] = t[k + i]
      /\ \A i \in 1..(Len(u) - k) : Rest(u, k)[i] = u[k + i]
    <2>1. k \in 0..Len(t) /\ k \in 0..Len(u)
        BY <1>1, <1>2
    <2>2. Len(Rest(t, k)) = Len(t) - k /\ \A i \in 1..(Len(t) - k) : Rest(t, k)[i] = t[k + i]
        BY <1>1, <2>1, RestFact
    <2>3. Len(Rest(u, k)) = Len(u) - k /\ \A i \in 1..(Len(u) - k) : Rest(u, k)[i] = u[k + i]
        BY <1>1, <2>1, RestFact
    <2> QED
        BY <2>2, <2>3
<1>5. Len(t) = Len(u)
    BY <1>1, <1>3, <1>4
<1>6. ASSUME NEW i \in 1..Len(t) PROVE t[i].len = u[i].len
    <2>1. CASE i <= k
        BY <1>1, <1>2, <2>1
    <2>2. CASE i > k
        <3>1. i - k \in 1..(Len(t) - k) /\ k + (i - k) = i
            BY <1>1, <2>2
        <3> QED
            BY <1>3, <1>4, <1>5, <3>1
    <2> QED
        BY <1>1, <2>1, <2>2
<1> QED
    BY <1>5, <1>6

-----------------------------------------------------------------------------
(* Designators and what they denote.                                       *)

(* The extents of an object are numbers.                                   *)
LEMMA ExtentsFact ==
    ASSUME NEW o \in ArrayVar \union Literal
    PROVE  Extents(o) \in Seq(Nat) /\ Len(Extents(o)) \in Nat
<1>1. CASE o \in Literal
    <2>1. LiteralLength[o] + 1 \in Nat
        <3>1. LiteralLength \in [Literal -> Nat]
            BY ArraysAssumption
        <3> QED
            BY <1>1, <3>1
    <2> QED
        BY <1>1, <2>1 DEF Extents
<1>2. CASE o \notin Literal
    <2>1. o \in ArrayVar
        BY <1>2
    <2> DEFINE t == ArrayVarType[o]
    <2>2. t \in Seq(Dimension) /\ \A k \in DOMAIN t : t[k].len \in Nat
        BY <2>1, ArraysAssumption
    <2>3. Len(t) \in Nat /\ DOMAIN t = 1..Len(t)
        BY <2>2, LenProperties
    <2>4. Extents(o) = [k \in 1..Len(t) |-> t[k].len]
        BY <1>2, <2>3 DEF Extents
    <2> HIDE DEF t
    <2> QED
        BY <2>2, <2>3, <2>4
<1> QED
    BY <1>1, <1>2

(* The type and the path of a designator, dimension by dimension.          *)
LEMMA DesignatorFact ==
    ASSUME NEW e, DesignatorTrue(e)
    PROVE  /\ e.base.type \in Seq(Dimension) /\ Len(e.base.type) \in Nat
           /\ Len(e.index) \in 0..Len(e.base.type)
           /\ Path(e) \in Seq(Int) /\ Len(Path(e)) \in Nat
           /\ TypeOf(e) \in Seq(Dimension) /\ Len(TypeOf(e)) \in Nat
           /\ \A i \in 1..Len(TypeOf(e)) : TypeOf(e)[i] = e.base.type[Len(e.index) + i]
           /\ Len(Path(e)) + Len(TypeOf(e)) = Len(Extents(e.base.object))
           /\ \A i \in 1..Len(TypeOf(e)) :
                 (IF TypeOf(e)[i].len = Open THEN e.base.lens[Len(e.index) + i] ELSE TypeOf(e)[i].len)
                     = Extents(e.base.object)[Len(Path(e)) + i]
<1> DEFINE t == e.base.type
           n == Len(e.index)
           p == e.base.path
<1>1. /\ t \in DeclaredTypes /\ p \in Seq(Int) /\ e.index \in Seq(Int) /\ n <= Len(t)
      /\ Len(p) + Len(t) = Len(Extents(e.base.object))
      /\ \A k \in 1..Len(t) : (IF t[k].len = Open THEN e.base.lens[k] ELSE t[k].len)
                                   = Extents(e.base.object)[Len(p) + k]
    BY DEF DesignatorTrue, BaseTrue, DimensionTrue
<1>2. t \in Seq(Dimension) /\ Len(t) \in Nat /\ Len(p) \in Nat /\ n \in 0..Len(t)
    BY <1>1, TypeFact, LenProperties
<1>3. Path(e) \in Seq(Int) /\ Len(Path(e)) = Len(p) + n
    BY <1>1, ConcatProperties DEF Path
<1>4. /\ TypeOf(e) \in Seq(Dimension) /\ Len(TypeOf(e)) = Len(t) - n
      /\ \A i \in 1..(Len(t) - n) : TypeOf(e)[i] = t[n + i]
    BY <1>2, RestFact DEF TypeOf
<1>5. ASSUME NEW i \in 1..(Len(t) - n)
      PROVE  (IF TypeOf(e)[i].len = Open THEN e.base.lens[n + i] ELSE TypeOf(e)[i].len)
                 = Extents(e.base.object)[Len(Path(e)) + i]
    <2>1. TypeOf(e)[i] = t[n + i]
        BY <1>4
    <2> HIDE DEF t, n, p
    <2>2. n + i \in 1..Len(t) /\ Len(p) + (n + i) = Len(Path(e)) + i
        BY <1>2, <1>3
    <2> QED
        BY <1>1, <2>1, <2>2
<1>6. /\ Len(TypeOf(e)) \in Nat /\ Len(Path(e)) \in Nat
      /\ Len(Path(e)) + Len(TypeOf(e)) = Len(Extents(e.base.object))
    <2> HIDE DEF t, n, p
    <2> QED
        BY <1>1, <1>2, <1>3, <1>4
<1> HIDE DEF p
<1> QED
    BY <1>2, <1>3, <1>4, <1>5, <1>6

(* The generated lengths of a designator are those of what is meant.       *)
LEMMA LengthsFact ==
    ASSUME NEW e, DesignatorTrue(e)
    PROVE  /\ Lengths(e) = ExtentsOf(e) /\ Len(Lengths(e)) = Len(TypeOf(e))
           /\ \A i \in 1..Len(TypeOf(e)) :
                 Lengths(e)[i] = Extents(e.base.object)[Len(Path(e)) + i]
<1> DEFINE o == e.base.object
           n == Len(Path(e))
<1>1. /\ Len(TypeOf(e)) \in Nat /\ n \in Nat
      /\ n + Len(TypeOf(e)) = Len(Extents(o))
      /\ \A i \in 1..Len(TypeOf(e)) :
            (IF TypeOf(e)[i].len = Open THEN e.base.lens[Len(e.index) + i] ELSE TypeOf(e)[i].len)
                = Extents(o)[n + i]
    BY DesignatorFact
<1>2. e.base.kind /= "string" /\ o \in ArrayVar \union Literal
    BY DEF DesignatorTrue, BaseTrue
<1>3. Lengths(e) = [i \in 1..Len(TypeOf(e)) |-> Extents(o)[n + i]]
    BY <1>1, <1>2 DEF Lengths, ArrayLength, ArrayDimension, IsString
<1>4. Extents(o) \in Seq(Nat) /\ Len(Extents(o)) \in Nat
    BY <1>2, ExtentsFact
<1>5. /\ ExtentsOf(e) \in Seq(Nat) /\ Len(ExtentsOf(e)) = Len(TypeOf(e))
      /\ \A i \in 1..Len(TypeOf(e)) : ExtentsOf(e)[i] = Extents(o)[n + i]
    <2>1. n \in 0..Len(Extents(o)) /\ Len(Extents(o)) - n = Len(TypeOf(e))
        BY <1>1, <1>4
    <2> HIDE DEF o, n
    <2>2. ExtentsOf(e) = Rest(Extents(o), n)
        BY DEF ExtentsOf, o, n
    <2>3. /\ Rest(Extents(o), n) \in Seq(Nat) /\ Len(Rest(Extents(o), n)) = Len(Extents(o)) - n
          /\ \A i \in 1..(Len(Extents(o)) - n) : Rest(Extents(o), n)[i] = Extents(o)[n + i]
        BY <1>4, <2>1, RestFact
    <2> QED
        BY <2>1, <2>2, <2>3
<1>6. ExtentsOf(e) = [i \in 1..Len(TypeOf(e)) |-> Extents(o)[n + i]]
    <2> HIDE DEF o, n
    <2>1. DOMAIN ExtentsOf(e) = 1..Len(TypeOf(e))
        BY <1>5, LenProperties
    <2>2. ExtentsOf(e) = [i \in DOMAIN ExtentsOf(e) |-> ExtentsOf(e)[i]]
        BY <1>5
    <2> QED
        BY <1>5, <2>1, <2>2
<1> HIDE DEF o, n
<1>7. Len(Lengths(e)) = Len(TypeOf(e))
    BY <1>3, <1>5, <1>6
<1> QED
    BY <1>3, <1>6, <1>7 DEF o, n

-----------------------------------------------------------------------------
(* Passing an array on.                                                    *)

(* A parameter's type is one of the declared ones and has a dimension.     *)
LEMMA FormalFact ==
    ASSUME NEW fs \in Seq(FormalParameter), OpenFirst(fs), NEW i \in DOMAIN fs,
           FormalTypes(fs) \subseteq DeclaredTypes
    PROVE  /\ fs[i].kind \in {"value", "var"}
           /\ fs[i].type \in DeclaredTypes
           /\ Len(fs[i].type) \in Nat \ {0}
<1>1. fs[i] \in FormalParameter
    BY LenProperties, ElementOfSeq
<1>2. fs[i].kind \in {"value", "var"} /\ fs[i].type \in Seq(Dimension) \ {<<>>}
    BY <1>1 DEF FormalParameter
<1>3. Len(fs[i].type) \in Nat \ {0}
    BY <1>2, EmptySeq, LenProperties
<1>4. fs[i].type \in DeclaredTypes
    BY DEF FormalTypes
<1> QED
    BY <1>2, <1>3, <1>4

(* An array that is accepted for a parameter has the dimensions of it, and *)
(* where the parameter's length is known, it is that of the array.         *)
LEMMA AcceptedFact ==
    ASSUME SameLengths, NEW e, DesignatorTrue(e), NEW p,
           p.type \in DeclaredTypes, ArgumentAccepted(e, p)
    PROVE  /\ Len(TypeOf(e)) = Len(p.type)
           /\ \A k \in 1..Len(p.type) : p.type[k].len /= Open => p.type[k].len = TypeOf(e)[k].len
<1> DEFINE t == e.base.type
           n == Len(e.index)
           u == p.type
<1>1. /\ t \in DeclaredTypes /\ t \in Seq(Dimension) /\ Len(t) \in Nat /\ n \in 0..Len(t)
      /\ u \in Seq(Dimension) /\ Len(u) \in Nat
    BY DesignatorFact, TypeFact, LenProperties DEF DesignatorTrue, BaseTrue
<1>2. TypeOf(e) = Rest(t, n) /\ ~IsString(e)
    BY DEF TypeOf, DesignatorTrue, BaseTrue, IsString
<1>3. PICK k \in 0..Len(u) :
          /\ k <= Len(TypeOf(e))
          /\ \A i \in 1..k : u[i].len = Open
          /\ Same(Rest(TypeOf(e), k), Rest(u, k))
    <2>1. CASE ArrayCompatible(TypeOf(e), u)
        BY <2>1 DEF ArrayCompatible
    <2>2. CASE Same(TypeOf(e), u)
        <3>1. Rest(TypeOf(e), 0) = TypeOf(e) /\ Rest(u, 0) = u
            BY <1>1, DesignatorFact, SubSeqProperties, RestFact, SeqEqual DEF Rest
        <3>2. 0 <= Len(TypeOf(e)) /\ 0 \in 0..Len(u)
            BY <1>1, DesignatorFact
        <3> QED
            BY <2>2, <3>1, <3>2
    <2> QED
        BY <1>2, <2>1, <2>2 DEF ArgumentAccepted, SameLengths
<1>4. /\ Len(TypeOf(e)) = Len(t) - n
      /\ \A i \in 1..(Len(t) - n) : TypeOf(e)[i] = t[n + i]
    <2>1. n \in 0..Len(t) /\ t \in Seq(Dimension)
        BY <1>1
    <2> HIDE DEF t, n
    <2>2. Len(Rest(t, n)) = Len(t) - n /\ \A i \in 1..(Len(t) - n) : Rest(t, n)[i] = t[n + i]
        BY <2>1, RestFact
    <2> QED
        BY <1>2, <2>2
<1> HIDE DEF t, n, u
<1>5. k \in 0..(Len(t) - n) /\ n + k \in 0..Len(t)
    BY <1>1, <1>3, <1>4
<1>6. Rest(TypeOf(e), k) = Rest(t, n + k)
    BY <1>1, <1>2, <1>5, RestOfRest
<1>7. Rest(t, n + k) = Rest(u, k)
    BY <1>1, <1>3, <1>5, <1>6, SameEqual DEF u, SameLengths
<1>8. /\ Len(t) - (n + k) = Len(u) - k
      /\ \A i \in 1..(Len(u) - k) : t[n + k + i] = u[k + i]
    <2>1. /\ Len(Rest(t, n + k)) = Len(t) - (n + k)
          /\ \A i \in 1..(Len(t) - (n + k)) : Rest(t, n + k)[i] = t[n + k + i]
        BY <1>1, <1>5, RestFact
    <2>2. /\ Len(Rest(u, k)) = Len(u) - k
          /\ \A i \in 1..(Len(u) - k) : Rest(u, k)[i] = u[k + i]
        BY <1>1, <1>3, RestFact
    <2> QED
        BY <1>7, <2>1, <2>2
<1>9. Len(TypeOf(e)) = Len(u)
    <2>1. k \in Int /\ n \in Int /\ Len(t) \in Int /\ Len(u) \in Int
        BY <1>1, <1>3
    <2>2. Len(t) - (n + k) = Len(u) - k
        BY <1>8
    <2> QED
        BY <1>4, <2>1, <2>2
<1>10. ASSUME NEW j \in 1..Len(u), u[j].len /= Open PROVE u[j].len = TypeOf(e)[j].len
    <2>1. j > k
        BY <1>1, <1>3, <1>10
    <2>2. j - k \in 1..(Len(u) - k) /\ k + (j - k) = j /\ n + k + (j - k) = n + j
        BY <1>1, <1>3, <2>1
    <2>3. t[n + j] = u[j]
        BY <1>8, <2>2
    <2> QED
        BY <1>1, <1>4, <1>9, <2>3
<1> QED
    BY <1>9, <1>10 DEF u

(* What is passed for a parameter is what it is said to be.                *)
LEMMA ArgumentTrue ==
    ASSUME SameLengths, NEW e, DesignatorTrue(e) \/ e \in Strings, NEW p, NEW g,
           p.type \in DeclaredTypes, Len(p.type) \in Nat \ {0},
           g.type \in DeclaredTypes, g.kind \in {"value", "var"},
           TypesEqual(g.type, p.type), ArgumentAccepted(e, p)
    PROVE  BaseTrue(Argument(e, p, g))
<1> DEFINE o    == e.base.object
           u    == p.type
           a    == Argument(e, p, g)
           lens == IF IsOpenArray(u) THEN Lengths(e) ELSE <<>>
<1>1. /\ Len(g.type) = Len(u) /\ \A k \in 1..Len(u) : g.type[k].len = u[k].len
    BY EqualLengths DEF SameLengths
<1>2. \A k \in 1..Len(u) : u[k].len = Open => IsOpenArray(u)
    <2>1. u \in Seq(Dimension) /\ \A j, k \in 1..Len(u) : j < k /\ u[k].len = Open => u[j].len = Open
        BY TypeFact
    <2>2. 1 \in 1..Len(u) /\ u /= <<>>
        BY <2>1, EmptySeq
    <2>3. \A k \in 1..Len(u) : k = 1 \/ 1 < k
        OBVIOUS
    <2> HIDE DEF u
    <2> QED
        BY <2>1, <2>2, <2>3 DEF IsOpenArray
<1>3. /\ o \in ArrayVar \union Literal
      /\ Path(e) \in Seq(Int)
      /\ Len(Path(e)) + Len(u) = Len(Extents(o))
      /\ \A k \in 1..Len(u) :
            (IF u[k].len = Open THEN lens[k] ELSE u[k].len) = Extents(o)[Len(Path(e)) + k]
    <2>1. CASE DesignatorTrue(e)
        <3>1. o \in ArrayVar \union Literal
            BY <2>1 DEF DesignatorTrue, BaseTrue
        <3>2. /\ Path(e) \in Seq(Int) /\ Len(Path(e)) + Len(TypeOf(e)) = Len(Extents(o))
              /\ \A i \in 1..Len(TypeOf(e)) :
                    (IF TypeOf(e)[i].len = Open THEN e.base.lens[Len(e.index) + i] ELSE TypeOf(e)[i].len)
                        = Extents(o)[Len(Path(e)) + i]
            BY <2>1, DesignatorFact
        <3>3. /\ Len(TypeOf(e)) = Len(u)
              /\ \A k \in 1..Len(u) : u[k].len /= Open => u[k].len = TypeOf(e)[k].len
            BY <2>1, AcceptedFact
        <3>4. \A i \in 1..Len(TypeOf(e)) : Lengths(e)[i] = Extents(o)[Len(Path(e)) + i]
            BY <2>1, LengthsFact
        <3> HIDE DEF o, u
        <3>5. ASSUME NEW k \in 1..Len(u)
              PROVE  (IF u[k].len = Open THEN lens[k] ELSE u[k].len) = Extents(o)[Len(Path(e)) + k]
            <4>1. CASE u[k].len = Open
                BY <1>2, <3>3, <3>4, <4>1
            <4>2. CASE u[k].len /= Open
                BY <3>2, <3>3, <4>2
            <4> QED
                BY <4>1, <4>2
        <3> QED
            BY <3>1, <3>2, <3>3, <3>5
    <2>2. CASE e \in Strings
        <3>1. PICK s \in Literal : e \in Selected(Base("string", <<>>, s), 0)
            BY <2>2 DEF Strings
        <3>2. e.base = Base("string", <<>>, s) /\ e.index \in [1..0 -> IndexValue]
            BY <3>1 DEF Selected
        <3>3. /\ e.base.kind = "string" /\ e.base.type = <<>> /\ o = s /\ e.base.path = <<>>
            BY <3>2 DEF Base
        <3>4. e.index = <<>>
            BY <3>2
        <3>5. TypeOf(e) = <<>> /\ Path(e) = <<>>
            BY <3>3, <3>4 DEF TypeOf, Path, Rest
        <3>6. Lengths(e) = <<LiteralLength[s] + 1>> /\ Extents(o) = <<LiteralLength[s] + 1>>
            BY <3>3 DEF Lengths, IsString, Extents
        <3>7. u /= <<>>
            OBVIOUS
        <3>8. IsOpenArray(u) /\ Len(u) = 1 /\ u[1].len = Open
            BY <3>3, <3>5, <3>7
            DEF ArgumentAccepted, WritableArray, IsString, IsCharacterArray, IsOpenArray, Same, SameLengths
        <3> QED
            BY <3>3, <3>5, <3>6, <3>8
    <2> QED
        BY <2>1, <2>2
<1>4. /\ a.kind = g.kind /\ a.type = g.type /\ a.object = o /\ a.path = Path(e) /\ a.lens = lens
    BY DEF Argument, Path
<1>5. Len(a.path) + Len(a.type) = Len(Extents(a.object))
    BY <1>1, <1>3, <1>4
<1> HIDE DEF a, o, u, lens
<1>6. \A k \in 1..Len(a.type) : DimensionTrue(a, k)
    BY <1>1, <1>3, <1>4 DEF DimensionTrue
<1>7. BaseTrue(a)
    BY <1>3, <1>4, <1>5, <1>6 DEF BaseTrue
<1> QED
    BY <1>7 DEF a

-----------------------------------------------------------------------------
(* The invariant.                                                          *)

(* A sequence is one of its own elements.                                  *)
LEMMA OwnElements ==
    ASSUME NEW S, NEW s \in Seq(S)
    PROVE  s \in Seq({s[c] : c \in DOMAIN s})
<1>1. Len(s) \in Nat /\ DOMAIN s = 1..Len(s) /\ s = [c \in 1..Len(s) |-> s[c]]
    BY LenProperties
<1>2. \A c \in 1..Len(s) : s[c] \in {s[d] : d \in DOMAIN s}
    BY <1>1
<1> QED
    BY <1>1, <1>2

(* The types of parameters are declared ones.                              *)
LEMMA FormalTypesDeclared ==
    /\ \A f \in Procedure : FormalTypes(Formals[f]) \subseteq DeclaredTypes
    /\ \A g \in ProcedureVar : FormalTypes(VarFormals[g]) \subseteq DeclaredTypes
    BY DEF DeclaredTypes

(* Whatever a statement can refer to is what it is said to be.             *)
LEMMA BasesTrue ==
    ASSUME CallsInv
    PROVE  \A b \in Bases : BaseTrue(b)
<1>1. ASSUME NEW x \in ArrayVar PROVE BaseTrue(Base("variable", ArrayVarType[x], x))
    <2> DEFINE t == ArrayVarType[x]
               b == Base("variable", t, x)
    <2>1. /\ b.kind = "variable" /\ b.type = t /\ b.object = x /\ b.path = <<>>
        BY DEF Base
    <2>2. /\ t \in DeclaredTypes /\ t \in Seq(Dimension)
          /\ \A k \in DOMAIN t : t[k].len \in Nat
        BY ArraysAssumption DEF DeclaredTypes
    <2>3. Open \notin Nat /\ x \notin Literal
        BY ArraysAssumption
    <2>4. Extents(x) = [k \in DOMAIN t |-> t[k].len]
        BY <2>3 DEF Extents
    <2>5. DOMAIN t = 1..Len(t) /\ Len(t) \in Nat
        BY <2>2, LenProperties
    <2> HIDE DEF t, b
    <2>6. Len(b.path) + Len(b.type) = Len(Extents(b.object)) /\ b.path \in Seq(Int)
        BY <2>1, <2>4, <2>5
    <2>7. \A k \in 1..Len(b.type) : DimensionTrue(b, k)
        <3>1. \A k \in 1..Len(t) : Len(<<>>) + k = k
            BY <2>5
        <3> QED
            BY <2>1, <2>2, <2>3, <2>4, <2>5, <3>1 DEF DimensionTrue
    <2>8. BaseTrue(b)
        BY <2>1, <2>2, <2>6, <2>7 DEF BaseTrue
    <2> QED
        BY <2>8 DEF b, t
<1>2. ASSUME NEW b \in Parameters PROVE BaseTrue(b)
    <2>1. calls /= <<>>
        BY DEF Parameters
    <2>2. Len(calls) \in 1..Len(calls)
        BY <2>1, EmptySeq, LenProperties DEF CallsInv
    <2>3. PICK i \in DOMAIN calls[Len(calls)] : b = calls[Len(calls)][i]
        BY <2>1 DEF Parameters
    <2> QED
        BY <2>2, <2>3 DEF CallsInv
<1> QED
    BY <1>1, <1>2 DEF Bases

(* A designator of an array, of whatever a statement can refer to.         *)
LEMMA DesignatorsTrue ==
    ASSUME CallsInv, NEW b \in Bases, NEW e \in ArraysOf(b)
    PROVE  DesignatorTrue(e) /\ e.base = b
<1>1. BaseTrue(b)
    BY BasesTrue
<1>2. Len(b.type) \in Nat
    BY <1>1, TypeFact, LenProperties DEF BaseTrue
<1>3. PICK n \in 0..(Len(b.type) - 1) : e \in Selected(b, n)
    BY DEF ArraysOf
<1>4. n \in Nat /\ n <= Len(b.type)
    BY <1>2, <1>3
<1>5. e.base = b /\ e.index \in [1..n -> IndexValue]
    BY <1>3 DEF Selected
<1>6. e.index \in Seq(IndexValue) /\ Len(e.index) = n
    BY <1>4, <1>5
<1>7. e.index \in Seq(Int)
    <2>1. IndexValue \subseteq Int
        BY ArraysAssumption
    <2>2. \A k \in 1..n : e.index[k] \in Int
        BY <1>5, <2>1
    <2> QED
        BY <1>4, <1>5, <2>2
<1> QED
    BY <1>1, <1>4, <1>5, <1>6, <1>7 DEF DesignatorTrue

(* A call enters with arguments that are what they are said to be.         *)
LEMMA EnterStep ==
    ASSUME SameLengths, CallsInv, NEW f \in Procedure,
           NEW passed \in Seq(FormalParameter), OpenFirst(passed),
           FormalTypes(passed) \subseteq DeclaredTypes,
           FormalParametersMatch(Formals[f], passed),
           NEW args \in Arguments(passed), Enter(f, passed, args)
    PROVE  CallsInv'
<1> DEFINE call == [i \in DOMAIN args |-> Argument(args[i], passed[i], Formals[f][i])]
<1>1. /\ Formals[f] \in Seq(FormalParameter) /\ OpenFirst(Formals[f])
      /\ FormalTypes(Formals[f]) \subseteq DeclaredTypes
    BY FormalTypesDeclared, ArraysAssumption
<1>2. DOMAIN args = DOMAIN passed /\ DOMAIN passed = DOMAIN Formals[f]
    <2>1. DOMAIN args = DOMAIN passed
        BY DEF Arguments
    <2>2. Len(Formals[f]) = Len(passed)
        BY DEF FormalParametersMatch
    <2> QED
        BY <1>1, <2>1, <2>2, LenProperties
<1>3. ASSUME NEW i \in DOMAIN call PROVE BaseTrue(call[i])
    <2>1. i \in DOMAIN passed /\ i \in DOMAIN Formals[f]
        BY <1>2
    <2>2. /\ passed[i].type \in DeclaredTypes /\ Len(passed[i].type) \in Nat \ {0}
        BY <2>1, FormalFact
    <2>3. /\ Formals[f][i].type \in DeclaredTypes /\ Formals[f][i].kind \in {"value", "var"}
        BY <1>1, <2>1, FormalFact
    <2>4. TypesEqual(Formals[f][i].type, passed[i].type)
        BY <2>1 DEF FormalParametersMatch
    <2>5. args[i] \in ArrayDesignators \union Strings /\ ArgumentAccepted(args[i], passed[i])
        BY <2>1 DEF Arguments
    <2>6. DesignatorTrue(args[i]) \/ args[i] \in Strings
        <3>1. CASE args[i] \in ArrayDesignators
            <4>1. PICK b \in Bases : args[i] \in ArraysOf(b)
                BY <3>1 DEF ArrayDesignators
            <4> QED
                BY <4>1, DesignatorsTrue
        <3> QED
            BY <2>5, <3>1
    <2>7. BaseTrue(Argument(args[i], passed[i], Formals[f][i]))
        BY <2>2, <2>3, <2>4, <2>5, <2>6, ArgumentTrue
    <2> QED
        BY <2>7
<1> HIDE DEF call
<1>4. calls' = calls \/ calls' = Append(calls, call)
    BY DEF Enter, call
<1>5. procValue' = procValue
    BY DEF Enter
<1>6. CASE calls' = calls
    BY <1>5, <1>6 DEF CallsInv
<1>7. CASE calls' = Append(calls, call)
    <2> DEFINE S == {calls[c] : c \in DOMAIN calls} \union {call}
    <2>1. calls \in Seq(S) /\ call \in S
        <3>1. calls \in Seq({calls[c] : c \in DOMAIN calls})
            BY DEF CallsInv
        <3>2. Len(calls) \in Nat /\ calls = [c \in 1..Len(calls) |-> calls[c]] /\ DOMAIN calls = 1..Len(calls)
            BY <3>1, LenProperties
        <3> QED
            BY <3>2
    <2> HIDE DEF S
    <2>2. /\ calls' \in Seq(S) /\ Len(calls') = Len(calls) + 1 /\ Len(calls) \in Nat
          /\ \A c \in 1..Len(calls) : calls'[c] = calls[c]
          /\ calls'[Len(calls) + 1] = call
        BY <1>7, <2>1, AppendProperties, LenProperties
    <2>3. calls' \in Seq({calls'[c] : c \in DOMAIN calls'})
        BY <2>2, OwnElements
    <2>4. ASSUME NEW c \in 1..Len(calls'), NEW i \in DOMAIN calls'[c] PROVE BaseTrue(calls'[c][i])
        <3>1. CASE c \in 1..Len(calls)
            BY <2>2, <2>4, <3>1 DEF CallsInv
        <3>2. CASE c = Len(calls) + 1
            BY <1>3, <2>2, <2>4, <3>2
        <3> QED
            BY <2>2, <3>1, <3>2
    <2> QED
        BY <1>5, <2>3, <2>4 DEF CallsInv
<1> QED
    BY <1>4, <1>6, <1>7

(* Every type equals itself, so that a procedure can be called by name.    *)
LEMMA MatchesItself ==
    ASSUME NEW fs \in Seq(FormalParameter)
    PROVE  FormalParametersMatch(fs, fs)
<1>1. ASSUME NEW t, t \in Seq(Dimension) PROVE TypesEqual(t, t)
    <2>1. 0 \in 0..Len(t) /\ 0 <= Len(t)
        BY <1>1, LenProperties
    <2>2. Same(Rest(t, 0), Rest(t, 0))
        BY DEF Same
    <2> QED
        BY <2>1, <2>2 DEF TypesEqual
<1>2. ASSUME NEW i \in DOMAIN fs PROVE fs[i].type \in Seq(Dimension)
    <2>1. fs[i] \in FormalParameter
        BY LenProperties, ElementOfSeq
    <2> QED
        BY <2>1 DEF FormalParameter
<1> QED
    BY <1>1, <1>2 DEF FormalParametersMatch

(* What a call's return, which removes the innermost arguments, leaves.    *)
LEMMA ReturnStep ==
    ASSUME CallsInv, ReturnFromCall
    PROVE  CallsInv'
<1>1. /\ calls \in Seq({calls[c] : c \in DOMAIN calls}) /\ calls /= <<>>
      /\ calls' = SubSeq(calls, 1, Len(calls) - 1) /\ procValue' = procValue
    BY DEF CallsInv, ReturnFromCall
<1>2. Len(calls) \in Nat \ {0} /\ \A c \in 1..Len(calls) : calls[c] \in {calls[d] : d \in DOMAIN calls}
    BY <1>1, EmptySeq, LenProperties, ElementOfSeq
<1>3. /\ calls' \in Seq({calls[c] : c \in DOMAIN calls}) /\ Len(calls') = Len(calls) - 1
      /\ \A c \in 1..(Len(calls) - 1) : calls'[c] = calls[c]
    <2> DEFINE T == {calls[c] : c \in DOMAIN calls}
    <2>1. calls \in Seq(T) /\ \A c \in 1..Len(calls) : calls[c] \in T
        BY <1>1, <1>2
    <2> HIDE DEF T
    <2> DEFINE n == Len(calls) - 1
    <2>2. n \in Nat /\ n <= Len(calls) /\ Len(calls) \in Nat
        BY <1>2
    <2> HIDE DEF n
    <2>3. n - 1 + 1 = n /\ (IF 1 <= n THEN n - 1 + 1 ELSE 0) = n
        BY <2>2
    <2>4. \A c \in 1..n : calls[c] \in T
        BY <2>1, <2>2
    <2>5. /\ SubSeq(calls, 1, n) \in Seq(T)
          /\ Len(SubSeq(calls, 1, n)) = n
          /\ \A c \in 1..n : SubSeq(calls, 1, n)[c] = calls[1 + c - 1]
        BY <2>2, <2>3, <2>4, SubSeqProperties
    <2>6. \A c \in 1..n : 1 + c - 1 = c
        BY <2>2
    <2> QED
        BY <1>1, <2>5, <2>6 DEF T, n
<1>4. calls' \in Seq({calls'[c] : c \in DOMAIN calls'})
    BY <1>3, OwnElements
<1>5. ASSUME NEW c \in 1..Len(calls'), NEW i \in DOMAIN calls'[c] PROVE BaseTrue(calls'[c][i])
    <2>1. c \in 1..(Len(calls) - 1)
        BY <1>3, <1>5
    <2>2. c \in 1..Len(calls)
        BY <1>2, <2>1
    <2>3. calls'[c] = calls[c]
        BY <1>3, <2>1
    <2> QED
        BY <1>5, <2>2, <2>3 DEF CallsInv
<1> QED
    BY <1>1, <1>4, <1>5 DEF CallsInv

(* Every step keeps the arguments of the calls in progress true.           *)
LEMMA CallsStep ==
    ASSUME SameLengths, CallsInv, [ArraysNext]_arrayVars
    PROVE  CallsInv'
<1>1. CASE UNCHANGED <<calls, procValue>>
    BY <1>1 DEF CallsInv
<1>2. ASSUME NEW d \in Elements, IndexElement(d) PROVE CallsInv'
    BY <1>1, <1>2 DEF IndexElement
<1>3. ASSUME NEW s, NEW t, AssignArray(s, t) PROVE CallsInv'
    BY <1>1, <1>3 DEF AssignArray
<1>4. ASSUME NEW x, NEW y, CompareArrays(x, y) PROVE CallsInv'
    BY <1>1, <1>4 DEF CompareArrays
<1>5. ASSUME NEW f \in Procedure, CallProcedure(f) PROVE CallsInv'
    <2>1. PICK args \in Arguments(Formals[f]) : Enter(f, Formals[f], args)
        BY <1>5 DEF CallProcedure
    <2>2. Formals[f] \in Seq(FormalParameter) /\ OpenFirst(Formals[f])
        BY ArraysAssumption
    <2>3. FormalParametersMatch(Formals[f], Formals[f])
        BY <2>2, MatchesItself
    <2> QED
        BY <2>1, <2>2, <2>3, FormalTypesDeclared, EnterStep
<1>6. ASSUME NEW g \in ProcedureVar, CallVariable(g) PROVE CallsInv'
    <2>1. CASE CallNil(g)
        BY <1>1, <2>1 DEF CallNil
    <2>2. CASE procValue[g] /= NoProcedure
               /\ \E args \in Arguments(VarFormals[g]) : Enter(procValue[g], VarFormals[g], args)
        <3>1. PICK args \in Arguments(VarFormals[g]) : Enter(procValue[g], VarFormals[g], args)
            BY <2>2
        <3>2. /\ procValue[g] \in Procedure
              /\ FormalParametersMatch(Formals[procValue[g]], VarFormals[g])
            BY <2>2 DEF CallsInv
        <3>3. VarFormals[g] \in Seq(FormalParameter) /\ OpenFirst(VarFormals[g])
            BY ArraysAssumption
        <3> QED
            BY <3>1, <3>2, <3>3, FormalTypesDeclared, EnterStep
    <2> QED
        BY <1>6, <2>1, <2>2 DEF CallVariable
<1>7. ASSUME NEW g \in ProcedureVar, NEW f \in Procedure \union {NoProcedure}, AssignProcedure(g, f)
      PROVE  CallsInv'
    <2>1. /\ calls' = calls
          /\ procValue' = [procValue EXCEPT ![g] = f]
          /\ f /= NoProcedure => FormalParametersMatch(Formals[f], VarFormals[g])
        BY <1>7 DEF AssignProcedure
    <2>2. /\ procValue' \in [ProcedureVar -> Procedure \union {NoProcedure}]
          /\ \A h \in ProcedureVar : procValue'[h] = IF h = g THEN f ELSE procValue[h]
        BY <2>1 DEF CallsInv
    <2>3. \A h \in ProcedureVar : procValue'[h] /= NoProcedure =>
              FormalParametersMatch(Formals[procValue'[h]], VarFormals[h])
        BY <2>1, <2>2 DEF CallsInv
    <2> QED
        BY <2>1, <2>2, <2>3 DEF CallsInv
<1>8. CASE ReturnFromCall
    BY <1>8, ReturnStep
<1>9. CASE NextStatement
    BY <1>1, <1>9 DEF NextStatement
<1>10. CASE UNCHANGED arrayVars
    BY <1>1, <1>10 DEF arrayVars
<1>11. CASE ArraysNext
    <2>1. \/ \E d \in Elements : IndexElement(d)
          \/ \E s, t \in ArrayDesignators \union Strings : AssignArray(s, t)
          \/ \E x, y \in ArrayDesignators \union Strings : CompareArrays(x, y)
          \/ \E f \in Procedure : CallProcedure(f)
          \/ \E g \in ProcedureVar : CallVariable(g)
          \/ \E g \in ProcedureVar, f \in Procedure \union {NoProcedure} : AssignProcedure(g, f)
          \/ ReturnFromCall
          \/ NextStatement
        BY <1>11 DEF ArraysNext
    <2> QED
        BY <2>1, <1>2, <1>3, <1>4, <1>5, <1>6, <1>7, <1>8, <1>9, Zenon
<1> QED
    BY <1>10, <1>11

(* LEN of an array parameter, open or not, or of a row of it is the length *)
(* of what is meant, however often it was passed on, where types have      *)
(* distinct names and value parameters get arrays of their own length      *)
(* (GenerateArrayLength, GenerateProcedureCall).                           *)
THEOREM LengthsInvariant ==
    ASSUME SameLengths
    PROVE  ArraysSpec => []LengthsTrue
<1>1. ArraysInit => CallsInv
    <2>1. ASSUME ArraysInit PROVE CallsInv
        <3>1. calls = <<>> /\ procValue = [g \in ProcedureVar |-> NoProcedure]
            BY <2>1 DEF ArraysInit
        <3>2. Len(calls) = 0 /\ calls \in Seq({calls[c] : c \in DOMAIN calls})
            BY <3>1
        <3> QED
            BY <3>1, <3>2 DEF CallsInv
    <2> QED
        BY <2>1
<1>2. CallsInv /\ [ArraysNext]_arrayVars => CallsInv'
    BY CallsStep
<1>3. CallsInv => LengthsTrue
    <2>1. ASSUME CallsInv, NEW b \in Parameters, NEW d \in ArraysOf(b)
          PROVE  Lengths(d) = ExtentsOf(d)
        BY <2>1, DesignatorsTrue, LengthsFact DEF Bases
    <2> QED
        BY <2>1 DEF LengthsTrue
<1> QED
    BY <1>1, <1>2, <1>3, PTL DEF ArraysSpec

-----------------------------------------------------------------------------
(* Products, sums and places, which are computed dimension by dimension.   *)

(* The product of a sequence.                                              *)
IsProduct(f, s) == f = [k \in 0..Len(s) |-> IF k = 0 THEN 1 ELSE f[k - 1] * s[k]]
Products(s) == CHOOSE f : IsProduct(f, s)

LEMMA ProductFact ==
    ASSUME NEW s \in Seq(Int)
    PROVE  /\ Products(s)[0] = 1
           /\ \A k \in 1..Len(s) : Products(s)[k] = Products(s)[k - 1] * s[k]
           /\ \A k \in 0..Len(s) : Products(s)[k] \in Int
           /\ Product(s) = Products(s)[Len(s)]
<1> DEFINE n == Len(s)
           p == Products(s)
<1>1. n \in Nat /\ s \in [1..n -> Int] /\ \A k \in 1..n : s[k] \in Int
    BY LenProperties, ElementOfSeq
<1>2. Zeros(n) \in [1..n -> Int] /\ \A k \in 1..n : Zeros(n)[k] = 0
    BY DEF Zeros
<1>3. PICK f : Computed(f, n, 1, s, Zeros(n))
    <2>1. 1 \in Int
        OBVIOUS
    <2> HIDE DEF n
    <2> QED
        BY <1>1, <1>2, <2>1, ComputedExists
<1>4. f \in [0..n -> Int] /\ f[0] = 1 /\ \A k \in 1..n : f[k] = f[k - 1] * s[k]
    <2>1. f \in [0..n -> Int] /\ f[0] = 1 /\ \A k \in 1..n : f[k] = f[k - 1] * s[k] + Zeros(n)[k]
        BY <1>3 DEF Computed
    <2>2. ASSUME NEW k \in 1..n PROVE f[k] = f[k - 1] * s[k]
        <3>1. k - 1 \in 0..n
            BY <1>1
        <3>2. f[k - 1] \in Int /\ s[k] \in Int /\ Zeros(n)[k] = 0
            BY <1>1, <1>2, <2>1, <3>1
        <3>3. f[k - 1] * s[k] \in Int
            BY <3>2
        <3> QED
            BY <2>1, <3>2, <3>3
    <2> QED
        BY <2>1, <2>2
<1>5. IsProduct(f, s)
    <2>1. \A k \in 0..n : k /= 0 => k \in 1..n
        BY <1>1
    <2>2. f = [k \in 0..n |-> IF k = 0 THEN 1 ELSE f[k - 1] * s[k]]
        BY <1>4, <2>1
    <2> QED
        BY <2>2 DEF IsProduct
<1>6. IsProduct(p, s)
    BY <1>5, Zenon DEF Products
<1>7. Product(s) = p[n]
    BY Zenon DEF Product, Products, IsProduct
<1> HIDE DEF p
<1>8. p[0] = 1 /\ \A k \in 1..n : p[k] = p[k - 1] * s[k]
    <2>1. p = [k \in 0..n |-> IF k = 0 THEN 1 ELSE p[k - 1] * s[k]]
        BY <1>6 DEF IsProduct
    <2>2. 0 \in 0..n /\ \A k \in 1..n : k \in 0..n /\ k /= 0
        BY <1>1
    <2> DEFINE g == [k \in 0..n |-> IF k = 0 THEN 1 ELSE p[k - 1] * s[k]]
    <2>3. g[0] = 1 /\ \A k \in 1..n : g[k] = p[k - 1] * s[k]
        BY <2>2
    <2>4. p = g
        BY <2>1
    <2> HIDE DEF g
    <2> QED
        BY <2>3, <2>4
<1>9. \A k \in 0..n : p[k] = f[k]
    <2>1. \A k \in 1..n : p[k - 1] = f[k - 1] => p[k] = f[k]
        BY <1>4, <1>8
    <2>2. n \in Nat /\ Alike(p, f, n)
        BY <1>1, <1>4, <1>8, <2>1 DEF Alike
    <2> QED
        BY <2>2, StepByStep, Zenon
<1> QED
    BY <1>4, <1>7, <1>8, <1>9 DEF p

(* The arithmetic of rows.                                                 *)
LEMMA Associative == ASSUME NEW a \in Int, NEW b \in Int, NEW c \in Int PROVE (a * b) * c = a * (b * c)
    OBVIOUS

LEMMA RowBefore ==
    ASSUME NEW a \in Nat, NEW b \in Nat, a < b, NEW c \in Nat \ {0}, NEW x \in Nat, x < c
    PROVE  a * c + x \in Nat /\ a * c + x < b * c
    OBVIOUS

LEMMA Quotient ==
    ASSUME NEW v \in Nat, NEW b \in Nat, NEW c \in Nat \ {0}, v < b * c
    PROVE  \E q, r \in Nat : q < b /\ r < c /\ v = q * c + r
<1> DEFINE q == v \div c
           r == v % c
<1>1. q \in Int /\ r \in Nat /\ r < c /\ v = q * c + r
    OBVIOUS
<1> HIDE DEF q, r
<1>2. q >= 0
    <2>1. ASSUME q < 0 PROVE FALSE
        <3>1. q + 1 <= 0 /\ q + 1 \in Int
            BY <1>1, <2>1
        <3>2. (q + 1) * c <= 0
            BY <3>1
        <3>3. (q + 1) * c = q * c + c
            BY <1>1
        <3> QED
            BY <1>1, <3>2, <3>3
    <2> QED
        BY <1>1, <2>1
<1>3. q < b
    <2>1. ASSUME q >= b PROVE FALSE
        <3>1. q * c >= b * c
            BY <1>1, <2>1
        <3> QED
            BY <1>1, <3>1
    <2> QED
        BY <1>1, <2>1
<1>4. q \in Nat /\ q < b /\ r \in Nat /\ r < c /\ v = q * c + r
    BY <1>1, <1>2, <1>3
<1> QED
    BY <1>4

(* The product of a sequence is that of its first element and the rest.    *)
LEMMA ProductFirst ==
    ASSUME NEW s \in Seq(Int), Len(s) > 0
    PROVE  Product(s) = s[1] * Product(Rest(s, 1))
<1> DEFINE n == Len(s) - 1
           r == Rest(s, 1)
           p == Products(s)
           q == Products(r)
<1>1. n \in Nat /\ Len(s) \in Nat /\ Len(s) = n + 1 /\ s[1] \in Int
    BY LenProperties, ElementOfSeq
<1>2. r \in Seq(Int) /\ Len(r) = n /\ \A i \in 1..n : r[i] = s[1 + i]
    <2>1. 1 \in 0..Len(s) /\ Len(s) - 1 = n
        BY <1>1
    <2> QED
        BY <2>1, RestFact
<1>3. p[0] = 1 /\ (\A k \in 1..(n + 1) : p[k] = p[k - 1] * s[k]) /\ Product(s) = p[n + 1]
    BY <1>1, ProductFact
<1>4. /\ q[0] = 1 /\ (\A k \in 1..n : q[k] = q[k - 1] * r[k]) /\ Product(r) = q[n]
      /\ \A k \in 0..n : q[k] \in Int
    BY <1>2, ProductFact
<1> HIDE DEF n, r, p, q
<1> DEFINE S == {k \in Nat : p[k + 1] = s[1] * q[k]}
<1>5. 0 \in S
    <2>1. p[1] = p[0] * s[1]
        BY <1>1, <1>3
    <2> QED
        BY <1>1, <1>3, <1>4, <2>1
<1>6. ASSUME NEW k \in 0..(n - 1), k \in S PROVE k + 1 \in S
    <2>1. k + 1 \in 1..n /\ (k + 1) + 1 \in 1..(n + 1) /\ (k + 1) - 1 = k /\ ((k + 1) + 1) - 1 = k + 1
        BY <1>1
    <2>2. p[(k + 1) + 1] = p[k + 1] * s[(k + 1) + 1] /\ q[k + 1] = q[k] * r[k + 1]
        BY <1>3, <1>4, <2>1
    <2>3. r[k + 1] = s[(k + 1) + 1] /\ q[k] \in Int /\ s[(k + 1) + 1] \in Int
        <3>1. 1 + (k + 1) = (k + 1) + 1 /\ (k + 1) + 1 \in 1..Len(s) /\ k \in 0..n
            BY <1>1, <2>1
        <3>2. s[(k + 1) + 1] \in Int
            BY <3>1, ElementOfSeq
        <3>3. q[k] \in Int
            BY <1>4, <3>1
        <3>4. r[k + 1] = s[1 + (k + 1)]
            BY <1>2, <2>1
        <3> QED
            BY <3>1, <3>2, <3>3, <3>4
    <2>4. (s[1] * q[k]) * s[(k + 1) + 1] = s[1] * (q[k] * s[(k + 1) + 1])
        BY <1>1, <2>3, Associative
    <2> QED
        BY <1>6, <2>1, <2>2, <2>3, <2>4
<1> HIDE DEF S
<1>7. 0..n \subseteq S
    BY <1>1, <1>5, <1>6, BoundedInduction
<1>8. p[n + 1] = s[1] * q[n]
    BY <1>1, <1>7 DEF S
<1> QED
    BY <1>3, <1>4, <1>8 DEF r

(* The number of elements is positive where the extents are.               *)
Extent == Nat \ {0}

LEMMA ProductPositive ==
    ASSUME NEW s \in Seq(Extent)
    PROVE  /\ s \in Seq(Int)
           /\ \A k \in 0..Len(s) : Products(s)[k] \in Extent
           /\ Product(s) \in Extent
<1> DEFINE n == Len(s)
           p == Products(s)
<1>1. n \in Nat /\ \A k \in 1..n : s[k] \in Extent
    BY LenProperties, ElementOfSeq
<1>2. s \in Seq(Int)
    BY <1>1 DEF Extent
<1>3. p[0] = 1 /\ (\A k \in 1..n : p[k] = p[k - 1] * s[k]) /\ Product(s) = p[n]
    BY <1>2, ProductFact
<1> HIDE DEF n, p
<1> DEFINE S == {k \in Nat : p[k] \in Extent}
<1>4. 0 \in S
    BY <1>3 DEF Extent
<1>5. ASSUME NEW k \in 0..(n - 1), k \in S PROVE k + 1 \in S
    <2>1. k + 1 \in 1..n /\ (k + 1) - 1 = k /\ k + 1 \in Nat
        BY <1>1
    <2>2. p[k + 1] = p[k] * s[k + 1]
        BY <1>3, <2>1
    <2>3. \A a, b \in Extent : a * b \in Extent
        BY DEF Extent
    <2> QED
        BY <1>1, <1>5, <2>1, <2>2, <2>3
<1> HIDE DEF S
<1>6. 0..n \subseteq S
    BY <1>1, <1>4, <1>5, BoundedInduction
<1>7. \A k \in 0..n : p[k] \in Extent
    BY <1>6 DEF S
<1> QED
    BY <1>1, <1>2, <1>3, <1>7 DEF n, p

(* The place of an element in an object of the extents es.                 *)
IsPlace(f, es, path) ==
    f = [k \in 0..Len(path) |-> IF k = 0 THEN 0 ELSE f[k - 1] * es[k] + path[k]]
Places(es, path) == CHOOSE f : IsPlace(f, es, path)
PlaceOf(es, path) == Places(es, path)[Len(path)]

LEMMA PlaceFact ==
    ASSUME NEW es \in Seq(Int), NEW path \in Seq(Int), Len(path) <= Len(es)
    PROVE  /\ Places(es, path)[0] = 0
           /\ \A k \in 1..Len(path) : Places(es, path)[k] = Places(es, path)[k - 1] * es[k] + path[k]
           /\ \A k \in 0..Len(path) : Places(es, path)[k] \in Int
<1> DEFINE n == Len(path)
           p == Places(es, path)
           factor == [k \in 1..n |-> es[k]]
<1>1. n \in Nat /\ path \in [1..n -> Int] /\ factor \in [1..n -> Int]
    BY LenProperties, ElementOfSeq
<1>2. PICK f : Computed(f, n, 0, factor, path)
    <2>1. 0 \in Int
        OBVIOUS
    <2> HIDE DEF n, factor
    <2> QED
        BY <1>1, <2>1, ComputedExists
<1>3. f \in [0..n -> Int] /\ f[0] = 0 /\ \A k \in 1..n : f[k] = f[k - 1] * es[k] + path[k]
    BY <1>2 DEF Computed
<1>4. IsPlace(f, es, path)
    <2>1. \A k \in 0..n : k /= 0 => k \in 1..n
        BY <1>1
    <2>2. f = [k \in 0..n |-> IF k = 0 THEN 0 ELSE f[k - 1] * es[k] + path[k]]
        BY <1>3, <2>1
    <2> QED
        BY <2>2 DEF IsPlace
<1>5. IsPlace(p, es, path)
    BY <1>4, Zenon DEF Places
<1> HIDE DEF p
<1>6. p[0] = 0 /\ \A k \in 1..n : p[k] = p[k - 1] * es[k] + path[k]
    <2> DEFINE g == [k \in 0..n |-> IF k = 0 THEN 0 ELSE p[k - 1] * es[k] + path[k]]
    <2>1. 0 \in 0..n /\ \A k \in 1..n : k \in 0..n /\ k /= 0
        BY <1>1
    <2>2. g[0] = 0 /\ \A k \in 1..n : g[k] = p[k - 1] * es[k] + path[k]
        BY <2>1
    <2>3. p = g
        BY <1>5 DEF IsPlace
    <2> HIDE DEF g
    <2> QED
        BY <2>2, <2>3
<1>7. \A k \in 0..n : p[k] = f[k]
    <2>1. \A k \in 1..n : p[k - 1] = f[k - 1] => p[k] = f[k]
        BY <1>3, <1>6
    <2>2. n \in Nat /\ Alike(p, f, n)
        BY <1>1, <1>3, <1>6, <2>1 DEF Alike
    <2> QED
        BY <2>2, StepByStep, Zenon
<1> QED
    BY <1>3, <1>6, <1>7 DEF p

(* What Place computes.                                                    *)
LEMMA PlaceIs == \A object, path : Place(object, path) = <<object, PlaceOf(Extents(object), path)>>
    BY Zenon DEF Place, PlaceOf, Places, IsPlace

(* Paths that begin in the same way, in objects whose extents do.          *)
SameStart(es, path, fs, other, n) ==
    /\ es \in Seq(Int) /\ path \in Seq(Int) /\ Len(path) <= Len(es)
    /\ fs \in Seq(Int) /\ other \in Seq(Int) /\ Len(other) <= Len(fs)
    /\ n \in Nat /\ n <= Len(path) /\ n <= Len(other)
    /\ \A k \in 1..n : path[k] = other[k] /\ (k /= 1 => es[k] = fs[k])

LEMMA PlaceSame ==
    ASSUME NEW es, NEW path, NEW fs, NEW other, NEW n, SameStart(es, path, fs, other, n)
    PROVE  \A k \in 0..n : Places(es, path)[k] = Places(fs, other)[k]
<1> DEFINE p == Places(es, path)
           q == Places(fs, other)
<1>0. n \in Nat
    BY DEF SameStart
<1>1. /\ Len(path) \in Nat /\ Len(other) \in Nat /\ Len(es) \in Nat /\ Len(fs) \in Nat
      /\ \A k \in 1..n : path[k] \in Int /\ es[k] \in Int /\ fs[k] \in Int
    <2>1. Len(path) \in Nat /\ Len(other) \in Nat /\ Len(es) \in Nat /\ Len(fs) \in Nat
        BY LenProperties DEF SameStart
    <2>2. \A k \in 1..n : k \in 1..Len(path) /\ k \in 1..Len(es) /\ k \in 1..Len(fs)
        BY <2>1 DEF SameStart
    <2> QED
        BY <2>1, <2>2, ElementOfSeq DEF SameStart
<1>2. p[0] = 0 /\ \A k \in 1..n : p[k] = p[k - 1] * es[k] + path[k]
    BY <1>1, PlaceFact DEF SameStart
<1>3. q[0] = 0 /\ \A k \in 1..n : q[k] = q[k - 1] * fs[k] + other[k]
    BY <1>1, PlaceFact DEF SameStart
<1> HIDE DEF p, q
<1>4. ASSUME NEW k \in 1..n, p[k - 1] = q[k - 1] PROVE p[k] = q[k]
    <2>1. CASE k = 1
        <3>1. 1 \in 1..n /\ 1 - 1 = 0 /\ \A x \in Int : 0 * x = 0
            BY <2>1
        <3>2. p[1] = p[1 - 1] * es[1] + path[1] /\ q[1] = q[1 - 1] * fs[1] + other[1]
            BY <1>2, <1>3, <3>1, Zenon
        <3>3. p[1] = 0 * es[1] + path[1] /\ q[1] = 0 * fs[1] + other[1]
            BY <1>2, <1>3, <3>1, <3>2, Zenon
        <3>4. path[1] = other[1]
            BY <3>1 DEF SameStart
        <3> QED
            BY <1>1, <2>1, <3>1, <3>3, <3>4
    <2>2. CASE k /= 1
        <3>1. es[k] = fs[k] /\ path[k] = other[k]
            BY <2>2 DEF SameStart
        <3> QED
            BY <1>2, <1>3, <1>4, <3>1, Zenon
    <2> QED
        BY <2>1, <2>2
<1>5. Alike(p, q, n)
    BY <1>2, <1>3, <1>4 DEF Alike
<1>6. \A k \in 0..n : p[k] = q[k]
    BY <1>0, <1>5, StepByStep, Zenon
<1> QED
    BY <1>6 DEF p, q

(* Two parts of a path.                                                    *)
LEMMA JoinedFact ==
    ASSUME NEW a \in Seq(Int), NEW b \in Seq(Int)
    PROVE  /\ a \o b \in Seq(Int) /\ Len(a) \in Nat /\ Len(b) \in Nat /\ Len(a \o b) = Len(a) + Len(b)
           /\ \A k \in 1..Len(a) : (a \o b)[k] = a[k]
           /\ \A k \in 1..Len(b) : (a \o b)[Len(a) + k] = b[k]
<1>1. Len(a) \in Nat /\ Len(b) \in Nat
    BY LenProperties
<1>2. /\ a \o b \in Seq(Int) /\ Len(a \o b) = Len(a) + Len(b)
      /\ \A i \in 1..(Len(a) + Len(b)) : (a \o b)[i] = IF i <= Len(a) THEN a[i] ELSE b[i - Len(a)]
    BY ConcatProperties
<1>3. ASSUME NEW k \in 1..Len(a) PROVE (a \o b)[k] = a[k]
    <2>1. k \in 1..(Len(a) + Len(b)) /\ k <= Len(a)
        BY <1>1
    <2> QED
        BY <1>2, <2>1
<1>4. ASSUME NEW k \in 1..Len(b) PROVE (a \o b)[Len(a) + k] = b[k]
    <2>1. Len(a) + k \in 1..(Len(a) + Len(b)) /\ ~(Len(a) + k <= Len(a)) /\ (Len(a) + k) - Len(a) = k
        BY <1>1
    <2> QED
        BY <1>2, <2>1
<1> QED
    BY <1>1, <1>2, <1>3, <1>4

JoinedAt(h, es, a, b) ==
    /\ h[Len(a)] = PlaceOf(es, a)
    /\ PlaceOf(es, a) \in Int
    /\ \A j \in 1..Len(b) : h[Len(a) + j] = h[Len(a) + j - 1] * es[Len(a) + j] + b[j]
    /\ \A j \in 0..Len(b) : h[Len(a) + j] \in Int
    /\ h[Len(a) + Len(b)] = PlaceOf(es, a \o b)

(* The steps of a place in an object, and of the same one in the row that  *)
(* the first part of its path designates.                                  *)
LEMMA PlacesJoined ==
    ASSUME NEW es \in Seq(Int), NEW a \in Seq(Int), NEW b \in Seq(Int), Len(a) + Len(b) <= Len(es)
    PROVE  JoinedAt(Places(es, a \o b), es, a, b)
<1> DEFINE p == a \o b
           n == Len(a)
           m == Len(b)
           h == Places(es, p)
<1>1. /\ p \in Seq(Int) /\ n \in Nat /\ m \in Nat /\ Len(p) = n + m /\ Len(es) \in Nat
      /\ \A k \in 1..n : p[k] = a[k]
      /\ \A k \in 1..m : p[n + k] = b[k]
    BY JoinedFact, LenProperties
<1>2. Len(p) <= Len(es) /\ Len(a) <= Len(es)
    BY <1>1
<1>3. /\ h[0] = 0
      /\ \A k \in 1..Len(p) : h[k] = h[k - 1] * es[k] + p[k]
      /\ \A k \in 0..Len(p) : h[k] \in Int
    BY <1>1, <1>2, PlaceFact
<1>4. \A k \in 0..n : h[k] = Places(es, a)[k]
    <2>1. n <= Len(p) /\ n <= Len(a)
        BY <1>1
    <2>2. \A k \in 1..n : p[k] = a[k] /\ (k /= 1 => es[k] = es[k])
        BY <1>1
    <2> HIDE DEF p, n, h
    <2>3. SameStart(es, p, es, a, n)
        BY <1>1, <1>2, <2>1, <2>2 DEF SameStart
    <2>4. \A k \in 0..n : Places(es, p)[k] = Places(es, a)[k]
        BY <2>3, PlaceSame
    <2> QED
        BY <2>4 DEF h
<1>5. h[n + m] = PlaceOf(es, p)
    BY <1>1 DEF PlaceOf
<1> HIDE DEF h, p, n, m
<1>6. ASSUME NEW j \in 1..m PROVE h[n + j] = h[n + j - 1] * es[n + j] + b[j]
    <2>1. n + j \in 1..Len(p)
        BY <1>1
    <2> QED
        BY <1>1, <1>3, <2>1
<1>7. \A j \in 0..m : n + j \in 0..Len(p)
    BY <1>1
<1>8. h[n] = PlaceOf(es, a) /\ h[n] \in Int
    BY <1>1, <1>3, <1>4 DEF PlaceOf, n
<1> QED
    BY <1>3, <1>5, <1>6, <1>7, <1>8 DEF JoinedAt, h, p, n, m

(* An element of a row lies behind the beginning of the row as it lies in  *)
(* an object of the row's extents.                                         *)
LEMMA PlaceJoined ==
    ASSUME NEW es \in Seq(Int), NEW a \in Seq(Int), NEW b \in Seq(Int), Len(a) + Len(b) = Len(es)
    PROVE  PlaceOf(es, a \o b)
               = PlaceOf(es, a) * Product(Rest(es, Len(a))) + PlaceOf(Rest(es, Len(a)), b)
<1> DEFINE n == Len(a)
           m == Len(b)
           r == Rest(es, n)
           h == Places(es, a \o b)
           g == Places(r, b)
           q == Products(r)
           c == PlaceOf(es, a)
<1>1. n \in Nat /\ m \in Nat /\ Len(es) \in Nat /\ n + m = Len(es)
    BY LenProperties
<1>2. r \in Seq(Int) /\ Len(r) = m /\ \A i \in 1..m : r[i] = es[n + i] /\ r[i] \in Int
    <2>1. n \in 0..Len(es) /\ Len(es) - n = m
        BY <1>1
    <2>2. r \in Seq(Int) /\ Len(r) = m /\ \A i \in 1..m : r[i] = es[n + i]
        BY <2>1, RestFact
    <2> QED
        BY <2>2, ElementOfSeq
<1>3. /\ h[n] = c /\ c \in Int
      /\ \A j \in 1..m : h[n + j] = h[n + j - 1] * es[n + j] + b[j]
      /\ h[n + m] = PlaceOf(es, a \o b)
    <2>1. Len(a) + Len(b) <= Len(es)
        BY <1>1
    <2>2. JoinedAt(Places(es, a \o b), es, a, b)
        BY <2>1, PlacesJoined, Zenon
    <2> QED
        BY <2>2, Zenon DEF JoinedAt
<1>4. /\ g[0] = 0
      /\ \A j \in 1..m : g[j] = g[j - 1] * r[j] + b[j]
      /\ \A j \in 0..m : g[j] \in Int
      /\ g[m] = PlaceOf(r, b)
    <2>1. Len(b) <= Len(r)
        BY <1>1, <1>2
    <2> QED
        BY <1>2, <2>1, PlaceFact DEF PlaceOf
<1>5. /\ q[0] = 1 /\ (\A j \in 1..m : q[j] = q[j - 1] * r[j]) /\ (\A j \in 0..m : q[j] \in Int)
      /\ q[m] = Product(r)
    BY <1>2, ProductFact
<1>6. \A j \in 1..m : b[j] \in Int
    BY ElementOfSeq
<1> HIDE DEF n, m, r, h, g, q, c
<1> DEFINE S == {j \in Nat : h[n + j] = c * q[j] + g[j]}
<1>7. 0 \in S
    <2>1. n + 0 = n /\ c * 1 + 0 = c
        BY <1>1, <1>3
    <2> QED
        BY <1>3, <1>4, <1>5, <2>1
<1>8. ASSUME NEW j \in 0..(m - 1), j \in S PROVE j + 1 \in S
    <2>1. j + 1 \in 1..m /\ (j + 1) - 1 = j /\ n + (j + 1) - 1 = n + j /\ j \in 0..m
        BY <1>1
    <2>2. /\ h[n + (j + 1)] = h[n + j] * es[n + (j + 1)] + b[j + 1]
          /\ g[j + 1] = g[j] * r[j + 1] + b[j + 1]
          /\ q[j + 1] = q[j] * r[j + 1]
          /\ r[j + 1] = es[n + (j + 1)] /\ r[j + 1] \in Int
        BY <1>2, <1>3, <1>4, <1>5, <2>1
    <2>3. g[j] \in Int /\ q[j] \in Int /\ b[j + 1] \in Int
        BY <1>4, <1>5, <1>6, <2>1
    <2>4. (c * q[j] + g[j]) * r[j + 1] + b[j + 1] = c * (q[j] * r[j + 1]) + (g[j] * r[j + 1] + b[j + 1])
        <3>1. c \in Int /\ q[j] \in Int /\ g[j] \in Int /\ r[j + 1] \in Int /\ b[j + 1] \in Int
            BY <1>3, <2>2, <2>3
        <3>2. PICK i, y, z, x, w \in Int : i = c /\ y = q[j] /\ z = g[j] /\ x = r[j + 1] /\ w = b[j + 1]
            BY <3>1
        <3>3. (i * y + z) * x + w = i * (y * x) + (z * x + w)
            OBVIOUS
        <3> QED
            BY <3>2, <3>3
    <2>5. h[n + (j + 1)] = (c * q[j] + g[j]) * r[j + 1] + b[j + 1]
        BY <1>8, <2>2
    <2>6. h[n + (j + 1)] = c * q[j + 1] + g[j + 1]
        BY <2>2, <2>4, <2>5
    <2> QED
        BY <2>1, <2>6
<1> HIDE DEF S
<1>9. 0..m \subseteq S
    BY <1>1, <1>7, <1>8, BoundedInduction
<1>10. h[n + m] = c * q[m] + g[m]
    BY <1>1, <1>9 DEF S
<1> QED
    BY <1>3, <1>4, <1>5, <1>10 DEF c, r, n

(* The sum of ArrayIndex: the elements that the indices skip.              *)
IsSum(f, ls, index) ==
    f = [k \in 0..Len(index) |-> IF k = 0 THEN 0 ELSE f[k - 1] + index[k] * Product(Rest(ls, k))]
Sums(ls, index) == CHOOSE f : IsSum(f, ls, index)

LEMMA IndexIs == \A d : ArrayIndex(d) = Sums(Lengths(Entire(d)), d.index)[Len(d.index)]
    BY Zenon DEF ArrayIndex, Sums, IsSum

LEMMA SumFact ==
    ASSUME NEW ls \in Seq(Int), NEW index \in Seq(Int), Len(index) <= Len(ls)
    PROVE  /\ Sums(ls, index)[0] = 0
           /\ \A k \in 1..Len(index) :
                 Sums(ls, index)[k] = Sums(ls, index)[k - 1] + index[k] * Product(Rest(ls, k))
           /\ \A k \in 0..Len(index) : Sums(ls, index)[k] \in Int
<1> DEFINE n == Len(index)
           p == Sums(ls, index)
           summand == [k \in 1..n |-> index[k] * Product(Rest(ls, k))]
<1>1. n \in Nat /\ Len(ls) \in Nat /\ \A k \in 1..n : index[k] \in Int
    BY LenProperties, ElementOfSeq
<1>2. summand \in [1..n -> Int] /\ Ones(n) \in [1..n -> Int]
    <2>1. ASSUME NEW k \in 1..n PROVE index[k] * Product(Rest(ls, k)) \in Int
        <3>1. k \in 0..Len(ls)
            BY <1>1
        <3>2. Rest(ls, k) \in Seq(Int)
            BY <3>1, RestFact
        <3>3. Product(Rest(ls, k)) \in Int
            <4>1. Len(Rest(ls, k)) \in 0..Len(Rest(ls, k))
                BY <3>2, LenProperties
            <4> QED
                BY <3>2, <4>1, ProductFact
        <3> QED
            BY <1>1, <3>3
    <2> QED
        BY <2>1 DEF Ones
<1>3. \A k \in 1..n : summand[k] = index[k] * Product(Rest(ls, k)) /\ Ones(n)[k] = 1
    BY DEF Ones
<1> HIDE DEF summand
<1>4. PICK f : Computed(f, n, 0, Ones(n), summand)
    <2>1. 0 \in Int
        OBVIOUS
    <2> HIDE DEF n
    <2> QED
        BY <1>1, <1>2, <2>1, ComputedExists
<1>5. f \in [0..n -> Int] /\ f[0] = 0 /\ \A k \in 1..n : f[k] = f[k - 1] + summand[k]
    <2>1. f \in [0..n -> Int] /\ f[0] = 0 /\ \A k \in 1..n : f[k] = f[k - 1] * Ones(n)[k] + summand[k]
        BY <1>4 DEF Computed
    <2>2. ASSUME NEW k \in 1..n PROVE f[k - 1] * Ones(n)[k] = f[k - 1]
        <3>1. k - 1 \in 0..n
            BY <1>1
        <3>2. f[k - 1] \in Int /\ Ones(n)[k] = 1
            BY <1>3, <2>1, <3>1
        <3> QED
            BY <3>2
    <2> QED
        BY <2>1, <2>2
<1>6. IsSum(f, ls, index)
    <2>1. \A k \in 0..n : k /= 0 => k \in 1..n
        BY <1>1
    <2>2. f = [k \in 0..n |-> IF k = 0 THEN 0 ELSE f[k - 1] + index[k] * Product(Rest(ls, k))]
        BY <1>3, <1>5, <2>1
    <2> QED
        BY <2>2 DEF IsSum
<1>7. IsSum(p, ls, index)
    BY <1>6, Zenon DEF Sums
<1> HIDE DEF p
<1>8. p[0] = 0 /\ \A k \in 1..n : p[k] = p[k - 1] + index[k] * Product(Rest(ls, k))
    <2> DEFINE g == [k \in 0..n |-> IF k = 0 THEN 0 ELSE p[k - 1] + index[k] * Product(Rest(ls, k))]
    <2>1. 0 \in 0..n /\ \A k \in 1..n : k \in 0..n /\ k /= 0
        BY <1>1
    <2>2. g[0] = 0 /\ \A k \in 1..n : g[k] = p[k - 1] + index[k] * Product(Rest(ls, k))
        BY <2>1
    <2>3. p = g
        BY <1>7 DEF IsSum
    <2> HIDE DEF g
    <2> QED
        BY <2>2, <2>3
<1>9. \A k \in 0..n : p[k] = f[k]
    <2>1. \A k \in 1..n : p[k - 1] = f[k - 1] => p[k] = f[k]
        BY <1>3, <1>5, <1>8
    <2>2. n \in Nat /\ Alike(p, f, n)
        BY <1>1, <1>5, <1>8, <2>1 DEF Alike
    <2> QED
        BY <2>2, StepByStep, Zenon
<1> QED
    BY <1>5, <1>8, <1>9 DEF p

(* Where the array, row or element that a path designates begins: the     *)
(* generated sum adds up to it, from wherever the pointer points to.       *)
Start(es, path) == PlaceOf(es, path) * Product(Rest(es, Len(path)))

LEMMA StartJoined ==
    ASSUME NEW es \in Seq(Int), NEW a \in Seq(Int), NEW b \in Seq(Int), Len(a) + Len(b) <= Len(es)
    PROVE  Start(es, a \o b) = Start(es, a) + Sums(Rest(es, Len(a)), b)[Len(b)]
<1> DEFINE n == Len(a)
           m == Len(b)
           r == Rest(es, n)
           h == Places(es, a \o b)
           s == Sums(r, b)
           w == [j \in 0..m |-> Product(Rest(es, n + j))]
<1>1. n \in Nat /\ m \in Nat /\ Len(es) \in Nat /\ n + m <= Len(es)
    BY LenProperties
<1>2. r \in Seq(Int) /\ Len(r) = Len(es) - n
    <2>1. n \in 0..Len(es)
        BY <1>1
    <2> QED
        BY <2>1, RestFact
<1>3. /\ h[n] = PlaceOf(es, a) /\ h[n] \in Int
      /\ \A j \in 1..m : h[n + j] = h[n + j - 1] * es[n + j] + b[j]
      /\ \A j \in 0..m : h[n + j] \in Int
      /\ h[n + m] = PlaceOf(es, a \o b)
    <2>1. JoinedAt(Places(es, a \o b), es, a, b)
        BY PlacesJoined, Zenon
    <2>2. \A j \in 0..m : h[n + j] \in Int
        BY <2>1, Zenon DEF JoinedAt
    <2>3. n + 0 = n /\ 0 \in 0..m
        BY <1>1
    <2>4. h[n] \in Int
        BY <2>2, <2>3, Zenon
    <2> QED
        BY <2>1, <2>2, <2>4, Zenon DEF JoinedAt
<1>4. /\ s[0] = 0
      /\ \A j \in 1..m : s[j] = s[j - 1] + b[j] * Product(Rest(r, j))
      /\ \A j \in 0..m : s[j] \in Int
    <2>1. Len(b) <= Len(r)
        BY <1>1, <1>2
    <2> QED
        BY <1>2, <2>1, SumFact
<1>5. ASSUME NEW j \in 0..m
      PROVE  /\ Rest(es, n + j) \in Seq(Int) /\ w[j] = Product(Rest(es, n + j)) /\ w[j] \in Int
             /\ Rest(r, j) = Rest(es, n + j)
    <2>1. n + j \in 0..Len(es) /\ n \in 0..Len(es) /\ j \in 0..(Len(es) - n)
        BY <1>1
    <2>2. Rest(es, n + j) \in Seq(Int)
        BY <2>1, RestFact
    <2>3. Len(Rest(es, n + j)) \in 0..Len(Rest(es, n + j))
        BY <2>2, LenProperties
    <2>4. Product(Rest(es, n + j)) \in Int
        BY <2>2, <2>3, ProductFact
    <2>5. Rest(r, j) = Rest(es, n + j)
        BY <2>1, RestOfRest
    <2> QED
        BY <2>2, <2>4, <2>5
<1>6. ASSUME NEW j \in 1..m PROVE w[j - 1] = es[n + j] * w[j] /\ es[n + j] \in Int
    <2> DEFINE t == Rest(es, n + (j - 1))
    <2>1. n + (j - 1) \in 0..Len(es) /\ j - 1 \in 0..m /\ n + j \in 1..Len(es)
          /\ Len(es) - (n + (j - 1)) > 0 /\ (n + (j - 1)) + 1 = n + j
          /\ 1 \in 0..(Len(es) - (n + (j - 1))) /\ 1 \in 1..(Len(es) - (n + (j - 1)))
        BY <1>1
    <2>2. /\ t \in Seq(Int) /\ Len(t) = Len(es) - (n + (j - 1))
          /\ \A i \in 1..(Len(es) - (n + (j - 1))) : t[i] = es[(n + (j - 1)) + i]
        BY <2>1, RestFact
    <2>3. t[1] = es[n + j]
        BY <2>1, <2>2
    <2>4. Rest(t, 1) = Rest(es, n + j)
        <3>1. Rest(t, 1) = Rest(es, (n + (j - 1)) + 1)
            BY <2>1, RestOfRest
        <3> QED
            BY <2>1, <3>1
    <2>5. Product(t) = t[1] * Product(Rest(t, 1))
        BY <2>1, <2>2, ProductFirst
    <2>6. es[n + j] \in Int
        BY <2>1, ElementOfSeq
    <2> QED
        BY <1>5, <2>1, <2>3, <2>4, <2>5, <2>6
<1>7. \A j \in 1..m : b[j] \in Int
    BY ElementOfSeq
<1>8. Start(es, a) = h[n] * w[0] /\ Start(es, a \o b) = h[n + m] * w[m]
    <2>1. Len(a \o b) = n + m /\ n + 0 = n /\ 0 \in 0..m /\ m \in 0..m
        BY <1>1, JoinedFact
    <2>2. w[0] = Product(Rest(es, n)) /\ w[m] = Product(Rest(es, n + m))
        BY <1>5, <2>1
    <2> QED
        BY <1>3, <2>1, <2>2 DEF Start
<1> HIDE DEF h, s, w, r, n, m
<1> DEFINE S == {j \in Nat : h[n + j] * w[j] = h[n] * w[0] + s[j]}
<1>9. 0 \in S
    <2>1. n + 0 = n /\ w[0] \in Int /\ h[n] * w[0] \in Int
        BY <1>1, <1>3, <1>5
    <2> QED
        BY <1>4, <2>1
<1>10. ASSUME NEW j \in 0..(m - 1), j \in S PROVE j + 1 \in S
    <2>1. j + 1 \in 1..m /\ (j + 1) - 1 = j /\ n + (j + 1) - 1 = n + j /\ j \in 0..m /\ j + 1 \in 0..m /\ 0 \in 0..m
        BY <1>1
    <2>2. /\ h[n + (j + 1)] = h[n + j] * es[n + (j + 1)] + b[j + 1]
          /\ s[j + 1] = s[j] + b[j + 1] * w[j + 1]
          /\ w[j] = es[n + (j + 1)] * w[j + 1]
        BY <1>3, <1>4, <1>5, <1>6, <2>1
    <2>3. PICK y, x, v, u, z \in Int :
             y = h[n + j] /\ x = es[n + (j + 1)] /\ v = w[j + 1] /\ u = b[j + 1] /\ z = s[j]
        BY <1>3, <1>4, <1>5, <1>6, <1>7, <2>1
    <2>4. PICK o \in Int : o = h[n] * w[0]
        <3>1. h[n] \in Int /\ w[0] \in Int
            BY <1>3, <1>5, <2>1
        <3>2. h[n] * w[0] \in Int
            BY <3>1
        <3> QED
            BY <3>2
    <2>5. y * (x * v) = o + z
        BY <1>10, <2>2, <2>3, <2>4
    <2>6. (y * x + u) * v = o + (z + u * v)
        <3>1. (y * x + u) * v = (y * x) * v + u * v /\ (y * x) * v = y * (x * v)
            OBVIOUS
        <3> QED
            BY <2>5, <3>1
    <2> QED
        BY <2>1, <2>2, <2>3, <2>4, <2>6
<1> HIDE DEF S
<1>11. 0..m \subseteq S
    BY <1>1, <1>9, <1>10, BoundedInduction
<1>12. h[n + m] * w[m] = h[n] * w[0] + s[m]
    BY <1>1, <1>11 DEF S
<1> QED
    BY <1>8, <1>12 DEF s, r, n, m

(* The elements of an object, counted by their places.                     *)
Within(es, path) ==
    /\ path \in Seq(Nat) /\ Len(path) <= Len(es)
    /\ \A k \in 1..Len(path) : path[k] < es[k]

LEMMA NatsAreInts ==
    ASSUME NEW s \in Seq(Nat)
    PROVE  s \in Seq(Int) /\ \A k \in 1..Len(s) : s[k] \in Nat
<1>1. Len(s) \in Nat /\ \A k \in 1..Len(s) : s[k] \in Nat
    BY LenProperties, ElementOfSeq
<1> QED
    BY <1>1

LEMMA InsideIs ==
    ASSUME NEW es \in Seq(Extent)
    PROVE  \A x : x \in Inside(es) <=> Within(es, x) /\ Len(x) = Len(es)
<1> DEFINE n == Len(es)
           U == UNION {0..(es[k] - 1) : k \in DOMAIN es}
<1>1. n \in Nat /\ DOMAIN es = 1..n /\ \A k \in 1..n : es[k] \in Nat
    BY LenProperties, ElementOfSeq DEF Extent
<1>2. U \subseteq Nat
    BY <1>1
<1>3. \A k \in 1..n, y \in Nat : y < es[k] => y \in U
    <2>1. ASSUME NEW k \in 1..n, NEW y \in Nat, y < es[k] PROVE y \in 0..(es[k] - 1)
        BY <1>1, <2>1
    <2> QED
        BY <1>1, <2>1
<1>4. \A x : x \in Inside(es) <=> x \in [1..n -> U] /\ \A k \in 1..n : x[k] < es[k]
    BY <1>1 DEF Inside
<1> HIDE DEF U
<1>5. ASSUME NEW x, x \in [1..n -> U], \A k \in 1..n : x[k] < es[k]
      PROVE  Within(es, x) /\ Len(x) = n
    <2>1. x \in [1..n -> Nat]
        BY <1>2, <1>5
    <2>2. x \in Seq(Nat) /\ Len(x) = n
        BY <1>1, <2>1
    <2> QED
        BY <1>1, <1>5, <2>2 DEF Within
<1>6. ASSUME NEW x, Within(es, x), Len(x) = n
      PROVE  x \in [1..n -> U] /\ \A k \in 1..n : x[k] < es[k]
    <2>1. x \in Seq(Nat) /\ Len(x) = n /\ \A k \in 1..n : x[k] < es[k]
        BY <1>6 DEF Within
    <2>2. x = [k \in 1..n |-> x[k]] /\ \A k \in 1..n : x[k] \in Nat
        BY <2>1, LenProperties, ElementOfSeq
    <2>3. \A k \in 1..n : x[k] \in U
        BY <1>3, <2>1, <2>2
    <2> QED
        BY <2>1, <2>2, <2>3
<1> QED
    BY <1>4, <1>5, <1>6

(* A place lies before the end of the rows that have been counted.         *)
LEMMA PlaceWithin ==
    ASSUME NEW es \in Seq(Extent), NEW path, Within(es, path)
    PROVE  \A k \in 0..Len(path) :
               Places(es, path)[k] \in Nat /\ Places(es, path)[k] < Products(es)[k]
<1> DEFINE n == Len(path)
           p == Products(es)
           g == Places(es, path)
<1>1. /\ path \in Seq(Nat) /\ n \in Nat /\ Len(es) \in Nat /\ n <= Len(es)
      /\ \A k \in 1..n : path[k] \in Nat /\ path[k] < es[k]
    <2>1. path \in Seq(Nat) /\ n <= Len(es) /\ \A k \in 1..n : path[k] < es[k]
        BY DEF Within
    <2> QED
        BY <2>1, LenProperties, NatsAreInts
<1>2. path \in Seq(Int) /\ es \in Seq(Int) /\ \A k \in 1..n : es[k] \in Nat \ {0}
    <2>1. \A k \in 1..n : k \in 1..Len(es)
        BY <1>1
    <2> QED
        BY <1>1, <2>1, NatsAreInts, ProductPositive, ElementOfSeq DEF Extent
<1>3. p[0] = 1 /\ (\A k \in 1..n : p[k] = p[k - 1] * es[k]) /\ (\A k \in 0..n : p[k] \in Nat)
    <2>1. \A k \in 1..n : k \in 1..Len(es)
        BY <1>1
    <2>2. \A k \in 0..n : k \in 0..Len(es)
        BY <1>1
    <2>3. p[0] = 1 /\ (\A k \in 1..Len(es) : p[k] = p[k - 1] * es[k])
        BY <1>2, ProductFact
    <2>4. \A k \in 0..Len(es) : p[k] \in Nat
        BY ProductPositive DEF Extent
    <2> QED
        BY <2>1, <2>2, <2>3, <2>4
<1>4. g[0] = 0 /\ \A k \in 1..n : g[k] = g[k - 1] * es[k] + path[k]
    BY <1>1, <1>2, PlaceFact
<1> HIDE DEF n, p, g
<1> DEFINE S == {k \in Nat : g[k] \in Nat /\ g[k] < p[k]}
<1>5. 0 \in S
    BY <1>3, <1>4
<1>6. ASSUME NEW k \in 0..(n - 1), k \in S PROVE k + 1 \in S
    <2>1. k + 1 \in 1..n /\ (k + 1) - 1 = k /\ k \in 0..n
        BY <1>1
    <2>2. p[k + 1] = p[k] * es[k + 1] /\ g[k + 1] = g[k] * es[k + 1] + path[k + 1]
        BY <1>3, <1>4, <2>1
    <2>3. PICK a, b, c, x \in Nat : a = g[k] /\ b = p[k] /\ c = es[k + 1] /\ x = path[k + 1]
        BY <1>1, <1>2, <1>3, <1>6, <2>1
    <2>4. a < b /\ c /= 0 /\ x < c
        BY <1>1, <1>2, <1>6, <2>1, <2>3
    <2>5. a * c + x \in Nat /\ a * c + x < b * c
        BY <2>4, RowBefore
    <2> QED
        BY <2>1, <2>2, <2>3, <2>5
<1> HIDE DEF S
<1>7. 0..n \subseteq S
    BY <1>1, <1>5, <1>6, BoundedInduction
<1> QED
    BY <1>7 DEF S, n, g, p

(* Every place before the end is that of an element.                       *)
LEMMA PlaceOnto ==
    ASSUME NEW es \in Seq(Extent), NEW v \in Nat, v < Product(es)
    PROVE  \E x \in Inside(es) : PlaceOf(es, x) = v
<1> DEFINE n == Len(es)
           p == Products(es)
           Reached(j, y) == \E x : Within(es, x) /\ Len(x) = j /\ Places(es, x)[j] = y
<1>1. n \in Nat /\ es \in Seq(Int) /\ \A k \in 1..n : es[k] \in Nat \ {0}
    BY LenProperties, ProductPositive, ElementOfSeq DEF Extent
<1>2. /\ p[0] = 1 /\ (\A k \in 1..n : p[k] = p[k - 1] * es[k]) /\ p[n] = Product(es)
      /\ \A k \in 0..n : p[k] \in Nat
    BY <1>1, ProductFact, ProductPositive DEF Extent
<1> HIDE DEF n, p
<1> DEFINE S == {j \in Nat : \A y \in Nat : y < p[j] => Reached(j, y)}
<1>3. 0 \in S
    <2>1. /\ <<>> \in Seq(Nat) /\ Len(<<>>) = 0 /\ <<>> \in Seq(Int)
          /\ Len(<<>>) <= Len(es)
        BY <1>1 DEF n
    <2>2. Within(es, <<>>)
        BY <1>1, <2>1 DEF Within, n
    <2>3. Places(es, <<>>)[0] = 0
        BY <1>1, <2>1, PlaceFact DEF n
    <2>4. Reached(0, 0)
        BY <2>1, <2>2, <2>3
    <2>5. \A y \in Nat : y < p[0] => y = 0
        BY <1>2
    <2> HIDE DEF Reached
    <2> QED
        BY <2>4, <2>5
<1>4. ASSUME NEW j \in 0..(n - 1), j \in S PROVE j + 1 \in S
    <2>1. j + 1 \in 1..n /\ (j + 1) - 1 = j /\ j \in 0..n /\ j \in Nat
        BY <1>1
    <2>2. ASSUME NEW y \in Nat, y < p[j + 1] PROVE Reached(j + 1, y)
        <3>1. PICK b, c \in Nat : b = p[j] /\ c = es[j + 1]
            BY <1>1, <1>2, <2>1
        <3>2. c \in Nat \ {0} /\ y < b * c
            BY <1>1, <1>2, <2>1, <2>2, <3>1
        <3>3. PICK q, r \in Nat : q < b /\ r < c /\ y = q * c + r
            BY <3>2, Quotient
        <3>4. PICK x : Within(es, x) /\ Len(x) = j /\ Places(es, x)[j] = q
            BY <1>4, <3>1, <3>3
        <3>5. x \in Seq(Nat) /\ \A k \in 1..j : x[k] < es[k]
            BY <3>4 DEF Within
        <3> DEFINE z == Append(x, r)
        <3>6. /\ z \in Seq(Nat) /\ Len(z) = j + 1 /\ z[j + 1] = r
              /\ \A k \in 1..j : z[k] = x[k]
            BY <3>4, <3>5, AppendProperties
        <3> HIDE DEF z
        <3>7. Within(es, z)
            <4>1. \A k \in 1..(j + 1) : k = j + 1 \/ k \in 1..j
                BY <2>1
            <4>2. \A k \in 1..(j + 1) : z[k] < es[k]
                BY <3>1, <3>3, <3>5, <3>6, <4>1
            <4>3. j + 1 <= Len(es)
                BY <2>1 DEF n
            <4> QED
                BY <3>6, <4>2, <4>3 DEF Within
        <3>8. Places(es, z)[j] = Places(es, x)[j]
            <4>1. SameStart(es, z, es, x, j)
                <5>1. z \in Seq(Int) /\ x \in Seq(Int)
                    BY <3>5, <3>6, NatsAreInts
                <5>2. Len(z) <= Len(es) /\ Len(x) <= Len(es)
                    BY <3>4, <3>7 DEF Within
                <5>3. j <= Len(z) /\ j <= Len(x) /\ j \in Nat
                    BY <2>1, <3>4, <3>6
                <5> QED
                    BY <1>1, <3>6, <5>1, <5>2, <5>3 DEF SameStart
            <4>2. j \in 0..j
                BY <2>1
            <4>3. \A k \in 0..j : Places(es, z)[k] = Places(es, x)[k]
                BY <4>1, PlaceSame
            <4> QED
                BY <4>2, <4>3
        <3>9. Places(es, z)[j + 1] = y
            <4>1. z \in Seq(Int) /\ Len(z) <= Len(es)
                BY <3>6, <3>7, NatsAreInts DEF Within
            <4>2. \A k \in 1..Len(z) : Places(es, z)[k] = Places(es, z)[k - 1] * es[k] + z[k]
                BY <1>1, <4>1, PlaceFact
            <4>3. j + 1 \in 1..Len(z)
                BY <2>1, <3>6
            <4>4. Places(es, z)[j + 1] = Places(es, z)[j] * es[j + 1] + z[j + 1]
                BY <2>1, <4>2, <4>3
            <4> QED
                BY <3>1, <3>3, <3>4, <3>6, <3>8, <4>4
        <3> QED
            BY <3>6, <3>7, <3>9
    <2> HIDE DEF Reached
    <2> QED
        BY <2>1, <2>2
<1> HIDE DEF S
<1>5. 0..n \subseteq S
    BY <1>1, <1>3, <1>4, BoundedInduction
<1>6. Reached(n, v)
    <2>1. n \in S /\ v < p[n]
        BY <1>1, <1>2, <1>5
    <2> QED
        BY <2>1 DEF S
<1>7. PICK x : Within(es, x) /\ Len(x) = n /\ Places(es, x)[n] = v
    BY <1>6
<1>8. x \in Inside(es)
    BY <1>7, InsideIs DEF n
<1> QED
    BY <1>7, <1>8 DEF PlaceOf

(* An element of a row lies within it.                                     *)
LEMMA PlaceInto ==
    ASSUME NEW es \in Seq(Extent), NEW x \in Inside(es)
    PROVE  PlaceOf(es, x) \in Nat /\ PlaceOf(es, x) < Product(es)
<1>1. Within(es, x) /\ Len(x) = Len(es) /\ Len(es) \in Nat
    BY InsideIs, LenProperties
<1>2. Len(x) \in 0..Len(x)
    BY <1>1
<1>3. Product(es) = Products(es)[Len(es)]
    BY ProductPositive, ProductFact
<1> QED
    BY <1>1, <1>2, <1>3, PlaceWithin DEF PlaceOf

-----------------------------------------------------------------------------
(* Designators: where they point to, and when they trap.                   *)

LEMMA ExtentsPositive ==
    ASSUME NEW o \in ArrayVar \union Literal
    PROVE  Extents(o) \in Seq(Extent)
<1>1. CASE o \in Literal
    <2>1. LiteralLength[o] + 1 \in Extent
        <3>1. LiteralLength \in [Literal -> Nat]
            BY ArraysAssumption
        <3> QED
            BY <1>1, <3>1 DEF Extent
    <2> QED
        BY <1>1, <2>1 DEF Extents
<1>2. CASE o \in ArrayVar /\ o \notin Literal
    <2> DEFINE t == ArrayVarType[o]
    <2>1. t \in Seq(Dimension) /\ \A k \in DOMAIN t : t[k].len \in Extent
        BY <1>2, ArraysAssumption DEF Extent
    <2>2. DOMAIN t = 1..Len(t) /\ Len(t) \in Nat
        BY <2>1, LenProperties
    <2>3. Extents(o) = [k \in 1..Len(t) |-> t[k].len]
        BY <1>2, <2>2 DEF Extents
    <2> HIDE DEF t
    <2> QED
        BY <2>1, <2>2, <2>3
<1> QED
    BY <1>1, <1>2

(* The pointer and the path that are passed for a parameter.               *)
BaseAt(b) ==
    /\ Within(Extents(b.object), b.path)
    /\ b.offset = Start(Extents(b.object), b.path)

Pointed(e) ==
    /\ e.base.object \in ArrayVar \union Literal
    /\ BaseAt(e.base)
    /\ e.index \in Seq(Int)
    /\ Len(e.base.path) + Len(e.index) <= Len(Extents(e.base.object))
    /\ Lengths(Entire(e)) = Rest(Extents(e.base.object), Len(e.base.path))
    /\ Lengths(e) = ExtentsOf(e)

LEMMA PointedFact ==
    ASSUME NEW e, Pointed(e)
    PROVE  LET es == Extents(e.base.object)
               n  == Len(e.base.path)
           IN /\ es \in Seq(Extent) /\ es \in Seq(Int) /\ Len(es) \in Nat
              /\ e.base.path \in Seq(Nat) /\ e.base.path \in Seq(Int) /\ n \in Nat
              /\ e.index \in Seq(Int) /\ Len(e.index) \in Nat /\ n + Len(e.index) <= Len(es)
              /\ Path(e) \in Seq(Int) /\ Len(Path(e)) = n + Len(e.index)
              /\ \A k \in 1..n : Path(e)[k] = e.base.path[k]
              /\ \A k \in 1..Len(e.index) : Path(e)[n + k] = e.index[k]
              /\ \A k \in 1..n : e.base.path[k] \in Nat /\ e.base.path[k] < es[k]
<1> DEFINE es == Extents(e.base.object)
           p == e.base.path
<1>1. es \in Seq(Extent)
    BY ExtentsPositive DEF Pointed
<1>2. es \in Seq(Int) /\ Len(es) \in Nat
    BY <1>1, ProductPositive, LenProperties
<1>3. Within(es, p) /\ e.index \in Seq(Int) /\ Len(p) + Len(e.index) <= Len(es)
    BY DEF Pointed, BaseAt
<1>4. p \in Seq(Nat) /\ \A k \in 1..Len(p) : p[k] < es[k]
    BY <1>3 DEF Within
<1>5. p \in Seq(Int) /\ \A k \in 1..Len(p) : p[k] \in Nat
    BY <1>4, NatsAreInts
<1>6. /\ p \o e.index \in Seq(Int) /\ Len(p) \in Nat /\ Len(e.index) \in Nat
      /\ Len(p \o e.index) = Len(p) + Len(e.index)
      /\ \A k \in 1..Len(p) : (p \o e.index)[k] = p[k]
      /\ \A k \in 1..Len(e.index) : (p \o e.index)[Len(p) + k] = e.index[k]
    BY <1>3, <1>5, JoinedFact
<1> QED
    BY <1>1, <1>2, <1>3, <1>4, <1>5, <1>6 DEF Path

(* The address that is computed is that of the array or element meant.     *)
LEMMA AddressIs ==
    ASSUME NEW e, Pointed(e)
    PROVE  Address(e) = <<e.base.object, Start(Extents(e.base.object), Path(e))>>
<1> DEFINE es == Extents(e.base.object)
           p == e.base.path
<1>1. es \in Seq(Int) /\ p \in Seq(Int) /\ e.index \in Seq(Int) /\ Len(p) + Len(e.index) <= Len(es)
    BY PointedFact
<1>2. ArrayIndex(e) = Sums(Rest(es, Len(p)), e.index)[Len(e.index)]
    BY IndexIs DEF Pointed
<1>3. Start(es, p \o e.index) = Start(es, p) + Sums(Rest(es, Len(p)), e.index)[Len(e.index)]
    BY <1>1, StartJoined
<1>4. e.base.offset = Start(es, p)
    BY DEF Pointed, BaseAt
<1> QED
    BY <1>2, <1>3, <1>4 DEF Address, Path

(* The elements of an array that is meant lie behind its address.          *)
LEMMA PartIs ==
    ASSUME NEW e, Pointed(e), NEW x \in Inside(ExtentsOf(e))
    PROVE  Part(e, x) = Beyond(e, PlaceOf(ExtentsOf(e), x))
<1> DEFINE o == e.base.object
           es == Extents(o)
           n == Len(Path(e))
<1>1. /\ es \in Seq(Extent) /\ es \in Seq(Int) /\ Path(e) \in Seq(Int) /\ n \in 0..Len(es) /\ Len(es) \in Nat
    <2> DEFINE b == Len(e.base.path)
               m == Len(e.index)
    <2>1. /\ es \in Seq(Extent) /\ es \in Seq(Int) /\ Path(e) \in Seq(Int) /\ Len(es) \in Nat
          /\ b \in Nat /\ m \in Nat /\ b + m <= Len(es) /\ n = b + m
        BY PointedFact
    <2> HIDE DEF b, m
    <2> QED
        BY <2>1
<1>2. ExtentsOf(e) = Rest(es, n)
    BY DEF ExtentsOf
<1>3. Rest(es, n) \in Seq(Extent) /\ Len(Rest(es, n)) = Len(es) - n
    BY <1>1, RestFact
<1>4. Within(ExtentsOf(e), x) /\ Len(x) = Len(es) - n
    BY <1>2, <1>3, InsideIs
<1>5. x \in Seq(Int) /\ n + Len(x) = Len(es)
    BY <1>1, <1>4, NatsAreInts DEF Within
<1>6. PlaceOf(es, Path(e) \o x) = PlaceOf(es, Path(e)) * Product(Rest(es, n)) + PlaceOf(Rest(es, n), x)
    BY <1>1, <1>5, PlaceJoined
<1>7. Part(e, x) = <<o, Start(es, Path(e)) + PlaceOf(ExtentsOf(e), x)>>
    BY <1>2, <1>6, PlaceIs DEF Part, Start
<1> QED
    BY <1>7, AddressIs DEF Beyond

(* What is meant exists.                                                   *)
LEMMA ExistsIs ==
    ASSUME NEW e, Pointed(e)
    PROVE  /\ Exists(e) <=> \A k \in 1..Len(e.index) :
                  e.index[k] \in 0..(Extents(e.base.object)[Len(e.base.path) + k] - 1)
           /\ Exists(e) => Within(Extents(e.base.object), Path(e))
<1> DEFINE es == Extents(e.base.object)
           n == Len(e.base.path)
           m == Len(e.index)
           p == Path(e)
<1>1. /\ es \in Seq(Extent) /\ Len(es) \in Nat
      /\ n \in Nat /\ m \in Nat /\ n + m <= Len(es)
      /\ p \in Seq(Int) /\ Len(p) = n + m
      /\ \A k \in 1..n : p[k] = e.base.path[k]
      /\ \A k \in 1..m : p[n + k] = e.index[k]
      /\ \A k \in 1..n : e.base.path[k] \in Nat /\ e.base.path[k] < es[k]
    BY PointedFact
<1>2. DOMAIN p = 1..(n + m)
    BY <1>1, LenProperties
<1>3. \A k \in 1..(n + m) : es[k] \in Nat
    <2> HIDE DEF es, n, m, p
    <2>1. \A k \in 1..(n + m) : k \in 1..Len(es)
        BY <1>1
    <2> QED
        BY <1>1, <2>1, ElementOfSeq DEF Extent
<1>4. Exists(e) <=> \A k \in 1..(n + m) : p[k] \in 0..(es[k] - 1)
    BY <1>2 DEF Exists
<1> HIDE DEF es, n, m, p
<1>5. ASSUME NEW k \in 1..n PROVE p[k] \in 0..(es[k] - 1)
    <2>1. k \in 1..(n + m)
        BY <1>1
    <2>2. p[k] \in Nat /\ p[k] < es[k]
        BY <1>1
    <2>3. es[k] \in Nat
        BY <1>3, <2>1
    <2> QED
        BY <2>2, <2>3
<1>6. (\A k \in 1..(n + m) : p[k] \in 0..(es[k] - 1)) <=> \A k \in 1..m : p[n + k] \in 0..(es[n + k] - 1)
    <2>1. \A k \in 1..m : n + k \in 1..(n + m)
        BY <1>1
    <2>2. ASSUME \A k \in 1..m : p[n + k] \in 0..(es[n + k] - 1), NEW k \in 1..(n + m)
          PROVE  p[k] \in 0..(es[k] - 1)
        <3>1. CASE k \in 1..n
            BY <1>5, <3>1
        <3>2. CASE k > n
            <4>1. k - n \in 1..m /\ n + (k - n) = k
                BY <1>1, <3>2
            <4> QED
                BY <2>2, <4>1
        <3> QED
            BY <1>1, <3>1, <3>2
    <2> QED
        BY <2>1, <2>2
<1>7. Exists(e) <=> \A k \in 1..m : e.index[k] \in 0..(es[n + k] - 1)
    BY <1>1, <1>4, <1>6
<1>8. ASSUME Exists(e) PROVE Within(es, p)
    <2>1. \A k \in 1..(n + m) : p[k] \in Nat /\ p[k] < es[k]
        BY <1>3, <1>4, <1>8
    <2>2. p \in Seq(Nat)
        <3>1. p = [k \in 1..Len(p) |-> p[k]] /\ Len(p) \in Nat
            BY <1>1, LenProperties
        <3>2. \A k \in 1..Len(p) : p[k] \in Nat
            BY <1>1, <2>1
        <3>3. [k \in 1..Len(p) |-> p[k]] \in Seq(Nat)
            BY <3>1, <3>2
        <3> QED
            BY <3>1, <3>3
    <2> QED
        BY <1>1, <2>1, <2>2 DEF Within
<1> QED
    BY <1>7, <1>8 DEF es, n, m, p

(* A constant designator that is not checked when it is run was checked    *)
(* when it was compiled.                                                   *)
Checked(e) == e.const /\ ~IsOpenArray(e.base.type) => Exists(e)

LEMMA TrapsExactly ==
    ASSUME NEW e, Pointed(e), Checked(e)
    PROVE  IndexTraps(e) <=> ~Exists(e)
<1> DEFINE es == Extents(e.base.object)
           n == Len(e.base.path)
           m == Len(e.index)
<1>1. es \in Seq(Int) /\ Len(es) \in Nat /\ n \in Nat /\ m \in Nat /\ n + m <= Len(es) /\ e.index \in Seq(Int)
    BY PointedFact
<1>2. \A k \in 1..m : Lengths(Entire(e))[k] = es[n + k]
    <2>0. Lengths(Entire(e)) = Rest(es, n)
        BY DEF Pointed
    <2> HIDE DEF es, n, m
    <2>1. n \in 0..Len(es) /\ \A k \in 1..m : k \in 1..(Len(es) - n)
        BY <1>1
    <2>2. \A k \in 1..(Len(es) - n) : Rest(es, n)[k] = es[n + k]
        BY <1>1, <2>1, RestFact
    <2> QED
        BY <2>0, <2>1, <2>2
<1>3. DOMAIN e.index = 1..m /\ (e.index = <<>> => m = 0)
    BY <1>1, LenProperties, EmptySeq
<1>4. Exists(e) <=> \A k \in 1..m : e.index[k] \in 0..(es[n + k] - 1)
    BY ExistsIs
<1> HIDE DEF es, n, m
<1>5. (\E k \in DOMAIN e.index : e.index[k] \notin 0..(Lengths(Entire(e))[k] - 1)) <=> ~Exists(e)
    BY <1>2, <1>3, <1>4
<1>6. e.index = <<>> => Exists(e)
    BY <1>1, <1>3, <1>4
<1> QED
    BY <1>5, <1>6 DEF IndexTraps, Checked

(* The first element of an array is at its address.                        *)
LEMMA FirstElement ==
    ASSUME NEW e, Pointed(e)
    PROVE  Part(e, [k \in DOMAIN ExtentsOf(e) |-> 0]) = Address(e)
<1> DEFINE o == e.base.object
           X == Extents(o)
           n == Len(Path(e))
           es == ExtentsOf(e)
           z == [k \in DOMAIN es |-> 0]
<1>1. X \in Seq(Extent) /\ X \in Seq(Int) /\ Path(e) \in Seq(Int) /\ n \in 0..Len(X)
    <2> DEFINE b == Len(e.base.path)
               m == Len(e.index)
    <2>1. /\ X \in Seq(Extent) /\ X \in Seq(Int) /\ Path(e) \in Seq(Int) /\ Len(X) \in Nat
          /\ b \in Nat /\ m \in Nat /\ b + m <= Len(X) /\ n = b + m
        BY PointedFact
    <2> HIDE DEF b, m
    <2> QED
        BY <2>1
<1>2. es \in Seq(Extent) /\ es = Rest(X, n)
    BY <1>1, RestFact DEF ExtentsOf
<1>3. Len(es) \in Nat /\ DOMAIN es = 1..Len(es) /\ es \in Seq(Int) /\ \A k \in 1..Len(es) : es[k] \in Nat \ {0}
    BY <1>2, LenProperties, ProductPositive, ElementOfSeq DEF Extent
<1> HIDE DEF es
<1>4. z \in Seq(Nat) /\ z \in Seq(Int) /\ Len(z) = Len(es) /\ \A k \in 1..Len(es) : z[k] = 0
    BY <1>3
<1> HIDE DEF z
<1>5. z \in Inside(es)
    <2>1. Within(es, z)
        BY <1>3, <1>4 DEF Within
    <2> QED
        BY <1>2, <1>4, <2>1, InsideIs
<1>6. PlaceOf(es, z) = 0
    <2> DEFINE g == Places(es, z)
               S == {k \in Nat : g[k] = 0}
    <2>1. g[0] = 0 /\ \A k \in 1..Len(es) : g[k] = g[k - 1] * es[k] + z[k]
        BY <1>3, <1>4, PlaceFact
    <2> HIDE DEF g
    <2>2. 0 \in S
        BY <2>1
    <2>3. ASSUME NEW k \in 0..(Len(es) - 1), k \in S PROVE k + 1 \in S
        <3>1. k + 1 \in 1..Len(es) /\ (k + 1) - 1 = k
            BY <1>3
        <3>2. g[k + 1] = g[(k + 1) - 1] * es[k + 1] + z[k + 1]
            BY <2>1, <3>1, Zenon
        <3>3. g[k] = 0 /\ z[k + 1] = 0 /\ es[k + 1] \in Int
            BY <1>3, <1>4, <2>3, <3>1
        <3>4. g[k + 1] = 0 * es[k + 1] + 0
            BY <3>1, <3>2, <3>3, Zenon
        <3> QED
            BY <3>3, <3>4
    <2> HIDE DEF S
    <2>4. 0..Len(es) \subseteq S
        BY <1>3, <2>2, <2>3, BoundedInduction
    <2> QED
        BY <1>3, <1>4, <2>4 DEF S, g, PlaceOf
<1>7. Part(e, z) = <<Address(e)[1], Address(e)[2] + 0>>
    BY <1>5, <1>6, PartIs DEF es, Beyond
<1>8. Address(e) = <<o, Start(X, Path(e))>> /\ Start(X, Path(e)) \in Int
    <2>1. PlaceOf(X, Path(e)) \in Int
        <3>1. Len(Path(e)) <= Len(X) /\ Len(Path(e)) \in 0..Len(Path(e))
            BY <1>1, LenProperties
        <3> QED
            BY <1>1, <3>1, PlaceFact DEF PlaceOf
    <2>2. Product(Rest(X, n)) \in Int
        BY <1>2, ProductPositive DEF Extent
    <2>3. Start(X, Path(e)) \in Int
        BY <2>1, <2>2 DEF Start
    <2> QED
        BY <2>3, AddressIs
<1> QED
    BY <1>7, <1>8 DEF z, es

(* The beginning of an object.                                             *)
LEMMA AtStart ==
    ASSUME NEW o \in ArrayVar \union Literal
    PROVE  /\ Within(Extents(o), <<>>)
           /\ Start(Extents(o), <<>>) = 0
           /\ Rest(Extents(o), 0) = Extents(o)
<1> DEFINE es == Extents(o)
<1>1. es \in Seq(Extent) /\ es \in Seq(Int) /\ Len(es) \in Nat /\ es = [k \in 1..Len(es) |-> es[k]]
    BY ExtentsPositive, ProductPositive, LenProperties
<1> HIDE DEF es
<1>2. <<>> \in Seq(Nat) /\ <<>> \in Seq(Int) /\ Len(<<>>) = 0 /\ Len(<<>>) <= Len(es)
    BY <1>1
<1>3. Within(es, <<>>)
    BY <1>2 DEF Within
<1>4. PlaceOf(es, <<>>) = 0
    BY <1>1, <1>2, PlaceFact DEF PlaceOf
<1>5. Rest(es, 0) = es
    <2>1. 0 \in 0..Len(es) /\ Len(es) - 0 = Len(es) /\ \A k \in 1..Len(es) : 0 + k = k
        BY <1>1
    <2>2. Rest(es, 0) \in Seq(Int) /\ Len(Rest(es, 0)) = Len(es) /\ \A k \in 1..Len(es) : Rest(es, 0)[k] = es[k]
        BY <1>1, <2>1, RestFact
    <2> QED
        BY <1>1, <2>2, SeqEqual
<1>6. Start(es, <<>>) = 0 * Product(es)
    BY <1>2, <1>4, <1>5 DEF Start
<1>7. Product(es) \in Int
    BY <1>1, ProductPositive DEF Extent
<1> QED
    BY <1>3, <1>5, <1>6, <1>7 DEF es

PlacesInv ==
    \A c \in 1..Len(calls) : \A i \in DOMAIN calls[c] :
        BaseAt(calls[c][i]) /\ calls[c][i].kind \in {"value", "var"}

LEMMA BasesAt ==
    ASSUME CallsInv, PlacesInv
    PROVE  \A b \in Bases : BaseAt(b)
<1>1. ASSUME NEW x \in ArrayVar PROVE BaseAt(Base("variable", ArrayVarType[x], x))
    BY AtStart DEF Base, BaseAt
<1>2. ASSUME NEW b \in Parameters PROVE BaseAt(b)
    <2>1. calls /= <<>>
        BY DEF Parameters
    <2>2. Len(calls) \in 1..Len(calls)
        BY <2>1, EmptySeq, LenProperties DEF CallsInv
    <2>3. PICK i \in DOMAIN calls[Len(calls)] : b = calls[Len(calls)][i]
        BY <2>1 DEF Parameters
    <2> QED
        BY <2>2, <2>3 DEF PlacesInv
<1> QED
    BY <1>1, <1>2 DEF Bases

LEMMA DesignatorPointed ==
    ASSUME NEW b, BaseTrue(b), BaseAt(b), NEW m \in Nat, m <= Len(b.type),
           NEW index \in [1..m -> IndexValue], NEW const,
           NEW e, e = [base |-> b, index |-> index, const |-> const]
    PROVE  DesignatorTrue(e) /\ Pointed(e) /\ Len(e.index) = m
<1> DEFINE d == Entire(e)
<1>1. e.base = b /\ e.index = index /\ d.base = b /\ d.index = <<>>
    BY DEF Entire
<1>2. index \in Seq(Int) /\ Len(index) = m /\ <<>> \in Seq(Int) /\ Len(<<>>) = 0
    <2>1. IndexValue \subseteq Int
        BY ArraysAssumption
    <2>2. \A k \in 1..m : index[k] \in Int
        BY <2>1
    <2> QED
        BY <2>2
<1>3. b.type \in Seq(Dimension) /\ Len(b.type) \in Nat /\ b.path \in Seq(Int) /\ Len(b.path) \in Nat
      /\ Len(b.path) + Len(b.type) = Len(Extents(b.object)) /\ b.object \in ArrayVar \union Literal
    BY TypeFact, LenProperties DEF BaseTrue
<1> HIDE DEF d
<1>4. DesignatorTrue(e) /\ DesignatorTrue(d)
    BY <1>1, <1>2, <1>3 DEF DesignatorTrue
<1>5. Lengths(e) = ExtentsOf(e) /\ Lengths(d) = ExtentsOf(d)
    BY <1>4, LengthsFact
<1>6. ExtentsOf(d) = Rest(Extents(b.object), Len(b.path))
    <2>1. b.path \o <<>> = b.path
        BY <1>3, ConcatEmptySeq
    <2> QED
        BY <1>1, <2>1 DEF ExtentsOf, Path
<1>7. Len(b.path) + Len(index) <= Len(Extents(b.object))
    <2>1. PICK x, t \in Nat : x = Len(b.path) /\ t = Len(b.type)
        BY <1>3
    <2>2. x + m <= x + t
        BY <2>1
    <2> QED
        BY <1>2, <1>3, <2>1, <2>2
<1>8. Lengths(Entire(e)) = Rest(Extents(b.object), Len(b.path))
    BY <1>5, <1>6 DEF d
<1> QED
    BY <1>1, <1>2, <1>3, <1>4, <1>5, <1>7, <1>8 DEF Pointed

LEMMA StringPointed ==
    ASSUME NEW e \in Strings
    PROVE  /\ Pointed(e) /\ Checked(e) /\ IsString(e)
           /\ TypeOf(e) = <<>> /\ e.base.object \in Literal
           /\ Lengths(e) = <<LiteralLength[e.base.object] + 1>>
<1>1. PICK s \in Literal : e \in Selected(Base("string", <<>>, s), 0)
    BY DEF Strings
<1>2. e = [base |-> Base("string", <<>>, s), index |-> <<>>, const |-> FALSE]
    <2>1. /\ e.base = Base("string", <<>>, s) /\ e.index \in [1..0 -> IndexValue] /\ e.const = FALSE
          /\ e = [base |-> e.base, index |-> e.index, const |-> e.const]
        BY <1>1 DEF Selected
    <2>2. e.index = <<>>
        BY <2>1
    <2> QED
        BY <2>1, <2>2
<1> DEFINE d == Entire(e)
<1>3. /\ e.base.kind = "string" /\ e.base.type = <<>> /\ e.base.object = s /\ e.base.path = <<>>
      /\ e.base.offset = 0 /\ e.index = <<>> /\ e.const = FALSE /\ d.base = e.base /\ d.index = <<>>
    BY <1>2 DEF Base, Entire
<1>4. TypeOf(e) = <<>> /\ Path(e) = <<>>
    BY <1>3 DEF TypeOf, Path, Rest
<1> HIDE DEF d
<1>5. Lengths(e) = <<LiteralLength[s] + 1>> /\ Lengths(d) = <<LiteralLength[s] + 1>> /\ Extents(s) = <<LiteralLength[s] + 1>>
    BY <1>3 DEF Lengths, IsString, Extents
<1>6. Within(Extents(s), <<>>) /\ Start(Extents(s), <<>>) = 0 /\ Rest(Extents(s), 0) = Extents(s)
    BY AtStart
<1>7. Pointed(e)
    <2>1. <<>> \in Seq(Int) /\ Len(<<>>) = 0 /\ 0 + 0 <= Len(Extents(s))
        BY <1>5
    <2> QED
        BY <1>3, <1>4, <1>5, <1>6, <2>1 DEF Pointed, BaseAt, ExtentsOf, d
<1> QED
    BY <1>3, <1>4, <1>5, <1>7 DEF Checked, IsString

(* An array that a statement names.                                        *)
LEMMA ArrayFact ==
    ASSUME CallsInv, PlacesInv, NEW e \in ArrayDesignators
    PROVE  /\ Pointed(e) /\ Checked(e) /\ ~IsString(e) /\ DesignatorTrue(e)
           /\ e.base.type \in DeclaredTypes /\ Len(e.index) \in Nat
           /\ Len(e.index) + 1 <= Len(e.base.type)
           /\ TypeOf(e) \in Seq(Dimension) /\ Len(TypeOf(e)) \in Nat \ {0}
           /\ \A j, k \in 1..Len(TypeOf(e)) :
                 j < k /\ TypeOf(e)[k].len = Open => TypeOf(e)[j].len = Open
           /\ Len(Lengths(e)) = Len(TypeOf(e))
           /\ \A i \in 1..Len(TypeOf(e)) : TypeOf(e)[i].len /= Open => Lengths(e)[i] = TypeOf(e)[i].len
<1>1. PICK b \in Bases : e \in ArraysOf(b)
    BY DEF ArrayDesignators
<1>2. BaseTrue(b) /\ BaseAt(b)
    BY BasesTrue, BasesAt
<1>3. b.type \in DeclaredTypes /\ b.type \in Seq(Dimension) /\ Len(b.type) \in Nat
      /\ \A j, k \in 1..Len(b.type) : j < k /\ b.type[k].len = Open => b.type[j].len = Open
    BY <1>2, TypeFact, LenProperties DEF BaseTrue
<1>4. PICK n \in 0..(Len(b.type) - 1) : e \in Selected(b, n)
    BY <1>1 DEF ArraysOf
<1>5. /\ e.base = b /\ e.index \in [1..n -> IndexValue] /\ e.const = FALSE
      /\ e = [base |-> b, index |-> e.index, const |-> FALSE]
    BY <1>4 DEF Selected
<1>6. n \in Nat /\ n + 1 <= Len(b.type) /\ n <= Len(b.type)
    BY <1>3, <1>4
<1>7. DesignatorTrue(e) /\ Pointed(e) /\ Len(e.index) = n
    BY <1>2, <1>5, <1>6, DesignatorPointed
<1> DEFINE T == TypeOf(e)
           len == Len(b.type) - n
<1>8. len \in Nat \ {0} /\ \A k \in 1..len : n + k \in 1..Len(b.type)
    BY <1>3, <1>6
<1>9. T \in Seq(Dimension) /\ Len(T) = len /\ \A k \in 1..len : T[k] = b.type[n + k]
    <2>1. n \in 0..Len(b.type)
        BY <1>3, <1>6
    <2>2. T = Rest(b.type, n)
        BY <1>5, <1>7 DEF TypeOf
    <2> HIDE DEF T
    <2> QED
        BY <1>3, <2>1, <2>2, RestFact
<1>10. /\ Len(Lengths(e)) = Len(T)
       /\ \A i \in 1..Len(T) : Lengths(e)[i] = Extents(e.base.object)[Len(Path(e)) + i]
    BY <1>7, LengthsFact
<1>11. \A i \in 1..Len(T) :
           (IF T[i].len = Open THEN e.base.lens[Len(e.index) + i] ELSE T[i].len)
               = Extents(e.base.object)[Len(Path(e)) + i]
    BY <1>7, DesignatorFact
<1> HIDE DEF T, len
<1>12. \A i \in 1..Len(T) : T[i].len /= Open => Lengths(e)[i] = T[i].len
    BY <1>10, <1>11
<1>13. ASSUME NEW j \in 1..Len(T), NEW k \in 1..Len(T), j < k, T[k].len = Open PROVE T[j].len = Open
    <2>1. j \in 1..len /\ k \in 1..len
        BY <1>9
    <2>2. n + j \in 1..Len(b.type) /\ n + k \in 1..Len(b.type)
        BY <1>8, <2>1
    <2>3. n + j < n + k
        BY <1>6, <1>8, <1>13, <2>1
    <2>4. b.type[n + k].len = Open
        BY <1>9, <1>13, <2>1
    <2>5. b.type[n + j].len = Open
        BY <1>3, <2>2, <2>3, <2>4
    <2> QED
        BY <1>9, <2>1, <2>5
<1>14. ~IsString(e)
    BY <1>2, <1>5 DEF BaseTrue, IsString
<1>15. Checked(e)
    BY <1>5 DEF Checked
<1> QED
    BY <1>3, <1>5, <1>6, <1>7, <1>8, <1>9, <1>10, <1>12, <1>13, <1>14, <1>15 DEF T

LEMMA NamedFact ==
    ASSUME CallsInv, PlacesInv, NEW e \in ArrayDesignators \union Strings
    PROVE  /\ Pointed(e) /\ Checked(e)
           /\ Lengths(e) = ExtentsOf(e) /\ Lengths(e) \in Seq(Extent) /\ Len(Lengths(e)) \in Nat \ {0}
           /\ IsString(e) \/ IsCharacterArray(TypeOf(e)) => Len(Lengths(e)) = 1
<1>1. Pointed(e) /\ Checked(e) /\ Len(Lengths(e)) \in Nat \ {0}
      /\ (IsString(e) \/ IsCharacterArray(TypeOf(e)) => Len(Lengths(e)) = 1)
    <2>1. CASE e \in ArrayDesignators
        BY <2>1, ArrayFact DEF IsCharacterArray
    <2>2. CASE e \in Strings
        <3>1. Len(Lengths(e)) = 1
            BY <2>2, StringPointed
        <3> QED
            BY <2>2, <3>1, StringPointed
    <2> QED
        BY <2>1, <2>2
<1> DEFINE X == Extents(e.base.object)
           n == Len(Path(e))
<1>2. X \in Seq(Extent) /\ n \in 0..Len(X)
    <2> DEFINE b == Len(e.base.path)
               m == Len(e.index)
    <2>1. X \in Seq(Extent) /\ Len(X) \in Nat /\ b \in Nat /\ m \in Nat /\ b + m <= Len(X) /\ n = b + m
        BY <1>1, PointedFact
    <2> HIDE DEF b, m, n
    <2> QED
        BY <2>1
<1>3. Lengths(e) = Rest(X, n)
    BY <1>1 DEF Pointed, ExtentsOf
<1>4. Lengths(e) \in Seq(Extent)
    BY <1>2, <1>3, RestFact
<1> QED
    BY <1>1, <1>4 DEF Pointed

(* An element, of an array or a designator whose indices are constants.    *)
LEMMA ElementFact ==
    ASSUME CallsInv, PlacesInv, NEW e \in Elements
    PROVE  Pointed(e) /\ Checked(e) /\ ExtentsOf(e) = <<>>
<1>1. PICK b \in Bases : e \in Selected(b, Len(b.type)) \union Constant(b)
    BY DEF Elements
<1>2. BaseTrue(b) /\ BaseAt(b)
    BY BasesTrue, BasesAt
<1>3. b.type \in DeclaredTypes /\ b.type \in Seq(Dimension) /\ Len(b.type) \in Nat
      /\ \A j, k \in 1..Len(b.type) : j < k /\ b.type[k].len = Open => b.type[j].len = Open
    BY <1>2, TypeFact, LenProperties DEF BaseTrue
<1> DEFINE n == Len(b.type)
<1>4. /\ e.base = b /\ e.index \in [1..n -> IndexValue]
      /\ e = [base |-> b, index |-> e.index, const |-> e.const]
      /\ e.const = FALSE \/ IndexAccepted(b, e.index)
    <2>1. CASE e \in Selected(b, n)
        BY <2>1 DEF Selected
    <2>2. CASE e \in Constant(b)
        BY <2>2 DEF Constant
    <2> QED
        BY <1>1, <2>1, <2>2
<1>5. DesignatorTrue(e) /\ Pointed(e) /\ Len(e.index) = n
    <2>1. n \in Nat /\ n <= Len(b.type)
        BY <1>3
    <2> QED
        BY <1>2, <1>4, <2>1, DesignatorPointed
<1>6. /\ Len(b.path) + n = Len(Extents(b.object)) /\ Len(b.path) \in Nat
      /\ \A k \in 1..n : DimensionTrue(b, k)
    BY <1>2, LenProperties DEF BaseTrue
<1>7. ExtentsOf(e) = <<>>
    <2> DEFINE X == Extents(b.object)
    <2>1. Path(e) \in Seq(Int) /\ Len(Path(e)) = Len(X) /\ X \in Seq(Extent) /\ Len(X) \in Nat
        BY <1>4, <1>5, <1>6, PointedFact
    <2>2. Rest(X, Len(X)) \in Seq(Extent) /\ Len(Rest(X, Len(X))) = Len(X) - Len(X)
        <3>1. Len(X) \in 0..Len(X)
            BY <2>1
        <3> QED
            BY <2>1, <3>1, RestFact
    <2>3. Rest(X, Len(X)) = <<>>
        BY <2>1, <2>2, EmptySeq
    <2> QED
        BY <1>4, <2>1, <2>3 DEF ExtentsOf
<1>8. Checked(e)
    <2> SUFFICES ASSUME e.const, ~IsOpenArray(b.type) PROVE Exists(e)
        BY <1>4 DEF Checked
    <2>1. IndexAccepted(b, e.index)
        BY <1>4
    <2>2. ASSUME NEW k \in 1..n PROVE b.type[k].len /= Open
        <3>1. b.type /= <<>> /\ 1 \in 1..n /\ b.type[1].len /= Open
            BY <1>3, EmptySeq DEF IsOpenArray
        <3>2. k = 1 \/ 1 < k
            OBVIOUS
        <3> QED
            BY <1>3, <3>1, <3>2
    <2>3. ASSUME NEW k \in 1..n PROVE e.index[k] \in 0..(Extents(b.object)[Len(b.path) + k] - 1)
        <3>1. k \in DOMAIN e.index
            BY <1>4
        <3>2. e.index[k] \in 0..(b.type[k].len - 1)
            BY <2>1, <2>2, <3>1 DEF IndexAccepted
        <3> QED
            BY <1>6, <2>2, <3>2 DEF DimensionTrue
    <2> QED
        BY <1>4, <1>5, <2>3, ExistsIs
<1> QED
    BY <1>5, <1>7, <1>8

-----------------------------------------------------------------------------
(* Assignment and comparison.                                              *)

(* Source and target of an assignment differ in their first lengths, if at *)
(* all, and then only where one is open or the source is shorter.          *)
SameRows(s, t) ==
    /\ Len(Lengths(s)) = Len(Lengths(t))
    /\ \A k \in 1..Len(Lengths(s)) : k /= 1 => Lengths(s)[k] = Lengths(t)[k]
    /\ IsOpenArray(TypeOf(s)) \/ IsOpenArray(TypeOf(t)) \/ Lengths(s)[1] <= Lengths(t)[1]

MayAssign(s, t) ==
    /\ s \in ArrayDesignators \union Strings /\ t \in ArrayDesignators \union Strings
    /\ WritableArray(t) /\ AssignmentCompatible(s, TypeOf(t))
    /\ ~IsOpenArray(Tail(TypeOf(t)))

LEMMA AssignedRows ==
    ASSUME SameLengths, CallsInv, PlacesInv, NEW s, NEW t, MayAssign(s, t)
    PROVE  SameRows(s, t)
<1> DEFINE T == TypeOf(s)
           U == TypeOf(t)
<1>1. t \in ArrayDesignators
    BY StringPointed DEF MayAssign, WritableArray, IsString
<1>2. /\ U \in Seq(Dimension) /\ Len(U) \in Nat \ {0}
      /\ \A j, k \in 1..Len(U) : j < k /\ U[k].len = Open => U[j].len = Open
      /\ Len(Lengths(t)) = Len(U)
      /\ \A i \in 1..Len(U) : U[i].len /= Open => Lengths(t)[i] = U[i].len
      /\ t.base.type \in DeclaredTypes /\ Len(t.index) \in Nat /\ Len(t.index) + 1 <= Len(t.base.type)
    BY <1>1, ArrayFact
<1>3. U = Rest(t.base.type, Len(t.index))
    BY DEF TypeOf
<1>4. \A i \in 1..Len(U) : i /= 1 => U[i].len /= Open
    <2> SUFFICES ASSUME NEW i \in 1..Len(U), i /= 1, U[i].len = Open PROVE FALSE
        OBVIOUS
    <2>1. 2 \in 1..Len(U) /\ (2 = i \/ 2 < i) /\ U /= <<>> /\ 1 <= Len(U) - 1
        BY <1>2
    <2>2. U[2].len = Open
        BY <1>2, <2>1
    <2> HIDE DEF U
    <2>3. Tail(U) \in Seq(Dimension) /\ Len(Tail(U)) = Len(U) - 1 /\ Tail(U)[1] = U[2]
        BY <1>2, <2>1
    <2>4. Tail(U) /= <<>>
        <3>1. Len(Tail(U)) /= 0
            BY <1>2, <2>1, <2>3
        <3> QED
            BY <2>3, <3>1, EmptySeq
    <2> QED
        BY <2>2, <2>3, <2>4 DEF IsOpenArray, MayAssign, U
<1>5. CASE s \in Strings
    <2>1. IsString(s) /\ Lengths(s) = <<LiteralLength[s.base.object] + 1>> /\ s.base.object \in Literal
        BY <1>5, StringPointed
    <2>2. /\ IsCharacterArray(U)
          /\ ~IsOpenArray(U) => LiteralLength[s.base.object] < U[1].len
        <3>1. TypeOf(s) = <<>>
            BY <1>5, StringPointed
        <3> QED
            BY <2>1, <3>1 DEF MayAssign, AssignmentCompatible, IsOpenArray
    <2>3. Len(U) = 1 /\ Len(Lengths(s)) = 1 /\ Lengths(s)[1] = LiteralLength[s.base.object] + 1
        BY <2>1, <2>2 DEF IsCharacterArray
    <2>4. ASSUME ~IsOpenArray(U) PROVE Lengths(s)[1] <= Lengths(t)[1]
        <3>1. U[1].len /= Open /\ 1 \in 1..Len(U)
            <4>1. U /= <<>> /\ 1 \in 1..Len(U)
                <5>1. Len(U) = 1 /\ Len(<<>>) = 0
                    BY <2>3
                <5> HIDE DEF U
                <5> QED
                    BY <5>1
            <4> QED
                BY <2>4, <4>1 DEF IsOpenArray
        <3>2. Lengths(t)[1] = U[1].len
            BY <1>2, <3>1
        <3>3. U[1].len \in Nat
            <4>1. U[1] \in Dimension
                BY <1>2, <3>1, ElementOfSeq
            <4> QED
                BY <3>1, <4>1 DEF Dimension
        <3>4. LiteralLength[s.base.object] \in Nat
            <4>1. LiteralLength \in [Literal -> Nat]
                BY ArraysAssumption
            <4> QED
                BY <2>1, <4>1
        <3>5. LiteralLength[s.base.object] < U[1].len
            BY <2>2, <2>4
        <3> HIDE DEF U
        <3> QED
            BY <2>3, <3>2, <3>3, <3>4, <3>5
    <2> HIDE DEF U
    <2> QED
        BY <1>2, <2>3, <2>4 DEF SameRows, U
<1>6. CASE s \in ArrayDesignators
    <2>1. /\ ~IsString(s) /\ T \in Seq(Dimension) /\ Len(T) \in Nat \ {0}
          /\ Len(Lengths(s)) = Len(T)
          /\ \A i \in 1..Len(T) : T[i].len /= Open => Lengths(s)[i] = T[i].len
          /\ s.base.type \in DeclaredTypes /\ Len(s.index) \in Nat /\ Len(s.index) + 1 <= Len(s.base.type)
        BY <1>6, ArrayFact
    <2>2. T = Rest(s.base.type, Len(s.index))
        BY DEF TypeOf
    <2>3. s.base.type \in Seq(Dimension) /\ t.base.type \in Seq(Dimension)
          /\ Len(s.base.type) \in Nat /\ Len(t.base.type) \in Nat
        <3>1. s.base.type \in Seq(Dimension)
            BY <2>1, TypeFact
        <3>2. t.base.type \in Seq(Dimension)
            BY <1>2, TypeFact
        <3> QED
            BY <3>1, <3>2, LenProperties
    <2>4. CASE Same(T, U)
        <3>1. Len(s.index) \in 0..Len(s.base.type) /\ Len(t.index) \in 0..Len(t.base.type)
            BY <1>2, <2>1, <2>3
        <3>2. T = U
            <4>1. Same(Rest(s.base.type, Len(s.index)), Rest(t.base.type, Len(t.index)))
                BY <1>3, <2>2, <2>4
            <4>2. NamesDistinct /\ s.base.type \in DeclaredTypes /\ t.base.type \in DeclaredTypes
                BY <1>2, <2>1 DEF SameLengths
            <4> HIDE DEF T, U
            <4>3. Rest(s.base.type, Len(s.index)) = Rest(t.base.type, Len(t.index))
                BY <3>1, <4>1, <4>2, SameEqual
            <4> QED
                BY <1>3, <2>2, <4>3
        <3>3. ASSUME U[1].len /= Open PROVE Lengths(s)[1] <= Lengths(t)[1]
            <4>1. 1 \in 1..Len(U) /\ Lengths(s)[1] = U[1].len /\ Lengths(t)[1] = U[1].len
                BY <1>2, <2>1, <3>2, <3>3
            <4>2. U[1] \in Dimension
                BY <1>2, <4>1, ElementOfSeq
            <4>3. U[1].len \in Nat
                BY <3>3, <4>2 DEF Dimension
            <4> HIDE DEF U
            <4> QED
                BY <4>1, <4>3
        <3>4. U[1].len = Open => IsOpenArray(U)
            BY <1>2 DEF IsOpenArray
        <3> HIDE DEF T, U
        <3>5. \A k \in 1..Len(Lengths(s)) : k /= 1 => Lengths(s)[k] = Lengths(t)[k]
            BY <1>2, <1>4, <2>1, <3>2
        <3> QED
            BY <1>2, <2>1, <3>2, <3>3, <3>4, <3>5 DEF SameRows, U
    <2>5. CASE IsOpenArray(T) /\ U /= <<>> /\ ~IsOpenArray(U) /\ TypesEqual(Tail(T), Tail(U))
        <3> DEFINE j == Len(s.index) + 1
                   k == Len(t.index) + 1
        <3>1. j \in 0..Len(s.base.type) /\ k \in 0..Len(t.base.type)
            BY <1>2, <2>1, <2>3
        <3>2. Tail(T) = Rest(s.base.type, j) /\ Tail(U) = Rest(t.base.type, k)
            <4>1. ASSUME NEW w \in Seq(Dimension), NEW i \in Nat, i + 1 <= Len(w)
                  PROVE  Tail(Rest(w, i)) = Rest(w, i + 1)
                <5>1. i \in 0..Len(w) /\ i + 1 \in 0..Len(w) /\ Len(w) \in Nat
                    BY <4>1, LenProperties
                <5>2. /\ Rest(w, i) \in Seq(Dimension) /\ Len(Rest(w, i)) = Len(w) - i
                      /\ \A n \in 1..(Len(w) - i) : Rest(w, i)[n] = w[i + n]
                    BY <5>1, RestFact
                <5>3. /\ Rest(w, i + 1) \in Seq(Dimension) /\ Len(Rest(w, i + 1)) = Len(w) - (i + 1)
                      /\ \A n \in 1..(Len(w) - (i + 1)) : Rest(w, i + 1)[n] = w[(i + 1) + n]
                    BY <5>1, RestFact
                <5> DEFINE r == Rest(w, i)
                           q == Rest(w, i + 1)
                <5> HIDE DEF r, q
                <5>4. r \in Seq(Dimension) /\ r /= <<>> /\ Len(r) = Len(w) - i
                    BY <4>1, <5>1, <5>2, EmptySeq DEF r
                <5>5. /\ Tail(r) \in Seq(Dimension) /\ Len(Tail(r)) = Len(q)
                      /\ \A n \in 1..Len(Tail(r)) : Tail(r)[n] = r[n + 1]
                    <6>1. Len(Tail(r)) = Len(r) - 1 /\ Tail(r) \in Seq(Dimension)
                          /\ \A n \in 1..Len(Tail(r)) : Tail(r)[n] = r[n + 1]
                        BY <5>4, HeadTailProperties
                    <6>2. Len(r) - 1 = Len(q)
                        BY <5>1, <5>3, <5>4 DEF q
                    <6> QED
                        BY <6>1, <6>2
                <5>6. ASSUME NEW n \in 1..Len(Tail(r)) PROVE Tail(r)[n] = q[n]
                    <6>1. n \in 1..(Len(w) - (i + 1)) /\ n + 1 \in 1..(Len(w) - i) /\ i + (n + 1) = (i + 1) + n
                        <7>1. Len(Tail(r)) = Len(w) - (i + 1)
                            BY <5>3, <5>5 DEF q
                        <7>2. n \in Nat /\ 1 <= n /\ n <= Len(w) - (i + 1)
                            BY <5>1, <7>1
                        <7> QED
                            BY <5>1, <7>2
                    <6> QED
                        BY <5>2, <5>3, <5>5, <6>1 DEF r, q
                <5>7. Tail(r) = q
                    BY <5>3, <5>5, <5>6, SeqEqual DEF q
                <5> QED
                    BY <5>7 DEF r, q
            <4> QED
                BY <1>2, <1>3, <2>1, <2>2, <2>3, <4>1
        <3>3. PICK i \in 0..Len(Tail(T)) :
                 /\ i <= Len(Tail(U))
                 /\ \A n \in 1..i : Tail(T)[n].len = Open /\ Tail(U)[n].len = Open
                 /\ Same(Rest(Tail(T), i), Rest(Tail(U), i))
            BY <2>5 DEF TypesEqual
        <3>4. /\ Tail(U) \in Seq(Dimension) /\ Len(Tail(U)) = Len(U) - 1
              /\ \A n \in 1..Len(Tail(U)) : Tail(U)[n] = U[n + 1]
              /\ Tail(T) \in Seq(Dimension) /\ Len(Tail(T)) = Len(T) - 1
              /\ \A n \in 1..Len(Tail(T)) : Tail(T)[n] = T[n + 1]
            <4>1. T /= <<>> /\ U /= <<>>
                BY <2>5 DEF IsOpenArray
            <4> HIDE DEF T, U
            <4> QED
                BY <1>2, <2>1, <4>1, HeadTailProperties
        <3>5. i = 0
            <4> SUFFICES ASSUME i /= 0 PROVE FALSE
                OBVIOUS
            <4>1. 1 \in 1..i /\ 1 \in 1..Len(Tail(U)) /\ 2 \in 1..Len(U) /\ 1 + 1 = 2
                <5> HIDE DEF T, U
                <5> QED
                    BY <1>2, <2>1, <3>3, <3>4
            <4>2. U[2].len = Open
                BY <3>3, <3>4, <4>1
            <4> QED
                BY <1>4, <4>1, <4>2
        <3>6. Tail(T) = Tail(U)
            <4>1. Rest(Tail(T), 0) = Rest(s.base.type, j) /\ Rest(Tail(U), 0) = Rest(t.base.type, k)
                <5>1. \A w \in Seq(Dimension) : Rest(w, 0) = w
                    <6> TAKE w \in Seq(Dimension)
                    <6>1. 0 \in 0..Len(w) /\ Len(w) - 0 = Len(w) /\ Len(w) \in Nat
                          /\ \A n \in 1..Len(w) : 0 + n = n
                        BY LenProperties
                    <6>2. Rest(w, 0) \in Seq(Dimension) /\ Len(Rest(w, 0)) = Len(w)
                          /\ \A n \in 1..Len(w) : Rest(w, 0)[n] = w[n]
                        BY <6>1, RestFact
                    <6> QED
                        BY <6>2, SeqEqual
                <5> QED
                    BY <3>2, <3>4, <5>1
            <4>2. Same(Rest(s.base.type, j), Rest(t.base.type, k))
                BY <3>3, <3>5, <4>1
            <4>3. Rest(s.base.type, j) = Rest(t.base.type, k)
                <5>1. NamesDistinct /\ s.base.type \in DeclaredTypes /\ t.base.type \in DeclaredTypes
                    BY <1>2, <2>1 DEF SameLengths
                <5> HIDE DEF T, U, j, k
                <5> QED
                    BY <3>1, <4>2, <5>1, SameEqual
            <4> QED
                BY <3>2, <4>3
        <3> HIDE DEF T, U, j, k
        <3>7. Len(T) = Len(U)
            BY <1>2, <2>1, <3>4, <3>6
        <3>8. ASSUME NEW n \in 1..Len(Lengths(s)), n /= 1 PROVE Lengths(s)[n] = Lengths(t)[n]
            <4>1. n \in 1..Len(T) /\ n \in 1..Len(U) /\ n - 1 \in 1..Len(Tail(T)) /\ (n - 1) + 1 = n
                BY <2>1, <3>4, <3>7, <3>8
            <4>2. T[n] = U[n]
                BY <3>4, <3>6, <4>1
            <4> QED
                BY <1>2, <1>4, <2>1, <3>8, <4>1, <4>2
        <3> QED
            BY <1>2, <2>1, <2>5, <3>7, <3>8 DEF SameRows, T
    <2> QED
        BY <2>1, <2>4, <2>5 DEF MayAssign, AssignmentCompatible
<1> QED
    BY <1>5, <1>6 DEF MayAssign

(* Arrays whose rows are alike.                                            *)
LEMMA RowsInside ==
    ASSUME NEW es \in Seq(Extent), NEW fs \in Seq(Extent), Len(es) = Len(fs), Len(es) \in Nat \ {0},
           \A k \in 1..Len(es) : k /= 1 => es[k] = fs[k]
    PROVE  /\ Inside(es) \subseteq Inside(fs) <=> es[1] <= fs[1]
           /\ \A x \in Inside(es) : x \in Inside(fs) => PlaceOf(es, x) = PlaceOf(fs, x)
<1> DEFINE n == Len(es)
<1>1. n \in Nat /\ 1 \in 1..n /\ \A k \in 1..n : es[k] \in Nat \ {0} /\ fs[k] \in Nat \ {0}
    BY ElementOfSeq DEF Extent
<1>2. es \in Seq(Int) /\ fs \in Seq(Int)
    BY ProductPositive
<1>3. \A x : x \in Inside(es) <=> Within(es, x) /\ Len(x) = n
    BY InsideIs
<1>4. \A x : x \in Inside(fs) <=> Within(fs, x) /\ Len(x) = n
    BY InsideIs
<1> HIDE DEF n
<1>5. ASSUME es[1] <= fs[1], NEW x \in Inside(es) PROVE x \in Inside(fs)
    <2>1. x \in Seq(Nat) /\ Len(x) = n /\ \A k \in 1..n : x[k] < es[k]
        BY <1>3 DEF Within
    <2>2. \A k \in 1..n : x[k] \in Nat
        BY <2>1, NatsAreInts
    <2>3. \A k \in 1..n : x[k] < fs[k]
        <3> TAKE k \in 1..n
        <3>1. CASE k = 1
            BY <1>1, <1>5, <2>1, <2>2, <3>1
        <3>2. CASE k /= 1
            BY <2>1, <3>2 DEF n
        <3> QED
            BY <3>1, <3>2
    <2>4. n <= Len(fs)
        BY <1>1 DEF n
    <2> QED
        BY <1>4, <2>1, <2>3, <2>4 DEF Within
<1>6. ASSUME ~(es[1] <= fs[1]) PROVE ~(Inside(es) \subseteq Inside(fs))
    <2> DEFINE z == [k \in 1..n |-> IF k = 1 THEN es[1] - 1 ELSE 0]
    <2>1. z \in Seq(Nat) /\ Len(z) = n /\ z[1] = es[1] - 1 /\ \A k \in 1..n : z[k] < es[k]
        BY <1>1
    <2> HIDE DEF z
    <2>2. Within(es, z)
        BY <1>1, <2>1 DEF Within, n
    <2>3. ~(z[1] < fs[1])
        BY <1>1, <1>6, <2>1
    <2>4. z \in Inside(es) /\ z \notin Inside(fs)
        BY <1>1, <1>3, <1>4, <2>1, <2>2, <2>3 DEF Within
    <2> QED
        BY <2>4
<1>7. ASSUME NEW x \in Inside(es), x \in Inside(fs) PROVE PlaceOf(es, x) = PlaceOf(fs, x)
    <2>1. x \in Seq(Nat) /\ Len(x) = n /\ Len(x) <= Len(es) /\ Len(x) <= Len(fs)
        BY <1>3, <1>4, <1>7 DEF Within
    <2>2. SameStart(es, x, fs, x, n)
        <3>1. x \in Seq(Int) /\ n <= n
            BY <1>1, <2>1, NatsAreInts
        <3>2. \A k \in 1..n : x[k] = x[k] /\ (k /= 1 => es[k] = fs[k])
            BY DEF n
        <3> QED
            BY <1>1, <1>2, <2>1, <3>1, <3>2 DEF SameStart
    <2>3. \A k \in 0..n : Places(es, x)[k] = Places(fs, x)[k]
        BY <2>2, PlaceSame
    <2> QED
        BY <1>1, <2>1, <2>3 DEF PlaceOf
<1> QED
    BY <1>5, <1>6, <1>7

(* The elements of an array of one dimension.                              *)
LEMMA RowPlaces ==
    ASSUME NEW es \in Seq(Extent), Len(es) = 1
    PROVE  /\ es[1] \in Nat \ {0} /\ Product(es) = es[1]
           /\ \A x \in Inside(es) : PlaceOf(es, x) = x[1] /\ x = <<x[1]>> /\ x[1] \in 0..(es[1] - 1)
           /\ \A i \in 0..(es[1] - 1) : <<i>> \in Inside(es)
<1>1. es \in Seq(Int) /\ 1 \in 1..Len(es) /\ 1 - 1 = 0 /\ es[1] \in Nat \ {0}
    BY ProductPositive, ElementOfSeq DEF Extent
<1>2. Product(es) = es[1]
    <2>1. Products(es)[1] = Products(es)[0] * es[1] /\ Products(es)[0] = 1 /\ Product(es) = Products(es)[1]
        BY <1>1, ProductFact
    <2> QED
        BY <1>1, <2>1
<1>3. ASSUME NEW x \in Inside(es) PROVE PlaceOf(es, x) = x[1] /\ x = <<x[1]>> /\ x[1] \in 0..(es[1] - 1)
    <2>1. x \in Seq(Nat) /\ Len(x) = 1 /\ x[1] < es[1]
        BY <1>1, InsideIs DEF Within
    <2>2. x \in Seq(Int) /\ x[1] \in Nat /\ 1 \in 1..Len(x) /\ Len(x) <= Len(es)
        BY <2>1, NatsAreInts
    <2>3. Places(es, x)[1] = Places(es, x)[1 - 1] * es[1] + x[1] /\ Places(es, x)[0] = 0
        BY <1>1, <2>2, PlaceFact
    <2>4. Places(es, x)[1] = 0 * es[1] + x[1]
        BY <1>1, <2>3
    <2>5. PlaceOf(es, x) = x[1]
        BY <1>1, <2>1, <2>2, <2>4 DEF PlaceOf
    <2>6. x = <<x[1]>>
        BY <2>1
    <2> QED
        BY <1>1, <2>1, <2>2, <2>5, <2>6
<1>4. ASSUME NEW i \in 0..(es[1] - 1) PROVE <<i>> \in Inside(es)
    <2>1. <<i>> \in Seq(Nat) /\ Len(<<i>>) = 1 /\ <<i>>[1] = i /\ i < es[1]
        BY <1>1
    <2>2. \A k \in 1..1 : k = 1
        OBVIOUS
    <2> DEFINE z == <<i>>
    <2> HIDE DEF z
    <2>3. z \in Seq(Nat) /\ Len(z) = 1 /\ z[1] < es[1]
        BY <2>1 DEF z
    <2>4. Within(es, z)
        BY <2>2, <2>3 DEF Within
    <2>5. z \in Inside(es)
        BY <2>3, <2>4, InsideIs
    <2> QED
        BY <2>5 DEF z
<1> QED
    BY <1>1, <1>2, <1>3, <1>4

(* No rows that are open themselves are assigned.                          *)
ClosedRows == "open rows" \notin ArrayUsage

LEMMA AssignExact ==
    ASSUME SameLengths, ClosedRows, CallsInv, PlacesInv,
           NEW s \in ArrayDesignators \union Strings, NEW t \in ArrayDesignators \union Strings,
           AssignArray(s, t)
    PROVE  AccessExact'
<1> DEFINE es == ExtentsOf(s)
           fs == ExtentsOf(t)
           touched == {<<Beyond(s, i), Beyond(t, i)>> : i \in 0..(FlattenedArrayLength(s) - 1)}
           parts == {<<Part(s, x), Part(t, x)>> : x \in Inside(es)}
<1>1. SameRows(s, t)
    <2>1. MayAssign(s, t)
        BY DEF AssignArray, MayAssign, ClosedRows
    <2> QED
        BY <2>1, AssignedRows
<1>2. /\ Pointed(s) /\ Checked(s) /\ Lengths(s) = es /\ es \in Seq(Extent) /\ Len(es) \in Nat \ {0}
      /\ Pointed(t) /\ Checked(t) /\ Lengths(t) = fs /\ fs \in Seq(Extent)
    BY NamedFact
<1>3. /\ access' = IF (IF AssignmentTraps(s, t) THEN "assignment"
                       ELSE IF IndexTraps(s) \/ IndexTraps(t) THEN "index" ELSE "none") = "none"
                   THEN touched ELSE {}
      /\ meant' = IF Exists(s) /\ Exists(t) /\ Inside(es) \subseteq Inside(fs) THEN parts ELSE {}
    BY DEF AssignArray, Trapped
<1> HIDE DEF es, fs, touched, parts
<1>4. /\ Len(es) = Len(fs) /\ \A k \in 1..Len(es) : k /= 1 => es[k] = fs[k]
      /\ IsOpenArray(TypeOf(s)) \/ IsOpenArray(TypeOf(t)) \/ es[1] <= fs[1]
    BY <1>1, <1>2 DEF SameRows
<1>5. /\ Inside(es) \subseteq Inside(fs) <=> es[1] <= fs[1]
      /\ \A x \in Inside(es) : x \in Inside(fs) => PlaceOf(es, x) = PlaceOf(fs, x)
    BY <1>2, <1>4, RowsInside
<1>6. es[1] \in Nat /\ fs[1] \in Nat
    <2>1. 1 \in 1..Len(es) /\ 1 \in 1..Len(fs)
        BY <1>2, <1>4
    <2> QED
        BY <1>2, <2>1, ElementOfSeq DEF Extent
<1>7. AssignmentTraps(s, t) <=> ~(es[1] <= fs[1])
    BY <1>2, <1>4, <1>6 DEF AssignmentTraps
<1>8. (IndexTraps(s) \/ IndexTraps(t)) <=> ~(Exists(s) /\ Exists(t))
    BY <1>2, TrapsExactly
<1>9. ASSUME Inside(es) \subseteq Inside(fs) PROVE touched = parts
    <2>1. \A x \in Inside(es) :
             /\ Part(s, x) = Beyond(s, PlaceOf(es, x)) /\ Part(t, x) = Beyond(t, PlaceOf(es, x))
             /\ PlaceOf(es, x) \in Nat /\ PlaceOf(es, x) < Product(es)
        BY <1>2, <1>5, <1>9, PartIs, PlaceInto DEF es, fs
    <2>2. \A i \in Nat : i < Product(es) => \E x \in Inside(es) : PlaceOf(es, x) = i
        BY <1>2, PlaceOnto
    <2>3. Product(es) \in Nat
        BY <1>2, ProductPositive DEF Extent
    <2>4. touched = {<<Beyond(s, i), Beyond(t, i)>> : i \in 0..(Product(es) - 1)}
        BY <1>2 DEF touched, FlattenedArrayLength
    <2>5. \A i : i \in 0..(Product(es) - 1) <=> i \in Nat /\ i < Product(es)
        BY <2>3
    <2>6. ASSUME NEW x \in Inside(es) PROVE <<Part(s, x), Part(t, x)>> \in touched
        <3>1. PlaceOf(es, x) \in 0..(Product(es) - 1)
            BY <2>1, <2>5
        <3> QED
            BY <2>1, <2>4, <3>1
    <2>7. ASSUME NEW i \in 0..(Product(es) - 1) PROVE <<Beyond(s, i), Beyond(t, i)>> \in parts
        <3>1. PICK x \in Inside(es) : PlaceOf(es, x) = i
            BY <2>2, <2>5
        <3>2. Part(s, x) = Beyond(s, i) /\ Part(t, x) = Beyond(t, i)
            BY <2>1, <3>1
        <3> QED
            BY <3>2 DEF parts
    <2>8. \A p : p \in touched <=> \E i \in 0..(Product(es) - 1) : p = <<Beyond(s, i), Beyond(t, i)>>
        BY <2>4
    <2>9. \A p : p \in parts <=> \E x \in Inside(es) : p = <<Part(s, x), Part(t, x)>>
        BY DEF parts
    <2>10. \A p : p \in touched <=> p \in parts
        BY <2>6, <2>7, <2>8, <2>9
    <2>11. touched \subseteq parts /\ parts \subseteq touched
        BY <2>10
    <2> QED
        BY <2>11
<1>10. access' = meant'
    BY <1>3, <1>5, <1>7, <1>8, <1>9
<1> QED
    BY <1>10 DEF AccessExact

LEMMA CompareExact ==
    ASSUME CallsInv, PlacesInv,
           NEW a \in ArrayDesignators \union Strings, NEW b \in ArrayDesignators \union Strings,
           CompareArrays(a, b)
    PROVE  AccessExact'
<1> DEFINE es == ExtentsOf(a)
           fs == ExtentsOf(b)
           n == IF Lengths(a)[1] < Lengths(b)[1] THEN Lengths(a)[1] ELSE Lengths(b)[1]
           touched == {<<Beyond(a, i), Beyond(b, i)>> : i \in 0..(n - 1)}
           parts == {<<Part(a, x), Part(b, x)>> : x \in Inside(es) \cap Inside(fs)}
<1>1. /\ IsString(a) \/ IsCharacterArray(TypeOf(a))
      /\ IsString(b) \/ IsCharacterArray(TypeOf(b))
    BY DEF CompareArrays
<1>2. /\ Pointed(a) /\ Checked(a) /\ Lengths(a) = es /\ es \in Seq(Extent) /\ Len(es) = 1
      /\ Pointed(b) /\ Checked(b) /\ Lengths(b) = fs /\ fs \in Seq(Extent) /\ Len(fs) = 1
    BY <1>1, NamedFact
<1>3. /\ access' = IF (IF IndexTraps(a) \/ IndexTraps(b) THEN "index" ELSE "none") = "none"
                   THEN touched ELSE {}
      /\ meant' = IF Exists(a) /\ Exists(b) THEN parts ELSE {}
    BY DEF CompareArrays, Trapped
<1>4. /\ es[1] \in Nat \ {0}
      /\ \A x \in Inside(es) : PlaceOf(es, x) = x[1] /\ x = <<x[1]>> /\ x[1] \in 0..(es[1] - 1)
      /\ \A i \in 0..(es[1] - 1) : <<i>> \in Inside(es)
    <2> HIDE DEF es
    <2> QED
        BY <1>2, RowPlaces
<1>5. /\ fs[1] \in Nat \ {0}
      /\ \A x \in Inside(fs) : PlaceOf(fs, x) = x[1] /\ x = <<x[1]>> /\ x[1] \in 0..(fs[1] - 1)
      /\ \A i \in 0..(fs[1] - 1) : <<i>> \in Inside(fs)
    <2> HIDE DEF fs
    <2> QED
        BY <1>2, RowPlaces
<1>6. n = IF es[1] < fs[1] THEN es[1] ELSE fs[1]
    BY <1>2
<1> HIDE DEF n
<1>7. \A x \in Inside(es) : Part(a, x) = Beyond(a, x[1])
    BY <1>2, <1>4, PartIs
<1>8. \A x \in Inside(fs) : Part(b, x) = Beyond(b, x[1])
    BY <1>2, <1>5, PartIs
<1>9. (IndexTraps(a) \/ IndexTraps(b)) <=> ~(Exists(a) /\ Exists(b))
    BY <1>2, TrapsExactly
<1> HIDE DEF es, fs
<1>10. touched = parts
    <2>1. \A i : i \in 0..(n - 1) <=> i \in 0..(es[1] - 1) /\ i \in 0..(fs[1] - 1)
        BY <1>4, <1>5, <1>6
    <2>2. ASSUME NEW x \in Inside(es) \cap Inside(fs) PROVE <<Part(a, x), Part(b, x)>> \in touched
        <3>1. x[1] \in 0..(n - 1)
            BY <1>4, <1>5, <2>1
        <3>2. Part(a, x) = Beyond(a, x[1]) /\ Part(b, x) = Beyond(b, x[1])
            BY <1>7, <1>8
        <3> QED
            BY <3>1, <3>2
    <2>3. ASSUME NEW i \in 0..(n - 1) PROVE <<Beyond(a, i), Beyond(b, i)>> \in parts
        <3>1. <<i>> \in Inside(es) /\ <<i>> \in Inside(fs)
            BY <1>4, <1>5, <2>1
        <3>2. Part(a, <<i>>) = Beyond(a, i) /\ Part(b, <<i>>) = Beyond(b, i)
            <4>1. <<i>>[1] = i
                OBVIOUS
            <4> QED
                BY <1>7, <1>8, <3>1, <4>1
        <3> QED
            BY <3>1, <3>2
    <2>4. \A p : p \in touched <=> \E i \in 0..(n - 1) : p = <<Beyond(a, i), Beyond(b, i)>>
        OBVIOUS
    <2>5. \A p : p \in parts <=> \E x \in Inside(es) \cap Inside(fs) : p = <<Part(a, x), Part(b, x)>>
        OBVIOUS
    <2> HIDE DEF touched, parts
    <2>6. \A p : p \in touched <=> p \in parts
        BY <2>2, <2>3, <2>4, <2>5
    <2>7. touched \subseteq parts /\ parts \subseteq touched
        BY <2>6
    <2> QED
        BY <2>7
<1>11. access' = meant'
    BY <1>3, <1>9, <1>10
<1> QED
    BY <1>11 DEF AccessExact

-----------------------------------------------------------------------------
(* Calls, and the invariant.                                               *)

LEMMA EnterExact ==
    ASSUME CallsInv, PlacesInv, NEW f, NEW passed, NEW args \in Arguments(passed),
           DOMAIN passed = DOMAIN Formals[f],
           \A i \in DOMAIN passed : Formals[f][i].kind \in {"value", "var"},
           Enter(f, passed, args)
    PROVE  PlacesInv' /\ AccessExact' /\ arrayTrap' \in {"none", "index"} /\ Len(calls') <= MaxCalls
<1> DEFINE touched == {<<i, Address(args[i])>> : i \in DOMAIN args}
           parts == {<<i, Part(args[i], [k \in DOMAIN ExtentsOf(args[i]) |-> 0])>> : i \in DOMAIN args}
           call == [i \in DOMAIN args |-> Argument(args[i], passed[i], Formals[f][i])]
           trap == IF \E i \in DOMAIN args : IndexTraps(args[i]) THEN "index" ELSE "none"
<1>1. /\ Len(calls) < MaxCalls
      /\ arrayTrap' = trap
      /\ access' = IF trap = "none" THEN touched ELSE {}
      /\ meant' = IF \A i \in DOMAIN args : Exists(args[i]) THEN parts ELSE {}
      /\ calls' = IF access' = {} THEN calls ELSE Append(calls, call)
    BY DEF Enter, Trapped
<1>2. DOMAIN args = DOMAIN passed /\ \A i \in DOMAIN args : args[i] \in ArrayDesignators \union Strings
    BY DEF Arguments
<1>3. \A i \in DOMAIN args : Pointed(args[i]) /\ (IndexTraps(args[i]) <=> ~Exists(args[i]))
    BY <1>2, NamedFact, TrapsExactly
<1>4. touched = parts
    <2>1. \A i \in DOMAIN args : Part(args[i], [k \in DOMAIN ExtentsOf(args[i]) |-> 0]) = Address(args[i])
        BY <1>3, FirstElement
    <2> QED
        BY <2>1
<1>5. trap = "none" <=> \A i \in DOMAIN args : Exists(args[i])
    BY <1>3
<1>6. access' = meant' /\ arrayTrap' \in {"none", "index"}
    BY <1>1, <1>4, <1>5
<1>7. CASE calls' = calls
    <2>1. PlacesInv'
        BY <1>7 DEF PlacesInv
    <2>2. Len(calls) \in Nat /\ MaxCalls \in Nat
        BY LenProperties, ArraysAssumption DEF CallsInv
    <2> QED
        <3>1. Len(calls') <= MaxCalls
            BY <1>1, <1>7, <2>2
        <3> QED
            BY <1>6, <2>1, <3>1 DEF AccessExact
<1>8. CASE calls' = Append(calls, call) /\ access' /= {}
    <2>1. \A i \in DOMAIN args : Exists(args[i])
        BY <1>1, <1>5, <1>8
    <2>2. ASSUME NEW i \in DOMAIN args PROVE BaseAt(call[i]) /\ call[i].kind \in {"value", "var"}
        <3> DEFINE e == args[i]
        <3>1. Pointed(e) /\ Exists(e)
            BY <1>3, <2>1
        <3>2. /\ call[i].object = e.base.object /\ call[i].path = Path(e)
              /\ call[i].offset = Address(e)[2] /\ call[i].kind = Formals[f][i].kind
            BY DEF Argument, Path
        <3>3. Address(e) = <<e.base.object, Start(Extents(e.base.object), Path(e))>>
            BY <3>1, AddressIs
        <3>4. Within(Extents(e.base.object), Path(e))
            BY <3>1, ExistsIs
        <3>5. Formals[f][i].kind \in {"value", "var"}
            BY <1>2
        <3> HIDE DEF call, e
        <3> QED
            BY <3>2, <3>3, <3>4, <3>5 DEF BaseAt
    <2>3. DOMAIN call = DOMAIN args
        OBVIOUS
    <2> DEFINE S == {calls[c] : c \in DOMAIN calls} \union {call}
    <2>4. calls \in Seq(S) /\ call \in S
        <3>1. calls \in Seq({calls[c] : c \in DOMAIN calls})
            BY DEF CallsInv
        <3>2. Len(calls) \in Nat /\ calls = [c \in 1..Len(calls) |-> calls[c]] /\ DOMAIN calls = 1..Len(calls)
            BY <3>1, LenProperties
        <3> QED
            BY <3>2
    <2> HIDE DEF S, call
    <2>5. /\ Len(calls') = Len(calls) + 1 /\ Len(calls) \in Nat
          /\ \A c \in 1..Len(calls) : calls'[c] = calls[c]
          /\ calls'[Len(calls) + 1] = call
        BY <1>8, <2>4, AppendProperties, LenProperties
    <2>6. ASSUME NEW c \in 1..Len(calls'), NEW i \in DOMAIN calls'[c]
          PROVE  BaseAt(calls'[c][i]) /\ calls'[c][i].kind \in {"value", "var"}
        <3>1. CASE c \in 1..Len(calls)
            BY <2>5, <2>6, <3>1 DEF PlacesInv
        <3>2. CASE c = Len(calls) + 1
            BY <2>2, <2>3, <2>5, <2>6, <3>2
        <3> QED
            BY <2>5, <3>1, <3>2
    <2>7. PlacesInv'
        BY <2>6 DEF PlacesInv
    <2>8. Len(calls') <= MaxCalls
        <3>1. MaxCalls \in Nat
            BY ArraysAssumption
        <3> QED
            BY <1>1, <2>5, <3>1
    <2> QED
        BY <1>6, <2>7, <2>8 DEF AccessExact
<1> QED
    BY <1>1, <1>7, <1>8

ArrayTraps == {"none", "index", "assignment", "nil"}

AccessInv == CallsInv /\ PlacesInv /\ Len(calls) <= MaxCalls /\ arrayTrap \in ArrayTraps

LEMMA AccessInit == ArraysInit => AccessInv /\ AccessExact
<1> SUFFICES ASSUME ArraysInit PROVE AccessInv /\ AccessExact
    OBVIOUS
<1>1. /\ calls = <<>> /\ procValue = [g \in ProcedureVar |-> NoProcedure]
      /\ access = {} /\ meant = {} /\ arrayTrap = "none"
    BY DEF ArraysInit
<1>2. Len(calls) = 0 /\ calls \in Seq({calls[c] : c \in DOMAIN calls})
    BY <1>1
<1>3. CallsInv
    BY <1>1, <1>2 DEF CallsInv
<1>4. Len(calls) <= MaxCalls
    <2>1. MaxCalls \in Nat
        BY ArraysAssumption
    <2> QED
        BY <1>2, <2>1
<1>5. PlacesInv
    BY <1>2 DEF PlacesInv
<1>6. arrayTrap \in ArrayTraps
    BY <1>1 DEF ArrayTraps
<1> QED
    BY <1>1, <1>3, <1>4, <1>5, <1>6 DEF AccessInv, AccessExact

(* What a call of f, by its name or by a procedure variable, passes.       *)
LEMMA CallExact ==
    ASSUME AccessInv, Statement,
           \/ \E f \in Procedure : CallProcedure(f)
           \/ \E g \in ProcedureVar : CallVariable(g)
    PROVE  PlacesInv' /\ AccessExact' /\ arrayTrap' \in ArrayTraps /\ Len(calls') <= MaxCalls
<1>1. CallsInv /\ PlacesInv /\ Len(calls) <= MaxCalls
    BY DEF AccessInv
<1>2. ASSUME NEW f \in Procedure, NEW passed \in Seq(FormalParameter),
             Len(Formals[f]) = Len(passed), NEW args \in Arguments(passed), Enter(f, passed, args)
      PROVE  PlacesInv' /\ AccessExact' /\ arrayTrap' \in ArrayTraps /\ Len(calls') <= MaxCalls
    <2>1. Formals[f] \in Seq(FormalParameter)
        BY ArraysAssumption
    <2>2. DOMAIN passed = DOMAIN Formals[f]
        BY <1>2, <2>1, LenProperties
    <2>3. \A i \in DOMAIN passed : Formals[f][i].kind \in {"value", "var"}
        <3> TAKE i \in DOMAIN passed
        <3>1. i \in 1..Len(Formals[f])
            BY <2>1, <2>2, LenProperties
        <3>2. Formals[f][i] \in FormalParameter
            BY <2>1, <3>1, ElementOfSeq
        <3> QED
            BY <3>2 DEF FormalParameter
    <2>4. PlacesInv' /\ AccessExact' /\ arrayTrap' \in {"none", "index"} /\ Len(calls') <= MaxCalls
        BY <1>1, <1>2, <2>2, <2>3, EnterExact
    <2> QED
        BY <2>4 DEF ArrayTraps
<1>3. ASSUME NEW f \in Procedure, CallProcedure(f)
      PROVE  PlacesInv' /\ AccessExact' /\ arrayTrap' \in ArrayTraps /\ Len(calls') <= MaxCalls
    <2>1. PICK args \in Arguments(Formals[f]) : Enter(f, Formals[f], args)
        BY <1>3 DEF CallProcedure
    <2>2. Formals[f] \in Seq(FormalParameter)
        BY ArraysAssumption
    <2> QED
        BY <1>2, <2>1, <2>2
<1>4. ASSUME NEW g \in ProcedureVar, CallVariable(g)
      PROVE  PlacesInv' /\ AccessExact' /\ arrayTrap' \in ArrayTraps /\ Len(calls') <= MaxCalls
    <2>1. CASE CallNil(g)
        <3>1. calls' = calls /\ arrayTrap' = "nil" /\ access' = {} /\ meant' = meant /\ meant = {}
            BY <2>1 DEF CallNil, Trapped, Statement
        <3>2. PlacesInv' /\ Len(calls') <= MaxCalls
            BY <1>1, <3>1 DEF PlacesInv
        <3> QED
            BY <3>1, <3>2 DEF AccessExact, ArrayTraps
    <2>2. CASE procValue[g] /= NoProcedure
               /\ \E args \in Arguments(VarFormals[g]) : Enter(procValue[g], VarFormals[g], args)
        <3>1. PICK args \in Arguments(VarFormals[g]) : Enter(procValue[g], VarFormals[g], args)
            BY <2>2
        <3>2. procValue[g] \in Procedure /\ FormalParametersMatch(Formals[procValue[g]], VarFormals[g])
            BY <1>1, <2>2 DEF CallsInv
        <3>3. Len(Formals[procValue[g]]) = Len(VarFormals[g])
            BY <3>2 DEF FormalParametersMatch
        <3>4. VarFormals[g] \in Seq(FormalParameter)
            BY ArraysAssumption
        <3> QED
            BY <1>2, <3>1, <3>2, <3>3, <3>4
    <2> QED
        BY <1>4, <2>1, <2>2 DEF CallVariable
<1> QED
    BY <1>3, <1>4

(* A return leaves the arguments of the other calls.                       *)
LEMMA ReturnKeeps ==
    ASSUME AccessInv, ReturnFromCall
    PROVE  PlacesInv' /\ Len(calls') <= MaxCalls
<1>1. CallsInv /\ PlacesInv /\ Len(calls) <= MaxCalls
    BY DEF AccessInv
<1>2. /\ calls \in Seq({calls[c] : c \in DOMAIN calls}) /\ calls /= <<>>
      /\ calls' = SubSeq(calls, 1, Len(calls) - 1)
    BY <1>1 DEF CallsInv, ReturnFromCall
<1>3. PICK n \in Nat : n = Len(calls) - 1 /\ n <= Len(calls) /\ Len(calls) \in Nat
    BY <1>2, EmptySeq, LenProperties
<1>4. Len(calls') = n /\ \A c \in 1..n : calls'[c] = calls[c]
    <2> DEFINE U == {calls[c] : c \in DOMAIN calls}
    <2>1. calls \in Seq(U) /\ \A c \in 1..Len(calls) : calls[c] \in U
        BY <1>2, LenProperties
    <2> HIDE DEF U
    <2>2. \A c \in 1..n : calls[c] \in U
        BY <1>3, <2>1
    <2>3. /\ Len(SubSeq(calls, 1, n)) = n
          /\ \A c \in 1..n : SubSeq(calls, 1, n)[c] = calls[1 + c - 1]
        <3>1. n - 1 + 1 = n /\ (IF 1 <= n THEN n - 1 + 1 ELSE 0) = n
            BY <1>3
        <3> QED
            BY <1>3, <2>1, <2>2, <3>1, SubSeqProperties
    <2>4. \A c \in 1..n : 1 + c - 1 = c
        OBVIOUS
    <2> QED
        BY <1>2, <1>3, <2>3, <2>4
<1>5. ASSUME NEW c \in 1..Len(calls'), NEW i \in DOMAIN calls'[c]
      PROVE  BaseAt(calls'[c][i]) /\ calls'[c][i].kind \in {"value", "var"}
    <2>1. c \in 1..n /\ c \in 1..Len(calls)
        BY <1>3, <1>4
    <2>2. calls'[c] = calls[c]
        BY <1>4, <2>1
    <2> QED
        BY <1>1, <1>5, <2>1, <2>2 DEF PlacesInv
<1>6. Len(calls') <= MaxCalls
    <2>1. MaxCalls \in Nat
        BY ArraysAssumption
    <2> QED
        BY <1>1, <1>3, <1>4, <2>1
<1> QED
    BY <1>5, <1>6 DEF PlacesInv

Placed == PlacesInv /\ arrayTrap \in ArrayTraps /\ Len(calls) <= MaxCalls

LEMMA AccessStep ==
    ASSUME SameLengths, AccessInv, [ArraysNext]_arrayVars
    PROVE  AccessInv'
<1>1. CallsInv /\ PlacesInv /\ Len(calls) <= MaxCalls /\ arrayTrap \in ArrayTraps
    BY DEF AccessInv
<1>2. CallsInv'
    BY <1>1, CallsStep
<1>3. ASSUME calls' = calls PROVE PlacesInv' /\ Len(calls') <= MaxCalls
    BY <1>1, <1>3 DEF PlacesInv
<1>4. ASSUME NEW d, IndexElement(d) PROVE Placed'
    <2>1. calls' = calls /\ arrayTrap' \in ArrayTraps
        BY <1>4 DEF IndexElement, Trapped, ArrayTraps
    <2> QED
        BY <1>3, <2>1 DEF Placed
<1>5. ASSUME NEW s, NEW t, AssignArray(s, t) PROVE Placed'
    <2>1. calls' = calls /\ arrayTrap' \in ArrayTraps
        BY <1>5 DEF AssignArray, Trapped, ArrayTraps
    <2> QED
        BY <1>3, <2>1 DEF Placed
<1>6. ASSUME NEW x, NEW y, CompareArrays(x, y) PROVE Placed'
    <2>1. calls' = calls /\ arrayTrap' \in ArrayTraps
        BY <1>6 DEF CompareArrays, Trapped, ArrayTraps
    <2> QED
        BY <1>3, <2>1 DEF Placed
<1>7. ASSUME Statement, NEW f \in Procedure, CallProcedure(f) PROVE Placed'
    BY <1>7, CallExact DEF Placed
<1>8. ASSUME Statement, NEW g \in ProcedureVar, CallVariable(g) PROVE Placed'
    BY <1>8, CallExact DEF Placed
<1>9. ASSUME NEW g, NEW f, AssignProcedure(g, f) PROVE Placed'
    <2>1. calls' = calls /\ arrayTrap' = arrayTrap
        BY <1>9 DEF AssignProcedure
    <2> QED
        BY <1>1, <1>3, <2>1 DEF Placed
<1>10. ASSUME ReturnFromCall PROVE Placed'
    <2>1. arrayTrap' = arrayTrap
        BY <1>10 DEF ReturnFromCall
    <2> QED
        BY <1>1, <1>10, <2>1, ReturnKeeps DEF Placed
<1>11. ASSUME NextStatement PROVE Placed'
    <2>1. calls' = calls /\ arrayTrap' = arrayTrap
        BY <1>11 DEF NextStatement
    <2> QED
        BY <1>1, <1>3, <2>1 DEF Placed
<1>12. ASSUME UNCHANGED arrayVars PROVE Placed'
    <2>1. calls' = calls /\ arrayTrap' = arrayTrap
        BY <1>12 DEF arrayVars
    <2> QED
        BY <1>1, <1>3, <2>1 DEF Placed
<1>13. ASSUME ArraysNext PROVE Placed'
    BY <1>4, <1>5, <1>6, <1>7, <1>8, <1>9, <1>10, <1>11, <1>13, Zenon DEF ArraysNext
<1>14. Placed'
    BY <1>12, <1>13
<1> QED
    BY <1>2, <1>14 DEF AccessInv, Placed

LEMMA ExactStep ==
    ASSUME SameLengths, ClosedRows, AccessInv, AccessExact, [ArraysNext]_arrayVars
    PROVE  AccessExact'
<1>1. CallsInv /\ PlacesInv
    BY DEF AccessInv
<1>2. ASSUME access' = access, meant' = meant PROVE AccessExact'
    BY <1>2 DEF AccessExact
<1>3. ASSUME NEW d \in Elements, IndexElement(d) PROVE AccessExact'
    <2>1. Pointed(d) /\ Checked(d) /\ ExtentsOf(d) = <<>>
        BY <1>1, ElementFact
    <2>2. IndexTraps(d) <=> ~Exists(d)
        BY <2>1, TrapsExactly
    <2>3. Part(d, <<>>) = Address(d)
        <3>1. [k \in DOMAIN <<>> |-> 0] = <<>>
            OBVIOUS
        <3> QED
            BY <2>1, <3>1, FirstElement
    <2>4. /\ access' = IF (IF IndexTraps(d) THEN "index" ELSE "none") = "none" THEN {Address(d)} ELSE {}
          /\ meant' = IF Exists(d) THEN {Part(d, <<>>)} ELSE {}
        BY <1>3 DEF IndexElement, Trapped
    <2> QED
        BY <2>2, <2>3, <2>4 DEF AccessExact
<1>4. ASSUME NEW s \in ArrayDesignators \union Strings, NEW t \in ArrayDesignators \union Strings,
             AssignArray(s, t)
      PROVE  AccessExact'
    BY <1>1, <1>4, AssignExact
<1>5. ASSUME NEW x \in ArrayDesignators \union Strings, NEW y \in ArrayDesignators \union Strings,
             CompareArrays(x, y)
      PROVE  AccessExact'
    BY <1>1, <1>5, CompareExact
<1>6. ASSUME Statement, NEW f \in Procedure, CallProcedure(f) PROVE AccessExact'
    BY <1>6, CallExact
<1>7. ASSUME Statement, NEW g \in ProcedureVar, CallVariable(g) PROVE AccessExact'
    BY <1>7, CallExact
<1>8. ASSUME NEW g, NEW f, AssignProcedure(g, f) PROVE AccessExact'
    BY <1>2, <1>8 DEF AssignProcedure
<1>9. CASE ReturnFromCall
    BY <1>2, <1>9 DEF ReturnFromCall
<1>10. CASE NextStatement
    BY <1>10 DEF NextStatement, AccessExact
<1>11. CASE UNCHANGED arrayVars
    BY <1>2, <1>11 DEF arrayVars
<1>12. CASE ArraysNext
    BY <1>3, <1>4, <1>5, <1>6, <1>7, <1>8, <1>9, <1>10, <1>12, Zenon DEF ArraysNext
<1> QED
    BY <1>11, <1>12

LEMMA StartNat ==
    ASSUME NEW es \in Seq(Extent), NEW path, Within(es, path)
    PROVE  Start(es, path) \in Nat
<1>1. Len(path) \in Nat /\ Len(es) \in Nat /\ Len(path) <= Len(es)
    BY LenProperties DEF Within
<1>2. PlaceOf(es, path) \in Nat
    <2>1. Len(path) \in 0..Len(path)
        BY <1>1
    <2> QED
        BY <2>1, PlaceWithin DEF PlaceOf
<1>3. Product(Rest(es, Len(path))) \in Nat
    <2>1. Len(path) \in 0..Len(es)
        BY <1>1
    <2>2. Rest(es, Len(path)) \in Seq(Extent)
        BY <2>1, RestFact
    <2> QED
        BY <2>2, ProductPositive DEF Extent
<1>4. PICK a, b \in Nat : a = PlaceOf(es, path) /\ b = Product(Rest(es, Len(path)))
    BY <1>2, <1>3
<1>5. a * b \in Nat
    OBVIOUS
<1> QED
    BY <1>4, <1>5 DEF Start

LEMMA AccessTyped == AccessInv => ArraysTypeOK
<1> SUFFICES ASSUME AccessInv PROVE ArraysTypeOK
    OBVIOUS
<1>1. /\ CallsInv /\ PlacesInv /\ Len(calls) <= MaxCalls
      /\ arrayTrap \in {"none", "index", "assignment", "nil"}
    BY DEF AccessInv, ArrayTraps
<1>2. DOMAIN calls = 1..Len(calls) /\ procValue \in [ProcedureVar -> Procedure \union {NoProcedure}]
    BY <1>1, LenProperties DEF CallsInv
<1>3. ASSUME NEW c \in DOMAIN calls, NEW i \in DOMAIN calls[c]
      PROVE  /\ calls[c][i].object \in ArrayVar \union Literal
             /\ calls[c][i].kind \in {"value", "var"}
             /\ calls[c][i].offset \in Nat
    <2>1. BaseTrue(calls[c][i]) /\ BaseAt(calls[c][i]) /\ calls[c][i].kind \in {"value", "var"}
        BY <1>1, <1>2 DEF CallsInv, PlacesInv
    <2>2. calls[c][i].object \in ArrayVar \union Literal
        BY <2>1 DEF BaseTrue
    <2>3. calls[c][i].offset \in Nat
        BY <2>1, <2>2, ExtentsPositive, StartNat DEF BaseAt
    <2> QED
        BY <2>1, <2>2, <2>3
<1> QED
    BY <1>1, <1>2, <1>3 DEF ArraysTypeOK

(* A statement touches the elements that it is meant to touch, through     *)
(* whatever calls the array came, and traps exactly when an index is out   *)
(* of bounds or the target of an assignment too short, for any arrays,     *)
(* where also no rows that are open themselves are assigned                *)
(* (GenerateArrayAssignment, OBNC_IT, OBNC_AAT, OBNC_CMP).                 *)
THEOREM AccessInvariant ==
    ASSUME SameLengths, ClosedRows
    PROVE  ArraysSpec => []AccessExact
<1>1. AccessInv /\ AccessExact /\ [ArraysNext]_arrayVars => AccessInv' /\ AccessExact'
    BY AccessStep, ExactStep
<1> QED
    BY AccessInit, <1>1, PTL DEF ArraysSpec

(* The pointers that are passed lie in objects, and procedure variables    *)
(* hold procedures.                                                        *)
THEOREM ArraysTyped ==
    ASSUME SameLengths
    PROVE  ArraysSpec => []ArraysTypeOK
<1>1. AccessInv /\ [ArraysNext]_arrayVars => AccessInv'
    BY AccessStep
<1> QED
    BY AccessInit, AccessTyped, <1>1, PTL DEF ArraysSpec
================================================================================
