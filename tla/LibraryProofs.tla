----------------------------- MODULE LibraryProofs -----------------------------
(***************************************************************************)
(* Proofs about two library modules, for any values of the constants with  *)
(* the conditions that the theorems name.                                  *)
(*                                                                         *)
(* Strings: the procedures are loops that move one character at a time     *)
(* within an array or from one to another. Upwards, no place is read after *)
(* it was written where characters come from places further up, and        *)
(* downwards where they come from places further down; so that each place  *)
(* ends up with what its source had at first.                              *)
(*                                                                         *)
(* Numbers: the file is divided into the groups of each number, and what   *)
(* was cut off. Of a number x that is halved GroupBits times for each      *)
(* group, the groups that ReadNum has added up so far are what x exceeds   *)
(* the multiple of the rest by; and the last group, which has a sign,      *)
(* makes up for the rest.                                                  *)
(***************************************************************************)
EXTENDS Strings, Numbers, SequenceTheorems, WellFoundedInduction, TLAPS

-----------------------------------------------------------------------------
(* Of numbers.                                                             *)
LEMMA SetInduction ==
    ASSUME NEW S, 0 \in S, \A n \in Nat : n \in S => n + 1 \in S
    PROVE  Nat \subseteq S
<1> DEFINE R == OpToRel(<, Nat)
<1>1. IsWellFoundedOn(R, Nat)
    BY NatLessThanWellFounded
<1>2. \A y, x \in Nat : y < x => <<y, x>> \in R
    BY DEF OpToRel
<1> HIDE DEF R
<1> SUFFICES ASSUME Nat \ S /= {} PROVE FALSE
    OBVIOUS
<1>3. PICK x \in Nat \ S : \A y \in Nat \ S : ~(<<y, x>> \in R)
    <2>1. \A T \in SUBSET Nat : T /= {} => \E x \in T : \A y \in T : ~(<<y, x>> \in R)
        BY <1>1, WFMin, Zenon
    <2> QED
        BY <2>1
<1>4. x - 1 \in Nat /\ x - 1 < x
    OBVIOUS
<1>5. x - 1 \in S
    BY <1>2, <1>3, <1>4
<1> QED
    BY <1>4, <1>5

(* The same up to a bound.                                                 *)
LEMMA BoundedInduction ==
    ASSUME NEW n \in Nat, NEW S, 0 \in S, \A k \in 0..(n - 1) : k \in S => k + 1 \in S
    PROVE  0..n \subseteq S
<1> DEFINE T == {k \in Nat : k <= n => k \in S}
<1>1. 0 \in T /\ \A k \in Nat : k \in T => k + 1 \in T
    OBVIOUS
<1> HIDE DEF T
<1>2. Nat \subseteq T
    BY <1>1, SetInduction
<1> QED
    BY <1>2 DEF T

(* A nonempty set of natural numbers has a least element.                  *)
LEMMA LeastElement ==
    ASSUME NEW S \in SUBSET Nat, S /= {}
    PROVE  Min(S) \in S /\ \A n \in S : Min(S) <= n
<1> DEFINE T == {n \in Nat : \A k \in 0..n : k \notin S}
<1>1. CASE 0 \in S
  <2>1. \E x \in S : \A y \in S : x <= y
    BY <1>1
  <2> QED
    BY <2>1, Zenon DEF Min
<1>2. CASE 0 \notin S
  <2>1. 0 \in T
    BY <1>2
  <2>2. PICK n \in Nat : n \in T /\ n + 1 \notin T
    <3>1. SUFFICES ASSUME \A n \in Nat : n \in T => n + 1 \in T PROVE FALSE
      BY Zenon
    <3> HIDE DEF T
    <3>2. Nat \subseteq T
      BY <2>1, <3>1, SetInduction
    <3>3. PICK x \in S : x \in Nat
      OBVIOUS
    <3>4. x \in T
      BY <3>2, <3>3
    <3> QED
      BY <3>3, <3>4 DEF T
  <2>3. n + 1 \in S /\ \A y \in S : n + 1 <= y
    BY <2>2
  <2>4. \E x \in S : \A y \in S : x <= y
    BY <2>3
  <2> QED
    BY <2>4, Zenon DEF Min
<1> QED
  BY <1>1, <1>2

(* A part of a sequence, element by element.                               *)
LEMMA SubIs ==
    ASSUME NEW T, NEW t \in Seq(T), NEW m \in Nat \ {0}, NEW n \in Int, n <= Len(t)
    PROVE  /\ SubSeq(t, m, n) \in Seq(T)
           /\ Len(SubSeq(t, m, n)) = IF m <= n THEN n - m + 1 ELSE 0
           /\ \A i \in 1..(n - m + 1) : SubSeq(t, m, n)[i] = t[m + i - 1]
<1>1. \A i \in m..n : t[i] \in T
  OBVIOUS
<1> QED
  BY <1>1, SubSeqProperties


-----------------------------------------------------------------------------
(* Arrays of characters, and the strings in them.                          *)
Typed(k) == k = [v \in StringVar |-> k[v]] /\ \A v \in StringVar : k[v] \in Contents(v)
Places(v) == 0..(StringSize[v] - 1)

LEMMA TypedArrays == ASSUME NEW k, Typed(k) PROVE k /= Outside
<1>1. k \in [StringVar -> UNION {Contents(v) : v \in StringVar}]
  BY DEF Typed
<1> QED
  BY <1>1, StringsAssumption

LEMMA TypedFact ==
    ASSUME NEW k, Typed(k), NEW v \in StringVar
    PROVE  /\ StringSize[v] \in Nat \ {0} /\ DOMAIN k[v] = Places(v)
           /\ \A i \in Places(v) : k[v][i] \in Letter \union {0}
<1>1. k[v] \in [Places(v) -> Letter \union {0}]
  BY DEF Typed, Contents, Places
<1>2. StringSize[v] \in Nat \ {0}
  BY StringsAssumption
<1> QED
  BY <1>1, <1>2

(* The length of a string is the place of its 0X.                          *)
LEMMA LengthFact ==
    ASSUME NEW k, Typed(k), NEW v \in StringVar, Ended(k[v])
    PROVE  /\ Length(k[v]) \in Places(v) /\ k[v][Length(k[v])] = 0
           /\ \A j \in 0..(Length(k[v]) - 1) : j \in Places(v) /\ k[v][j] \in Letter /\ k[v][j] /= 0
<1> DEFINE a == k[v]
           S == {i \in Places(v) : a[i] = 0}
<1>1. StringSize[v] \in Nat \ {0} /\ DOMAIN a = Places(v) /\ \A i \in Places(v) : a[i] \in Letter \union {0}
  BY TypedFact
<1>2. S \in SUBSET Nat /\ S /= {}
  BY <1>1 DEF Ended, Places
<1>3. Min(S) \in S /\ \A n \in S : Min(S) <= n
  BY <1>2, LeastElement
<1>4. PICK m \in S : \A n \in S : m <= n
  BY <1>3
<1>5. m \in DOMAIN a /\ a[m] = 0 /\ \A j \in 0..(m - 1) : a[j] /= 0
  BY <1>1, <1>4 DEF Places
<1> HIDE DEF a, S
<1>6. Length(a) \in DOMAIN a /\ a[Length(a)] = 0 /\ \A j \in 0..(Length(a) - 1) : a[j] /= 0
  BY <1>5, Zenon DEF Length
<1>7. ASSUME NEW j \in 0..(Length(a) - 1) PROVE j \in Places(v) /\ a[j] \in Letter
  BY <1>1, <1>6, <1>7 DEF Places
<1> QED
  BY <1>1, <1>6, <1>7 DEF a

LEMMA LengthIs ==
    ASSUME NEW k, Typed(k), NEW v \in StringVar, NEW n \in Places(v), k[v][n] = 0,
           \A j \in 0..(n - 1) : k[v][j] /= 0
    PROVE  Ended(k[v]) /\ Length(k[v]) = n
<1>1. StringSize[v] \in Nat \ {0} /\ DOMAIN k[v] = Places(v)
  BY TypedFact
<1>2. Ended(k[v])
  BY <1>1 DEF Ended
<1>3. Length(k[v]) \in Places(v) /\ k[v][Length(k[v])] = 0 /\ \A j \in 0..(Length(k[v]) - 1) : k[v][j] /= 0
  BY <1>2, LengthFact
<1> QED
  BY <1>1, <1>2, <1>3 DEF Places

(* What the string stands for.                                             *)
LEMMA TextFact ==
    ASSUME NEW k, Typed(k), NEW v \in StringVar, Ended(k[v])
    PROVE  /\ Text(k[v]) \in Seq(Letter) /\ Len(Text(k[v])) = Length(k[v])
           /\ Length(k[v]) \in Nat /\ Length(k[v]) < StringSize[v]
           /\ \A i \in 1..Length(k[v]) : Text(k[v])[i] = k[v][i - 1]
<1>1. Length(k[v]) \in Nat /\ Length(k[v]) < StringSize[v]
  BY LengthFact, TypedFact DEF Places
<1>2. \A i \in 1..Length(k[v]) : k[v][i - 1] \in Letter
  BY <1>1, LengthFact
<1> QED
  BY <1>1, <1>2 DEF Text

-----------------------------------------------------------------------------
(* A loop moves the characters one after the other.                        *)
LEMMA AssignedFact ==
    ASSUME NEW k, Typed(k), NEW d \in StringVar, NEW i \in Places(d), NEW c \in Letter \union {0},
           NEW r, r = Assigned(k, d, i, c)
    PROVE  /\ Typed(r) /\ r[d][i] = c
           /\ \A j \in Places(d) : j /= i => r[d][j] = k[d][j]
           /\ \A v \in StringVar : v /= d => r[v] = k[v]
<1> DEFINE a == [k[d] EXCEPT ![i] = c]
<1>1. k /= Outside /\ DOMAIN k[d] = Places(d) /\ k = [v \in StringVar |-> k[v]]
  BY TypedArrays, TypedFact DEF Typed
<1>2. r = [k EXCEPT ![d] = a]
  BY <1>1 DEF Assigned
<1>3. a \in Contents(d) /\ a[i] = c /\ \A j \in Places(d) : j /= i => a[j] = k[d][j]
  BY DEF Typed, Contents, Places
<1> HIDE DEF a
<1>4. r[d] = a /\ \A v \in StringVar : v /= d => r[v] = k[v]
  BY <1>1, <1>2
<1>5. r = [v \in StringVar |-> r[v]]
  BY <1>1, <1>2
<1>6. Typed(r)
  BY <1>3, <1>4, <1>5 DEF Typed
<1> QED
  BY <1>3, <1>4, <1>6

Moving(f, k, s, shift, d, is, n) == IF n = 0 THEN k ELSE Moved(f[n - 1], s, is[n] + shift, d, is[n])
IsMove(f, k, s, shift, d, is, n) == f = [j \in 0..n |-> Moving(f, k, s, shift, d, is, j)]
Moves(k, s, shift, d, is) == CHOOSE f : IsMove(f, k, s, shift, d, is, Len(is))

LEMMA MoveExists ==
    ASSUME NEW k, NEW s, NEW shift, NEW d, NEW is, NEW n \in Nat
    PROVE  \E f : IsMove(f, k, s, shift, d, is, n)
<1> DEFINE S == {j \in Nat : \E f : IsMove(f, k, s, shift, d, is, j)}
<1>1. 0 \in S
  <2> DEFINE g == [j \in 0..0 |-> k]
  <2>1. \A j \in 0..0 : g[j] = Moving(g, k, s, shift, d, is, j)
    BY DEF Moving
  <2>2. g = [j \in 0..0 |-> g[j]]
    OBVIOUS
  <2> HIDE DEF g
  <2>3. IsMove(g, k, s, shift, d, is, 0)
    BY <2>1, <2>2 DEF IsMove
  <2> QED
    BY <2>3
<1>2. ASSUME NEW j \in Nat, j \in S PROVE j + 1 \in S
  <2>1. PICK f : IsMove(f, k, s, shift, d, is, j)
    BY <1>2
  <2> DEFINE g == [i \in 0..(j + 1) |-> IF i <= j THEN f[i] ELSE Moving(f, k, s, shift, d, is, j + 1)]
  <2>2. ASSUME NEW i \in 0..(j + 1) PROVE g[i] = Moving(g, k, s, shift, d, is, i)
    <3>1. i /= 0 => g[i - 1] = f[i - 1]
      OBVIOUS
    <3>2. g[i] = Moving(f, k, s, shift, d, is, i)
      <4>1. CASE i <= j
        BY <2>1, <4>1 DEF IsMove
      <4>2. CASE i = j + 1
        BY <4>2
      <4> QED
        BY <4>1, <4>2
    <3> HIDE DEF g
    <3> QED
      BY <3>1, <3>2 DEF Moving
  <2>3. IsMove(g, k, s, shift, d, is, j + 1)
    <3>1. g = [i \in 0..(j + 1) |-> g[i]]
      OBVIOUS
    <3> HIDE DEF g
    <3> QED
      BY <2>2, <3>1 DEF IsMove
  <2> QED
    BY <2>3
<1> HIDE DEF S
<1>3. n \in S
  BY <1>1, <1>2, SetInduction
<1> QED
  BY <1>3 DEF S

LEMMA LoopIs ==
    ASSUME NEW k, NEW s, NEW shift, NEW d, NEW is \in Seq(Int)
    PROVE  LET f == Moves(k, s, shift, d, is)
           IN /\ Loop(k, s, shift, d, is) = f[Len(is)]
              /\ f[0] = k
              /\ \A n \in 1..Len(is) : f[n] = Moved(f[n - 1], s, is[n] + shift, d, is[n])
<1>1. Loop(k, s, shift, d, is) = Moves(k, s, shift, d, is)[Len(is)]
  BY DEF Loop, Moves, IsMove, Moving
<1>2. IsMove(Moves(k, s, shift, d, is), k, s, shift, d, is, Len(is))
  BY MoveExists DEF Moves
<1> QED
  <2> DEFINE f == Moves(k, s, shift, d, is)
  <2>1. f = [j \in 0..Len(is) |-> Moving(f, k, s, shift, d, is, j)]
    BY <1>2 DEF IsMove
  <2> HIDE DEF f
  <2>2. f[0] = k /\ \A n \in 1..Len(is) : f[n] = Moved(f[n - 1], s, is[n] + shift, d, is[n])
    BY <2>1 DEF Moving
  <2> QED
    BY <1>1, <2>2 DEF f

(* If no character is overwritten before it is moved, each arrives where   *)
(* it should.                                                              *)
Apart(is, s, shift, d) ==
    /\ \A n \in 1..Len(is) : is[n] \in Places(d) /\ is[n] + shift \in Places(s)
    /\ \A n \in 1..Len(is) : \A m \in 1..(n - 1) : is[m] /= is[n] /\ (s = d => is[m] /= is[n] + shift)
Arrived(k, r, s, shift, d, is) ==
    /\ Typed(r)
    /\ \A n \in 1..Len(is) : r[d][is[n]] = k[s][is[n] + shift]
    /\ \A i \in Places(d) : (\A n \in 1..Len(is) : is[n] /= i) => r[d][i] = k[d][i]
    /\ \A v \in StringVar : v /= d => r[v] = k[v]

LEMMA LoopFact ==
    ASSUME NEW k, Typed(k), NEW s \in StringVar, NEW d \in StringVar, NEW shift \in Int, NEW is \in Seq(Int),
           Apart(is, s, shift, d)
    PROVE  Arrived(k, Loop(k, s, shift, d, is), s, shift, d, is)
<1> DEFINE f == Moves(k, s, shift, d, is)
           After(q, j) == /\ Typed(q)
                          /\ \A n \in 1..j : q[d][is[n]] = k[s][is[n] + shift]
                          /\ \A i \in Places(d) : (\A n \in 1..j : is[n] /= i) => q[d][i] = k[d][i]
                          /\ \A v \in StringVar : v /= d => q[v] = k[v]
           T == {j \in 0..Len(is) : After(f[j], j)}
<1>1. /\ Loop(k, s, shift, d, is) = f[Len(is)]
      /\ f[0] = k
      /\ \A n \in 1..Len(is) : f[n] = Moved(f[n - 1], s, is[n] + shift, d, is[n])
  BY LoopIs
<1> HIDE DEF f
<1>2. 0 \in T
  BY <1>1
<1>3. ASSUME NEW j \in 0..(Len(is) - 1), j \in T PROVE j + 1 \in T
  <2>1. After(f[j], j)
    BY <1>3
  <2>2. PICK i : i = is[j + 1]
    OBVIOUS
  <2>3. i \in Places(d) /\ i + shift \in Places(s) /\ i \in Int
    BY <2>2 DEF Apart
  <2>4. \A m \in 1..j : is[m] /= i /\ (s = d => is[m] /= i + shift)
    BY <2>2 DEF Apart
  <2>5. f[j + 1] = Moved(f[j], s, i + shift, d, i)
    BY <1>1, <2>2
  <2>6. PICK c : c = f[j][s][i + shift]
    OBVIOUS
  <2>7. c = k[s][i + shift] /\ c \in Letter \union {0}
    <3>1. Typed(f[j])
      BY <2>1
    <3>2. c \in Letter \union {0}
      BY <2>3, <2>6, <3>1, TypedFact
    <3>3. CASE s = d
      <4>1. i + shift \in Places(d) /\ \A n \in 1..j : is[n] /= i + shift
        BY <2>3, <2>4, <3>3
      <4>2. f[j][d][i + shift] = k[d][i + shift]
        BY <2>1, <4>1
      <4> QED
        BY <2>6, <3>2, <3>3, <4>2
    <3>4. CASE s /= d
      <4>1. f[j][s] = k[s]
        BY <2>1, <3>4
      <4> QED
        BY <2>6, <3>2, <4>1
    <3> QED
      BY <3>2, <3>3, <3>4
  <2>8. f[j + 1] = Assigned(f[j], d, i, c)
    <3>1. Typed(f[j])
      BY <2>1
    <3> HIDE DEF After
    <3>2. f[j] /= Outside /\ i + shift \in DOMAIN f[j][s]
      BY <2>3, <3>1, TypedArrays, TypedFact
    <3> QED
      BY <2>5, <2>6, <3>2 DEF Moved
  <2>9. /\ Typed(f[j + 1]) /\ f[j + 1][d][i] = c
        /\ \A x \in Places(d) : x /= i => f[j + 1][d][x] = f[j][d][x]
        /\ \A v \in StringVar : v /= d => f[j + 1][v] = f[j][v]
    <3> HIDE DEF After
    <3>1. Typed(f[j])
      BY <2>1 DEF After
    <3> QED
      BY <2>3, <2>7, <2>8, <3>1, AssignedFact
  <2>10. \A n \in 1..(j + 1) : f[j + 1][d][is[n]] = k[s][is[n] + shift]
    <3> SUFFICES ASSUME NEW n \in 1..(j + 1) PROVE f[j + 1][d][is[n]] = k[s][is[n] + shift]
      OBVIOUS
    <3>1. CASE n = j + 1
      BY <2>2, <2>7, <2>9, <3>1
    <3>2. CASE n \in 1..j
      <4>1. is[n] /= i /\ is[n] \in Places(d)
        BY <2>4, <3>2 DEF Apart
      <4> QED
        BY <2>1, <2>9, <3>2, <4>1
    <3> QED
      BY <3>1, <3>2
  <2>11. ASSUME NEW x \in Places(d), \A n \in 1..(j + 1) : is[n] /= x PROVE f[j + 1][d][x] = k[d][x]
    <3>1. x /= i /\ \A n \in 1..j : is[n] /= x
      BY <2>2, <2>11
    <3> QED
      BY <2>1, <2>9, <3>1
  <2>12. After(f[j + 1], j + 1)
    BY <2>1, <2>9, <2>10, <2>11
  <2> HIDE DEF After
  <2> QED
    BY <2>12
<1> HIDE DEF T
<1>4. Len(is) \in T
  <2>1. Len(is) \in Nat
    OBVIOUS
  <2>2. 0..Len(is) \subseteq T
    BY <1>2, <1>3, <2>1, BoundedInduction
  <2> QED
    BY <2>1, <2>2
<1> QED
  BY <1>1, <1>4 DEF T, Arrived

(* FOR i := low TO high DO d[i] := s[i + shift] END, where the characters  *)
(* come from another array or from places further up.                      *)
LEMMA UpLoop ==
    ASSUME NEW k, Typed(k), NEW s \in StringVar, NEW d \in StringVar, NEW shift \in Int,
           NEW low \in Int, NEW high \in Int, s /= d \/ shift >= 0,
           \A i \in low..high : i \in Places(d) /\ i + shift \in Places(s),
           NEW r, r = Loop(k, s, shift, d, Upwards(low, high))
    PROVE  /\ Typed(r)
           /\ \A i \in low..high : r[d][i] = k[s][i + shift]
           /\ \A i \in Places(d) : i \notin low..high => r[d][i] = k[d][i]
           /\ \A v \in StringVar : v /= d => r[v] = k[v]
<1> DEFINE is == Upwards(low, high)
<1>1. /\ is \in Seq(Int) /\ Len(is) = IF low > high THEN 0 ELSE high - low + 1
      /\ \A n \in 1..Len(is) : is[n] = low + n - 1
  <2>1. CASE low > high
    BY <2>1 DEF Upwards
  <2>2. CASE ~(low > high)
    BY <2>2 DEF Upwards
  <2> QED
    BY <2>1, <2>2
<1> HIDE DEF is
<1>2. \A n \in 1..Len(is) : is[n] \in low..high
  BY <1>1
<1>3. \A i \in low..high : i - low + 1 \in 1..Len(is) /\ is[i - low + 1] = i
  BY <1>1
<1>4. \A n \in 1..Len(is) : is[n] \in Places(d) /\ is[n] + shift \in Places(s)
  BY <1>2
<1>5. ASSUME NEW n \in 1..Len(is), NEW m \in 1..(n - 1)
      PROVE  is[m] /= is[n] /\ (s = d => is[m] /= is[n] + shift)
  <2>1. Len(is) \in Nat /\ m \in 1..Len(is)
    BY <1>1
  <2>2. is[n] = low + n - 1 /\ is[m] = low + m - 1 /\ m < n
    BY <1>1, <2>1
  <2> QED
    BY <2>2
<1>6. r = Loop(k, s, shift, d, is) /\ Apart(is, s, shift, d)
  BY <1>4, <1>5 DEF is, Apart
<1>7. /\ Typed(r)
      /\ \A n \in 1..Len(is) : r[d][is[n]] = k[s][is[n] + shift]
      /\ \A i \in Places(d) : (\A n \in 1..Len(is) : is[n] /= i) => r[d][i] = k[d][i]
      /\ \A v \in StringVar : v /= d => r[v] = k[v]
  <2>1. Arrived(k, r, s, shift, d, is)
    BY <1>1, <1>6, LoopFact, Zenon
  <2> QED
    BY <2>1 DEF Arrived
<1>8. ASSUME NEW i \in low..high PROVE r[d][i] = k[s][i + shift]
  <2>1. PICK n \in 1..Len(is) : is[n] = i
    BY <1>3
  <2> QED
    BY <1>7, <2>1
<1>9. \A i \in Places(d) : i \notin low..high => r[d][i] = k[d][i]
  BY <1>2, <1>7
<1> QED
  BY <1>7, <1>8, <1>9

(* FOR i := high TO low BY -1, where they come from places further down.   *)
LEMMA DownLoop ==
    ASSUME NEW k, Typed(k), NEW d \in StringVar, NEW shift \in Int,
           NEW low \in Int, NEW high \in Int, shift <= 0,
           \A i \in low..high : i \in Places(d) /\ i + shift \in Places(d),
           NEW r, r = Loop(k, d, shift, d, Downwards(high, low))
    PROVE  /\ Typed(r)
           /\ \A i \in low..high : r[d][i] = k[d][i + shift]
           /\ \A i \in Places(d) : i \notin low..high => r[d][i] = k[d][i]
           /\ \A v \in StringVar : v /= d => r[v] = k[v]
<1> DEFINE is == Downwards(high, low)
<1>1. /\ is \in Seq(Int) /\ Len(is) = IF low > high THEN 0 ELSE high - low + 1
      /\ \A n \in 1..Len(is) : is[n] = high - n + 1
  <2>1. CASE low > high
    BY <2>1 DEF Upwards, Downwards, Reverse
  <2>2. CASE ~(low > high)
    <3> DEFINE up == [n \in 1..(high - low + 1) |-> low + n - 1]
    <3>1. up \in Seq(Int) /\ Len(up) = high - low + 1 /\ \A n \in 1..Len(up) : up[n] = low + n - 1
      BY <2>2
    <3>2. is = Reverse(up)
      BY <2>2 DEF Upwards, Downwards
    <3> HIDE DEF up
    <3>3. is = [n \in 1..Len(up) |-> up[(Len(up) - n) + 1]]
      BY <3>2 DEF Reverse
    <3>4. \A n \in 1..Len(up) : up[(Len(up) - n) + 1] = high - n + 1
      BY <3>1
    <3>5. Len(up) \in Nat
      BY <3>1
    <3> HIDE DEF is
    <3>6. is \in Seq(Int) /\ Len(is) = Len(up) /\ \A n \in 1..Len(up) : is[n] = high - n + 1
      BY <3>3, <3>4, <3>5
    <3> QED
      BY <2>2, <3>1, <3>6
  <2> QED
    BY <2>1, <2>2
<1> HIDE DEF is
<1>2. \A n \in 1..Len(is) : is[n] \in low..high
  BY <1>1
<1>3. \A i \in low..high : high - i + 1 \in 1..Len(is) /\ is[high - i + 1] = i
  BY <1>1
<1>4. \A n \in 1..Len(is) : is[n] \in Places(d) /\ is[n] + shift \in Places(d)
  BY <1>2
<1>5. ASSUME NEW n \in 1..Len(is), NEW m \in 1..(n - 1)
      PROVE  is[m] /= is[n] /\ is[m] /= is[n] + shift
  <2>1. Len(is) \in Nat /\ m \in 1..Len(is) /\ m \in Int /\ n \in Int /\ m < n
    BY <1>1
  <2>2. is[m] = high - m + 1 /\ is[n] = high - n + 1
    BY <1>1, <2>1
  <2> QED
    BY <2>1, <2>2
<1>6. r = Loop(k, d, shift, d, is) /\ Apart(is, d, shift, d)
  BY <1>4, <1>5 DEF is, Apart
<1>7. /\ Typed(r)
      /\ \A n \in 1..Len(is) : r[d][is[n]] = k[d][is[n] + shift]
      /\ \A i \in Places(d) : (\A n \in 1..Len(is) : is[n] /= i) => r[d][i] = k[d][i]
      /\ \A v \in StringVar : v /= d => r[v] = k[v]
  <2>1. Arrived(k, r, d, shift, d, is)
    BY <1>1, <1>6, LoopFact, Zenon
  <2> QED
    BY <2>1 DEF Arrived
<1>8. ASSUME NEW i \in low..high PROVE r[d][i] = k[d][i + shift]
  <2>1. PICK n \in 1..Len(is) : is[n] = i
    BY <1>3
  <2> QED
    BY <1>7, <2>1
<1>9. \A i \in Places(d) : i \notin low..high => r[d][i] = k[d][i]
  BY <1>2, <1>7
<1> QED
  BY <1>7, <1>8, <1>9

-----------------------------------------------------------------------------
(* Texts, character by character.                                          *)
IsInserted(e, t, from, u) ==
    /\ Len(e) = Len(t) + Len(u)
    /\ \A i \in 1..(Len(t) + Len(u)) :
          e[i] = IF i <= from THEN t[i] ELSE IF i <= from + Len(u) THEN u[i - from] ELSE t[i - Len(u)]

LEMMA InsertedIs ==
    ASSUME NEW T, NEW t \in Seq(T), NEW u \in Seq(T), NEW from \in 0..Len(t)
    PROVE  Inserted(t, from, u) \in Seq(T) /\ IsInserted(Inserted(t, from, u), t, from, u)
<1> DEFINE a == SubSeq(t, 1, from)
           b == SubSeq(t, from + 1, Len(t))
           c == a \o u
           e == c \o b
<1>7. Inserted(t, from, u) = e
  BY DEF Inserted
<1>1. PICK n \in Nat : n = Len(t)
  OBVIOUS
<1>2. PICK m \in Nat : m = Len(u)
  OBVIOUS
<1>3. a \in Seq(T) /\ Len(a) = from /\ \A i \in 1..from : a[i] = t[i]
  <2>1. /\ SubSeq(t, 1, from) \in Seq(T) /\ Len(SubSeq(t, 1, from)) = IF 1 <= from THEN from - 1 + 1 ELSE 0
        /\ \A i \in 1..(from - 1 + 1) : SubSeq(t, 1, from)[i] = t[1 + i - 1]
    BY SubIs
  <2> QED
    BY <2>1
<1>4. b \in Seq(T) /\ Len(b) = n - from /\ \A i \in 1..(n - from) : b[i] = t[from + i]
  <2>1. from + 1 \in Nat \ {0} /\ n \in Int /\ n <= Len(t)
    BY <1>1
  <2>2. /\ SubSeq(t, from + 1, n) \in Seq(T)
        /\ Len(SubSeq(t, from + 1, n)) = IF from + 1 <= n THEN n - (from + 1) + 1 ELSE 0
        /\ \A i \in 1..(n - (from + 1) + 1) : SubSeq(t, from + 1, n)[i] = t[from + 1 + i - 1]
    BY <2>1, SubIs
  <2> QED
    BY <1>1, <2>2
<1> HIDE DEF a, b
<1>5. c \in Seq(T) /\ Len(c) = from + m
      /\ \A i \in 1..(from + m) : c[i] = IF i <= from THEN a[i] ELSE u[i - from]
  <2>1. /\ a \o u \in Seq(T) /\ Len(a \o u) = Len(a) + Len(u)
        /\ \A i \in 1..(Len(a) + Len(u)) : (a \o u)[i] = IF i <= Len(a) THEN a[i] ELSE u[i - Len(a)]
    BY <1>3, ConcatProperties
  <2> QED
    BY <1>2, <1>3, <2>1
<1> HIDE DEF c
<1>6. e \in Seq(T) /\ Len(e) = n + m
      /\ \A i \in 1..(n + m) : e[i] = IF i <= from + m THEN c[i] ELSE b[i - (from + m)]
  <2>1. /\ c \o b \in Seq(T) /\ Len(c \o b) = Len(c) + Len(b)
        /\ \A i \in 1..(Len(c) + Len(b)) : (c \o b)[i] = IF i <= Len(c) THEN c[i] ELSE b[i - Len(c)]
    BY <1>4, <1>5, ConcatProperties
  <2> QED
    BY <1>1, <1>2, <1>4, <1>5, <2>1
<1> HIDE DEF e
<1>8. ASSUME NEW i \in 1..(n + m)
      PROVE  e[i] = IF i <= from THEN t[i] ELSE IF i <= from + m THEN u[i - from] ELSE t[i - m]
  <2>1. CASE i <= from
    BY <1>3, <1>5, <1>6, <2>1
  <2>2. CASE i > from /\ i <= from + m
    BY <1>5, <1>6, <2>2
  <2>3. CASE i > from + m
    <3>1. i - (from + m) \in 1..(n - from) /\ from + (i - (from + m)) = i - m
      BY <1>1, <1>2, <2>3
    <3>2. b[i - (from + m)] = t[from + (i - (from + m))]
      BY <1>4, <3>1
    <3> QED
      BY <1>6, <2>3, <3>1, <3>2
  <2> QED
    BY <1>1, <1>2, <2>1, <2>2, <2>3
<1> QED
  BY <1>1, <1>2, <1>6, <1>7, <1>8 DEF IsInserted

IsDeleted(e, t, from, n) ==
    LET left == IF from + n >= Len(t) THEN from ELSE Len(t) - n
    IN Len(e) = left /\ \A i \in 1..left : e[i] = IF i <= from THEN t[i] ELSE t[i + n]

LEMMA DeletedIs ==
    ASSUME NEW T, NEW t \in Seq(T), NEW from \in 0..Len(t), NEW n \in Nat
    PROVE  Deleted(t, from, n) \in Seq(T) /\ IsDeleted(Deleted(t, from, n), t, from, n)
<1> DEFINE a == SubSeq(t, 1, from)
           b == SubSeq(t, from + n + 1, Len(t))
           e == a \o b
<1>5. Deleted(t, from, n) = e
  BY DEF Deleted
<1>1. PICK l \in Nat : l = Len(t)
  OBVIOUS
<1>2. a \in Seq(T) /\ Len(a) = from /\ \A i \in 1..from : a[i] = t[i]
  <2>1. /\ SubSeq(t, 1, from) \in Seq(T) /\ Len(SubSeq(t, 1, from)) = IF 1 <= from THEN from - 1 + 1 ELSE 0
        /\ \A i \in 1..(from - 1 + 1) : SubSeq(t, 1, from)[i] = t[1 + i - 1]
    BY SubIs
  <2> QED
    BY <2>1
<1>3. b \in Seq(T) /\ Len(b) = (IF from + n >= l THEN 0 ELSE l - from - n)
      /\ \A i \in 1..(l - from - n) : b[i] = t[from + n + i]
  <2>1. from + n + 1 \in Nat \ {0} /\ l \in Int /\ l <= Len(t)
    BY <1>1
  <2>2. /\ SubSeq(t, from + n + 1, l) \in Seq(T)
        /\ Len(SubSeq(t, from + n + 1, l)) = IF from + n + 1 <= l THEN l - (from + n + 1) + 1 ELSE 0
        /\ \A i \in 1..(l - (from + n + 1) + 1) : SubSeq(t, from + n + 1, l)[i] = t[from + n + 1 + i - 1]
    BY <2>1, SubIs
  <2> QED
    BY <1>1, <2>2
<1> HIDE DEF a, b
<1>4. e \in Seq(T) /\ Len(e) = from + Len(b)
      /\ \A i \in 1..(from + Len(b)) : e[i] = IF i <= from THEN a[i] ELSE b[i - from]
  <2>1. /\ a \o b \in Seq(T) /\ Len(a \o b) = Len(a) + Len(b)
        /\ \A i \in 1..(Len(a) + Len(b)) : (a \o b)[i] = IF i <= Len(a) THEN a[i] ELSE b[i - Len(a)]
    BY <1>2, <1>3, ConcatProperties
  <2> QED
    BY <1>2, <2>1
<1> HIDE DEF e
<1>6. ASSUME NEW i \in 1..Len(e) PROVE e[i] = IF i <= from THEN t[i] ELSE t[i + n]
  <2>1. CASE i <= from
    BY <1>2, <1>4, <2>1
  <2>2. CASE i > from
    <3>0. Len(b) \in Nat /\ e[i] = b[i - from]
      BY <1>3, <1>4, <2>2
    <3>1. i - from \in 1..(l - from - n) /\ from + n + (i - from) = i + n
      BY <1>3, <1>4, <2>2
    <3>2. b[i - from] = t[from + n + (i - from)]
      BY <1>3, <3>1
    <3> QED
      BY <2>2, <3>0, <3>1, <3>2
  <2> QED
    BY <2>1, <2>2
<1> QED
  BY <1>1, <1>3, <1>4, <1>5, <1>6 DEF IsDeleted

(* A text that is as long as what is cut, and the same up to there.        *)
LEMMA IsCut ==
    ASSUME NEW T, NEW t \in Seq(T), NEW u \in Seq(T), NEW size \in Nat \ {0},
           Len(u) = Lesser(Len(t), size - 1), \A i \in 1..Len(u) : u[i] = t[i]
    PROVE  u = Cut(t, size)
<1>1. PICK n \in Nat : n = Lesser(Len(t), size - 1) /\ n <= Len(t) /\ n = Len(u)
  BY DEF Lesser
<1>2. SubSeq(t, 1, n) = u
  BY <1>1
<1> QED
  BY <1>1, <1>2 DEF Cut

-----------------------------------------------------------------------------
(* The procedures.                                                         *)
AllEnded(k) == \A v \in StringVar : Ended(k[v])

(* The arrays k have become r: that of d holds t, as far as there is room. *)
Becomes(k, r, d, t) ==
    /\ Typed(r) /\ AllEnded(r)
    /\ Text(r[d]) = Cut(t, StringSize[d])
    /\ \A v \in StringVar \ {d} : r[v] = k[v]

LEMMA BecomesText ==
    ASSUME NEW k, AllEnded(k), NEW d \in StringVar, NEW r, Typed(r),
           \A v \in StringVar : v /= d => r[v] = k[v],
           NEW t \in Seq(Letter), NEW n \in Places(d), n = Lesser(Len(t), StringSize[d] - 1),
           r[d][n] = 0, \A i \in 0..(n - 1) : r[d][i] = t[i + 1]
    PROVE  Becomes(k, r, d, t)
<1>1. StringSize[d] \in Nat \ {0} /\ n \in Nat /\ n <= Len(t)
  BY TypedFact DEF Places, Lesser
<1>2. \A i \in 0..(n - 1) : r[d][i] /= 0
  <2>1. \A i \in 0..(n - 1) : t[i + 1] \in Letter
    BY <1>1
  <2> QED
    BY <2>1, StringsAssumption
<1>3. Ended(r[d]) /\ Length(r[d]) = n
  BY <1>2, LengthIs
<1>4. /\ Text(r[d]) \in Seq(Letter) /\ Len(Text(r[d])) = n
      /\ \A i \in 1..n : Text(r[d])[i] = r[d][i - 1]
  BY <1>3, TextFact
<1>5. \A i \in 1..n : Text(r[d])[i] = t[i]
  BY <1>1, <1>4
<1>6. Text(r[d]) = Cut(t, StringSize[d])
  BY <1>1, <1>4, <1>5, IsCut
<1>7. AllEnded(r)
  BY <1>3 DEF AllEnded
<1> QED
  BY <1>6, <1>7 DEF Becomes

(* What a call starts from: the string in v.                               *)
LEMMA Before ==
    ASSUME NEW k, Typed(k), AllEnded(k), NEW v \in StringVar
    PROVE  /\ StringSize[v] \in Nat \ {0} /\ Length(k[v]) \in Nat /\ Length(k[v]) < StringSize[v]
           /\ k[v][Length(k[v])] = 0
           /\ Text(k[v]) \in Seq(Letter) /\ Len(Text(k[v])) = Length(k[v])
           /\ \A i \in 0..(Length(k[v]) - 1) : Text(k[v])[i + 1] = k[v][i]
<1>1. Ended(k[v])
  BY DEF AllEnded
<1>2. /\ Text(k[v]) \in Seq(Letter) /\ Len(Text(k[v])) = Length(k[v])
      /\ Length(k[v]) \in Nat /\ Length(k[v]) < StringSize[v]
      /\ \A i \in 1..Length(k[v]) : Text(k[v])[i] = k[v][i - 1]
  BY <1>1, TextFact
<1>3. k[v][Length(k[v])] = 0 /\ StringSize[v] \in Nat \ {0}
  BY <1>1, LengthFact, TypedFact
<1>4. ASSUME NEW i \in 0..(Length(k[v]) - 1) PROVE Text(k[v])[i + 1] = k[v][i]
  <2>1. i + 1 \in 1..Length(k[v]) /\ (i + 1) - 1 = i
    BY <1>2
  <2> QED
    BY <1>2, <2>1
<1> QED
  BY <1>2, <1>3, <1>4

LEMMA AppendExact ==
    ASSUME NEW k, Typed(k), AllEnded(k), NEW s \in StringVar, NEW d \in StringVar, s /= d
    PROVE  Becomes(k, AppendString(k, s, d), d, Inserted(Text(k[d]), Len(Text(k[d])), Text(k[s])))
<1> DEFINE t == Text(k[d])
           u == Text(k[s])
           e == Inserted(t, Len(t), u)
           la == Length(k[s])
           lb == Length(k[d])
           size == StringSize[d]
           n == Lesser(lb + la, size - 1)
           q == Loop(k, s, -lb, d, Upwards(lb, n - 1))
           r == Assigned(q, d, n, 0)
<1>1. /\ size \in Nat \ {0} /\ lb \in Nat /\ lb < size /\ t \in Seq(Letter) /\ Len(t) = lb
      /\ \A i \in 0..(lb - 1) : t[i + 1] = k[d][i]
  BY Before
<1>2. /\ StringSize[s] \in Nat /\ la \in Nat /\ la < StringSize[s] /\ u \in Seq(Letter) /\ Len(u) = la
      /\ \A i \in 0..(la - 1) : u[i + 1] = k[s][i]
  BY Before
<1>3. AppendString(k, s, d) = r
  BY DEF AppendString
<1>4. /\ e \in Seq(Letter) /\ Len(e) = lb + la
      /\ \A i \in 1..(lb + la) : e[i] = IF i <= lb THEN t[i] ELSE u[i - lb]
  <2> HIDE DEF t, u, lb, la
  <2>1. Len(t) \in 0..Len(t)
    BY <1>1
  <2>2. e \in Seq(Letter) /\ IsInserted(e, t, Len(t), u)
    BY <1>1, <1>2, <2>1, InsertedIs, Zenon
  <2> HIDE DEF e
  <2>3. Len(t) = lb /\ Len(u) = la /\ lb \in Nat /\ la \in Nat
    BY <1>1, <1>2
  <2>4. Len(e) = lb + la
    BY <2>2, <2>3 DEF IsInserted
  <2>5. ASSUME NEW i \in 1..(lb + la) PROVE e[i] = IF i <= lb THEN t[i] ELSE u[i - lb]
    <3>1. e[i] = IF i <= lb THEN t[i] ELSE IF i <= lb + la THEN u[i - lb] ELSE t[i - la]
      BY <2>2, <2>3 DEF IsInserted
    <3> QED
      BY <2>3, <3>1
  <2> QED
    BY <2>2, <2>4, <2>5
<1> HIDE DEF t, u, e
<1>5. /\ n \in Nat /\ n <= lb + la /\ lb <= n /\ n <= size - 1 /\ n \in Places(d)
      /\ n = Lesser(Len(e), size - 1)
  BY <1>1, <1>2, <1>4 DEF Lesser, Places
<1> HIDE DEF n, la, lb
<1>6. /\ Typed(q)
      /\ \A i \in lb..(n - 1) : q[d][i] = k[s][i + (-lb)]
      /\ \A i \in Places(d) : i \notin lb..(n - 1) => q[d][i] = k[d][i]
      /\ \A v \in StringVar : v /= d => q[v] = k[v]
  <2>1. \A i \in lb..(n - 1) : i \in Places(d) /\ i + (-lb) \in Places(s)
    BY <1>1, <1>2, <1>5 DEF Places
  <2>2. -lb \in Int /\ n - 1 \in Int /\ lb \in Int
    BY <1>1, <1>5
  <2> QED
    BY <2>1, <2>2, UpLoop
<1> HIDE DEF q
<1>7. /\ Typed(r) /\ r[d][n] = 0
      /\ \A j \in Places(d) : j /= n => r[d][j] = q[d][j]
      /\ \A v \in StringVar : v /= d => r[v] = q[v]
  BY <1>5, <1>6, AssignedFact
<1> HIDE DEF r
<1>8. ASSUME NEW i \in 0..(n - 1) PROVE r[d][i] = e[i + 1]
  <2>1. i \in Places(d) /\ i /= n /\ i + 1 \in 1..(lb + la)
    BY <1>1, <1>2, <1>5 DEF Places
  <2>2. r[d][i] = q[d][i]
    BY <1>7, <2>1
  <2>3. CASE i < lb
    <3>1. q[d][i] = k[d][i] /\ t[i + 1] = k[d][i] /\ e[i + 1] = t[i + 1]
      BY <1>1, <1>4, <1>6, <2>1, <2>3
    <3> QED
      BY <2>2, <3>1
  <2>4. CASE i >= lb
    <3>1. q[d][i] = k[s][i - lb] /\ e[i + 1] = u[(i - lb) + 1]
      BY <1>1, <1>4, <1>5, <1>6, <2>1, <2>4
    <3>2. u[(i - lb) + 1] = k[s][i - lb]
      BY <1>1, <1>2, <1>5, <2>4
    <3> QED
      BY <2>2, <3>1, <3>2
  <2> QED
    BY <1>1, <2>3, <2>4
<1>9. \A v \in StringVar : v /= d => r[v] = k[v]
  BY <1>6, <1>7
<1>10. Becomes(k, r, d, e)
  BY <1>4, <1>5, <1>7, <1>8, <1>9, BecomesText
<1> QED
  BY <1>3, <1>10 DEF e, t, u

LEMMA InsertExact ==
    ASSUME NEW k, Typed(k), AllEnded(k), NEW s \in StringVar, NEW d \in StringVar, s /= d,
           NEW from \in 0..Length(k[d])
    PROVE  Becomes(k, InsertString(k, s, from, d), d, Inserted(Text(k[d]), from, Text(k[s])))
<1> DEFINE t == Text(k[d])
           u == Text(k[s])
           e == Inserted(t, from, u)
           la == Length(k[s])
           lb == Length(k[d])
           size == StringSize[d]
           n == Lesser(lb + la, size - 1)
           m == Lesser(from + la, n)
           p == Assigned(k, d, n, 0)
           q == Loop(p, d, -la, d, Downwards(n - 1, from + la))
           r == Loop(q, s, -from, d, Upwards(from, m - 1))
<1>1. /\ size \in Nat \ {0} /\ lb \in Nat /\ lb < size /\ t \in Seq(Letter) /\ Len(t) = lb
      /\ from \in Nat /\ from <= lb
      /\ \A i \in 0..(lb - 1) : t[i + 1] = k[d][i]
  BY Before
<1>2. /\ StringSize[s] \in Nat /\ la \in Nat /\ la < StringSize[s] /\ u \in Seq(Letter) /\ Len(u) = la
      /\ \A i \in 0..(la - 1) : u[i + 1] = k[s][i]
  BY Before
<1>3. InsertString(k, s, from, d) = r
  BY DEF InsertString
<1>4. /\ e \in Seq(Letter) /\ Len(e) = lb + la
      /\ \A i \in 1..(lb + la) : e[i] = IF i <= from THEN t[i] ELSE IF i <= from + la THEN u[i - from] ELSE t[i - la]
  <2> HIDE DEF t, u, lb, la
  <2>1. from \in 0..Len(t)
    BY <1>1
  <2>2. e \in Seq(Letter) /\ IsInserted(e, t, from, u)
    BY <1>1, <1>2, <2>1, InsertedIs, Zenon
  <2> HIDE DEF e
  <2> QED
    BY <1>1, <1>2, <2>2 DEF IsInserted
<1> HIDE DEF t, u, e
<1>5. /\ n \in Nat /\ n <= lb + la /\ lb <= n /\ n <= size - 1 /\ n \in Places(d)
      /\ n = Lesser(Len(e), size - 1) /\ 0 \in Letter \union {0}
  BY <1>1, <1>2, <1>4 DEF Lesser, Places
<1> HIDE DEF n, la, lb
<1>6. m \in Nat /\ m <= n /\ m <= from + la /\ from <= m /\ (m = n \/ m = from + la)
  BY <1>1, <1>2, <1>5 DEF Lesser
<1> HIDE DEF m
<1>7. /\ Typed(p) /\ p[d][n] = 0
      /\ \A i \in Places(d) : i /= n => p[d][i] = k[d][i]
      /\ \A v \in StringVar : v /= d => p[v] = k[v]
  BY <1>5, AssignedFact
<1> HIDE DEF p
<1>8. /\ Typed(q)
      /\ \A i \in (from + la)..(n - 1) : q[d][i] = p[d][i + (-la)]
      /\ \A i \in Places(d) : i \notin (from + la)..(n - 1) => q[d][i] = p[d][i]
      /\ \A v \in StringVar : v /= d => q[v] = p[v]
  <2>1. \A i \in (from + la)..(n - 1) : i \in Places(d) /\ i + (-la) \in Places(d)
    BY <1>1, <1>2, <1>5 DEF Places
  <2>2. -la \in Int /\ n - 1 \in Int /\ from + la \in Int /\ -la <= 0
    BY <1>1, <1>2, <1>5
  <2> QED
    BY <1>7, <2>1, <2>2, DownLoop
<1> HIDE DEF q
<1>9. /\ Typed(r)
      /\ \A i \in from..(m - 1) : r[d][i] = q[s][i + (-from)]
      /\ \A i \in Places(d) : i \notin from..(m - 1) => r[d][i] = q[d][i]
      /\ \A v \in StringVar : v /= d => r[v] = q[v]
  <2>1. ASSUME NEW i \in from..(m - 1) PROVE i \in Places(d) /\ i + (-from) \in Places(s)
    <3>1. i \in Int /\ i >= from /\ i < m
      BY <1>1, <1>6
    <3>2. i < from + la /\ i < size
      BY <1>1, <1>2, <1>5, <1>6, <3>1
    <3> QED
      BY <1>1, <1>2, <3>1, <3>2 DEF Places
  <2>2. -from \in Int /\ m - 1 \in Int /\ from \in Int
    BY <1>1, <1>6
  <2> QED
    BY <1>8, <2>1, <2>2, UpLoop
<1> HIDE DEF r
<1>10. r[d][n] = 0
  BY <1>1, <1>5, <1>6, <1>7, <1>8, <1>9
<1>11. ASSUME NEW i \in 0..(n - 1) PROVE r[d][i] = e[i + 1]
  <2>1. i \in Places(d) /\ i /= n /\ i + 1 \in 1..(lb + la) /\ i \in Int /\ i < n
    BY <1>1, <1>2, <1>5 DEF Places
  <2>2. CASE i < from
    <3>1. i \notin from..(m - 1) /\ i \notin (from + la)..(n - 1)
      BY <1>1, <1>2, <2>1, <2>2
    <3>2. r[d][i] = k[d][i]
      BY <1>7, <1>8, <1>9, <2>1, <3>1
    <3>3. e[i + 1] = t[i + 1] /\ t[i + 1] = k[d][i]
      BY <1>1, <1>4, <2>1, <2>2
    <3> QED
      BY <3>2, <3>3
  <2>3. CASE i >= from /\ i < from + la
    <3>1. i \in from..(m - 1)
      BY <1>1, <1>2, <1>6, <2>1, <2>3
    <3>2. r[d][i] = k[s][i - from]
      <4>1. r[d][i] = q[s][i + (-from)]
        BY <1>9, <3>1
      <4> QED
        BY <1>1, <1>7, <1>8, <2>1, <4>1
    <3>3. e[i + 1] = u[(i - from) + 1]
      <4>1. /\ i + 1 \in 1..(lb + la) /\ ~(i + 1 <= from) /\ i + 1 <= from + la
            /\ (i + 1) - from = (i - from) + 1
        BY <1>1, <1>2, <2>1, <2>3
      <4> QED
        BY <1>4, <4>1
    <3>4. u[(i - from) + 1] = k[s][i - from]
      <4>1. i - from \in 0..(la - 1)
        BY <1>1, <1>2, <2>1, <2>3
      <4> QED
        BY <1>2, <4>1
    <3> QED
      BY <3>2, <3>3, <3>4
  <2>4. CASE i >= from + la
    <3>1. i \notin from..(m - 1) /\ i \in (from + la)..(n - 1)
      BY <1>1, <1>2, <1>5, <1>6, <2>1, <2>4
    <3>2. r[d][i] = p[d][i - la]
      BY <1>2, <1>8, <1>9, <2>1, <3>1
    <3>3. i - la \in 0..(lb - 1) /\ i - la \in Places(d) /\ i - la /= n
      <4>1. i - la >= 0 /\ i - la < lb /\ i - la < n /\ lb < size
        BY <1>1, <1>2, <1>5, <2>1, <2>4
      <4> QED
        BY <1>1, <1>2, <1>5, <2>1, <4>1 DEF Places
    <3>4. p[d][i - la] = k[d][i - la] /\ t[(i - la) + 1] = k[d][i - la]
      BY <1>1, <1>7, <3>3
    <3>5. e[i + 1] = t[(i - la) + 1]
      BY <1>1, <1>2, <1>4, <2>1, <2>4
    <3> QED
      BY <3>2, <3>4, <3>5
  <2> QED
    BY <1>1, <1>2, <2>1, <2>2, <2>3, <2>4
<1>12. \A v \in StringVar : v /= d => r[v] = k[v]
  BY <1>7, <1>8, <1>9
<1>13. Becomes(k, r, d, e)
  BY <1>4, <1>5, <1>9, <1>10, <1>11, <1>12, BecomesText
<1> QED
  BY <1>3, <1>13 DEF e, t, u

LEMMA DeleteExact ==
    ASSUME NEW k, Typed(k), AllEnded(k), NEW d \in StringVar, NEW from \in 0..Length(k[d]), NEW n \in Nat
    PROVE  Becomes(k, DeleteString(k, d, from, n), d, Deleted(Text(k[d]), from, n))
<1> DEFINE t == Text(k[d])
           e == Deleted(t, from, n)
           lb == Length(k[d])
           size == StringSize[d]
           n1 == Lesser(n, lb - from)
           r == Loop(k, d, n1, d, Upwards(from, lb - n1))
           m == lb - n1
<1>1. /\ size \in Nat \ {0} /\ lb \in Nat /\ lb < size /\ t \in Seq(Letter) /\ Len(t) = lb
      /\ from \in Nat /\ from <= lb /\ k[d][lb] = 0
      /\ \A i \in 0..(lb - 1) : t[i + 1] = k[d][i]
  BY Before
<1>2. DeleteString(k, d, from, n) = r
  BY DEF DeleteString
<1>3. n1 \in Nat /\ n1 <= n /\ n1 <= lb - from /\ (n1 = n \/ n1 = lb - from)
  BY <1>1 DEF Lesser
<1>4. e \in Seq(Letter) /\ Len(e) = m /\ \A i \in 1..m : e[i] = IF i <= from THEN t[i] ELSE t[i + n]
  <2> HIDE DEF t, lb, n1
  <2>1. from \in 0..Len(t)
    BY <1>1
  <2>2. e \in Seq(Letter) /\ IsDeleted(e, t, from, n)
    BY <1>1, <2>1, DeletedIs, Zenon
  <2> HIDE DEF e
  <2>3. m = IF from + n >= Len(t) THEN from ELSE Len(t) - n
    <3>1. n1 = IF n > lb - from THEN lb - from ELSE n
      BY DEF n1, Lesser
    <3> QED
      BY <1>1, <3>1
  <2> HIDE DEF m
  <2> QED
    BY <2>2, <2>3 DEF IsDeleted
<1> HIDE DEF t, e
<1>5. m \in Places(d) /\ m \in Nat /\ m <= lb /\ from <= m /\ m = Lesser(Len(e), size - 1)
  BY <1>1, <1>3, <1>4 DEF Lesser, Places
<1> HIDE DEF n1, lb
<1>6. /\ Typed(r)
      /\ \A i \in from..m : r[d][i] = k[d][i + n1]
      /\ \A i \in Places(d) : i \notin from..m => r[d][i] = k[d][i]
      /\ \A v \in StringVar : v /= d => r[v] = k[v]
  <2>1. \A i \in from..m : i \in Places(d) /\ i + n1 \in Places(d)
    BY <1>1, <1>3, <1>5 DEF Places
  <2>2. n1 \in Int /\ m \in Int /\ from \in Int /\ n1 >= 0
    BY <1>1, <1>3, <1>5
  <2> QED
    BY <2>1, <2>2, UpLoop
<1> HIDE DEF r
<1>7. r[d][m] = 0
  <2>1. m \in from..m /\ m + n1 = lb
    BY <1>1, <1>3, <1>5
  <2> QED
    BY <1>1, <1>6, <2>1
<1>8. ASSUME NEW i \in 0..(m - 1) PROVE r[d][i] = e[i + 1]
  <2>1. i \in Places(d) /\ i + 1 \in 1..m /\ i \in Int /\ i < m /\ i < lb
    BY <1>1, <1>5 DEF Places
  <2>2. CASE i < from
    BY <1>1, <1>4, <1>6, <2>1, <2>2
  <2>3. CASE i >= from
    <3>1. n1 = n
      BY <1>1, <1>3, <2>1, <2>3
    <3>2. r[d][i] = k[d][i + n] /\ i + n \in 0..(lb - 1)
      <4>1. i \in from..m /\ i + n \in 0..(lb - 1)
        BY <1>1, <1>3, <1>5, <2>1, <2>3, <3>1
      <4> QED
        BY <1>6, <3>1, <4>1
    <3>3. t[(i + n) + 1] = k[d][i + n]
      BY <1>1, <3>2
    <3>4. e[i + 1] = t[(i + n) + 1]
      <4>1. ~(i + 1 <= from) /\ (i + 1) + n = (i + n) + 1
        BY <1>1, <2>1, <2>3
      <4> QED
        BY <1>4, <2>1, <4>1
    <3> QED
      BY <3>2, <3>3, <3>4
  <2> QED
    BY <1>1, <2>1, <2>2, <2>3
<1> HIDE DEF m
<1>9. Becomes(k, r, d, e)
  BY <1>4, <1>5, <1>6, <1>7, <1>8, BecomesText
<1> QED
  BY <1>2, <1>9 DEF e, t

LEMMA ReplaceExact ==
    ASSUME NEW k, Typed(k), AllEnded(k), NEW s \in StringVar, NEW d \in StringVar, s /= d,
           NEW from \in 0..Length(k[d])
    PROVE  LET t == Text(k[d]) u == Text(k[s])
           IN Becomes(k, ReplaceString(k, s, from, d), d, Inserted(Deleted(t, from, Len(u)), from, u))
<1> DEFINE t == Text(k[d])
           u == Text(k[s])
           c == Deleted(t, from, Len(u))
           e == Inserted(c, from, u)
           la == Length(k[s])
           lb == Length(k[d])
           size == StringSize[d]
           n == Lesser(la, size - 1 - from)
           q == Loop(k, s, -from, d, Upwards(from, from + n - 1))
           r == IF from + n > lb THEN Assigned(q, d, from + n, 0) ELSE q
           m == IF from + n > lb THEN from + n ELSE lb
<1>1. /\ size \in Nat \ {0} /\ lb \in Nat /\ lb < size /\ t \in Seq(Letter) /\ Len(t) = lb
      /\ from \in Nat /\ from <= lb /\ k[d][lb] = 0
      /\ \A i \in 0..(lb - 1) : t[i + 1] = k[d][i]
  BY Before
<1>2. /\ StringSize[s] \in Nat /\ la \in Nat /\ la < StringSize[s] /\ u \in Seq(Letter) /\ Len(u) = la
      /\ \A i \in 0..(la - 1) : u[i + 1] = k[s][i]
  BY Before
<1>3. ReplaceString(k, s, from, d) = r
  BY DEF ReplaceString
<1> DEFINE l == IF from + la >= lb THEN from ELSE lb - la
<1>4. c \in Seq(Letter) /\ Len(c) = l /\ \A i \in 1..l : c[i] = IF i <= from THEN t[i] ELSE t[i + la]
  <2> HIDE DEF t, u, lb, la
  <2>1. from \in 0..Len(t) /\ Len(u) \in Nat
    BY <1>1, <1>2
  <2>2. c \in Seq(Letter) /\ IsDeleted(c, t, from, Len(u))
    BY <1>1, <2>1, DeletedIs, Zenon
  <2> HIDE DEF c, l
  <2>3. l = IF from + Len(u) >= Len(t) THEN from ELSE Len(t) - Len(u)
    BY <1>1, <1>2 DEF l
  <2> QED
    BY <1>2, <2>2, <2>3 DEF IsDeleted
<1>5. l \in Nat /\ from <= l /\ lb <= l + la /\ (l + la = from + la \/ l + la = lb)
  BY <1>1, <1>2
<1> HIDE DEF c, l
<1>6. /\ e \in Seq(Letter) /\ Len(e) = l + la
      /\ \A i \in 1..(l + la) : e[i] = IF i <= from THEN c[i] ELSE IF i <= from + la THEN u[i - from] ELSE c[i - la]
  <2> HIDE DEF t, u, lb, la
  <2>1. from \in 0..Len(c)
    BY <1>1, <1>4, <1>5
  <2>2. e \in Seq(Letter) /\ IsInserted(e, c, from, u)
    BY <1>2, <1>4, <2>1, InsertedIs, Zenon
  <2> HIDE DEF e
  <2> QED
    BY <1>2, <1>4, <2>2 DEF IsInserted
<1> HIDE DEF e, la, lb
<1>7. ASSUME NEW i \in 1..(l + la)
      PROVE  e[i] = IF i <= from THEN t[i] ELSE IF i <= from + la THEN u[i - from] ELSE t[i]
  <2>1. CASE i <= from
    <3>1. i \in 1..l
      BY <1>1, <1>5, <2>1
    <3> QED
      BY <1>4, <1>6, <2>1, <3>1
  <2>2. CASE i > from /\ i <= from + la
    BY <1>6, <2>2
  <2>3. CASE i > from + la
    <3>1. i - la \in 1..l /\ i - la > from /\ (i - la) + la = i /\ i > from
      BY <1>1, <1>2, <1>5, <2>3
    <3>2. e[i] = c[i - la]
      BY <1>1, <1>2, <1>6, <2>3, <3>1
    <3>3. c[i - la] = t[(i - la) + la]
      BY <1>1, <1>2, <1>4, <1>5, <3>1
    <3>4. e[i] = t[i]
      BY <3>1, <3>2, <3>3
    <3>5. ~(i <= from) /\ ~(i <= from + la)
      BY <1>1, <1>2, <1>5, <2>3, <3>1
    <3> QED
      BY <3>4, <3>5
  <2> QED
    BY <1>1, <1>2, <2>1, <2>2, <2>3
<1>8. n \in Nat /\ n <= la /\ from + n <= size - 1 /\ (n = la \/ from + n = size - 1)
  <2>1. n = IF la > size - 1 - from THEN size - 1 - from ELSE la
    BY DEF Lesser
  <2> QED
    BY <1>1, <1>2, <2>1
<1> HIDE DEF n, t, u
<1>9. /\ m \in Nat /\ m \in Places(d) /\ from + n <= m /\ lb <= m /\ (m = lb \/ m = from + n) /\ m <= l + la
      /\ m = Lesser(Len(e), size - 1)
  <2>1. Len(e) = l + la /\ l + la \in Nat /\ from + la <= l + la /\ lb <= l + la
        /\ (l + la = from + la \/ l + la = lb)
    BY <1>1, <1>2, <1>5, <1>6
  <2>2. m \in Nat /\ from + n <= m /\ lb <= m /\ (m = lb \/ m = from + n) /\ m <= size - 1
    BY <1>1, <1>8
  <2> HIDE DEF m
  <2>3. m <= l + la /\ (m = l + la \/ m = size - 1)
    BY <1>1, <1>2, <1>8, <2>1, <2>2
  <2>4. m = Lesser(Len(e), size - 1)
    BY <1>1, <2>1, <2>2, <2>3 DEF Lesser
  <2>5. m \in Places(d)
    BY <1>1, <2>2 DEF Places
  <2> QED
    BY <2>2, <2>3, <2>4, <2>5
<1>10. /\ Typed(q)
       /\ \A i \in from..(from + n - 1) : q[d][i] = k[s][i + (-from)]
       /\ \A i \in Places(d) : i \notin from..(from + n - 1) => q[d][i] = k[d][i]
       /\ \A v \in StringVar : v /= d => q[v] = k[v]
  <2>1. ASSUME NEW i \in from..(from + n - 1) PROVE i \in Places(d) /\ i + (-from) \in Places(s)
    <3>1. i \in Int /\ i >= from /\ i < from + n
      BY <1>1, <1>8
    <3> QED
      BY <1>1, <1>2, <1>8, <3>1 DEF Places
  <2>2. -from \in Int /\ from + n - 1 \in Int /\ from \in Int
    BY <1>1, <1>8
  <2>3. q = Loop(k, s, -from, d, Upwards(from, from + n - 1))
    OBVIOUS
  <2> HIDE DEF q
  <2> QED
    BY <2>1, <2>2, <2>3, UpLoop
<1> HIDE DEF q
<1>11. /\ Typed(r) /\ r[d][m] = 0
       /\ \A i \in Places(d) : i < m => r[d][i] = q[d][i]
       /\ \A v \in StringVar : v /= d => r[v] = q[v]
  <2>1. CASE from + n > lb
    <3>1. r = Assigned(q, d, m, 0) /\ 0 \in Letter \union {0}
      BY <2>1
    <3>2. /\ Typed(r) /\ r[d][m] = 0
          /\ \A i \in Places(d) : i /= m => r[d][i] = q[d][i]
          /\ \A v \in StringVar : v /= d => r[v] = q[v]
      <4> HIDE DEF r, m
      <4> QED
        BY <1>9, <1>10, <3>1, AssignedFact
    <3> HIDE DEF r, m
    <3>3. \A i \in Places(d) : i < m => i /= m
      BY <1>9
    <3> QED
      BY <3>2, <3>3
  <2>2. CASE ~(from + n > lb)
    <3>1. r = q /\ m = lb /\ lb \notin from..(from + n - 1) /\ lb \in Places(d)
      BY <1>1, <1>8, <1>9, <2>2
    <3> HIDE DEF r, m
    <3>2. q[d][lb] = 0
      BY <1>1, <1>10, <3>1
    <3> QED
      BY <1>10, <3>1, <3>2
  <2> QED
    BY <2>1, <2>2
<1> HIDE DEF r, m
<1>12. ASSUME NEW i \in 0..(m - 1) PROVE r[d][i] = e[i + 1]
  <2>1. i \in Places(d) /\ i + 1 \in 1..(l + la) /\ i \in Int /\ i < m
    BY <1>1, <1>2, <1>5, <1>9 DEF Places
  <2>2. r[d][i] = q[d][i]
    BY <1>11, <2>1
  <2>3. CASE i < from
    <3>1. i \notin from..(from + n - 1) /\ i \in 0..(lb - 1)
      BY <1>1, <2>1, <2>3
    <3>2. q[d][i] = k[d][i] /\ t[i + 1] = k[d][i]
      BY <1>1, <1>10, <2>1, <3>1
    <3>3. e[i + 1] = t[i + 1]
      BY <1>1, <1>7, <2>1, <2>3
    <3> QED
      BY <2>2, <3>2, <3>3
  <2>4. CASE i >= from /\ i < from + n
    <3>1. i \in from..(from + n - 1) /\ i - from \in 0..(la - 1)
      BY <1>1, <1>2, <1>8, <2>1, <2>4
    <3>2. q[d][i] = k[s][i - from] /\ u[(i - from) + 1] = k[s][i - from]
      BY <1>1, <1>2, <1>10, <2>1, <3>1
    <3>3. e[i + 1] = u[(i - from) + 1]
      <4>1. e[i + 1] = IF i + 1 <= from THEN t[i + 1] ELSE IF i + 1 <= from + la THEN u[(i + 1) - from] ELSE t[i + 1]
        BY <1>7, <2>1
      <4>2. ~(i + 1 <= from) /\ i + 1 <= from + la /\ (i + 1) - from = (i - from) + 1
        BY <1>1, <1>2, <1>8, <2>1, <2>4
      <4> QED
        BY <4>1, <4>2
    <3> QED
      BY <2>2, <3>2, <3>3
  <2>5. CASE i >= from + n
    <3>1. m = lb /\ i \in 0..(lb - 1) /\ i \notin from..(from + n - 1)
      BY <1>1, <1>8, <1>9, <2>1, <2>5
    <3>2. n = la
      BY <1>1, <1>8, <1>9, <2>1, <2>5, <3>1
    <3>3. q[d][i] = k[d][i] /\ t[i + 1] = k[d][i]
      BY <1>1, <1>10, <2>1, <3>1
    <3>4. e[i + 1] = t[i + 1]
      BY <1>1, <1>2, <1>7, <2>1, <2>5, <3>2
    <3> QED
      BY <2>2, <3>3, <3>4
  <2> QED
    BY <1>1, <1>8, <2>1, <2>3, <2>4, <2>5
<1>13. \A v \in StringVar : v /= d => r[v] = k[v]
  BY <1>10, <1>11
<1>14. Becomes(k, r, d, e)
  BY <1>6, <1>9, <1>11, <1>12, <1>13, BecomesText
<1> QED
  BY <1>3, <1>14 DEF e, c, t, u

LEMMA ExtractExact ==
    ASSUME NEW k, Typed(k), AllEnded(k), NEW s \in StringVar, NEW d \in StringVar, s /= d,
           NEW from \in 0..Length(k[s]), NEW n \in Nat
    PROVE  LET u == Text(k[s])
           IN Becomes(k, ExtractString(k, s, from, n, d), d, SubSeq(u, from + 1, Lesser(from + n, Len(u))))
<1> DEFINE u == Text(k[s])
           high == Lesser(from + n, Len(u))
           e == SubSeq(u, from + 1, high)
           la == Length(k[s])
           size == StringSize[d]
           n1 == Lesser(n, Lesser(la - from, size - 1))
           q == Loop(k, s, from, d, Upwards(0, n1 - 1))
           r == Assigned(q, d, n1, 0)
<1>1. size \in Nat \ {0}
  BY Before
<1>2. /\ StringSize[s] \in Nat /\ la \in Nat /\ la < StringSize[s] /\ u \in Seq(Letter) /\ Len(u) = la
      /\ from \in Nat /\ from <= la
      /\ \A i \in 0..(la - 1) : u[i + 1] = k[s][i]
  BY Before
<1>3. ExtractString(k, s, from, n, d) = r
  BY DEF ExtractString
<1>4. high \in Nat /\ high <= la /\ high >= from /\ high <= from + n /\ (high = la \/ high = from + n)
  BY <1>2 DEF Lesser
<1>5. e \in Seq(Letter) /\ Len(e) = high - from /\ \A i \in 1..(high - from) : e[i] = u[from + i]
  <2> HIDE DEF u, high, la
  <2>1. from + 1 \in Nat \ {0} /\ high \in Int /\ high <= Len(u)
    BY <1>2, <1>4
  <2>2. /\ e \in Seq(Letter) /\ Len(e) = IF from + 1 <= high THEN high - (from + 1) + 1 ELSE 0
        /\ \A i \in 1..(high - (from + 1) + 1) : e[i] = u[from + 1 + i - 1]
    BY <1>2, <2>1, SubIs
  <2> HIDE DEF e
  <2>3. Len(e) = high - from
    BY <1>2, <1>4, <2>2
  <2>4. ASSUME NEW i \in 1..(high - from) PROVE e[i] = u[from + i]
    <3>1. i \in 1..(high - (from + 1) + 1) /\ from + 1 + i - 1 = from + i
      BY <1>2, <1>4
    <3> QED
      BY <2>2, <3>1
  <2> QED
    BY <2>2, <2>3, <2>4
<1> HIDE DEF e
<1>6. /\ n1 \in Nat /\ n1 <= high - from /\ n1 <= size - 1 /\ n1 = Lesser(Len(e), size - 1) /\ n1 \in Places(d)
      /\ 0 \in Letter \union {0}
  BY <1>1, <1>2, <1>5 DEF Lesser, Places
<1> HIDE DEF n1, u, la, high
<1>12. /\ n1 \in Nat /\ from \in Nat /\ high \in Nat /\ la \in Nat /\ size \in Nat /\ StringSize[s] \in Nat
       /\ n1 <= high - from /\ high <= la /\ la < StringSize[s] /\ n1 < size
  BY <1>1, <1>2, <1>4, <1>6
<1>7. /\ Typed(q)
      /\ \A i \in 0..(n1 - 1) : q[d][i] = k[s][i + from]
      /\ \A i \in Places(d) : i \notin 0..(n1 - 1) => q[d][i] = k[d][i]
      /\ \A v \in StringVar : v /= d => q[v] = k[v]
  <2>1. ASSUME NEW i \in 0..(n1 - 1) PROVE i \in Places(d) /\ i + from \in Places(s)
    BY <1>12 DEF Places
  <2>2. from \in Int /\ n1 - 1 \in Int /\ 0 \in Int
    BY <1>12
  <2>3. q = Loop(k, s, from, d, Upwards(0, n1 - 1))
    OBVIOUS
  <2> HIDE DEF q
  <2> QED
    BY <2>1, <2>2, <2>3, UpLoop
<1> HIDE DEF q
<1>8. /\ Typed(r) /\ r[d][n1] = 0
      /\ \A j \in Places(d) : j /= n1 => r[d][j] = q[d][j]
      /\ \A v \in StringVar : v /= d => r[v] = q[v]
  <2>1. r = Assigned(q, d, n1, 0) /\ n1 \in Places(d) /\ 0 \in Letter \union {0} /\ Typed(q)
    BY <1>6, <1>7
  <2> HIDE DEF r
  <2> QED
    BY <2>1, AssignedFact
<1> HIDE DEF r
<1>9. ASSUME NEW i \in 0..(n1 - 1) PROVE r[d][i] = e[i + 1]
  <2>1. i \in Places(d) /\ i /= n1 /\ i + 1 \in 1..(high - from) /\ i + from \in 0..(la - 1)
    BY <1>12 DEF Places
  <2>2. r[d][i] = k[s][i + from]
    BY <1>7, <1>8, <2>1
  <2>3. u[(i + from) + 1] = k[s][i + from]
    BY <1>2, <2>1
  <2>4. e[i + 1] = u[from + (i + 1)]
    BY <1>5, <2>1
  <2>5. from + (i + 1) = (i + from) + 1
    BY <1>2
  <2> QED
    BY <2>2, <2>3, <2>4, <2>5
<1>10. \A v \in StringVar : v /= d => r[v] = k[v]
  BY <1>7, <1>8
<1>11. Becomes(k, r, d, e)
  BY <1>5, <1>6, <1>8, <1>9, <1>10, BecomesText
<1> QED
  BY <1>3, <1>11 DEF e, u, high

LEMMA CapExact ==
    ASSUME NEW k, Typed(k), AllEnded(k), NEW d \in StringVar
    PROVE  LET t == Text(k[d]) IN Becomes(k, CapString(k, d), d, [i \in DOMAIN t |-> Capital[t[i]]])
<1> DEFINE t == Text(k[d])
           e == [i \in DOMAIN t |-> Capital[t[i]]]
           lb == Length(k[d])
           size == StringSize[d]
           a == [i \in DOMAIN k[d] |-> IF i < lb THEN Capital[k[d][i]] ELSE k[d][i]]
           r == [k EXCEPT ![d] = a]
<1>1. /\ size \in Nat \ {0} /\ lb \in Nat /\ lb < size /\ t \in Seq(Letter) /\ Len(t) = lb
      /\ k[d][lb] = 0 /\ \A i \in 0..(lb - 1) : t[i + 1] = k[d][i]
  BY Before
<1>2. CapString(k, d) = r
  BY DEF CapString
<1>3. /\ DOMAIN k[d] = Places(d) /\ \A i \in Places(d) : k[d][i] \in Letter \union {0}
      /\ k = [v \in StringVar |-> k[v]]
  BY TypedFact DEF Typed
<1>4. ASSUME NEW i \in 0..(lb - 1) PROVE i \in Places(d) /\ k[d][i] \in Letter
  <2>1. i + 1 \in 1..Len(t)
    BY <1>1
  <2>2. t[i + 1] \in Letter
    BY <1>1, <2>1
  <2> QED
    BY <1>1, <2>2 DEF Places
<1> HIDE DEF t, lb
<1>5. e \in Seq(Letter) /\ Len(e) = lb /\ \A i \in 1..lb : e[i] = Capital[t[i]]
  <2>1. DOMAIN t = 1..lb /\ \A i \in 1..lb : t[i] \in Letter
    BY <1>1
  <2>2. \A i \in 1..lb : Capital[t[i]] \in Letter
    BY <2>1, StringsAssumption
  <2>3. e = [i \in 1..lb |-> Capital[t[i]]]
    BY <2>1
  <2> HIDE DEF e
  <2>4. e \in [1..lb -> Letter]
    BY <2>2, <2>3
  <2> QED
    BY <1>1, <2>3, <2>4
<1> HIDE DEF e
<1>6. a \in Contents(d) /\ \A i \in Places(d) : a[i] = IF i < lb THEN Capital[k[d][i]] ELSE k[d][i]
  <2>1. ASSUME NEW i \in Places(d) PROVE (IF i < lb THEN Capital[k[d][i]] ELSE k[d][i]) \in Letter \union {0}
    <3>1. CASE i < lb
      <4>1. i \in 0..(lb - 1)
        BY <1>1, <3>1 DEF Places
      <4>2. k[d][i] \in Letter
        BY <1>4, <4>1
      <4> QED
        BY <3>1, <4>2, StringsAssumption
    <3>2. CASE ~(i < lb)
      BY <1>3, <3>2
    <3> QED
      BY <3>1, <3>2
  <2>2. \A i \in Places(d) : a[i] = IF i < lb THEN Capital[k[d][i]] ELSE k[d][i]
    BY <1>3
  <2>3. a = [i \in Places(d) |-> a[i]]
    BY <1>3
  <2> HIDE DEF a
  <2>4. a \in [Places(d) -> Letter \union {0}]
    BY <2>1, <2>2, <2>3
  <2> QED
    BY <2>2, <2>4 DEF Contents, Places
<1> HIDE DEF a
<1>7. r[d] = a /\ (\A v \in StringVar : v /= d => r[v] = k[v]) /\ r = [v \in StringVar |-> r[v]]
  BY <1>3
<1> HIDE DEF r
<1>8. Typed(r)
  BY <1>6, <1>7 DEF Typed
<1>9. lb \in Places(d) /\ r[d][lb] = 0 /\ lb = Lesser(Len(e), size - 1)
  <2>1. lb \in Places(d)
    BY <1>1 DEF Places
  <2>2. r[d][lb] = 0
    BY <1>1, <1>6, <1>7, <2>1
  <2> QED
    BY <1>1, <1>5, <2>1, <2>2 DEF Lesser
<1>10. ASSUME NEW i \in 0..(lb - 1) PROVE r[d][i] = e[i + 1]
  <2>1. i \in Places(d) /\ i < lb /\ i + 1 \in 1..lb
    BY <1>1, <1>4
  <2>2. r[d][i] = Capital[k[d][i]]
    BY <1>6, <1>7, <2>1
  <2>3. e[i + 1] = Capital[k[d][i]]
    BY <1>1, <1>5, <2>1
  <2> QED
    BY <2>2, <2>3
<1>11. Becomes(k, r, d, e)
  BY <1>5, <1>7, <1>8, <1>9, <1>10, BecomesText
<1> QED
  BY <1>2, <1>11 DEF e, t

-----------------------------------------------------------------------------
(* The search of Pos, for a pattern p in a string s from a place on.       *)
Agrees(p, s, is, ip) ==
    /\ ip \in DOMAIN p
    /\ p[ip] = 0 \/ s[is + ip] /= p[ip]
    /\ \A j \in 0..(ip - 1) : p[j] /= 0 /\ s[is + j] = p[j]

(* At a place within s or at its end, the characters of the pattern agree  *)
(* up to one place, which is found before s is left.                       *)
LEMMA AgreeingFact ==
    ASSUME NEW k, Typed(k), AllEnded(k), NEW x \in StringVar, NEW y \in StringVar,
           NEW is \in 0..Length(k[y])
    PROVE  LET ip == Agreeing(k[x], k[y], is)
           IN /\ ip \in 0..Length(k[x]) /\ is + ip <= Length(k[y])
              /\ k[x][ip] = 0 \/ k[y][is + ip] /= k[x][ip]
              /\ \A j \in 0..(ip - 1) : k[x][j] /= 0 /\ k[y][is + j] = k[x][j]
<1> DEFINE p == k[x]
           s == k[y]
           lp == Length(p)
           ls == Length(s)
           S == {i \in 0..lp : p[i] = 0 \/ s[is + i] /= p[i]}
<1>1. /\ lp \in Places(x) /\ p[lp] = 0 /\ \A j \in 0..(lp - 1) : j \in Places(x) /\ p[j] /= 0
  BY LengthFact DEF AllEnded
<1>2. /\ ls \in Places(y) /\ s[ls] = 0 /\ \A j \in 0..(ls - 1) : s[j] /= 0
  BY LengthFact DEF AllEnded
<1>3. DOMAIN p = Places(x) /\ lp \in Nat /\ ls \in Nat /\ is \in Nat /\ is <= ls
  BY <1>1, <1>2, TypedFact DEF Places
<1> HIDE DEF lp, ls, p, s
<1>4. S \in SUBSET Nat /\ lp \in S
  BY <1>1, <1>3
<1>5. PICK m \in S : \A n \in S : m <= n
  BY <1>4, LeastElement
<1>6. m \in Nat /\ m <= lp /\ m \in DOMAIN p
  BY <1>1, <1>3, <1>5 DEF Places
<1>7. ASSUME NEW j \in 0..(m - 1) PROVE p[j] /= 0 /\ s[is + j] = p[j]
  <2>1. j \in 0..lp /\ j < m
    BY <1>3, <1>6
  <2>2. j \notin S
    <3> HIDE DEF S
    <3>1. j \in S => m <= j
      BY <1>5
    <3> QED
      BY <1>6, <2>1, <3>1
  <2> QED
    BY <2>1, <2>2
<1>8. Agrees(p, s, is, m)
  BY <1>5, <1>6, <1>7 DEF Agrees
<1>9. PICK ip : ip = Agreeing(p, s, is)
  OBVIOUS
<1>10. Agrees(p, s, is, ip)
  <2>1. ip = CHOOSE i \in DOMAIN p : /\ p[i] = 0 \/ s[is + i] /= p[i]
                                     /\ \A j \in 0..(i - 1) : p[j] /= 0 /\ s[is + j] = p[j]
    BY <1>9 DEF Agreeing
  <2> QED
    BY <1>8, <2>1, Zenon DEF Agrees
<1>11. ip \in Nat /\ ip <= lp
  <2>1. ip \in Nat
    BY <1>3, <1>10, TypedFact DEF Agrees, Places
  <2>2. SUFFICES ASSUME lp < ip PROVE FALSE
    BY <1>3, <2>1
  <2>3. lp \in 0..(ip - 1)
    BY <1>3, <2>1, <2>2
  <2> QED
    BY <1>1, <1>10, <2>3 DEF Agrees
<1>12. is + ip <= ls
  <2>1. SUFFICES ASSUME ls < is + ip PROVE FALSE
    BY <1>3, <1>11
  <2>2. ls - is \in 0..(ip - 1) /\ is + (ls - is) = ls
    BY <1>3, <1>11, <2>1
  <2>3. p[ls - is] /= 0 /\ s[ls] = p[ls - is]
    BY <1>10, <2>2 DEF Agrees
  <2> QED
    BY <1>2, <2>3
<1> QED
  BY <1>3, <1>9, <1>10, <1>11, <1>12 DEF Agrees, p, s, lp, ls

-----------------------------------------------------------------------------
(* The text u is the part of t behind the first n characters.              *)
PartIs(t, n, l, u) == SubSeq(t, n + 1, n + l) = u

LEMMA PartFact ==
    ASSUME NEW T, NEW t \in Seq(T), NEW u \in Seq(T), NEW n \in Nat, n + Len(u) <= Len(t)
    PROVE  PartIs(t, n, Len(u), u) <=> \A i \in 1..Len(u) : t[n + i] = u[i]
<1> DEFINE l == Len(u)
           w == SubSeq(t, n + 1, n + l)
<1>1. l \in Nat /\ n + 1 \in Nat \ {0} /\ n + l \in Int /\ n + l <= Len(t)
  OBVIOUS
<1>2. /\ w \in Seq(T) /\ Len(w) = IF n + 1 <= n + l THEN (n + l) - (n + 1) + 1 ELSE 0
      /\ \A i \in 1..((n + l) - (n + 1) + 1) : w[i] = t[(n + 1) + i - 1]
  BY <1>1, SubIs
<1> HIDE DEF w
<1>3. Len(w) = l /\ (n + l) - (n + 1) + 1 = l
  BY <1>1, <1>2
<1>4. ASSUME NEW i \in 1..l PROVE w[i] = t[n + i]
  <2>1. (n + 1) + i - 1 = n + i /\ i \in 1..((n + l) - (n + 1) + 1)
    BY <1>1
  <2> QED
    BY <1>2, <2>1
<1>5. w = u <=> \A i \in 1..l : w[i] = u[i]
  <2>1. w = [i \in 1..l |-> w[i]] /\ u = [i \in 1..l |-> u[i]]
    BY <1>2, <1>3
  <2> QED
    BY <2>1
<1> QED
  BY <1>4, <1>5 DEF w, PartIs

(* The pattern is found where it occurs in the string.                     *)
LEMMA FoundIsOccurrence ==
    ASSUME NEW k, Typed(k), AllEnded(k), NEW x \in StringVar, NEW y \in StringVar,
           NEW from \in 0..Length(k[y]), NEW is \in from..Length(k[y])
    PROVE  k[x][Agreeing(k[x], k[y], is)] = 0 <=> is \in Occurrences(Text(k[x]), Text(k[y]), from)
<1> DEFINE p == k[x]
           s == k[y]
           u == Text(p)
           t == Text(s)
           lp == Length(p)
           ls == Length(s)
<1>1. PICK ip : ip = Agreeing(p, s, is)
  OBVIOUS
<1>2. /\ lp \in Nat /\ u \in Seq(Letter) /\ Len(u) = lp
      /\ \A j \in 0..(lp - 1) : u[j + 1] = p[j]
  BY Before
<1>3. /\ ls \in Nat /\ t \in Seq(Letter) /\ Len(t) = ls
      /\ \A j \in 0..(ls - 1) : t[j + 1] = s[j]
  BY Before
<1>4. is \in 0..ls /\ is \in Nat
  BY <1>3
<1>5. /\ ip \in 0..lp /\ is + ip <= ls
      /\ p[ip] = 0 \/ s[is + ip] /= p[ip]
      /\ \A j \in 0..(ip - 1) : p[j] /= 0 /\ s[is + j] = p[j]
  BY <1>1, <1>4, AgreeingFact
<1>6. p[lp] = 0 /\ \A j \in 0..(lp - 1) : p[j] /= 0
  BY LengthFact DEF AllEnded
<1> HIDE DEF p, s, u, t, lp, ls
<1>7. p[ip] = 0 <=> ip = lp
  BY <1>2, <1>5, <1>6
<1>8. Occurrences(u, t, from) = {i \in from..(ls - lp) : SubSeq(t, i + 1, i + lp) = u}
  BY <1>2, <1>3 DEF Occurrences
<1>9. CASE ip = lp
  <2>1. is \in from..(ls - lp) /\ is + lp <= ls
    BY <1>2, <1>3, <1>4, <1>5, <1>9
  <2>2. ASSUME NEW i \in 1..lp PROVE t[is + i] = u[i]
    <3>1. i - 1 \in 0..(lp - 1) /\ is + (i - 1) \in 0..(ls - 1) /\ (is + (i - 1)) + 1 = is + i /\ (i - 1) + 1 = i
      BY <1>2, <1>3, <1>4, <2>1
    <3>2. s[is + (i - 1)] = p[i - 1]
      BY <1>5, <1>9, <3>1
    <3>3. t[is + i] = s[is + (i - 1)]
      BY <1>3, <3>1
    <3>4. u[i] = p[i - 1]
      BY <1>2, <3>1
    <3> QED
      BY <3>2, <3>3, <3>4
  <2>3. PartIs(t, is, lp, u)
    BY <1>2, <1>3, <1>4, <2>1, <2>2, PartFact
  <2>4. is \in Occurrences(u, t, from)
    BY <1>8, <2>1, <2>3 DEF PartIs
  <2> QED
    BY <1>1, <1>7, <1>9, <2>4 DEF p, s, u, t
<1>10. CASE ip /= lp
  <2>1. ip \in Nat /\ ip < lp /\ ip \in 0..(lp - 1) /\ s[is + ip] /= p[ip]
    BY <1>2, <1>5, <1>6, <1>7, <1>10
  <2>2. SUFFICES ASSUME is \in Occurrences(u, t, from) PROVE FALSE
    BY <1>1, <1>7, <1>10 DEF p, s, u, t
  <2>3. is + lp <= ls /\ PartIs(t, is, lp, u)
    <3>1. is \in from..(ls - lp) /\ SubSeq(t, is + 1, is + lp) = u
      BY <1>8, <2>2
    <3>2. is + lp <= ls
      BY <1>2, <1>3, <1>4, <3>1
    <3> QED
      BY <3>1, <3>2 DEF PartIs
  <2>4. t[is + (ip + 1)] = u[ip + 1]
    <3>1. PartIs(t, is, Len(u), u) /\ is + Len(u) <= Len(t)
      BY <1>2, <1>3, <2>3
    <3>2. \A i \in 1..Len(u) : t[is + i] = u[i]
      <4>1. t \in Seq(Letter) /\ u \in Seq(Letter) /\ is \in Nat
        BY <1>2, <1>3, <1>4
      <4>2. PartIs(t, is, Len(u), u) <=> \A i \in 1..Len(u) : t[is + i] = u[i]
        BY <3>1, <4>1, PartFact
      <4> QED
        BY <3>1, <4>2, Zenon
    <3>3. ip + 1 \in 1..Len(u)
      BY <1>2, <2>1
    <3> QED
      BY <3>2, <3>3
  <2>5. is + ip \in 0..(ls - 1) /\ (is + ip) + 1 = is + (ip + 1)
    <3>1. is + ip < ls /\ is + ip \in Nat
      BY <1>2, <1>3, <1>4, <2>1, <2>3
    <3> QED
      BY <1>3, <1>4, <2>1, <3>1
  <2>6. t[is + (ip + 1)] = s[is + ip]
    BY <1>3, <2>5
  <2>7. u[ip + 1] = p[ip]
    BY <1>2, <2>1
  <2> QED
    BY <2>1, <2>4, <2>6, <2>7
<1> QED
  BY <1>9, <1>10

(* The search of Pos ends at the end of the string at the latest, so that  *)
(* it finds the first occurrence, if there is one.                         *)
Ends(p, s, is) == p[Agreeing(p, s, is)] = 0 \/ s[is + Agreeing(p, s, is)] = 0

LEMMA PosExact ==
    ASSUME NEW k, Typed(k), AllEnded(k), NEW x \in StringVar, NEW y \in StringVar,
           NEW from \in 0..Length(k[y])
    PROVE  LET found == Occurrences(Text(k[x]), Text(k[y]), from)
           IN PosString(k[x], k[y], from) = IF found = {} THEN -1 ELSE Min(found)
<1> DEFINE p == k[x]
           s == k[y]
           found == Occurrences(Text(p), Text(s), from)
           lp == Length(p)
           ls == Length(s)
           ends(is) == LET ip == Agreeing(p, s, is) IN p[ip] = 0 \/ s[is + ip] = 0
           place == CHOOSE i \in from..ls : ends(i) /\ \A j \in from..(i - 1) : ~ends(j)
<1>1. PosString(p, s, from) = IF p[Agreeing(p, s, place)] = 0 THEN place ELSE -1
  BY DEF PosString
<1>2. place = CHOOSE i \in from..ls : Ends(p, s, i) /\ \A j \in from..(i - 1) : ~Ends(p, s, j)
  BY DEF Ends
<1>3. PICK is : is = place
  OBVIOUS
<1>4. \A i \in from..ls : p[Agreeing(p, s, i)] = 0 <=> i \in found
  BY FoundIsOccurrence
<1>5. /\ lp \in Nat /\ ls \in Nat /\ p[lp] = 0 /\ s[ls] = 0
      /\ \A j \in 0..(lp - 1) : p[j] /= 0
      /\ \A j \in 0..(ls - 1) : s[j] /= 0
  BY Before, LengthFact DEF AllEnded
<1>6. \A i \in from..ls : /\ Agreeing(p, s, i) \in 0..lp /\ i + Agreeing(p, s, i) <= ls
  BY <1>5, AgreeingFact
<1>7. found \subseteq from..(ls - lp)
  BY Before DEF Occurrences
<1> HIDE DEF place, found, p, s, lp, ls
<1>8. from \in Nat /\ from <= ls
  BY <1>5 DEF ls, s
<1>9. \A i \in found : i \in from..ls /\ Ends(p, s, i)
  BY <1>4, <1>5, <1>7, <1>8 DEF Ends
<1>10. is \in from..ls /\ Ends(p, s, is) /\ \A j \in from..(is - 1) : ~Ends(p, s, j)
  <2> DEFINE S == {i \in from..ls : Ends(p, s, i)}
  <2>1. ls \in S
    <3>1. Agreeing(p, s, ls) = 0 /\ ls \in from..ls
      BY <1>5, <1>6, <1>8
    <3> QED
      BY <1>5, <3>1 DEF Ends
  <2>2. S \in SUBSET Nat
    BY <1>5, <1>8
  <2>3. PICK m \in S : \A n \in S : m <= n
    BY <2>1, <2>2, LeastElement
  <2>4. ASSUME NEW j \in from..(m - 1) PROVE ~Ends(p, s, j)
    <3>1. j \in from..ls /\ j < m
      BY <1>5, <1>8, <2>2, <2>3
    <3>2. j \in S => m <= j
      BY <2>3
    <3> HIDE DEF S
    <3>3. m \in Nat /\ j \in Nat
      BY <1>8, <2>2, <2>3
    <3>4. j \notin S
      BY <3>1, <3>2, <3>3
    <3> QED
      BY <3>1, <3>4 DEF S
  <2>5. m \in from..ls /\ Ends(p, s, m)
    OBVIOUS
  <2> QED
    BY <1>2, <1>3, <2>4, <2>5, Zenon
<1>11. is \in Nat /\ from <= is /\ is <= ls
  BY <1>5, <1>8, <1>10
<1>12. \A i \in found : is <= i
  <2>1. SUFFICES ASSUME NEW i \in found, i < is PROVE FALSE
    BY <1>9, <1>11
  <2>2. i \in from..(is - 1)
    BY <1>8, <1>9, <1>11, <2>1
  <2> QED
    BY <1>9, <1>10, <2>2
<1>13. CASE p[Agreeing(p, s, is)] = 0
  <2>1. is \in found
    BY <1>4, <1>10, <1>13
  <2>2. found \in SUBSET Nat
    BY <1>8, <1>9
  <2>3. Min(found) \in found /\ \A n \in found : Min(found) <= n
    BY <2>1, <2>2, LeastElement
  <2>4. Min(found) = is
    <3>1. Min(found) \in Nat /\ Min(found) <= is /\ is <= Min(found)
      BY <1>12, <2>1, <2>2, <2>3
    <3> QED
      BY <1>11, <3>1
  <2>5. PosString(p, s, from) = is
    BY <1>1, <1>3, <1>13
  <2> QED
    BY <2>1, <2>4, <2>5 DEF found, p, s
<1>14. CASE p[Agreeing(p, s, is)] /= 0
  <2>1. PICK ip : ip = Agreeing(p, s, is)
    OBVIOUS
  <2>2. ip \in Nat /\ ip < lp /\ is + ip <= ls /\ s[is + ip] = 0
    BY <1>5, <1>6, <1>10, <1>14, <2>1 DEF Ends
  <2>3. is + ip = ls
    BY <1>5, <1>11, <2>2
  <2>4. found = {}
    <3>1. SUFFICES ASSUME NEW i \in found PROVE FALSE
      OBVIOUS
    <3>2. i \in Nat /\ is <= i /\ i + lp <= ls
      BY <1>5, <1>7, <1>8, <1>12, <3>1
    <3> QED
      BY <1>5, <1>11, <2>2, <2>3, <3>2
  <2>5. PosString(p, s, from) = -1
    BY <1>1, <1>3, <1>14
  <2> QED
    BY <2>4, <2>5 DEF found, p, s
<1> QED
  BY <1>13, <1>14

-----------------------------------------------------------------------------
(* The invariant: the arrays keep their size and their 0X, and the last    *)
(* call has left what it promises.                                         *)
StringsInv == Typed(chars) /\ AllEnded(chars) /\ StringsExact

Call(name, source, from, n, dest) ==
    [name |-> name, source |-> source, pos |-> from, n |-> n, dest |-> dest, before |-> chars]

(* A call keeps it when it gives the destination the promised text.        *)
LEMMA CallKeeps ==
    ASSUME StringsInv, NEW name, NEW s \in StringVar, NEW from, NEW n, NEW d \in StringVar, NEW k,
           Called(name, s, from, n, d, k), Becomes(chars, k, d, Promised(Call(name, s, from, n, d))),
           name = "Pos" => LET found == Occurrences(Text(k[s]), Text(k[d]), from)
                           IN result' = IF found = {} THEN -1 ELSE Min(found)
    PROVE  StringsInv'
<1> DEFINE c == Call(name, s, from, n, d)
<1>1. chars' = k /\ call' = c
  BY DEF Called, Call
<1>2. c.name = name /\ c.source = s /\ c.pos = from /\ c.dest = d /\ c.before = chars
  BY DEF Call
<1> HIDE DEF c
<1>3. /\ Typed(k) /\ AllEnded(k) /\ Text(k[d]) = Cut(Promised(c), StringSize[d])
      /\ \A v \in StringVar \ {d} : k[v] = chars[v]
  BY DEF Becomes, c
<1>4. k /= Outside
  BY <1>3, TypedArrays
<1>5. /\ chars' /= Outside /\ \A v \in StringVar : Ended(chars'[v])
      /\ Text(chars'[call'.dest]) = Cut(Promised(call'), StringSize[call'.dest])
      /\ \A v \in StringVar \ {call'.dest} : chars'[v] = call'.before[v]
  BY <1>1, <1>2, <1>3, <1>4 DEF AllEnded
<1>6. call'.name = "Pos" =>
          LET found == Occurrences(Text(chars'[call'.source]), Text(chars'[call'.dest]), call'.pos)
          IN result' = IF found = {} THEN -1 ELSE Min(found)
  BY <1>1, <1>2
<1>7. StringsExact'
  BY <1>5, <1>6 DEF StringsExact
<1>8. Typed(chars)' /\ AllEnded(chars)'
  BY <1>1, <1>3 DEF Typed, AllEnded
<1> QED
  BY <1>7, <1>8 DEF StringsInv

(* What each call promises.                                                *)
LEMMA PromisedIs ==
    ASSUME NEW s, NEW from, NEW n, NEW d
    PROVE  LET t == Text(chars[d])
               u == Text(chars[s])
           IN /\ Promised(Call("Insert", s, from, n, d)) = Inserted(t, from, u)
              /\ Promised(Call("Append", s, from, n, d)) = Inserted(t, Len(t), u)
              /\ Promised(Call("Delete", s, from, n, d)) = Deleted(t, from, n)
              /\ Promised(Call("Replace", s, from, n, d)) = Inserted(Deleted(t, from, Len(u)), from, u)
              /\ Promised(Call("Extract", s, from, n, d)) = SubSeq(u, from + 1, Lesser(from + n, Len(u)))
              /\ Promised(Call("Cap", s, from, n, d)) = [i \in DOMAIN t |-> Capital[t[i]]]
              /\ Promised(Call("Pos", s, from, n, d)) = t
<1>1. \A name : LET c == Call(name, s, from, n, d)
                IN c.name = name /\ c.source = s /\ c.pos = from /\ c.n = n /\ c.dest = d /\ c.before = chars
  BY DEF Call
<1> HIDE DEF Call
<1>2. Promised(Call("Insert", s, from, n, d)) = Inserted(Text(chars[d]), from, Text(chars[s]))
  BY <1>1 DEF Promised
<1>3. Promised(Call("Append", s, from, n, d)) = Inserted(Text(chars[d]), Len(Text(chars[d])), Text(chars[s]))
  BY <1>1 DEF Promised
<1>4. Promised(Call("Delete", s, from, n, d)) = Deleted(Text(chars[d]), from, n)
  BY <1>1 DEF Promised
<1>5. Promised(Call("Replace", s, from, n, d)) = Inserted(Deleted(Text(chars[d]), from, Len(Text(chars[s]))), from, Text(chars[s]))
  BY <1>1 DEF Promised
<1>6. Promised(Call("Extract", s, from, n, d)) = SubSeq(Text(chars[s]), from + 1, Lesser(from + n, Len(Text(chars[s]))))
  <2>1. PICK c : c = Call("Extract", s, from, n, d)
    OBVIOUS
  <2>2. c.name = "Extract" /\ c.source = s /\ c.pos = from /\ c.n = n /\ c.before = chars
    BY <1>1, <2>1
  <2>3. Promised(c) = SubSeq(Text(c.before[c.source]), c.pos + 1,
                             Lesser(c.pos + c.n, Len(Text(c.before[c.source]))))
    BY <2>2 DEF Promised
  <2> QED
    BY <2>1, <2>2, <2>3, Zenon
<1>7. Promised(Call("Cap", s, from, n, d)) = [i \in DOMAIN Text(chars[d]) |-> Capital[Text(chars[d])[i]]]
  BY <1>1 DEF Promised
<1>8. Promised(Call("Pos", s, from, n, d)) = Text(chars[d])
  BY <1>1 DEF Promised
<1> QED
  BY <1>2, <1>3, <1>4, <1>5, <1>6, <1>7, <1>8

LEMMA InsertKeeps ==
    ASSUME StringUsage = {}, StringsInv, NEW s \in StringVar, NEW d \in StringVar, Insert(s, d)
    PROVE  StringsInv'
<1>1. PICK from \in Positions(d) : Called("Insert", s, from, 0, d, InsertString(chars, s, from, d))
  BY DEF Insert
<1>2. Typed(chars) /\ AllEnded(chars) /\ from \in 0..Length(chars[d]) /\ s /= d
  BY <1>1 DEF StringsInv, Positions, Called
<1>3. Becomes(chars, InsertString(chars, s, from, d), d, Promised(Call("Insert", s, from, 0, d)))
  BY <1>2, InsertExact, PromisedIs
<1> QED
  BY <1>1, <1>3, CallKeeps

LEMMA AppendKeeps ==
    ASSUME StringUsage = {}, StringsInv, NEW s \in StringVar, NEW d \in StringVar, AppendTo(s, d)
    PROVE  StringsInv'
<1>1. Called("Append", s, 0, 0, d, AppendString(chars, s, d))
  BY DEF AppendTo
<1>2. Typed(chars) /\ AllEnded(chars) /\ s /= d
  BY <1>1 DEF StringsInv, Called
<1>3. Becomes(chars, AppendString(chars, s, d), d, Promised(Call("Append", s, 0, 0, d)))
  BY <1>2, AppendExact, PromisedIs
<1> QED
  BY <1>1, <1>3, CallKeeps

LEMMA DeleteKeeps ==
    ASSUME StringsInv, NEW d \in StringVar, Delete(d)
    PROVE  StringsInv'
<1>1. PICK from \in Positions(d), n \in 0..StringSize[d] :
          Called("Delete", d, from, n, d, DeleteString(chars, d, from, n))
  BY DEF Delete
<1>2. Typed(chars) /\ AllEnded(chars) /\ from \in 0..Length(chars[d]) /\ n \in Nat
  BY <1>1 DEF StringsInv, Positions, Called
<1>3. Becomes(chars, DeleteString(chars, d, from, n), d, Promised(Call("Delete", d, from, n, d)))
  BY <1>2, DeleteExact, PromisedIs
<1> QED
  BY <1>1, <1>3, CallKeeps

LEMMA ReplaceKeeps ==
    ASSUME StringUsage = {}, StringsInv, NEW s \in StringVar, NEW d \in StringVar, Replace(s, d)
    PROVE  StringsInv'
<1>1. PICK from \in Positions(d) : Called("Replace", s, from, 0, d, ReplaceString(chars, s, from, d))
  BY DEF Replace
<1>2. Typed(chars) /\ AllEnded(chars) /\ from \in 0..Length(chars[d]) /\ s /= d
  BY <1>1 DEF StringsInv, Positions, Called
<1>3. Becomes(chars, ReplaceString(chars, s, from, d), d, Promised(Call("Replace", s, from, 0, d)))
  BY <1>2, ReplaceExact, PromisedIs
<1> QED
  BY <1>1, <1>3, CallKeeps

LEMMA ExtractKeeps ==
    ASSUME StringUsage = {}, StringsInv, NEW s \in StringVar, NEW d \in StringVar, Extract(s, d)
    PROVE  StringsInv'
<1>1. PICK from \in Positions(s), n \in 0..StringSize[s] :
          Called("Extract", s, from, n, d, ExtractString(chars, s, from, n, d))
  BY DEF Extract
<1>2. Typed(chars) /\ AllEnded(chars) /\ from \in 0..Length(chars[s]) /\ n \in Nat /\ s /= d
  BY <1>1 DEF StringsInv, Positions, Called
<1>3. Becomes(chars, ExtractString(chars, s, from, n, d), d, Promised(Call("Extract", s, from, n, d)))
  <2>1. Becomes(chars, ExtractString(chars, s, from, n, d), d,
                SubSeq(Text(chars[s]), from + 1, Lesser(from + n, Len(Text(chars[s])))))
    BY <1>2, ExtractExact
  <2>2. Promised(Call("Extract", s, from, n, d))
            = SubSeq(Text(chars[s]), from + 1, Lesser(from + n, Len(Text(chars[s]))))
    BY PromisedIs
  <2> QED
    BY <2>1, <2>2, Zenon
<1> QED
  BY <1>1, <1>3, CallKeeps

LEMMA CapKeeps ==
    ASSUME StringsInv, NEW d \in StringVar, Cap(d)
    PROVE  StringsInv'
<1>1. Called("Cap", d, 0, 0, d, CapString(chars, d))
  BY DEF Cap
<1>2. Typed(chars) /\ AllEnded(chars)
  BY DEF StringsInv
<1>3. Becomes(chars, CapString(chars, d), d, Promised(Call("Cap", d, 0, 0, d)))
  BY <1>2, CapExact, PromisedIs
<1> QED
  BY <1>1, <1>3, CallKeeps

LEMMA PosKeeps ==
    ASSUME StringsInv, NEW s \in StringVar, NEW d \in StringVar, Pos(s, d)
    PROVE  StringsInv'
<1>1. PICK from \in Positions(d) : /\ Called("Pos", s, from, 0, d, chars)
                                  /\ result' = PosString(chars[s], chars[d], from)
  BY DEF Pos
<1>2. Typed(chars) /\ AllEnded(chars) /\ from \in 0..Length(chars[d])
  BY <1>1 DEF StringsInv, Positions, Called
<1>3. Becomes(chars, chars, d, Text(chars[d]))
  <2> DEFINE t == Text(chars[d])
             lb == Length(chars[d])
  <2>1. /\ StringSize[d] \in Nat \ {0} /\ lb \in Nat /\ lb < StringSize[d] /\ t \in Seq(Letter)
        /\ Len(t) = lb /\ chars[d][lb] = 0 /\ \A i \in 0..(lb - 1) : chars[d][i] = t[i + 1]
    BY <1>2, Before
  <2> HIDE DEF t, lb
  <2>2. lb \in Places(d) /\ lb = Lesser(Len(t), StringSize[d] - 1)
    BY <2>1 DEF Places, Lesser
  <2>3. Becomes(chars, chars, d, t)
    BY <1>2, <2>1, <2>2, BecomesText
  <2> QED
    BY <2>3 DEF t
<1>4. Becomes(chars, chars, d, Promised(Call("Pos", s, from, 0, d)))
  BY <1>3, PromisedIs
<1>5. LET found == Occurrences(Text(chars[s]), Text(chars[d]), from)
      IN result' = IF found = {} THEN -1 ELSE Min(found)
  BY <1>1, <1>2, PosExact
<1> QED
  BY <1>1, <1>4, <1>5, CallKeeps

LEMMA FillKeeps ==
    ASSUME StringsInv, NEW v \in StringVar, NEW a \in Contents(v), Fill(v, a)
    PROVE  StringsInv'
<1>1. /\ Ended(a) /\ call' = call /\ call = NoCall /\ chars' = [chars EXCEPT ![v] = a]
      /\ Typed(chars) /\ AllEnded(chars)
  BY DEF Fill, StringsInv
<1>2. chars'[v] = a /\ (\A w \in StringVar : w /= v => chars'[w] = chars[w]) /\ chars' = [w \in StringVar |-> chars'[w]]
  BY <1>1 DEF Typed
<1>3. Typed(chars)' /\ AllEnded(chars)'
  BY <1>1, <1>2 DEF Typed, AllEnded
<1>4. chars' /= Outside
  BY <1>3, TypedArrays DEF Typed
<1> QED
  BY <1>1, <1>3, <1>4 DEF StringsInv, StringsExact, AllEnded

LEMMA StringsStep ==
    ASSUME StringUsage = {}, StringsInv, [StringsNext]_stringVars
    PROVE  StringsInv'
<1>1. ASSUME NEW v \in StringVar, NEW a \in Contents(v), Fill(v, a) PROVE StringsInv'
  BY <1>1, FillKeeps
<1>2. ASSUME GoOn PROVE StringsInv'
  BY <1>2 DEF GoOn, StringsInv, StringsExact, Typed, AllEnded
<1>3. ASSUME NEW d \in StringVar, Delete(d) \/ Cap(d) PROVE StringsInv'
  BY <1>3, DeleteKeeps, CapKeeps
<1>4. ASSUME NEW s \in StringVar, NEW d \in StringVar,
             Insert(s, d) \/ AppendTo(s, d) \/ Replace(s, d) \/ Extract(s, d) \/ Pos(s, d)
      PROVE  StringsInv'
  BY <1>4, InsertKeeps, AppendKeeps, ReplaceKeeps, ExtractKeeps, PosKeeps
<1>5. ASSUME UNCHANGED stringVars PROVE StringsInv'
  BY <1>5 DEF stringVars, StringsInv, StringsExact, Typed, AllEnded
<1> QED
  BY <1>1, <1>2, <1>3, <1>4, <1>5 DEF StringsNext

LEMMA StringsStart == ASSUME StringsInit PROVE StringsInv
<1>1. chars = [v \in StringVar |-> [i \in 0..(StringSize[v] - 1) |-> 0]] /\ call = NoCall
  BY DEF StringsInit
<1>2. Typed(chars)
  <2>1. \A v \in StringVar : chars[v] = [i \in 0..(StringSize[v] - 1) |-> 0]
    BY <1>1
  <2>2. \A v \in StringVar : chars[v] \in Contents(v)
    BY <2>1 DEF Contents
  <2> QED
    BY <1>1, <2>2 DEF Typed
<1>3. ASSUME NEW v \in StringVar PROVE Ended(chars[v])
  <2>1. StringSize[v] \in Nat \ {0} /\ chars[v] = [i \in 0..(StringSize[v] - 1) |-> 0]
    BY <1>1, StringsAssumption
  <2>2. 0 \in DOMAIN chars[v] /\ chars[v][0] = 0
    BY <2>1
  <2> QED
    BY <2>2 DEF Ended
<1>4. chars /= Outside
  BY <1>2, TypedArrays
<1> QED
  BY <1>1, <1>2, <1>3, <1>4 DEF StringsInv, StringsExact, AllEnded

(* Each procedure of Strings.obn does what its description promises, for   *)
(* arrays and strings of every length, unless one array is both source and *)
(* destination: the source's elements would change under the loops.        *)
THEOREM StringsDoAsDescribed ==
    ASSUME StringUsage = {}
    PROVE  StringsSpec => []StringsExact
<1>1. StringsInit => StringsInv
  BY StringsStart
<1>2. StringsInv /\ [StringsNext]_stringVars => StringsInv'
  BY StringsStep
<1>3. StringsInv => StringsExact
  BY DEF StringsInv
<1> QED
  BY <1>1, <1>2, <1>3, PTL DEF StringsSpec

-----------------------------------------------------------------------------
(* Powers of two.                                                          *)
MaxPower == GroupBits + NumBits + NumCBits

LEMMA PowerPositive == ASSUME NEW n \in 0..MaxPower PROVE 2^n \in Nat \ {0}
<1> DEFINE S == {k \in 0..MaxPower : 2^k \in Nat \ {0}}
<1>1. MaxPower \in Nat
  BY NumbersAssumption DEF MaxPower
<1>2. 0 \in S
  BY <1>1, NumberPowersAssumption
<1>3. ASSUME NEW k \in 0..(MaxPower - 1), k \in S PROVE k + 1 \in S
  <2>1. 2^(k + 1) = 2 * 2^k /\ 2^k \in Nat \ {0}
    BY <1>1, <1>3, NumberPowersAssumption DEF MaxPower
  <2> QED
    BY <1>1, <2>1
<1> HIDE DEF S
<1>4. 0..MaxPower \subseteq S
  BY <1>1, <1>2, <1>3, BoundedInduction
<1> QED
  BY <1>4 DEF S

LEMMA PowerSum ==
    ASSUME NEW m \in Nat, NEW n \in Nat, m + n <= MaxPower
    PROVE  2^(m + n) = 2^m * 2^n
<1> DEFINE S == {k \in 0..n : 2^(m + k) = 2^m * 2^k}
<1>1. MaxPower \in Nat /\ 2^m \in Nat /\ \A k \in 0..n : 2^k \in Nat /\ m + k \in 0..MaxPower
  <2>1. MaxPower \in Nat
    BY NumbersAssumption DEF MaxPower
  <2>2. \A k \in 0..n : k \in 0..MaxPower /\ m + k \in 0..MaxPower /\ m \in 0..MaxPower
    BY <2>1
  <2> QED
    BY <2>1, <2>2, PowerPositive
<1>2. 0 \in S
  BY <1>1, NumberPowersAssumption
<1>3. ASSUME NEW k \in 0..(n - 1), k \in S PROVE k + 1 \in S
  <2>1. k \in 0..MaxPower /\ m + k \in 0..MaxPower /\ m + (k + 1) = (m + k) + 1
    BY <1>1
  <2>2. 2^(k + 1) = 2 * 2^k /\ 2^(m + (k + 1)) = 2 * 2^(m + k)
    BY <2>1, NumberPowersAssumption DEF MaxPower
  <2>3. 2^(m + k) = 2^m * 2^k /\ 2^k \in Nat
    BY <1>1, <1>3
  <2>4. ASSUME NEW a \in Nat, NEW b \in Nat PROVE 2 * (a * b) = a * (2 * b)
    OBVIOUS
  <2>5. 2 * (2^m * 2^k) = 2^m * (2 * 2^k)
    BY <1>1, <2>3, <2>4
  <2> QED
    BY <2>1, <2>2, <2>3, <2>5
<1> HIDE DEF S
<1>4. 0..n \subseteq S
  BY <1>2, <1>3, BoundedInduction
<1> QED
  BY <1>4 DEF S

LEMMA PowersGrow ==
    ASSUME NEW m \in Nat, NEW n \in Nat, m <= n, n <= MaxPower
    PROVE  2^m <= 2^n
<1>1. MaxPower \in Nat
  BY NumbersAssumption DEF MaxPower
<1>2. m \in 0..MaxPower /\ n \in 0..MaxPower /\ n - m \in 0..MaxPower /\ m + (n - m) = n /\ n - m \in Nat
  BY <1>1
<1>3. 2^n = 2^m * 2^(n - m)
  BY <1>2, PowerSum
<1>4. 2^m \in Nat /\ 2^(n - m) \in Nat \ {0}
  BY <1>2, PowerPositive
<1>5. ASSUME NEW a \in Nat, NEW b \in Nat \ {0} PROVE a <= a * b
  OBVIOUS
<1>6. 2^m <= 2^m * 2^(n - m)
  BY <1>4, <1>5
<1> QED
  BY <1>3, <1>6

(* A group is twice Half.                                                  *)
LEMMA GroupFact ==
    /\ Half = 2^(GroupBits - 1) /\ Half \in Nat \ {0}
    /\ Group = 2 * Half /\ Group \in Nat \ {0}
<1>1. GroupBits - 1 \in 0..MaxPower /\ (GroupBits - 1) + 1 = GroupBits
  BY NumbersAssumption DEF MaxPower
<1>2. PICK h \in Nat \ {0} : h = 2^(GroupBits - 1)
  BY <1>1, PowerPositive
<1>3. 2^((GroupBits - 1) + 1) = 2 * 2^(GroupBits - 1)
  BY <1>1, NumberPowersAssumption DEF MaxPower
<1>4. Group = 2 * h
  BY <1>1, <1>2, <1>3 DEF Group
<1>5. (2 * h) \div 2 = h
  OBVIOUS
<1> QED
  BY <1>2, <1>4, <1>5 DEF Half

(* Division with a remainder.                                              *)
LEMMA DivisionFact ==
    ASSUME NEW x \in Int, NEW y \in Nat \ {0}
    PROVE  x \div y \in Int /\ x % y \in 0..(y - 1) /\ x = y * (x \div y) + (x % y)
OBVIOUS

LEMMA MultipleBetween ==
    ASSUME NEW y \in Nat \ {0}, NEW q \in Int, NEW k \in Int,
           y * q - y < y * k, y * k < y * q + y
    PROVE  k = q
<1>1. CASE k >= q + 1
  <2>1. y * k >= y * (q + 1)
    BY <1>1
  <2> QED
    BY <2>1
<1>2. CASE k <= q - 1
  <2>1. y * k <= y * (q - 1)
    BY <1>2
  <2> QED
    BY <2>1
<1> QED
  BY <1>1, <1>2

LEMMA RemainderIs ==
    ASSUME NEW m \in Nat \ {0}, NEW q \in Int, NEW r \in 0..(m - 1)
    PROVE  (m * q + r) % m = r /\ (m * q + r) \div m = q
<1> DEFINE x == m * q + r
           k == x \div m
           s == x % m
<1>1. x \in Int /\ x = m * k + s /\ k \in Int /\ s \in 0..(m - 1)
  BY DivisionFact
<1> HIDE DEF k, s
<1>2. m * q - m < m * k /\ m * k < m * q + m
  BY <1>1
<1> HIDE DEF x
<1>3. k = q
  BY <1>2, <1>1, MultipleBetween
<1>4. s = r
  BY <1>1, <1>3 DEF x
<1> QED
  BY <1>3, <1>4 DEF k, s, x

LEMMA SmallRemainder ==
    ASSUME NEW m \in Nat \ {0}, NEW r \in 0..(m - 1)
    PROVE  r % m = r /\ r \div m = 0
<1>1. (m * 0 + r) % m = r /\ (m * 0 + r) \div m = 0
  BY RemainderIs
<1>2. m * 0 + r = r
  OBVIOUS
<1> QED
  BY <1>1, <1>2

(* Conversion to int leaves its numbers alone.                             *)
LEMMA CIntWithin ==
    ASSUME NEW x \in Int, -(2^(NumCBits - 1)) <= x, x < 2^(NumCBits - 1)
    PROVE  CInt(x) = x
<1>1. NumCBits - 1 \in 0..MaxPower /\ (NumCBits - 1) + 1 = NumCBits
  BY NumbersAssumption DEF MaxPower
<1>2. PICK h \in Nat \ {0} : h = 2^(NumCBits - 1)
  BY <1>1, PowerPositive
<1>3. 2^((NumCBits - 1) + 1) = 2 * 2^(NumCBits - 1)
  BY <1>1, NumberPowersAssumption DEF MaxPower
<1>4. CInt(x) = ((x + h) % (2 * h)) - h
  BY <1>1, <1>2, <1>3 DEF CInt
<1>5. x + h \in 0..(2 * h - 1) /\ 2 * h \in Nat \ {0}
  BY <1>2
<1>6. (x + h) % (2 * h) = x + h
  BY <1>5, SmallRemainder
<1> QED
  BY <1>2, <1>4, <1>6

(* The least number of int is its own negation there.                      *)
LEMMA CIntOfLimit == CInt(2^(NumCBits - 1)) = -(2^(NumCBits - 1))
<1>1. NumCBits - 1 \in 0..MaxPower /\ (NumCBits - 1) + 1 = NumCBits
  BY NumbersAssumption DEF MaxPower
<1>2. PICK h \in Nat \ {0} : h = 2^(NumCBits - 1)
  BY <1>1, PowerPositive
<1>3. 2^((NumCBits - 1) + 1) = 2 * 2^(NumCBits - 1)
  BY <1>1, NumberPowersAssumption DEF MaxPower
<1>4. CInt(h) = ((h + h) % (2 * h)) - h
  BY <1>1, <1>2, <1>3 DEF CInt
<1>5. ASSUME NEW m \in Nat \ {0} PROVE m % m = 0
  OBVIOUS
<1>6. (h + h) % (2 * h) = 0
  BY <1>5
<1> QED
  BY <1>2, <1>4, <1>6

-----------------------------------------------------------------------------
(* The quotients of a number by the powers of Group, which WriteNum goes   *)
(* through.                                                                *)
Dividing(f, x, i) == IF i = 0 THEN x ELSE f[i - 1] \div Group
IsQuotients(f, x, n) == f = [i \in 0..n |-> Dividing(f, x, i)]
Quotients(x) == CHOOSE f : IsQuotients(f, x, NumBits)

LEMMA QuotientsExist == ASSUME NEW x, NEW n \in Nat PROVE \E f : IsQuotients(f, x, n)
<1> DEFINE S == {j \in Nat : \E f : IsQuotients(f, x, j)}
<1>1. 0 \in S
  <2> DEFINE g == [j \in 0..0 |-> x]
  <2>1. \A j \in 0..0 : g[j] = Dividing(g, x, j)
    BY DEF Dividing
  <2>2. g = [j \in 0..0 |-> g[j]]
    OBVIOUS
  <2> HIDE DEF g
  <2>3. IsQuotients(g, x, 0)
    BY <2>1, <2>2 DEF IsQuotients
  <2> QED
    BY <2>3
<1>2. ASSUME NEW m \in Nat, m \in S PROVE m + 1 \in S
  <2>1. PICK f : IsQuotients(f, x, m)
    BY <1>2
  <2> DEFINE g == [j \in 0..(m + 1) |-> IF j = m + 1 THEN f[m] \div Group ELSE f[j]]
  <2>2. \A j \in 0..m : g[j] = f[j] /\ f[j] = Dividing(f, x, j)
    BY <2>1 DEF IsQuotients
  <2>3. g[m + 1] = g[m] \div Group /\ g = [j \in 0..(m + 1) |-> g[j]]
    BY <2>2
  <2> HIDE DEF g
  <2>4. ASSUME NEW j \in 0..(m + 1) PROVE g[j] = Dividing(g, x, j)
    <3>1. CASE j = m + 1
      BY <2>3, <3>1 DEF Dividing
    <3>2. CASE j = 0
      BY <2>2, <3>2 DEF Dividing
    <3>3. CASE j \in 1..m
      <4>1. j \in 0..m /\ j - 1 \in 0..m /\ j /= 0
        BY <3>3
      <4> QED
        BY <2>2, <4>1 DEF Dividing
    <3> QED
      BY <3>1, <3>2, <3>3
  <2>5. IsQuotients(g, x, m + 1)
    BY <2>3, <2>4 DEF IsQuotients
  <2> QED
    BY <2>5
<1> HIDE DEF S
<1>3. n \in S
  BY <1>1, <1>2, SetInduction
<1> QED
  BY <1>3 DEF S

LEMMA QuotientsFact ==
    ASSUME NEW x \in Int
    PROVE  /\ Quotients(x)[0] = x
           /\ \A i \in 1..NumBits : Quotients(x)[i] = Quotients(x)[i - 1] \div Group
           /\ \A i \in 0..NumBits : Quotients(x)[i] \in Int
<1> DEFINE f == Quotients(x)
<1>1. NumBits \in Nat \ {0}
  BY NumbersAssumption
<1>2. IsQuotients(f, x, NumBits)
  BY <1>1, QuotientsExist DEF Quotients
<1> HIDE DEF f
<1>3. \A i \in 0..NumBits : f[i] = Dividing(f, x, i)
  BY <1>2 DEF IsQuotients
<1>4. f[0] = x /\ \A i \in 1..NumBits : f[i] = f[i - 1] \div Group
  BY <1>1, <1>3 DEF Dividing
<1>5. 0..NumBits \subseteq {i \in 0..NumBits : f[i] \in Int}
  <2> DEFINE S == {i \in 0..NumBits : f[i] \in Int}
  <2>1. 0 \in S
    BY <1>1, <1>4
  <2>2. ASSUME NEW k \in 0..(NumBits - 1), k \in S PROVE k + 1 \in S
    <3>1. k + 1 \in 1..NumBits /\ (k + 1) - 1 = k
      BY <1>1
    <3>2. f[k + 1] = f[k] \div Group /\ f[k] \in Int
      BY <1>4, <2>2, <3>1
    <3>3. f[k] \div Group \in Int
      BY <3>2, GroupFact, DivisionFact
    <3> QED
      BY <1>1, <3>1, <3>2, <3>3
  <2> HIDE DEF S
  <2>3. 0..NumBits \subseteq S
    BY <1>1, <2>1, <2>2, BoundedInduction
  <2> QED
    BY <2>3 DEF S
<1> QED
  BY <1>4, <1>5 DEF f

(* The first k groups of x, when the quotients before are too large for    *)
(* one: they make a number below the power of Group, and end within the    *)
(* bits of x.                                                              *)
Power(i) == 2^(GroupBits * i)
Small(l) == l \in -Half..(Half - 1)

LEMMA Rearranged ==
    ASSUME NEW x \in Int, NEW g \in Int, NEW q \in Int, NEW r \in Int, NEW p \in Int,
           NEW l \in Int, l = g * q + r
    PROVE  x - q * (g * p) = (x - l * p) + r * p
<1>1. l * p = (g * q) * p + r * p
  OBVIOUS
<1>2. q * (g * p) = (g * q) * p
  OBVIOUS
<1> QED
  BY <1>1, <1>2

LEMMA PowerStep ==
    ASSUME NEW i \in Nat, GroupBits * (i + 1) <= MaxPower
    PROVE  Power(i + 1) = Group * Power(i) /\ GroupBits * (i + 1) = GroupBits * i + GroupBits
<1>1. GroupBits * (i + 1) = GroupBits * i + GroupBits /\ GroupBits * i \in Nat /\ GroupBits \in Nat
  BY NumbersAssumption
<1>2. 2^(GroupBits + GroupBits * i) = 2^GroupBits * 2^(GroupBits * i)
  BY <1>1, PowerSum
<1> QED
  BY <1>1, <1>2 DEF Power, Group

LEMMA QuotientBound ==
    ASSUME NEW x \in Number, NEW k \in 0..NumBits,
           \A j \in 0..(k - 1) : ~Small(Quotients(x)[j])
    PROVE  /\ GroupBits * k <= NumBits - 1
           /\ x - Quotients(x)[k] * Power(k) \in 0..(Power(k) - 1)
<1> DEFINE f == Quotients(x)
           S == {i \in 0..k : /\ GroupBits * i <= NumBits - 1
                              /\ x - f[i] * Power(i) \in 0..(Power(i) - 1)}
<1>1. NumBits \in Nat \ {0} /\ GroupBits \in Nat \ {0} /\ NumCBits \in Nat \ {0}
      /\ MaxPower = GroupBits + NumBits + NumCBits
  BY NumbersAssumption DEF MaxPower
<1>2. PICK h \in Nat \ {0} : h = 2^(NumBits - 1)
  <2>1. NumBits - 1 \in 0..MaxPower
    BY <1>1
  <2> QED
    BY <2>1, PowerPositive
<1>3. x \in Int /\ -h <= x /\ x < h
  BY <1>2 DEF Number
<1>4. /\ f[0] = x /\ \A i \in 1..NumBits : f[i] = f[i - 1] \div Group
      /\ \A i \in 0..NumBits : f[i] \in Int
  BY <1>3, QuotientsFact
<1> HIDE DEF f
<1>5. 0 \in S
  <2>1. GroupBits * 0 = 0
    BY <1>1
  <2>2. Power(0) = 1
    BY <2>1, NumberPowersAssumption DEF Power
  <2> QED
    BY <1>1, <1>3, <1>4, <2>1, <2>2
<1>6. ASSUME NEW i \in 0..(k - 1), i \in S PROVE i + 1 \in S
  <2>1. /\ i \in 0..NumBits /\ i + 1 \in 1..NumBits /\ i + 1 \in 0..k /\ (i + 1) - 1 = i
    BY <1>1
  <2>2. PICK l \in Int : l = f[i]
    BY <1>4, <2>1
  <2>3. PICK q \in Int, r \in 0..(Group - 1) : q = f[i + 1] /\ l = Group * q + r
    <3>1. f[i + 1] = l \div Group
      BY <1>4, <2>1, <2>2
    <3>2. l \div Group \in Int /\ l % Group \in 0..(Group - 1) /\ l = Group * (l \div Group) + (l % Group)
      BY GroupFact, DivisionFact
    <3> QED
      BY <3>1, <3>2
  <2>4. GroupBits * i \in Nat /\ GroupBits * i <= NumBits - 1 /\ GroupBits * (i + 1) = GroupBits * i + GroupBits
    BY <1>1, <1>6
  <2>5. PICK p \in Nat \ {0} : p = Power(i)
    <3>1. GroupBits * i \in 0..MaxPower
      BY <1>1, <2>4
    <3> QED
      BY <3>1, PowerPositive DEF Power
  <2>6. x - l * p \in 0..(p - 1)
    BY <1>6, <2>2, <2>5
  <2>7. GroupBits * (i + 1) <= NumBits - 1
    <3>1. ~Small(l) /\ l \in Int
      BY <2>2 DEF f
    <3>2. SUFFICES ASSUME NumBits - 1 <= (GroupBits - 1) + GroupBits * i PROVE FALSE
      BY <1>1, <2>4
    <3>3. GroupBits - 1 \in Nat /\ (GroupBits - 1) + GroupBits * i <= MaxPower /\ NumBits - 1 \in Nat
          /\ (GroupBits - 1) + GroupBits * i \in Nat
      BY <1>1, <2>4
    <3>4. 2^((GroupBits - 1) + GroupBits * i) = Half * p
      BY <2>4, <2>5, <3>3, PowerSum, GroupFact DEF Power
    <3>5. h <= Half * p
      BY <1>2, <3>2, <3>3, <3>4, PowersGrow
    <3>6. CASE l >= Half
      <4>1. l * p >= Half * p
        BY <3>6, GroupFact
      <4> QED
        BY <1>3, <2>6, <3>5, <4>1, GroupFact
    <3>7. CASE l <= -Half - 1
      <4>1. l * p <= (-Half - 1) * p
        BY <3>7, GroupFact
      <4>2. (-Half - 1) * p = -(Half * p) - p
        BY GroupFact
      <4> QED
        BY <1>3, <2>6, <3>5, <4>1, <4>2, GroupFact
    <3> QED
      BY <3>1, <3>6, <3>7, GroupFact DEF Small
  <2>8. Power(i + 1) = Group * p
    <3>1. GroupBits * (i + 1) <= MaxPower
      BY <1>1, <2>7
    <3> QED
      BY <2>5, <3>1, PowerStep
  <2>9. x - q * (Group * p) = (x - l * p) + r * p
    BY <1>3, <2>3, Rearranged, GroupFact
  <2>10. r * p >= 0 /\ r * p <= (Group - 1) * p /\ (Group - 1) * p = Group * p - p
    BY GroupFact
  <2>11. x - q * (Group * p) \in 0..(Group * p - 1)
    BY <1>3, <2>6, <2>9, <2>10, GroupFact
  <2> QED
    BY <2>1, <2>3, <2>7, <2>8, <2>11
<1> HIDE DEF S
<1>7. 0..k \subseteq S
  BY <1>1, <1>5, <1>6, BoundedInduction
<1>8. k \in S
  BY <1>1, <1>7
<1> QED
  BY <1>8 DEF S, f

(* The groups of x, each in a byte; only the last one has its highest bit  *)
(* clear.                                                                  *)
Leading(x, last) == Small(Quotients(x)[last]) /\ \A j \in 0..(last - 1) : ~Small(Quotients(x)[j])

IsBytes(b, x, last) ==
    /\ b \in Seq(Nat) /\ Len(b) = last + 1
    /\ \A i \in 1..last : b[i] = (Quotients(x)[i - 1] % Group) + Group
    /\ b[last + 1] = Quotients(x)[last] % Group

LEMMA BytesFact ==
    ASSUME NEW x \in Number
    PROVE  \E last \in 0..NumBits : Leading(x, last) /\ IsBytes(Bytes(x), x, last)
<1> DEFINE f == Quotients(x)
           S == {i \in 0..NumBits : f[i] \in -Half..(Half - 1)}
           byte(i, n) == (f[i - 1] % Group) + (IF i <= n THEN Group ELSE 0)
<1>1. NumBits \in Nat \ {0} /\ GroupBits \in Nat \ {0} /\ x \in Int
  BY NumbersAssumption DEF Number
<1>2. \A i \in 0..NumBits : f[i] \in Int
  BY <1>1, QuotientsFact
<1>3. Bytes(x) = [i \in 1..(Min(S) + 1) |-> byte(i, Min(S))]
  BY DEF Bytes, Quotients, IsQuotients, Dividing
<1> HIDE DEF f
<1>4. S /= {}
  <2>1. SUFFICES ASSUME S = {} PROVE FALSE
    OBVIOUS
  <2>2. \A j \in 0..NumBits : ~Small(f[j])
    BY <2>1 DEF Small
  <2>3. GroupBits * NumBits <= NumBits - 1
    BY <1>1, <2>2, QuotientBound DEF f
  <2>4. GroupBits * NumBits >= 1 * NumBits
    BY <1>1
  <2> QED
    BY <1>1, <2>3, <2>4
<1>5. S \in SUBSET Nat
  BY <1>1
<1>6. PICK last : last = Min(S) /\ last \in S /\ \A n \in S : last <= n
  BY <1>4, <1>5, LeastElement
<1>7. last \in 0..NumBits /\ Small(f[last])
  BY <1>6 DEF Small
<1>8. ASSUME NEW j \in 0..(last - 1) PROVE ~Small(f[j])
  <2>1. j \in 0..NumBits /\ j < last
    BY <1>1, <1>7
  <2>2. j \in S => last <= j
    BY <1>6
  <2> HIDE DEF S
  <2>3. j \notin S
    BY <1>7, <2>1, <2>2
  <2> QED
    BY <2>1, <2>3 DEF S, Small
<1>9. Bytes(x) = [i \in 1..(last + 1) |-> byte(i, last)]
  BY <1>3, <1>6
<1>10. ASSUME NEW i \in 1..(last + 1) PROVE byte(i, last) \in Nat
  <2>1. i - 1 \in 0..NumBits
    BY <1>1, <1>7
  <2>2. f[i - 1] % Group \in 0..(Group - 1)
    BY <1>2, <2>1, GroupFact, DivisionFact
  <2> QED
    BY <2>2, GroupFact
<1>11. /\ Bytes(x) \in [1..(last + 1) -> Nat]
       /\ \A i \in 1..(last + 1) : Bytes(x)[i] = byte(i, last)
  BY <1>9, <1>10
<1>12. Bytes(x) \in Seq(Nat) /\ Len(Bytes(x)) = last + 1
  BY <1>7, <1>11
<1>13. ASSUME NEW i \in 1..last PROVE Bytes(x)[i] = (f[i - 1] % Group) + Group
  <2>1. i \in 1..(last + 1) /\ i <= last
    BY <1>7
  <2> QED
    BY <1>11, <2>1
<1>14. Bytes(x)[last + 1] = f[last] % Group
  <2>1. last + 1 \in 1..(last + 1) /\ ~(last + 1 <= last) /\ (last + 1) - 1 = last
    BY <1>7
  <2>2. f[last] % Group \in 0..(Group - 1)
    BY <1>2, <1>7, GroupFact, DivisionFact
  <2> QED
    BY <1>11, <2>1, <2>2, GroupFact
<1> QED
  BY <1>7, <1>8, <1>12, <1>13, <1>14 DEF f, Leading, IsBytes

(* A number below the greatest power of int comes through a shift.         *)
LEMMA ShiftedWithin ==
    ASSUME NumBits <= NumCBits, NEW v \in Nat, NEW s \in Nat, s <= NumBits - 1,
           v * 2^s < 2^(NumBits - 1)
    PROVE  ShiftLeft(v, s) = v * 2^s
<1>1. /\ NumBits \in Nat \ {0} /\ NumCBits \in Nat \ {0} /\ s \in 0..MaxPower /\ s < NumCBits
      /\ NumBits - 1 \in 0..MaxPower /\ NumCBits - 1 \in 0..MaxPower /\ NumBits - 1 <= NumCBits - 1
      /\ NumCBits - 1 <= MaxPower
  BY NumbersAssumption DEF MaxPower
<1>2. 2^(NumBits - 1) <= 2^(NumCBits - 1)
  BY <1>1, PowersGrow
<1>3. PICK p \in Nat \ {0} : p = 2^s
  BY <1>1, PowerPositive
<1>4. PICK h \in Nat \ {0} : h = 2^(NumCBits - 1)
  BY <1>1, PowerPositive
<1>5. PICK c \in Nat \ {0} : c = 2^(NumBits - 1)
  BY <1>1, PowerPositive
<1>6. v * p \in Int /\ -h <= v * p /\ v * p < h
  BY <1>2, <1>3, <1>4, <1>5
<1>7. CInt(v * p) = v * p
  BY <1>4, <1>6, CIntWithin
<1> QED
  BY <1>1, <1>3, <1>7 DEF ShiftLeft

(* What the leading bytes say.                                             *)
ReadAt(f, b, i) ==
    IF i = 0 THEN 0 ELSE Sum(f[i - 1], ShiftLeft(b[i] - Group, GroupBits * (i - 1)))
Read(b) == CHOOSE f : f = [i \in 0..(Len(b) - 1) |-> ReadAt(f, b, i)]

LEMMA ReadFact ==
    ASSUME NumBits <= NumCBits, NEW x \in Number, NEW last \in 0..NumBits, Leading(x, last),
           NEW b, IsBytes(b, x, last)
    PROVE  Read(b)[last] = x - Quotients(x)[last] * Power(last)
<1> DEFINE f == Quotients(x)
           g == [i \in 0..last |-> x - f[i] * Power(i)]
<1>1. /\ NumBits \in Nat \ {0} /\ GroupBits \in Nat \ {0} /\ NumCBits \in Nat \ {0} /\ x \in Int
      /\ MaxPower = GroupBits + NumBits + NumCBits
  BY NumbersAssumption DEF MaxPower, Number
<1>2. /\ \A i \in 1..NumBits : f[i] = f[i - 1] \div Group
      /\ \A i \in 0..NumBits : f[i] \in Int
      /\ f[0] = x
  BY <1>1, QuotientsFact
<1>3. Len(b) - 1 = last
  BY <1>1 DEF IsBytes
<1>4. \A i \in 0..last : /\ GroupBits * i <= NumBits - 1
                         /\ x - f[i] * Power(i) \in 0..(Power(i) - 1)
  <2>1. ASSUME NEW i \in 0..last
        PROVE  GroupBits * i <= NumBits - 1 /\ x - f[i] * Power(i) \in 0..(Power(i) - 1)
    <3>1. i \in 0..NumBits /\ \A j \in 0..(i - 1) : ~Small(Quotients(x)[j])
      BY <1>1 DEF Leading
    <3> QED
      BY <3>1, QuotientBound
  <2> QED
    BY <2>1
<1> HIDE DEF f
<1>5. ASSUME NEW i \in 1..last
      PROVE  /\ g[i - 1] = x - f[i - 1] * Power(i - 1) /\ g[i - 1] \in Int
             /\ g[i] = x - f[i] * Power(i)
             /\ g[i] = Sum(g[i - 1], ShiftLeft(b[i] - Group, GroupBits * (i - 1)))
  <2>1. i - 1 \in 0..last /\ i \in 0..last /\ i \in 1..NumBits /\ i - 1 \in Nat /\ (i - 1) + 1 = i
        /\ i - 1 \in 0..NumBits
    BY <1>1
  <2>2. PICK l \in Int : l = f[i - 1]
    BY <1>2, <2>1
  <2>3. PICK q \in Int, r \in 0..(Group - 1) : q = f[i] /\ l = Group * q + r /\ r = l % Group
    <3>1. f[i] = l \div Group
      BY <1>2, <2>1, <2>2
    <3>2. l \div Group \in Int /\ l % Group \in 0..(Group - 1) /\ l = Group * (l \div Group) + (l % Group)
      BY GroupFact, DivisionFact
    <3> QED
      BY <3>1, <3>2
  <2>4. b[i] - Group = r
    <3>1. b[i] = r + Group
      BY <2>2, <2>3 DEF IsBytes, f
    <3> QED
      BY <3>1, GroupFact
  <2>5. GroupBits * (i - 1) \in Nat /\ GroupBits * (i - 1) <= NumBits - 1 /\ GroupBits * i <= NumBits - 1
    BY <1>1, <1>4, <2>1
  <2>6. PICK p \in Nat \ {0} : p = Power(i - 1) /\ p = 2^(GroupBits * (i - 1))
    <3>1. GroupBits * (i - 1) \in 0..MaxPower
      BY <1>1, <2>5
    <3> QED
      BY <3>1, PowerPositive DEF Power
  <2>7. Power(i) = Group * p
    <3>1. GroupBits * ((i - 1) + 1) <= MaxPower
      BY <1>1, <2>1, <2>5
    <3>2. Power((i - 1) + 1) = Group * Power(i - 1)
      BY <2>1, <3>1, PowerStep
    <3> QED
      BY <2>1, <2>6, <3>2
  <2>8. x - q * (Group * p) = (x - l * p) + r * p
    BY <1>1, <2>3, Rearranged, GroupFact
  <2>9. ShiftLeft(r, GroupBits * (i - 1)) = r * p
    <3>1. PICK h \in Nat \ {0} : h = 2^(NumBits - 1)
      <4>1. NumBits - 1 \in 0..MaxPower
        BY <1>1
      <4> QED
        BY <4>1, PowerPositive
    <3>2. Power(i) <= h
      <4>1. GroupBits * i \in Nat /\ NumBits - 1 \in Nat /\ NumBits - 1 <= MaxPower
        BY <1>1, <2>1
      <4> QED
        BY <2>5, <3>1, <4>1, PowersGrow DEF Power
    <3>3. r * p <= (Group - 1) * p /\ (Group - 1) * p = Group * p - p
      BY GroupFact
    <3>4. r * p < h
      BY <2>7, <3>2, <3>3, GroupFact
    <3>5. r \in Nat /\ r * 2^(GroupBits * (i - 1)) < 2^(NumBits - 1)
      BY <2>6, <3>1, <3>4
    <3>6. ShiftLeft(r, GroupBits * (i - 1)) = r * 2^(GroupBits * (i - 1))
      BY <2>5, <3>5, ShiftedWithin
    <3> QED
      BY <2>6, <3>6
  <2>10. g[i - 1] = x - l * p /\ g[i] = x - q * (Group * p)
    BY <2>1, <2>2, <2>3, <2>6, <2>7
  <2>11. x - l * p \in Int /\ r * p \in Int
    BY <1>1
  <2>12. Sum(x - l * p, r * p) = (x - l * p) + r * p
    BY <2>11, NumbersAssumption DEF Sum
  <2> QED
    BY <2>2, <2>3, <2>4, <2>6, <2>7, <2>8, <2>9, <2>10, <2>11, <2>12
<1>6. g = [i \in 0..last |-> ReadAt(g, b, i)]
  <2>1. g[0] = 0
    <3>1. GroupBits * 0 = 0
      BY <1>1
    <3>2. Power(0) = 1
      BY <3>1, NumberPowersAssumption DEF Power
    <3> QED
      BY <1>1, <1>2, <3>2
  <2>2. ASSUME NEW i \in 0..last PROVE g[i] = ReadAt(g, b, i)
    <3>1. CASE i = 0
      BY <2>1, <3>1 DEF ReadAt
    <3>2. CASE i /= 0
      <4>1. i \in 1..last
        BY <3>2
      <4> QED
        BY <1>5, <3>2, <4>1 DEF ReadAt
    <3> QED
      BY <3>1, <3>2
  <2>3. g = [i \in 0..last |-> g[i]]
    OBVIOUS
  <2> HIDE DEF g
  <2> QED
    BY <2>2, <2>3
<1>7. g[last] = x - f[last] * Power(last)
  BY <1>1
<1> HIDE DEF g
<1>8. Read(b) = [i \in 0..last |-> ReadAt(Read(b), b, i)]
  BY <1>3, <1>6 DEF Read
<1> DEFINE S == {i \in 0..last : Read(b)[i] = g[i]}
<1>9. 0 \in S
  <2>1. 0 \in 0..last
    BY <1>1
  <2> QED
    BY <1>6, <1>8, <2>1 DEF ReadAt
<1>10. ASSUME NEW i \in 0..(last - 1), i \in S PROVE i + 1 \in S
  <2>1. i + 1 \in 0..last /\ (i + 1) - 1 = i /\ i + 1 /= 0
    BY <1>1
  <2>2. Read(b)[i + 1] = ReadAt(Read(b), b, i + 1) /\ g[i + 1] = ReadAt(g, b, i + 1)
    BY <1>6, <1>8, <2>1
  <2>3. ReadAt(Read(b), b, i + 1) = ReadAt(g, b, i + 1)
    BY <1>10, <2>1 DEF ReadAt
  <2> QED
    BY <2>1, <2>2, <2>3
<1> HIDE DEF S
<1>11. 0..last \subseteq S
  BY <1>1, <1>9, <1>10, BoundedInduction
<1>12. last \in S
  BY <1>1, <1>11
<1> QED
  BY <1>7, <1>12 DEF S, f

(* The last group is the quotient with its sign.                           *)
LEMMA SignedGroup ==
    ASSUME NEW l \in Int, Small(l), NEW c, c = l % Group
    PROVE  (c % Half) - (c \div Half) * Half = l /\ c \in Nat /\ c < Group
<1>1. PICK h \in Nat \ {0} : h = Half
  BY GroupFact
<1>2. Group = 2 * h /\ -h <= l /\ l < h
  BY <1>1, GroupFact DEF Small
<1>3. CASE l >= 0
  <2>1. l \in 0..(Group - 1) /\ l \in 0..(h - 1) /\ Group \in Nat \ {0}
    BY <1>2, <1>3
  <2>2. c = l
    BY <2>1, SmallRemainder
  <2>3. l % h = l /\ l \div h = 0
    BY <2>1, SmallRemainder
  <2> QED
    BY <1>1, <1>2, <1>3, <2>2, <2>3
<1>4. CASE l < 0
  <2>1. PICK m \in Nat \ {0}, t \in Int, k \in Int : m = Group /\ t = l + 2 * h /\ k = -1
    BY <1>2
  <2>2. t \in 0..(m - 1) /\ m * k + t = l
    BY <1>2, <1>4, <2>1
  <2>3. c = l + 2 * h
    <3>1. (m * k + t) % m = t
      BY <2>2, RemainderIs
    <3> QED
      BY <2>1, <2>2, <3>1
  <2>4. PICK q \in Int : q = 1
    OBVIOUS
  <2>5. (h * q + (l + h)) % h = l + h /\ (h * q + (l + h)) \div h = q
    <3>1. l + h \in 0..(h - 1)
      BY <1>2, <1>4
    <3> QED
      BY <3>1, RemainderIs
  <2>6. c % h = l + h /\ c \div h = 1
    BY <2>3, <2>4, <2>5
  <2> QED
    BY <1>1, <1>2, <1>4, <2>3, <2>6
<1> QED
  BY <1>3, <1>4

(* A negative number is shifted as its absolute value, which may be one    *)
(* more than the greatest number of int.                                   *)
LEMMA NegativeShift ==
    ASSUME NEW v \in Nat, NEW s \in Nat, s < NumCBits, v * 2^s <= 2^(NumCBits - 1)
    PROVE  Negative(ShiftLeft(v, s)) = -(v * 2^s)
<1>1. s \in 0..MaxPower /\ NumCBits - 1 \in 0..MaxPower
  BY NumbersAssumption DEF MaxPower
<1>2. PICK p \in Nat \ {0} : p = 2^s
  BY <1>1, PowerPositive
<1>3. PICK h \in Nat \ {0} : h = 2^(NumCBits - 1)
  BY <1>1, PowerPositive
<1>4. PICK w \in Nat : w = v * p
  BY <1>2
<1>5. ShiftLeft(v, s) = CInt(w) /\ w <= h
  BY <1>2, <1>3, <1>4 DEF ShiftLeft
<1>6. CASE w < h
  <2>1. CInt(w) = w /\ CInt(-w) = -w
    BY <1>3, <1>4, <1>6, CIntWithin
  <2> QED
    BY <1>2, <1>4, <1>5, <2>1, NumbersAssumption DEF Negative
<1>7. CASE w = h
  <2>1. CInt(w) = -w
    BY <1>3, <1>7, CIntOfLimit
  <2>2. Negative(-w) = CInt(-(-w)) /\ -(-w) = w
    BY NumbersAssumption DEF Negative
  <2> QED
    BY <1>2, <1>4, <1>5, <2>1, <2>2
<1> QED
  BY <1>5, <1>6, <1>7

(* ReadNum computes the number that WriteNum was given.                    *)
LEMMA ValueOfBytes ==
    ASSUME NumBits <= NumCBits, NEW x \in Number
    PROVE  Value(Bytes(x)) = x
<1> DEFINE b == Bytes(x)
<1>1. PICK last \in 0..NumBits : Leading(x, last) /\ IsBytes(b, x, last)
  BY BytesFact
<1>2. /\ NumBits \in Nat \ {0} /\ GroupBits \in Nat \ {0} /\ NumCBits \in Nat \ {0} /\ x \in Int
      /\ MaxPower = GroupBits + NumBits + NumCBits
  BY NumbersAssumption DEF MaxPower, Number
<1>3. PICK l \in Int : l = Quotients(x)[last]
  BY <1>2, QuotientsFact
<1>4. PICK s \in Nat : s = GroupBits * last /\ s <= NumBits - 1
  BY <1>1, <1>2, QuotientBound DEF Leading
<1>5. PICK p \in Nat \ {0} : p = 2^s /\ p = Power(last)
  <2>1. s \in 0..MaxPower
    BY <1>2, <1>4
  <2> QED
    BY <1>4, <2>1, PowerPositive DEF Power
<1>6. x - l * p \in 0..(p - 1)
  BY <1>1, <1>3, <1>5, QuotientBound DEF Leading
<1>7. PICK h \in Nat \ {0} : h = 2^(NumBits - 1) /\ h <= 2^(NumCBits - 1)
  <2>1. NumBits - 1 \in 0..MaxPower /\ NumBits - 1 <= NumCBits - 1 /\ NumCBits - 1 \in Nat /\ NumCBits - 1 <= MaxPower
    BY <1>2
  <2> QED
    BY <2>1, PowerPositive, PowersGrow
<1>8. -h <= x /\ x < h
  BY <1>7 DEF Number
<1>9. Read(b)[last] = x - l * p
  BY <1>1, <1>3, <1>5, ReadFact
<1>10. PICK c : c = b[last + 1]
  OBVIOUS
<1>11. (c % Half) - (c \div Half) * Half = l
  <2>1. Small(l) /\ c = l % Group
    BY <1>1, <1>3, <1>10 DEF IsBytes, Leading
  <2> QED
    BY <2>1, SignedGroup
<1>12. Len(b) = last + 1 /\ Len(b) - 1 = last /\ b[Len(b)] = c
  BY <1>1, <1>10 DEF IsBytes
<1> HIDE DEF b
<1>13. Value(b) = Sum(Read(b)[last], IF l < 0 THEN Negative(ShiftLeft(-l, s)) ELSE ShiftLeft(l, s))
  BY <1>4, <1>11, <1>12 DEF Value, Read, ReadAt, Last
<1>14. CASE l >= 0
  <2>1. l * p >= 0 /\ l * p < h
    BY <1>2, <1>6, <1>8, <1>14
  <2>2. ShiftLeft(l, s) = l * p
    BY <1>4, <1>5, <1>7, <1>14, <2>1, ShiftedWithin
  <2>3. Sum(x - l * p, l * p) = (x - l * p) + l * p
    BY <1>2, NumbersAssumption DEF Sum
  <2> QED
    BY <1>2, <1>9, <1>13, <1>14, <2>2, <2>3 DEF b
<1>15. CASE l < 0
  <2>1. PICK m \in Nat \ {0} : m = 2^(NumBits - 1 - s) /\ h = p * m
    <3>1. NumBits - 1 - s \in 0..MaxPower /\ NumBits - 1 - s \in Nat /\ s + (NumBits - 1 - s) = NumBits - 1
          /\ s + (NumBits - 1 - s) <= MaxPower
      BY <1>2, <1>4
    <3>2. 2^(s + (NumBits - 1 - s)) = 2^s * 2^(NumBits - 1 - s)
      BY <3>1, PowerSum
    <3> QED
      BY <1>5, <1>7, <3>1, <3>2, PowerPositive
  <2>2. -l <= m
    <3>1. SUFFICES ASSUME -l >= m + 1 PROVE FALSE
      BY <2>1
    <3>2. (-l) * p >= (m + 1) * p
      BY <2>1, <3>1
    <3>3. (m + 1) * p = h + p /\ (-l) * p = -(l * p)
      BY <2>1
    <3> QED
      BY <1>2, <1>6, <1>7, <1>8, <3>2, <3>3
  <2>3. -l \in Nat /\ (-l) * p <= h /\ (-l) * p = -(l * p)
    <3>1. (-l) * p <= m * p /\ m * p = h
      BY <1>15, <2>1, <2>2
    <3> QED
      BY <1>15, <3>1
  <2>4. Negative(ShiftLeft(-l, s)) = -((-l) * p)
    <3>1. s < NumCBits
      BY <1>2, <1>4
    <3>2. (-l) * 2^s <= 2^(NumCBits - 1)
      <4>1. 2^(NumCBits - 1) \in Int
        <5>1. NumCBits - 1 \in 0..MaxPower
          BY <1>2
        <5> QED
          BY <5>1, PowerPositive
      <4> QED
        BY <1>5, <1>7, <2>3, <4>1
    <3> QED
      BY <1>5, <2>3, <3>1, <3>2, NegativeShift
  <2>5. -((-l) * p) = l * p /\ l * p \in Int /\ x - l * p \in Int /\ (x - l * p) + l * p = x
    BY <1>2, <2>3
  <2>6. Sum(x - l * p, l * p) = (x - l * p) + l * p
    BY <2>5, NumbersAssumption DEF Sum
  <2> QED
    BY <1>9, <1>13, <1>15, <2>4, <2>5, <2>6 DEF b
<1> QED
  BY <1>14, <1>15

-----------------------------------------------------------------------------
(* The file. Behind the numbers written entirely there are only the first  *)
(* bytes of one that was cut off, each with its highest bit set; at says   *)
(* where the numbers begin and end. The reader is at the end of the last   *)
(* number it has read, or at the end of the file behind a number that was  *)
(* cut off.                                                                *)
Size(x) == Len(Bytes(x))

Laid(at, t, xs) ==
    /\ at \in [0..Len(xs) -> Nat] /\ at[0] = 0 /\ at[Len(xs)] <= Len(t)
    /\ \A i \in 1..Len(xs) :
          /\ at[i] = at[i - 1] + Size(xs[i])
          /\ \A j \in 1..Size(xs[i]) : t[at[i - 1] + j] = Bytes(xs[i])[j]

CutOff(at, t, xs, isFull) ==
    /\ \A j \in (at[Len(xs)] + 1)..Len(t) : t[j] >= Group
    /\ ~isFull => at[Len(xs)] = Len(t)

HasRead(at, t, xs, isFull, place, end, ys) ==
    /\ ys \in Seq(Number) /\ Len(ys) <= Len(xs) /\ \A i \in 1..Len(ys) : ys[i] = xs[i]
    /\ \/ place = at[Len(ys)]
       \/ place = Len(t) /\ Len(ys) = Len(xs) /\ end /\ isFull

FileFits(at, t, xs, isFull, place, end, ys) ==
    /\ t \in Seq(Nat) /\ xs \in Seq(Number) /\ isFull \in BOOLEAN
    /\ Laid(at, t, xs) /\ CutOff(at, t, xs, isFull) /\ HasRead(at, t, xs, isFull, place, end, ys)

NumbersInv == \E at : FileFits(at, text, numbers, full, pos, eof, got)

(* The bytes of one number.                                                *)
LEMMA SizeFact ==
    ASSUME NEW x \in Number
    PROVE  /\ Bytes(x) \in Seq(Nat) /\ Size(x) \in Nat \ {0} /\ Bytes(x)[Size(x)] < Group
           /\ \A i \in 1..(Size(x) - 1) : Bytes(x)[i] >= Group
<1>1. PICK last \in 0..NumBits : Leading(x, last) /\ IsBytes(Bytes(x), x, last)
  BY BytesFact
<1>2. x \in Int /\ NumBits \in Nat
  BY NumbersAssumption DEF Number
<1>3. \A i \in 0..NumBits : Quotients(x)[i] % Group \in 0..(Group - 1)
  BY <1>2, QuotientsFact, GroupFact, DivisionFact
<1>4. Size(x) = last + 1
  BY <1>1 DEF Size, IsBytes
<1>5. Bytes(x)[last + 1] < Group
  <2>1. Quotients(x)[last] % Group \in 0..(Group - 1)
    BY <1>3
  <2> QED
    BY <1>1, <2>1, GroupFact DEF IsBytes
<1>6. ASSUME NEW i \in 1..last PROVE Bytes(x)[i] >= Group
  <2>1. i - 1 \in 0..NumBits
    BY <1>2
  <2>2. Quotients(x)[i - 1] % Group \in 0..(Group - 1)
    BY <1>3, <2>1
  <2> QED
    BY <1>1, <2>2, GroupFact DEF IsBytes
<1> QED
  BY <1>1, <1>2, <1>4, <1>5, <1>6 DEF IsBytes

(* The numbers are one behind the other.                                   *)
LEMMA LaidInOrder ==
    ASSUME NEW at, NEW t \in Seq(Nat), NEW xs \in Seq(Number), Laid(at, t, xs),
           NEW m \in 0..Len(xs)
    PROVE  at[m] \in Nat /\ at[m] <= at[Len(xs)]
<1> DEFINE n == Len(xs)
           S == {k \in 0..(n - m) : at[m] <= at[m + k]}
<1>1. n \in Nat /\ \A i \in 0..n : at[i] \in Nat
  <2>1. at \in [0..n -> Nat]
    BY DEF Laid
  <2> QED
    BY <2>1
<1>2. 0 \in S
  BY <1>1
<1>3. ASSUME NEW k \in 0..(n - m - 1), k \in S PROVE k + 1 \in S
  <2>1. m + k \in 0..n /\ m + (k + 1) \in 1..n /\ (m + (k + 1)) - 1 = m + k /\ k + 1 \in 0..(n - m)
    BY <1>1
  <2>2. at[m + (k + 1)] = at[m + k] + Size(xs[m + (k + 1)])
    BY <2>1 DEF Laid
  <2>3. Size(xs[m + (k + 1)]) \in Nat
    <3>1. xs[m + (k + 1)] \in Number
      BY <2>1
    <3> QED
      BY <3>1, SizeFact
  <2>4. at[m] <= at[m + k] /\ at[m] \in Nat /\ at[m + k] \in Nat
    BY <1>1, <1>3, <2>1
  <2> QED
    BY <2>1, <2>2, <2>3, <2>4
<1> HIDE DEF S
<1>4. 0..(n - m) \subseteq S
  <2>1. n - m \in Nat
    BY <1>1
  <2> QED
    BY <1>2, <1>3, <2>1, BoundedInduction
<1>5. n - m \in S /\ m + (n - m) = n
  BY <1>1, <1>4
<1> QED
  BY <1>1, <1>5 DEF S

(* The last byte of a number tells its end, in the file too.               *)
LEMMA LastByte ==
    ASSUME NEW at, NEW t \in Seq(Nat), NEW xs \in Seq(Number), Laid(at, t, xs),
           NEW i \in 1..Len(xs)
    PROVE  at[i] \in Nat /\ at[i - 1] < at[i] /\ t[at[i]] < Group
<1>1. xs[i] \in Number /\ i \in 0..Len(xs) /\ i - 1 \in 0..Len(xs)
  OBVIOUS
<1>2. Size(xs[i]) \in Nat \ {0} /\ Bytes(xs[i])[Size(xs[i])] < Group
  BY <1>1, SizeFact
<1>3. /\ at[i] = at[i - 1] + Size(xs[i]) /\ at[i - 1] \in Nat
      /\ \A j \in 1..Size(xs[i]) : t[at[i - 1] + j] = Bytes(xs[i])[j]
  BY <1>1 DEF Laid
<1>4. t[at[i - 1] + Size(xs[i])] = Bytes(xs[i])[Size(xs[i])]
  BY <1>2, <1>3
<1> QED
  BY <1>2, <1>3, <1>4

(* The invariant says what the property does.                              *)
LEMMA InvReadsBack == ASSUME NumbersInv PROVE NumbersReadBack
<1>1. PICK at : FileFits(at, text, numbers, full, pos, eof, got)
  BY DEF NumbersInv
<1>2. /\ text \in Seq(Nat) /\ numbers \in Seq(Number) /\ got \in Seq(Number) /\ Laid(at, text, numbers)
      /\ Len(got) <= Len(numbers) /\ \A i \in 1..Len(got) : got[i] = numbers[i]
  BY <1>1 DEF FileFits, HasRead
<1>3. PICK n \in Nat : n = Len(got)
  BY <1>2
<1>4. IsPrefix(got, numbers)
  <2>1. SubSeq(got, 1, n) = got
    BY <1>2, <1>3
  <2>2. SubSeq(numbers, 1, n) = got
    BY <1>2, <1>3
  <2> QED
    BY <1>2, <1>3, <2>1, <2>2 DEF IsPrefix
<1>5. Len(got) = Len(numbers) => got = numbers
  BY <1>2
<1>6. ASSUME pos = Len(text) PROVE got = numbers
  <2>1. CASE pos = at[n]
    <3>1. SUFFICES ASSUME n < Len(numbers) PROVE FALSE
      BY <1>2, <1>3, <1>5
    <3>2. n + 1 \in 1..Len(numbers) /\ (n + 1) - 1 = n /\ n + 1 \in 0..Len(numbers)
      BY <1>2, <1>3, <3>1
    <3>3. at[n] < at[n + 1] /\ at[n + 1] \in Nat
      BY <1>2, <3>2, LastByte
    <3>4. at[n + 1] <= at[Len(numbers)]
      BY <1>2, <3>2, LaidInOrder
    <3>5. at[Len(numbers)] <= Len(text) /\ at[n] \in Nat /\ at[Len(numbers)] \in Nat
      BY <1>2, <1>3 DEF Laid
    <3> QED
      BY <1>6, <2>1, <3>3, <3>4, <3>5
  <2>2. CASE Len(got) = Len(numbers)
    BY <1>5, <2>2
  <2> QED
    BY <1>1, <1>3, <2>1, <2>2 DEF FileFits, HasRead
<1>7. ASSUME pos = Len(text), pos > 0, text[pos] >= Group PROVE eof
  <2>1. SUFFICES ASSUME pos = at[n] PROVE FALSE
    BY <1>1, <1>3 DEF FileFits, HasRead
  <2>2. n /= 0
    BY <1>2, <1>7, <2>1 DEF Laid
  <2>3. n \in 1..Len(numbers)
    BY <1>2, <1>3, <2>2
  <2>4. text[at[n]] < Group
    BY <1>2, <2>3, LastByte
  <2>5. text[pos] \in Nat
    BY <1>2, <1>7
  <2> QED
    BY <1>7, <2>1, <2>4, <2>5, GroupFact
<1> QED
  BY <1>4, <1>6, <1>7 DEF NumbersReadBack

(* Writing. The first k bytes of a number are added to the text t.         *)
LEMMA TextGrows ==
    ASSUME NEW t \in Seq(Nat), NEW b \in Seq(Nat), NEW k \in 0..Len(b), NEW u, u = t \o SubSeq(b, 1, k)
    PROVE  /\ u \in Seq(Nat) /\ Len(u) = Len(t) + k
           /\ \A j \in 1..Len(t) : u[j] = t[j]
           /\ \A j \in 1..k : u[Len(t) + j] = b[j]
<1> DEFINE w == SubSeq(b, 1, k)
<1>1. w \in Seq(Nat) /\ Len(w) = k /\ \A j \in 1..k : w[j] = b[j]
  <2>1. /\ SubSeq(b, 1, k) \in Seq(Nat) /\ Len(SubSeq(b, 1, k)) = IF 1 <= k THEN k - 1 + 1 ELSE 0
        /\ \A i \in 1..(k - 1 + 1) : SubSeq(b, 1, k)[i] = b[1 + i - 1]
    BY SubIs
  <2> QED
    BY <2>1
<1> HIDE DEF w
<1>2. PICK n \in Nat : n = Len(t)
  OBVIOUS
<1>3. u = t \o w
  BY DEF w
<1>4. /\ u \in Seq(Nat) /\ Len(u) = n + k
      /\ \A i \in 1..(n + k) : u[i] = IF i <= n THEN t[i] ELSE w[i - n]
  BY <1>1, <1>2, <1>3, ConcatProperties
<1>5. ASSUME NEW j \in 1..n PROVE u[j] = t[j]
  BY <1>1, <1>2, <1>4
<1>6. ASSUME NEW j \in 1..k PROVE u[n + j] = b[j]
  <2>1. n + j \in 1..(n + k) /\ ~(n + j <= n) /\ (n + j) - n = j
    BY <1>2
  <2> QED
    BY <1>1, <1>4, <2>1
<1> QED
  BY <1>2, <1>4, <1>5, <1>6

(* What was laid out stays where it is.                                    *)
LEMMA LaidStays ==
    ASSUME NEW at, NEW t \in Seq(Nat), NEW xs \in Seq(Number), Laid(at, t, xs),
           NEW u \in Seq(Nat), Len(t) <= Len(u), \A j \in 1..Len(t) : u[j] = t[j]
    PROVE  Laid(at, u, xs)
<1>1. ASSUME NEW i \in 1..Len(xs), NEW j \in 1..Size(xs[i])
      PROVE  u[at[i - 1] + j] = Bytes(xs[i])[j]
  <2>1. i \in 0..Len(xs) /\ xs[i] \in Number /\ i - 1 \in 0..Len(xs)
    OBVIOUS
  <2>2. Size(xs[i]) \in Nat \ {0}
    BY <2>1, SizeFact
  <2>3. /\ at[i] = at[i - 1] + Size(xs[i]) /\ t[at[i - 1] + j] = Bytes(xs[i])[j]
        /\ at[Len(xs)] <= Len(t)
    BY DEF Laid
  <2>4. at[i] <= at[Len(xs)] /\ at[i] \in Nat /\ at[i - 1] \in Nat
    BY <2>1, LaidInOrder
  <2>5. at[Len(xs)] \in Nat
    <3>1. Len(xs) \in 0..Len(xs)
      OBVIOUS
    <3> QED
      BY <3>1, LaidInOrder
  <2>6. at[i - 1] + j \in 1..Len(t)
    <3>1. at[i - 1] + j <= at[i] /\ at[i - 1] + j \in Nat \ {0}
      <4>1. PICK s \in Nat \ {0} : s = Size(xs[i])
        BY <2>2
      <4>2. at[i] = at[i - 1] + s /\ j \in 1..s
        BY <2>3, <4>1
      <4> QED
        BY <2>4, <4>2
    <3>2. at[i - 1] + j <= Len(t)
      BY <2>3, <2>4, <2>5, <3>1
    <3> QED
      BY <3>1, <3>2
  <2> QED
    BY <2>3, <2>6
<1>2. at[Len(xs)] <= Len(u)
  <2>1. at[Len(xs)] <= Len(t) /\ at \in [0..Len(xs) -> Nat]
    BY DEF Laid
  <2>2. at[Len(xs)] \in Nat
    BY <2>1
  <2> QED
    BY <2>1, <2>2
<1> QED
  BY <1>1, <1>2 DEF Laid

LEMMA WriteKeeps ==
    ASSUME NumbersInv, NEW x \in Number, WriteNum(x)
    PROVE  NumbersInv'
<1>1. PICK at : FileFits(at, text, numbers, full, pos, eof, got)
  BY DEF NumbersInv
<1> DEFINE b == Bytes(x)
<1>2. PICK k \in 0..Len(b) : /\ text' = text \o SubSeq(b, 1, k)
                             /\ full' = (k < Len(b))
                             /\ numbers' = IF k = Len(b) THEN Append(numbers, x) ELSE numbers
  BY DEF WriteNum
<1>3. ~full /\ pos' = pos /\ eof' = eof /\ got' = got
  BY DEF WriteNum
<1>4. /\ text \in Seq(Nat) /\ numbers \in Seq(Number) /\ Laid(at, text, numbers)
      /\ at[Len(numbers)] = Len(text)
  BY <1>1, <1>3 DEF FileFits, CutOff
<1>5. PICK n \in Nat, l \in Nat : n = Len(text) /\ l = Len(numbers) /\ at[l] = n
  BY <1>4
<1>6. HasRead(at, text, numbers, full, pos, eof, got)
  BY <1>1 DEF FileFits
<1>7. /\ got \in Seq(Number) /\ Len(got) <= l /\ \A i \in 1..Len(got) : got[i] = numbers[i]
      /\ pos = at[Len(got)]
  BY <1>3, <1>5, <1>6 DEF HasRead
<1>8. /\ b \in Seq(Nat) /\ Len(b) \in Nat \ {0} /\ Size(x) = Len(b)
      /\ \A i \in 1..(Len(b) - 1) : b[i] >= Group
  BY SizeFact DEF Size
<1> HIDE DEF b
<1>9. /\ text' \in Seq(Nat) /\ Len(text') = n + k
      /\ \A j \in 1..n : text'[j] = text[j]
      /\ \A j \in 1..k : text'[n + j] = b[j]
  BY <1>2, <1>4, <1>5, <1>8, TextGrows
<1>10. Laid(at, text', numbers)
  <2>1. Len(text) <= Len(text') /\ \A j \in 1..Len(text) : text'[j] = text[j]
    BY <1>5, <1>9
  <2> QED
    BY <1>4, <1>9, <2>1, LaidStays
<1>11. CASE k < Len(b)
  <2>1. full' = TRUE /\ numbers' = numbers
    <3>1. k /= Len(b)
      BY <1>8, <1>11
    <3> QED
      BY <1>2, <1>11, <3>1, Zenon
  <2>2. ASSUME NEW j \in (n + 1)..(n + k) PROVE text'[j] >= Group
    <3>1. j - n \in 1..k /\ n + (j - n) = j /\ j - n \in 1..(Len(b) - 1)
      BY <1>8, <1>11
    <3>2. text'[j] = b[j - n]
      BY <1>9, <3>1
    <3> QED
      BY <1>8, <3>1, <3>2
  <2>3. CutOff(at, text', numbers', full')
    BY <1>5, <1>9, <2>1, <2>2 DEF CutOff
  <2>4. HasRead(at, text', numbers', full', pos', eof', got')
    BY <1>3, <1>5, <1>7, <2>1 DEF HasRead
  <2>5. FileFits(at, text', numbers', full', pos', eof', got')
    BY <1>4, <1>9, <1>10, <2>1, <2>3, <2>4 DEF FileFits
  <2> QED
    BY <2>5 DEF NumbersInv
<1>12. CASE k = Len(b)
  <2> DEFINE to == [i \in 0..(l + 1) |-> IF i = l + 1 THEN n + k ELSE at[i]]
  <2>1. full' = FALSE /\ numbers' = Append(numbers, x)
    <3>1. (k < Len(b)) = FALSE
      BY <1>8, <1>12
    <3>2. full' = FALSE
      BY <1>2, <3>1
    <3> QED
      BY <1>2, <1>12, <3>2, Zenon
  <2>2. /\ numbers' \in Seq(Number) /\ Len(numbers') = l + 1
        /\ \A i \in 1..l : numbers'[i] = numbers[i]
        /\ numbers'[l + 1] = x
    BY <1>4, <1>5, <2>1, AppendProperties
  <2>3. at \in [0..l -> Nat] /\ at[0] = 0
    BY <1>4, <1>5 DEF Laid
  <2>4. to \in [0..(l + 1) -> Nat] /\ to[l + 1] = n + k /\ \A i \in 0..l : to[i] = at[i]
    BY <2>3
  <2> HIDE DEF to
  <2>5. ASSUME NEW i \in 1..(l + 1)
        PROVE  /\ to[i] = to[i - 1] + Size(numbers'[i])
               /\ \A j \in 1..Size(numbers'[i]) : text'[to[i - 1] + j] = Bytes(numbers'[i])[j]
    <3>1. CASE i = l + 1
      <4>1. to[i - 1] = n /\ i - 1 = l
        BY <1>5, <2>4, <3>1
      <4>2. Size(numbers'[i]) = k /\ Bytes(numbers'[i]) = b
        BY <1>8, <1>12, <2>2, <3>1 DEF b
      <4> QED
        BY <1>9, <2>4, <3>1, <4>1, <4>2
    <3>2. CASE i \in 1..l
      <4>1. to[i] = at[i] /\ to[i - 1] = at[i - 1] /\ numbers'[i] = numbers[i]
        BY <2>2, <2>4, <3>2
      <4>2. /\ at[i] = at[i - 1] + Size(numbers[i])
            /\ \A j \in 1..Size(numbers[i]) : text'[at[i - 1] + j] = Bytes(numbers[i])[j]
        BY <1>5, <1>10, <3>2 DEF Laid
      <4> QED
        BY <4>1, <4>2
    <3> QED
      BY <3>1, <3>2
  <2>6. Laid(to, text', numbers')
    BY <1>9, <2>2, <2>3, <2>4, <2>5 DEF Laid
  <2>7. CutOff(to, text', numbers', full')
    BY <1>9, <2>2, <2>4 DEF CutOff
  <2>8. HasRead(to, text', numbers', full', pos', eof', got')
    <3>1. Len(got) \in 0..l /\ Len(got) <= l + 1
      BY <1>7
    <3>2. pos' = to[Len(got')]
      BY <1>3, <1>7, <2>4, <3>1
    <3>3. \A i \in 1..Len(got) : got[i] = numbers'[i]
      BY <1>7, <2>2, <3>1
    <3> QED
      BY <1>3, <1>7, <2>2, <3>1, <3>2, <3>3 DEF HasRead
  <2>9. FileFits(to, text', numbers', full', pos', eof', got')
    BY <1>9, <2>1, <2>2, <2>6, <2>7, <2>8 DEF FileFits
  <2> QED
    BY <2>9 DEF NumbersInv
<1> QED
  BY <1>8, <1>11, <1>12

(* Reading.                                                                *)
LEMMA SetRiderKeeps == ASSUME NumbersInv, SetRider PROVE NumbersInv'
<1>1. PICK at : FileFits(at, text, numbers, full, pos, eof, got)
  BY DEF NumbersInv
<1>2. /\ pos' = 0 /\ eof' = FALSE /\ got' = <<>>
      /\ text' = text /\ numbers' = numbers /\ full' = full
  BY DEF SetRider
<1>3. got' \in Seq(Number) /\ Len(got') = 0 /\ at[0] = 0 /\ Len(numbers) \in Nat
  BY <1>1, <1>2 DEF FileFits, Laid
<1>4. HasRead(at, text, numbers, full, pos', eof', got')
  BY <1>2, <1>3 DEF HasRead
<1>5. FileFits(at, text', numbers', full', pos', eof', got')
  BY <1>1, <1>2, <1>4 DEF FileFits
<1> QED
  BY <1>5 DEF NumbersInv

LEMMA RestFact ==
    ASSUME NEW t \in Seq(Nat), NEW place \in 0..Len(t), NEW rest, rest = SubSeq(t, place + 1, Len(t))
    PROVE  /\ rest \in Seq(Nat) /\ Len(rest) = Len(t) - place
           /\ \A i \in 1..(Len(t) - place) : rest[i] = t[place + i]
<1>1. PICK n \in Nat : n = Len(t)
  OBVIOUS
<1>2. place + 1 \in Nat \ {0} /\ n \in Int /\ n <= Len(t)
  BY <1>1
<1>3. /\ rest \in Seq(Nat) /\ Len(rest) = IF place + 1 <= n THEN n - (place + 1) + 1 ELSE 0
      /\ \A i \in 1..(n - (place + 1) + 1) : rest[i] = t[place + 1 + i - 1]
  <2>1. /\ SubSeq(t, place + 1, n) \in Seq(Nat)
        /\ Len(SubSeq(t, place + 1, n)) = IF place + 1 <= n THEN n - (place + 1) + 1 ELSE 0
        /\ \A i \in 1..(n - (place + 1) + 1) : SubSeq(t, place + 1, n)[i] = t[place + 1 + i - 1]
    BY <1>2, SubIs
  <2> QED
    BY <1>1, <2>1
<1>4. n - (place + 1) + 1 = n - place
  BY <1>1
<1>5. ASSUME NEW i \in 1..(n - place) PROVE rest[i] = t[place + i]
  <2>1. place + 1 + i - 1 = place + i
    OBVIOUS
  <2> QED
    BY <1>3, <1>4, <2>1
<1>6. Len(rest) = n - place
  <2>1. place <= n
    BY <1>1
  <2> QED
    BY <1>1, <1>3, <2>1
<1> QED
  BY <1>1, <1>3, <1>5, <1>6

LEMMA ReadKeeps == ASSUME NumBits <= NumCBits, NumbersInv, ReadNum PROVE NumbersInv'
<1>1. PICK at : FileFits(at, text, numbers, full, pos, eof, got)
  BY DEF NumbersInv
<1>2. /\ text \in Seq(Nat) /\ numbers \in Seq(Number) /\ Laid(at, text, numbers)
      /\ CutOff(at, text, numbers, full) /\ HasRead(at, text, numbers, full, pos, eof, got)
  BY <1>1 DEF FileFits
<1>3. PICK n \in Nat, l \in Nat, m \in Nat : n = Len(text) /\ l = Len(numbers) /\ m = Len(got) /\ m <= l
  BY <1>2 DEF HasRead
<1>4. at \in [0..l -> Nat] /\ at[l] <= n
  BY <1>2, <1>3 DEF Laid
<1>5. pos \in 0..n
  <2>1. CASE pos = at[m]
    <3>1. at[m] <= at[l] /\ at[m] \in Nat /\ at[l] \in Nat
      BY <1>2, <1>3, LaidInOrder
    <3> QED
      BY <1>4, <2>1, <3>1
  <2>2. CASE pos = n
    BY <2>2
  <2> QED
    BY <1>2, <1>3, <2>1, <2>2 DEF HasRead
<1> DEFINE rest == SubSeq(text, pos + 1, Len(text))
           ends == {i \in DOMAIN rest : rest[i] < Group}
<1>6. /\ IF ends = {}
         THEN pos' = Len(text) /\ eof' = TRUE /\ got' = got
         ELSE /\ pos' = pos + Min(ends)
              /\ got' = Append(got, Value(SubSeq(rest, 1, Min(ends))))
              /\ eof' = eof
      /\ text' = text /\ numbers' = numbers /\ full' = full
  BY DEF ReadNum
<1>7. /\ rest \in Seq(Nat) /\ Len(rest) = n - pos
      /\ \A i \in 1..(n - pos) : rest[i] = text[pos + i]
  BY <1>2, <1>3, <1>5, RestFact
<1> HIDE DEF rest
<1>8. DOMAIN rest = 1..(n - pos)
  BY <1>5, <1>7
<1>9. CASE pos = at[m] /\ m < l
  <2>1. m + 1 \in 1..l /\ (m + 1) - 1 = m /\ m + 1 \in 0..l /\ numbers[m + 1] \in Number
    BY <1>2, <1>3, <1>9
  <2>2. PICK x \in Number : x = numbers[m + 1]
    BY <2>1
  <2>3. PICK k \in Nat \ {0} : k = Size(x) /\ k = Len(Bytes(x))
    BY SizeFact DEF Size
  <2>4. at[m + 1] = pos + k /\ \A j \in 1..k : text[pos + j] = Bytes(x)[j]
    <3>1. /\ at[m + 1] = at[(m + 1) - 1] + Size(numbers[m + 1])
          /\ \A j \in 1..Size(numbers[m + 1]) : text[at[(m + 1) - 1] + j] = Bytes(numbers[m + 1])[j]
      BY <1>2, <1>3, <2>1 DEF Laid
    <3> QED
      BY <1>9, <2>1, <2>2, <2>3, <3>1
  <2>5. pos + k <= n
    <3>1. at[m + 1] <= at[l] /\ at[m + 1] \in Nat /\ at[l] \in Nat
      BY <1>2, <1>3, <2>1, LaidInOrder
    <3> QED
      BY <1>4, <2>4, <3>1
  <2>6. \A j \in 1..k : j \in 1..(n - pos) /\ rest[j] = Bytes(x)[j]
    BY <1>5, <1>7, <2>4, <2>5
  <2>7. Bytes(x) \in Seq(Nat) /\ Bytes(x)[k] < Group /\ \A i \in 1..(k - 1) : Bytes(x)[i] >= Group
    BY <2>3, SizeFact
  <2>8. k \in ends
    BY <1>8, <2>6, <2>7
  <2>9. ends \in SUBSET Nat
    BY <1>5, <1>8
  <2>10. PICK e : e = Min(ends) /\ e \in ends /\ \A i \in ends : e <= i
    BY <2>8, <2>9, LeastElement
  <2>11. e = k
    <3>1. e <= k /\ e \in 1..(n - pos) /\ rest[e] < Group /\ rest[e] \in Nat
      BY <1>7, <1>8, <2>8, <2>10
    <3>2. SUFFICES ASSUME e < k PROVE FALSE
      BY <3>1
    <3>3. e \in 1..(k - 1) /\ e \in 1..k
      BY <3>1, <3>2
    <3>4. rest[e] >= Group
      BY <2>6, <2>7, <3>3
    <3> QED
      BY <3>1, <3>4, GroupFact
  <2>12. SubSeq(rest, 1, k) = Bytes(x)
    <3>1. k <= Len(rest)
      BY <1>5, <1>7, <2>5
    <3>2. /\ SubSeq(rest, 1, k) \in Seq(Nat) /\ Len(SubSeq(rest, 1, k)) = IF 1 <= k THEN k - 1 + 1 ELSE 0
          /\ \A i \in 1..(k - 1 + 1) : SubSeq(rest, 1, k)[i] = rest[1 + i - 1]
      BY <1>7, <3>1, SubIs
    <3>3. Len(SubSeq(rest, 1, k)) = k /\ \A i \in 1..k : SubSeq(rest, 1, k)[i] = Bytes(x)[i]
      BY <2>6, <3>2
    <3> QED
      BY <2>3, <2>7, <3>2, <3>3
  <2>13. ends /= {}
    BY <2>8
  <2> HIDE DEF ends
  <2>14. pos' = at[m + 1] /\ got' = Append(got, x) /\ eof' = eof
    BY <1>6, <2>4, <2>10, <2>11, <2>12, <2>13, ValueOfBytes
  <2>15. got \in Seq(Number) /\ \A i \in 1..m : got[i] = numbers[i]
    BY <1>2, <1>3 DEF HasRead
  <2>16. /\ got' \in Seq(Number) /\ Len(got') = m + 1 /\ \A i \in 1..m : got'[i] = got[i]
         /\ got'[m + 1] = x
    BY <1>3, <2>14, <2>15, AppendProperties
  <2>17. \A i \in 1..(m + 1) : got'[i] = numbers[i]
    BY <2>2, <2>15, <2>16
  <2>18. HasRead(at, text, numbers, full, pos', eof', got')
    BY <1>3, <2>1, <2>14, <2>16, <2>17 DEF HasRead
  <2>19. FileFits(at, text', numbers', full', pos', eof', got')
    BY <1>1, <1>6, <2>18 DEF FileFits
  <2> QED
    BY <2>19 DEF NumbersInv
<1>10. CASE ~(pos = at[m] /\ m < l)
  <2>1. m = l /\ (pos = at[l] \/ pos = n)
    BY <1>2, <1>3, <1>10 DEF HasRead
  <2>2. ASSUME NEW i \in 1..(n - pos) PROVE rest[i] >= Group
    <3>1. pos = at[l] /\ pos + i \in (at[l] + 1)..n
      BY <1>4, <1>5, <2>1
    <3>2. text[pos + i] >= Group
      BY <1>2, <1>3, <3>1 DEF CutOff
    <3> QED
      BY <1>7, <3>2
  <2>3. ends = {}
    <3>1. SUFFICES ASSUME NEW i \in ends PROVE FALSE
      OBVIOUS
    <3>2. i \in 1..(n - pos) /\ rest[i] < Group /\ rest[i] \in Nat
      BY <1>7, <1>8
    <3> QED
      BY <2>2, <3>2, GroupFact
  <2> HIDE DEF ends
  <2>4. pos' = n /\ eof' = TRUE /\ got' = got
    BY <1>3, <1>6, <2>3
  <2>5. full \/ at[l] = n
    BY <1>2, <1>3 DEF CutOff
  <2>6. full \in BOOLEAN
    BY <1>1 DEF FileFits
  <2>7. HasRead(at, text, numbers, full, pos', eof', got')
    BY <1>2, <1>3, <2>1, <2>4, <2>5, <2>6 DEF HasRead
  <2>8. FileFits(at, text', numbers', full', pos', eof', got')
    BY <1>1, <1>6, <2>7 DEF FileFits
  <2> QED
    BY <2>8 DEF NumbersInv
<1> QED
  BY <1>9, <1>10

LEMMA NumbersStart == ASSUME NumbersInit PROVE NumbersInv
<1> DEFINE at == [i \in 0..0 |-> 0]
<1>1. text = <<>> /\ numbers = <<>> /\ full = FALSE /\ pos = 0 /\ eof = FALSE /\ got = <<>>
  BY DEF NumbersInit
<1>2. text \in Seq(Nat) /\ numbers \in Seq(Number) /\ got \in Seq(Number) /\ Len(text) = 0
      /\ Len(numbers) = 0 /\ Len(got) = 0
  BY <1>1
<1>3. at \in [0..0 -> Nat] /\ at[0] = 0
  OBVIOUS
<1> HIDE DEF at
<1>4. Laid(at, text, numbers) /\ CutOff(at, text, numbers, full)
  BY <1>2, <1>3 DEF Laid, CutOff
<1>5. HasRead(at, text, numbers, full, pos, eof, got)
  BY <1>1, <1>2, <1>3 DEF HasRead
<1> QED
  BY <1>1, <1>2, <1>4, <1>5 DEF NumbersInv, FileFits

(* What ReadNum delivers is what WriteNum was given, each number once and  *)
(* in this order, however many bits an INTEGER has, if int has as many; of *)
(* a number that was cut off nothing is delivered, and the reader is told  *)
(* of the end of the file.                                                 *)
THEOREM NumbersComeBack ==
    ASSUME NumBits <= NumCBits
    PROVE  NumbersSpec => []NumbersReadBack
<1>1. NumbersInit => NumbersInv
  BY NumbersStart
<1>2. NumbersInv /\ [NumbersNext]_numberVars => NumbersInv'
  <2>1. SUFFICES ASSUME NumbersInv, [NumbersNext]_numberVars PROVE NumbersInv'
    OBVIOUS
  <2>2. ASSUME NEW x \in Number, WriteNum(x) PROVE NumbersInv'
    BY <2>1, <2>2, WriteKeeps
  <2>3. ASSUME ReadNum PROVE NumbersInv'
    BY <2>1, <2>3, ReadKeeps
  <2>4. ASSUME SetRider PROVE NumbersInv'
    BY <2>1, <2>4, SetRiderKeeps
  <2>5. ASSUME UNCHANGED numberVars PROVE NumbersInv'
    BY <2>1, <2>5 DEF numberVars, NumbersInv
  <2> QED
    BY <2>1, <2>2, <2>3, <2>4, <2>5 DEF NumbersNext
<1>3. NumbersInv => NumbersReadBack
  BY InvReadsBack
<1> QED
  BY <1>1, <1>2, <1>3, PTL DEF NumbersSpec
================================================================================
