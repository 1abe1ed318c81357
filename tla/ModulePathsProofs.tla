--------------------------- MODULE ModulePathsProofs ---------------------------
(***************************************************************************)
(* Proof that the tools which search for modules mean the same ones, for   *)
(* any directories, search path, modules and import lists; each theorem    *)
(* says what it takes of these for granted.                                *)
(*                                                                         *)
(* The argument: what a search finds is a function of the places that have *)
(* files, and during a build these stay the same, since files are made     *)
(* only of what has some. In an absolute search path obnc, which searches  *)
(* from its own directory for the path of the importing module, and        *)
(* obnc-compile, which searches in that module's directory, find the same  *)
(* place; a path is determined by the directory at its end, so that a      *)
(* module is met once. What is off the path of the traversal has all of    *)
(* its imports met, so that what is linked is closed under imports, and    *)
(* what is made of it is of the present import list. What the C compiler   *)
(* reads has one header of each name; that of the first import is read     *)
(* before any other, and a name that is imported elsewhere belongs to one  *)
(* place.                                                                  *)
(***************************************************************************)
EXTENDS ModulePaths, FiniteSetTheorems, FunctionTheorems, SequenceTheorems, WellFoundedInduction, TLAPS

-----------------------------------------------------------------------------
(* Of numbers.                                                             *)
LEMMA SetInduction ==
    ASSUME NEW S, 0 \in S, \A n \in Nat : n \in S => n + 1 \in S
    PROVE  Nat \subseteq S
<1> DEFINE R == OpToRel(<, Nat)
<1>1. IsWellFoundedOn(R, Nat)
    BY NatLessThanWellFounded
<1>2. \A y, x \in Nat : y < x => <<y, x>> \in R
    BY DEF OpToRel
<1> HIDE DEF R
<1> SUFFICES ASSUME Nat \ S /= {} PROVE FALSE
    OBVIOUS
<1>3. PICK x \in Nat \ S : \A y \in Nat \ S : ~(<<y, x>> \in R)
    <2>1. \A T \in SUBSET Nat : T /= {} => \E x \in T : \A y \in T : ~(<<y, x>> \in R)
        BY <1>1, WFMin, Zenon
    <2> QED
        BY <2>1
<1>4. x - 1 \in Nat /\ x - 1 < x
    OBVIOUS
<1>5. x - 1 \in S
    BY <1>2, <1>3, <1>4
<1> QED
    BY <1>4, <1>5

(* The same up to a bound.                                                 *)
LEMMA BoundedInduction ==
    ASSUME NEW n \in Nat, NEW S, 0 \in S, \A k \in 0..(n - 1) : k \in S => k + 1 \in S
    PROVE  0..n \subseteq S
<1> DEFINE T == {k \in Nat : k <= n => k \in S}
<1>1. 0 \in T /\ \A k \in Nat : k \in T => k + 1 \in T
    OBVIOUS
<1> HIDE DEF T
<1>2. Nat \subseteq T
    BY <1>1, SetInduction
<1> QED
    BY <1>2 DEF T

(* A nonempty set of natural numbers has a least element.                  *)
LEMMA LeastElement ==
    ASSUME NEW S \in SUBSET Nat, S /= {}
    PROVE  Min(S) \in S /\ \A n \in S : Min(S) <= n
<1> DEFINE T == {n \in Nat : \A k \in 0..n : k \notin S}
<1>1. CASE 0 \in S
  <2>1. \E x \in S : \A y \in S : x <= y
    BY <1>1
  <2> QED
    BY <2>1, Zenon DEF Min
<1>2. CASE 0 \notin S
  <2>1. 0 \in T
    BY <1>2
  <2>2. PICK n \in Nat : n \in T /\ n + 1 \notin T
    <3>1. SUFFICES ASSUME \A n \in Nat : n \in T => n + 1 \in T PROVE FALSE
      BY Zenon
    <3> HIDE DEF T
    <3>2. Nat \subseteq T
      BY <2>1, <3>1, SetInduction
    <3>3. PICK x \in S : x \in Nat
      OBVIOUS
    <3>4. x \in T
      BY <3>2, <3>3
    <3> QED
      BY <3>3, <3>4 DEF T
  <2>3. n + 1 \in S /\ \A y \in S : n + 1 <= y
    BY <2>2
  <2>4. \E x \in S : \A y \in S : x <= y
    BY <2>3
  <2> QED
    BY <2>4, Zenon DEF Min
<1> QED
  BY <1>1, <1>2

-----------------------------------------------------------------------------
(* Paths and the directories that they denote.                             *)

Part == Nat \union {Prefix[m] : m \in ModuleName}
Paths == {p \in Seq(Part) : Len(p) >= 1 /\ p[1] \in 0..Len(SearchEntry)}

Walked(f, p, c, k) == IF k > 1 THEN Subdirectory(f[k - 1], p[k]) ELSE StartIn(p[1], c)
IsWalk(f, p, c, n) == f = [k \in 1..n |-> Walked(f, p, c, k)]
Walk(p, c) == CHOOSE f : IsWalk(f, p, c, Len(p))

LEMMA WalkExists ==
    ASSUME NEW p, NEW c, NEW n \in Nat
    PROVE  \E f : IsWalk(f, p, c, n)
<1> DEFINE S == {j \in Nat : \E f : IsWalk(f, p, c, j)}
<1>1. 0 \in S
  <2>1. IsWalk([k \in 1..0 |-> 0], p, c, 0)
    BY DEF IsWalk
  <2> QED
    BY <2>1
<1>2. ASSUME NEW j \in Nat, j \in S PROVE j + 1 \in S
  <2>1. PICK f : IsWalk(f, p, c, j)
    BY <1>2
  <2> DEFINE g == [k \in 1..(j + 1) |-> IF k <= j THEN f[k] ELSE Walked(f, p, c, j + 1)]
  <2>2. ASSUME NEW k \in 1..(j + 1) PROVE g[k] = Walked(g, p, c, k)
    <3>1. CASE k <= j
      <4>1. g[k] = f[k] /\ f[k] = Walked(f, p, c, k) /\ (k > 1 => g[k - 1] = f[k - 1])
        BY <2>1, <3>1 DEF IsWalk
      <4> HIDE DEF g
      <4> QED
        BY <4>1 DEF Walked
    <3>2. CASE k = j + 1
      <4>1. g[k] = Walked(f, p, c, k) /\ (k > 1 => g[k - 1] = f[k - 1])
        BY <3>2
      <4> HIDE DEF g
      <4> QED
        BY <4>1 DEF Walked
    <3> QED
      BY <3>1, <3>2
  <2>3. IsWalk(g, p, c, j + 1)
    <3>1. g = [k \in 1..(j + 1) |-> g[k]]
      OBVIOUS
    <3> HIDE DEF g
    <3> QED
      BY <2>2, <3>1 DEF IsWalk
  <2> QED
    BY <2>3
<1> HIDE DEF S
<1>3. n \in S
  BY <1>1, <1>2, SetInduction
<1> QED
  BY <1>3 DEF S

LEMMA WalkFact ==
    ASSUME NEW p \in Seq(Part), NEW c
    PROVE  /\ \A k \in 1..Len(p) : Walk(p, c)[k] = Walked(Walk(p, c), p, c, k)
           /\ At(p, c) = Walk(p, c)[Len(p)]
<1>1. Len(p) \in Nat
  OBVIOUS
<1>2. IsWalk(Walk(p, c), p, c, Len(p))
  <2>1. \E f : IsWalk(f, p, c, Len(p))
    BY <1>1, WalkExists
  <2> QED
    BY <2>1, Zenon DEF Walk
<1>3. At(p, c) = Walk(p, c)[Len(p)]
  BY Zenon DEF At, Walk, IsWalk, Walked, StartIn
<1> DEFINE w == Walk(p, c)
<1>4. w = [k \in 1..Len(p) |-> Walked(w, p, c, k)]
  BY <1>2 DEF IsWalk
<1> HIDE DEF w
<1>5. \A k \in 1..Len(p) : w[k] = Walked(w, p, c, k)
  BY <1>4
<1> QED
  BY <1>3, <1>5 DEF w

LEMMA AtTop ==
    ASSUME NEW x \in Part, NEW c
    PROVE  At(<<x>>, c) = StartIn(x, c)
<1> DEFINE p == <<x>>
<1>1. p \in Seq(Part) /\ Len(p) = 1 /\ p[1] = x
  OBVIOUS
<1> HIDE DEF p
<1>2. At(p, c) = Walked(Walk(p, c), p, c, 1)
  <2>1. \A k \in 1..Len(p) : Walk(p, c)[k] = Walked(Walk(p, c), p, c, k)
    BY <1>1, WalkFact, Zenon
  <2>2. At(p, c) = Walk(p, c)[Len(p)]
    BY <1>1, WalkFact, Zenon
  <2> QED
    BY <1>1, <2>1, <2>2
<1>3. At(p, c) = StartIn(x, c)
  BY <1>1, <1>2 DEF Walked
<1> QED
  BY <1>3 DEF p

LEMMA AtBelow ==
    ASSUME NEW p \in Seq(Part), Len(p) >= 1, NEW x \in Part, NEW c
    PROVE  At(Append(p, x), c) = Subdirectory(At(p, c), x)
<1> DEFINE q == Append(p, x)
           f == Walk(p, c)
           g == Walk(q, c)
           n == Len(p)
           S == {j \in Nat : j + 1 <= n => f[j + 1] = g[j + 1]}
<1>1. /\ q \in Seq(Part) /\ Len(q) = n + 1 /\ q[n + 1] = x
      /\ n \in Nat /\ \A k \in 1..n : q[k] = p[k]
  OBVIOUS
<1>2. /\ \A k \in 1..n : f[k] = Walked(f, p, c, k)
      /\ At(p, c) = f[n]
  BY WalkFact
<1>3. /\ \A k \in 1..(n + 1) : g[k] = Walked(g, q, c, k)
      /\ At(q, c) = g[n + 1]
  <2> HIDE DEF q
  <2>1. /\ \A k \in 1..Len(q) : g[k] = Walked(g, q, c, k)
        /\ At(q, c) = g[Len(q)]
    BY <1>1, WalkFact
  <2> HIDE DEF g, n
  <2> QED
    BY <1>1, <2>1
<1> HIDE DEF q, f, g, n
<1>4. 0 \in S
  <2>1. CASE n >= 1
    <3>1. 1 \in 1..n /\ 1 \in 1..(n + 1)
      BY <1>1, <2>1
    <3>2. f[1] = Walked(f, p, c, 1) /\ g[1] = Walked(g, q, c, 1) /\ p[1] = q[1]
      BY <1>1, <1>2, <1>3, <3>1
    <3>3. f[1] = StartIn(p[1], c) /\ g[1] = StartIn(q[1], c)
      BY <3>2 DEF Walked
    <3>4. f[1] = g[1]
      BY <3>2, <3>3
    <3> QED
      BY <3>4
  <2>2. CASE ~(n >= 1)
    BY <1>1, <2>2
  <2> QED
    BY <2>1, <2>2
<1>5. ASSUME NEW j \in Nat, j \in S PROVE j + 1 \in S
  <2>1. SUFFICES ASSUME (j + 1) + 1 <= n PROVE f[(j + 1) + 1] = g[(j + 1) + 1]
    OBVIOUS
  <2> DEFINE k == (j + 1) + 1
  <2>2. k \in 1..n /\ k \in 1..(n + 1) /\ k > 1 /\ k - 1 = j + 1
    BY <1>1, <2>1
  <2>3. f[k - 1] = g[k - 1]
    BY <1>1, <1>5, <2>1, <2>2
  <2> HIDE DEF k
  <2>4. f[k] = Subdirectory(f[k - 1], p[k]) /\ g[k] = Subdirectory(g[k - 1], q[k]) /\ p[k] = q[k]
    BY <1>1, <1>2, <1>3, <2>2 DEF Walked
  <2> QED
    BY <2>3, <2>4 DEF k
<1> HIDE DEF S
<1>6. Nat \subseteq S
  BY <1>4, <1>5, SetInduction
<1>7. f[n] = g[n]
  <2>1. n >= 1 /\ n - 1 \in Nat /\ (n - 1) + 1 = n
    BY <1>1 DEF n
  <2>2. n - 1 \in S
    BY <1>6, <2>1
  <2> QED
    BY <2>1, <2>2 DEF S
<1>8. g[n + 1] = Subdirectory(g[n], q[n + 1])
  <2>1. n + 1 \in 1..(n + 1) /\ n + 1 > 1 /\ (n + 1) - 1 = n
    BY <1>1 DEF n
  <2>2. g[n + 1] = Walked(g, q, c, n + 1)
    BY <1>3, <2>1
  <2> QED
    BY <2>1, <2>2 DEF Walked
<1> QED
  BY <1>1, <1>2, <1>3, <1>7, <1>8 DEF q
LEMMA Searched ==
    /\ Len(SearchEntry) \in Nat /\ DOMAIN SearchEntry = 1..Len(SearchEntry)
    /\ \A x \in SearchStart : \A c \in Directory : StartIn(x, c) \in Directory \union {Nowhere}
    /\ \A x \in SearchStart : x \in Part
    /\ \A m \in ModuleName : Prefix[m] \in Part
<1>1. /\ SearchEntry \in Seq([Directory -> Directory \union {Nowhere}])
  BY PathsAssumption
<1>2. /\ Len(SearchEntry) \in Nat /\ DOMAIN SearchEntry = 1..Len(SearchEntry)
      /\ \A i \in 1..Len(SearchEntry) : SearchEntry[i] \in [Directory -> Directory \union {Nowhere}]
  BY <1>1
<1>3. ASSUME NEW x \in SearchStart, NEW c \in Directory PROVE StartIn(x, c) \in Directory \union {Nowhere}
  <2>1. CASE x = 0
    BY <2>1 DEF StartIn
  <2>2. CASE x /= 0
    <3>1. x \in 1..Len(SearchEntry)
      BY <1>2, <2>2 DEF SearchStart
    <3> QED
      BY <1>2, <2>2, <3>1 DEF StartIn
  <2> QED
    BY <2>1, <2>2
<1>4. \A x \in SearchStart : x \in Part
  BY <1>2 DEF SearchStart, Part
<1>5. \A m \in ModuleName : Prefix[m] \in Part
  BY DEF Part
<1> QED
  BY <1>2, <1>3, <1>4, <1>5

LEMMA SubdirectoryTyped ==
    ASSUME NEW d \in Directory \union {Nowhere}, NEW x
    PROVE  Subdirectory(d, x) \in Directory \union {Nowhere}
<1>1. CASE d /= Nowhere /\ x \in DOMAIN Below[d]
  <2>1. d \in Directory /\ Below[d][x] \in Range(Below[d])
    BY <1>1 DEF Range
  <2> QED
    BY <1>1, <2>1, PathsAssumption DEF Subdirectory
<1>2. CASE ~(d /= Nowhere /\ x \in DOMAIN Below[d])
  BY <1>2 DEF Subdirectory
<1> QED
  BY <1>1, <1>2

LEMMA HomePath ==
    /\ <<0>> \in Paths
    /\ \A c : At(<<0>>, c) = c
<1>1. 0 \in Part /\ 0 \in 0..Len(SearchEntry)
  BY Searched DEF Part
<1>2. <<0>> \in Paths
  BY <1>1 DEF Paths
<1>3. ASSUME NEW c PROVE At(<<0>>, c) = c
  <2>1. At(<<0>>, c) = StartIn(0, c)
    BY <1>1, AtTop
  <2> QED
    BY <2>1 DEF StartIn
<1> QED
  BY <1>2, <1>3

(* What a path denotes is a directory, or nothing.                         *)
LEMMA AtTyped ==
    ASSUME NEW p \in Paths, NEW c \in Directory
    PROVE  At(p, c) \in Directory \union {Nowhere}
<1> DEFINE w == Walk(p, c)
           n == Len(p)
           S == {j \in Nat : j + 1 <= n => w[j + 1] \in Directory \union {Nowhere}}
<1>1. p \in Seq(Part) /\ n \in Nat /\ n >= 1 /\ p[1] \in SearchStart
  BY DEF Paths, SearchStart
<1>2. /\ \A k \in 1..n : w[k] = Walked(w, p, c, k)
      /\ At(p, c) = w[n]
  BY <1>1, WalkFact, Zenon
<1> HIDE DEF w, n
<1>3. 0 \in S
  <2>1. n >= 1 => w[1] = StartIn(p[1], c)
    BY <1>1, <1>2 DEF Walked
  <2>2. StartIn(p[1], c) \in Directory \union {Nowhere}
    BY <1>1, Searched
  <2> QED
    BY <2>1, <2>2
<1>4. ASSUME NEW j \in Nat, j \in S PROVE j + 1 \in S
  <2>1. SUFFICES ASSUME (j + 1) + 1 <= n PROVE w[(j + 1) + 1] \in Directory \union {Nowhere}
    OBVIOUS
  <2> DEFINE k == (j + 1) + 1
  <2>2. k \in 1..n /\ k > 1 /\ k - 1 = j + 1
    BY <1>1, <2>1
  <2>3. w[k - 1] \in Directory \union {Nowhere}
    BY <1>1, <1>4, <2>1, <2>2
  <2> HIDE DEF k
  <2>4. w[k] = Subdirectory(w[k - 1], p[k])
    BY <1>2, <2>2 DEF Walked
  <2> QED
    BY <2>3, <2>4, SubdirectoryTyped DEF k
<1> HIDE DEF S
<1>5. Nat \subseteq S
  BY <1>3, <1>4, SetInduction
<1>6. n - 1 \in Nat /\ (n - 1) + 1 = n /\ n - 1 \in S
  BY <1>1, <1>5
<1> QED
  BY <1>2, <1>6 DEF S

-----------------------------------------------------------------------------
(* The search, where the places that have files are those in H.            *)

LastCandidate == 2 * Len(SearchEntry) + 1
Present(H, m, p, c) == {i \in 0..LastCandidate : <<At(Candidate(i, m, p), c), m>> \in H}
FoundIn(H, m, p, c) ==
    IF Present(H, m, p, c) = {} THEN <<>> ELSE Candidate(Min(Present(H, m, p, c)), m, p)

EntryAt(i, p, c) == IF i < 2 THEN At(p, c) ELSE SearchEntry[i \div 2][c]

LEMMA CandidateFact ==
    ASSUME NEW m \in ModuleName, NEW p \in Paths, NEW i \in 0..LastCandidate
    PROVE  /\ Candidate(i, m, p) \in Paths
           /\ \A c : At(Candidate(i, m, p), c) =
                         IF i % 2 = 0 THEN EntryAt(i, p, c)
                         ELSE Subdirectory(EntryAt(i, p, c), Prefix[m])
<1> DEFINE entry == IF i < 2 THEN p ELSE <<i \div 2>>
<1>1. i \in Nat /\ (i >= 2 => i \div 2 \in SearchStart /\ i \div 2 /= 0) /\ Prefix[m] \in Part
  BY Searched DEF LastCandidate, SearchStart
<1>2. entry \in Paths /\ \A c : At(entry, c) = EntryAt(i, p, c)
  <2>1. CASE i < 2
    BY <2>1 DEF EntryAt
  <2>2. CASE ~(i < 2)
    <3>1. i \div 2 \in SearchStart /\ i \div 2 /= 0 /\ i \div 2 \in Part /\ entry = <<i \div 2>>
      BY <1>1, <2>2, Searched
    <3> DEFINE x == i \div 2
    <3> HIDE DEF x
    <3>2. <<x>> \in Paths
      BY <3>1 DEF Paths, SearchStart, x
    <3>3. \A c : At(<<x>>, c) = StartIn(x, c)
      BY <3>1, AtTop DEF x
    <3>4. \A c : At(<<x>>, c) = SearchEntry[x][c]
      BY <3>1, <3>3 DEF StartIn, x
    <3> QED
      BY <2>2, <3>1, <3>2, <3>4 DEF EntryAt, x
  <2> QED
    BY <2>1, <2>2
<1>3. Candidate(i, m, p) = IF i % 2 = 0 THEN entry ELSE Append(entry, Prefix[m])
  BY DEF Candidate
<1> HIDE DEF entry
<1>4. CASE i % 2 = 0
  BY <1>2, <1>3, <1>4
<1>5. CASE i % 2 /= 0
  <2>1. entry \in Seq(Part) /\ Len(entry) >= 1
    BY <1>2 DEF Paths
  <2>2. Append(entry, Prefix[m]) \in Paths
    <3> DEFINE x == Prefix[m]
    <3>1. x \in Part /\ entry[1] \in 0..Len(SearchEntry)
      BY <1>1, <1>2 DEF Paths
    <3> HIDE DEF x
    <3>2. /\ Append(entry, x) \in Seq(Part)
          /\ Len(Append(entry, x)) >= 1 /\ Append(entry, x)[1] = entry[1]
      BY <2>1, <3>1
    <3> QED
      BY <3>1, <3>2 DEF Paths, x
  <2>3. \A c : At(Append(entry, Prefix[m]), c) = Subdirectory(At(entry, c), Prefix[m])
    BY <1>1, <2>1, AtBelow
  <2> QED
    BY <1>2, <1>3, <1>5, <2>2, <2>3
<1> QED
  BY <1>4, <1>5

(* What is found has files.                                                *)
LEMMA FoundFact ==
    ASSUME NEW H \in SUBSET Location, NEW m \in ModuleName, NEW p \in Paths, NEW c,
           FoundIn(H, m, p, c) /= <<>>
    PROVE  /\ Min(Present(H, m, p, c)) \in Present(H, m, p, c)
           /\ \A i \in Present(H, m, p, c) : Min(Present(H, m, p, c)) <= i
           /\ FoundIn(H, m, p, c) = Candidate(Min(Present(H, m, p, c)), m, p)
           /\ FoundIn(H, m, p, c) \in Paths
           /\ <<At(FoundIn(H, m, p, c), c), m>> \in H
           /\ At(FoundIn(H, m, p, c), c) \in Directory
<1> DEFINE S == Present(H, m, p, c)
<1>1. S /= {}
  BY DEF FoundIn
<1>2. S \subseteq 0..LastCandidate /\ S \subseteq Nat
  BY DEF Present
<1> HIDE DEF S
<1>3. Min(S) \in S /\ \A i \in S : Min(S) <= i
  BY <1>1, <1>2, LeastElement
<1>4. FoundIn(H, m, p, c) = Candidate(Min(S), m, p)
  BY <1>1 DEF FoundIn, S
<1>5. Candidate(Min(S), m, p) \in Paths
  BY <1>2, <1>3, CandidateFact
<1>6. <<At(Candidate(Min(S), m, p), c), m>> \in H
  BY <1>3 DEF S, Present
<1>7. At(Candidate(Min(S), m, p), c) \in Directory
  BY <1>6 DEF Location
<1> QED
  BY <1>3, <1>4, <1>5, <1>6, <1>7 DEF S

LEMMA NotFound ==
    ASSUME NEW H, NEW m \in ModuleName, NEW p \in Paths, NEW c
    PROVE  FoundIn(H, m, p, c) = <<>> <=> Present(H, m, p, c) = {}
<1> DEFINE S == Present(H, m, p, c)
<1>1. CASE S = {}
  BY <1>1 DEF FoundIn
<1>2. CASE S /= {}
  <2>1. S \subseteq 0..LastCandidate /\ S \subseteq Nat
    BY DEF Present
  <2> HIDE DEF S
  <2>2. Min(S) \in S
    BY <1>2, <2>1, LeastElement
  <2>3. Candidate(Min(S), m, p) \in Paths
    BY <2>1, <2>2, CandidateFact
  <2>4. Candidate(Min(S), m, p) /= <<>>
    BY <2>3 DEF Paths
  <2> QED
    BY <1>2, <2>4 DEF FoundIn, S
<1> QED
  BY <1>1, <1>2

-----------------------------------------------------------------------------
(* What imports mean, where the places that have files are those in H.     *)

MeantEntries(d) == <<d>> \o [i \in DOMAIN SearchEntry |-> SearchEntry[i][d]]
MeantAt(H, d, m) ==
    {i \in DOMAIN MeantEntries(d) :
        \/ <<MeantEntries(d)[i], m>> \in H
        \/ <<Subdirectory(MeantEntries(d)[i], Prefix[m]), m>> \in H}
MeantIn(H, d, m) ==
    LET e == MeantEntries(d)[Min(MeantAt(H, d, m))]
    IN <<IF <<e, m>> \in H THEN e ELSE Subdirectory(e, Prefix[m]), m>>

LEMMA MeantEntriesFact ==
    ASSUME NEW d \in Directory
    PROVE  /\ DOMAIN MeantEntries(d) = 1..(Len(SearchEntry) + 1)
           /\ \A i \in 1..(Len(SearchEntry) + 1) : MeantEntries(d)[i] = StartIn(i - 1, d)
           /\ \A i \in 1..(Len(SearchEntry) + 1) : MeantEntries(d)[i] \in Directory \union {Nowhere}
<1> DEFINE n == Len(SearchEntry)
           s == [i \in DOMAIN SearchEntry |-> SearchEntry[i][d]]
<1>1. n \in Nat /\ DOMAIN SearchEntry = 1..n
  BY Searched
<1>2. s = [i \in 1..n |-> SearchEntry[i][d]]
  BY <1>1
<1>3. \A i \in 1..n : s[i] \in Directory \union {Nowhere} /\ s[i] = StartIn(i, d)
  <2>1. ASSUME NEW i \in 1..n PROVE s[i] \in Directory \union {Nowhere} /\ s[i] = StartIn(i, d)
    <3>1. s[i] = StartIn(i, d) /\ i \in SearchStart
      BY <1>1, <1>2 DEF StartIn, SearchStart
    <3> QED
      BY <3>1, Searched
  <2> QED
    BY <2>1
<1>4. s \in Seq(Directory \union {Nowhere}) /\ Len(s) = n
  <2>1. s \in [1..n -> Directory \union {Nowhere}]
    BY <1>2, <1>3
  <2> HIDE DEF s
  <2> QED
    BY <1>1, <2>1, IsASeq
<1> HIDE DEF s, n
<1>5. <<d>> \in Seq(Directory \union {Nowhere}) /\ Len(<<d>>) = 1 /\ <<d>>[1] = d
  OBVIOUS
<1> DEFINE t == <<d>>
<1> HIDE DEF t
<1>6. t \in Seq(Directory \union {Nowhere}) /\ Len(t) = 1 /\ t[1] = d
  BY <1>5 DEF t
<1>7. /\ Len(t \o s) = n + 1
      /\ t \o s \in Seq(Directory \union {Nowhere})
      /\ \A i \in 1..(n + 1) : (t \o s)[i] = IF i <= 1 THEN t[i] ELSE s[i - 1]
  <2>1. /\ Len(t \o s) = Len(t) + Len(s)
        /\ t \o s \in Seq(Directory \union {Nowhere})
        /\ \A i \in 1..(Len(t) + Len(s)) :
              (t \o s)[i] = IF i <= Len(t) THEN t[i] ELSE s[i - Len(t)]
    BY <1>4, <1>6, ConcatProperties
  <2>2. Len(t) + Len(s) = n + 1 /\ Len(t) = 1
    BY <1>1, <1>4, <1>6
  <2> HIDE DEF t, s
  <2> QED
    BY <2>1, <2>2
<1>8. MeantEntries(d) = t \o s
  BY DEF MeantEntries, t, s
<1>9. DOMAIN (t \o s) = 1..(n + 1) /\ \A i \in 1..(n + 1) : (t \o s)[i] \in Directory \union {Nowhere}
  BY <1>7
<1>10. ASSUME NEW i \in 1..(n + 1) PROVE (t \o s)[i] = StartIn(i - 1, d)
  <2>1. CASE i = 1
    BY <1>6, <1>7, <2>1 DEF StartIn
  <2>2. CASE i /= 1
    <3>1. i - 1 \in 1..n
      BY <1>1, <2>2
    <3> QED
      BY <1>1, <1>3, <1>7, <2>2, <3>1
  <2> QED
    BY <2>1, <2>2
<1> QED
  BY <1>8, <1>9, <1>10 DEF n

(* The search finds the module that is meant.                              *)
LEMMA MeantIsFound ==
    ASSUME NEW H \in SUBSET Location, NEW d \in Directory, NEW m \in ModuleName,
           FoundIn(H, m, << 0 >>, d) /= <<>>
    PROVE  /\ MeantIn(H, d, m) = <<At(FoundIn(H, m, <<0>>, d), d), m>>
           /\ Min(MeantAt(H, d, m)) \in DOMAIN MeantEntries(d)
<1> DEFINE n == Len(SearchEntry)
           p == <<0>>
           S == Present(H, m, p, d)
           i == Min(S)
           j == i \div 2 + 1
           J == MeantAt(H, d, m)
           E(x) == MeantEntries(d)[x]
<1>1. p \in Paths /\ At(p, d) = d
  BY HomePath
<1>2. n \in Nat
  BY Searched
<1>3. /\ i \in S /\ \A x \in S : i <= x
      /\ FoundIn(H, m, p, d) = Candidate(i, m, p)
  <2>1. FoundIn(H, m, p, d) /= <<>>
    OBVIOUS
  <2> HIDE DEF p
  <2> HIDE DEF n, S, i, j, J, E
  <2>2. /\ Min(Present(H, m, p, d)) \in Present(H, m, p, d)
        /\ \A x \in Present(H, m, p, d) : Min(Present(H, m, p, d)) <= x
    BY <1>1, <2>1, FoundFact
  <2>3. FoundIn(H, m, p, d) = Candidate(Min(Present(H, m, p, d)), m, p)
    BY <2>1, Zenon DEF FoundIn
  <2> QED
    BY <2>2, <2>3 DEF S, i
<1>4. S \subseteq 0..(2 * n + 1)
  BY DEF Present, LastCandidate
<1>5. /\ DOMAIN MeantEntries(d) = 1..(n + 1)
      /\ \A x \in 1..(n + 1) : E(x) = StartIn(x - 1, d)
  BY MeantEntriesFact
<1> HIDE DEF n
<1>6. ASSUME NEW k \in 0..(2 * n + 1)
      PROVE  /\ k \div 2 + 1 \in 1..(n + 1)
             /\ At(Candidate(k, m, p), d) = IF k % 2 = 0 THEN E(k \div 2 + 1)
                                            ELSE Subdirectory(E(k \div 2 + 1), Prefix[m])
  <2>1. k \div 2 + 1 \in 1..(n + 1) /\ k \in 0..LastCandidate
    BY <1>2 DEF LastCandidate, n
  <2>2. At(Candidate(k, m, p), d) = IF k % 2 = 0 THEN EntryAt(k, p, d)
                                    ELSE Subdirectory(EntryAt(k, p, d), Prefix[m])
    BY <1>1, <2>1, CandidateFact
  <2>3. EntryAt(k, p, d) = E(k \div 2 + 1)
    <3>1. E(k \div 2 + 1) = StartIn(k \div 2, d)
      <4>1. (k \div 2 + 1) - 1 = k \div 2
        OBVIOUS
      <4> QED
        BY <1>5, <2>1, <4>1
    <3>2. CASE k < 2
      <4>1. k \div 2 = 0
        BY <3>2
      <4> QED
        BY <1>1, <3>1, <3>2, <4>1 DEF EntryAt, StartIn
    <3>3. CASE ~(k < 2)
      <4>1. k \div 2 /= 0
        BY <3>3
      <4> QED
        BY <3>1, <3>3, <4>1 DEF EntryAt, StartIn
    <3> QED
      BY <3>2, <3>3
  <2> QED
    BY <2>1, <2>2, <2>3
<1> HIDE DEF p
<1>7. \A k \in 0..(2 * n + 1) :
         k \in S <=> <<IF k % 2 = 0 THEN E(k \div 2 + 1)
                       ELSE Subdirectory(E(k \div 2 + 1), Prefix[m]), m>> \in H
  BY <1>6 DEF Present, LastCandidate, n
<1> HIDE DEF S, i, E
<1>8. J = {x \in 1..(n + 1) : <<E(x), m>> \in H \/ <<Subdirectory(E(x), Prefix[m]), m>> \in H}
  BY <1>5 DEF MeantAt, E
<1> HIDE DEF J
<1>9. i \in 0..(2 * n + 1) /\ j \in 1..(n + 1)
  BY <1>2, <1>3, <1>4
<1>10. j \in J
  BY <1>3, <1>7, <1>8, <1>9
<1>11. ASSUME NEW x \in J PROVE j <= x
  <2>1. x \in 1..(n + 1)
    BY <1>8
  <2>2. 2 * (x - 1) \in 0..(2 * n + 1) /\ (2 * (x - 1)) % 2 = 0 /\ (2 * (x - 1)) \div 2 + 1 = x
    BY <1>2, <2>1
  <2>3. /\ 2 * (x - 1) + 1 \in 0..(2 * n + 1) /\ (2 * (x - 1) + 1) % 2 /= 0
        /\ (2 * (x - 1) + 1) \div 2 + 1 = x
    BY <1>2, <2>1
  <2>4. 2 * (x - 1) \in S \/ 2 * (x - 1) + 1 \in S
    <3>1. CASE <<E(x), m>> \in H
      BY <1>7, <2>2, <3>1
    <3>2. CASE <<Subdirectory(E(x), Prefix[m]), m>> \in H
      BY <1>7, <2>3, <3>2
    <3> QED
      BY <1>8, <3>1, <3>2
  <2>5. i <= 2 * (x - 1) + 1
    BY <1>3, <1>9, <2>1, <2>4
  <2> QED
    BY <1>9, <2>1, <2>5
<1>12. Min(J) = j
  <2>1. J \subseteq Nat /\ J /= {}
    <3>1. J \subseteq 1..(n + 1)
      BY <1>5 DEF J, MeantAt
    <3> HIDE DEF j
    <3> QED
      BY <1>2, <3>1, <1>10
  <2>2. Min(J) \in J /\ Min(J) <= j
    BY <1>10, <2>1, LeastElement
  <2>3. j <= Min(J) /\ Min(J) \in Nat
    BY <1>11, <2>1, <2>2
  <2> QED
    BY <1>9, <2>2, <2>3
<1>13. MeantIn(H, d, m) = <<IF <<E(j), m>> \in H THEN E(j) ELSE Subdirectory(E(j), Prefix[m]), m>>
  BY <1>12 DEF MeantIn, J, E
<1>14. At(FoundIn(H, m, p, d), d) = IF i % 2 = 0 THEN E(j) ELSE Subdirectory(E(j), Prefix[m])
  BY <1>3, <1>6, <1>9
<1>15. ASSUME i % 2 = 0 PROVE MeantIn(H, d, m) = <<At(FoundIn(H, m, p, d), d), m>>
  <2>1. <<E(j), m>> \in H
    BY <1>3, <1>7, <1>9, <1>15
  <2> QED
    BY <1>13, <1>14, <1>15, <2>1
<1>16. ASSUME i % 2 /= 0 PROVE MeantIn(H, d, m) = <<At(FoundIn(H, m, p, d), d), m>>
  <2>1. <<E(j), m>> \notin H
    <3>1. i - 1 \in 0..(2 * n + 1) /\ (i - 1) % 2 = 0 /\ (i - 1) \div 2 + 1 = j /\ ~(i <= i - 1)
      BY <1>2, <1>9, <1>16
    <3>2. i - 1 \notin S
      BY <1>3, <3>1
    <3> QED
      BY <1>7, <3>1, <3>2
  <2> QED
    BY <1>13, <1>14, <1>16, <2>1
<1>17. Min(MeantAt(H, d, m)) \in DOMAIN MeantEntries(d)
  BY <1>5, <1>9, <1>12 DEF J
<1> QED
  BY <1>15, <1>16, <1>17 DEF p

-----------------------------------------------------------------------------
(* Then obnc finds in its directory what obnc-compile finds in the one of  *)
(* the importing module.                                                   *)
LEMMA SameSearch ==
    ASSUME AbsoluteEntries,
           NEW H, NEW m \in ModuleName, NEW p \in Paths, At(p, Home) \in Directory
    PROVE  LET c == At(p, Home) IN
           /\ FoundIn(H, m, p, Home) = <<>> <=> FoundIn(H, m, <<0>>, c) = <<>>
           /\ FoundIn(H, m, p, Home) /= <<>> =>
                 At(FoundIn(H, m, p, Home), Home) = At(FoundIn(H, m, <<0>>, c), c)
<1> DEFINE c == At(p, Home)
           z == <<0>>
<1>1. z \in Paths /\ At(z, c) = c /\ Home \in Directory
  BY HomePath, PathsAssumption
<1>2. ASSUME NEW i \in 0..LastCandidate
      PROVE  At(Candidate(i, m, p), Home) = At(Candidate(i, m, z), c)
  <2>1. EntryAt(i, p, Home) = EntryAt(i, z, c)
    <3>1. CASE i < 2
      BY <1>1, <3>1 DEF EntryAt
    <3>2. CASE ~(i < 2)
      <4>1. i \div 2 \in DOMAIN SearchEntry
        BY <3>2, Searched DEF LastCandidate
      <4>2. SearchEntry[i \div 2][Home] = SearchEntry[i \div 2][c]
        BY <1>1, <4>1 DEF AbsoluteEntries
      <4> QED
        BY <3>2, <4>2 DEF EntryAt
    <3> QED
      BY <3>1, <3>2
  <2> HIDE DEF z, c
  <2>2. /\ At(Candidate(i, m, p), Home) = IF i % 2 = 0 THEN EntryAt(i, p, Home)
                                         ELSE Subdirectory(EntryAt(i, p, Home), Prefix[m])
        /\ At(Candidate(i, m, z), c) = IF i % 2 = 0 THEN EntryAt(i, z, c)
                                       ELSE Subdirectory(EntryAt(i, z, c), Prefix[m])
    BY <1>1, CandidateFact
  <2> QED
    BY <2>1, <2>2
<1>3. Present(H, m, p, Home) = Present(H, m, z, c)
  BY <1>2 DEF Present
<1> HIDE DEF z, c
<1>4. FoundIn(H, m, p, Home) = <<>> <=> FoundIn(H, m, z, c) = <<>>
  BY <1>1, <1>3, NotFound
<1>5. ASSUME FoundIn(H, m, p, Home) /= <<>>
      PROVE  At(FoundIn(H, m, p, Home), Home) = At(FoundIn(H, m, z, c), c)
  <2> DEFINE S == Present(H, m, p, Home)
  <2>1. S /= {} /\ S \subseteq Nat
    BY <1>5 DEF FoundIn, Present
  <2> HIDE DEF S
  <2>2. Min(S) \in S
    BY <2>1, LeastElement
  <2>3. FoundIn(H, m, p, Home) = Candidate(Min(S), m, p)
    BY <2>1 DEF FoundIn, S
  <2>4. FoundIn(H, m, z, c) = Candidate(Min(S), m, z)
    BY <1>3, <2>1 DEF FoundIn, S
  <2>5. Min(S) \in 0..LastCandidate
    BY <2>2 DEF S, Present
  <2> QED
    BY <1>2, <2>3, <2>4, <2>5
<1> QED
  BY <1>4, <1>5 DEF z, c

LEMMA Ends ==
    ASSUME NEW p \in Paths
    PROVE  \/ \E x \in SearchStart : p = <<x>>
           \/ \E q \in Paths : \E x \in Part : p = Append(q, x) /\ Len(p) = Len(q) + 1
<1>1. p \in Seq(Part) /\ Len(p) \in Nat /\ Len(p) >= 1 /\ p[1] \in SearchStart
  BY DEF Paths, SearchStart
<1>2. CASE Len(p) = 1
  <2>1. p = <<p[1]>>
    BY <1>1, <1>2
  <2> QED
    BY <1>1, <2>1
<1>3. CASE Len(p) > 1
  <2>1. p /= <<>>
    BY <1>3
  <2>2. PICK q \in Seq(Part), x \in Part : p = Append(q, x)
    BY <1>1, <2>1, SequenceEmptyOrAppend
  <2>3. Len(p) = Len(q) + 1 /\ Len(q) \in Nat /\ \A i \in 1..Len(q) : p[i] = q[i]
    BY <2>2
  <2>4. q \in Paths
    BY <1>1, <1>3, <2>3 DEF Paths, SearchStart
  <2> QED
    BY <2>2, <2>3, <2>4
<1>4. Len(p) = 1 \/ Len(p) > 1
  <2> DEFINE n == Len(p)
  <2>1. n \in Nat /\ n >= 1
    BY <1>1
  <2> HIDE DEF n
  <2>2. n = 1 \/ n > 1
    BY <2>1
  <2> QED
    BY <2>2 DEF n
<1> QED
  BY <1>2, <1>3, <1>4, Zenon

LEMMA EntersBelow ==
    ASSUME NEW q \in Paths, NEW x \in Part, At(Append(q, x), Home) \in Directory
    PROVE  /\ At(q, Home) \in Directory /\ x \in DOMAIN Below[At(q, Home)]
           /\ At(Append(q, x), Home) = Below[At(q, Home)][x]
<1>1. At(q, Home) \in Directory \union {Nowhere}
  BY AtTyped, PathsAssumption
<1>2. At(Append(q, x), Home) = Subdirectory(At(q, Home), x)
  <2>1. q \in Seq(Part) /\ Len(q) >= 1
    BY DEF Paths
  <2> QED
    BY <2>1, AtBelow
<1>3. Nowhere \notin Directory
  BY PathsAssumption
<1> DEFINE d == At(q, Home)
           e == At(Append(q, x), Home)
<1>4. e = Subdirectory(d, x) /\ e \in Directory /\ d \in Directory \union {Nowhere}
  BY <1>1, <1>2
<1> HIDE DEF d, e
<1>5. d /= Nowhere /\ x \in DOMAIN Below[d] /\ e = Below[d][x]
  BY <1>3, <1>4 DEF Subdirectory
<1> QED
  BY <1>4, <1>5 DEF d, e

LEMMA SamePath ==
    ASSUME OnePath, NEW p \in Paths, NEW q \in Paths,
           At(p, Home) \in Directory, At(p, Home) = At(q, Home)
    PROVE  p = q
<1> DEFINE T == {n \in Nat : \A a, b \in Paths :
                    Len(a) <= n /\ At(a, Home) \in Directory /\ At(a, Home) = At(b, Home) => a = b}
<1>1. 0 \in T
  BY DEF Paths
<1>2. ASSUME NEW n \in Nat, n \in T PROVE n + 1 \in T
  <2>1. SUFFICES ASSUME NEW a \in Paths, NEW b \in Paths, Len(a) <= n + 1,
                        At(a, Home) \in Directory, At(a, Home) = At(b, Home)
                 PROVE  a = b
    OBVIOUS
  <2>2. \A x \in SearchStart : At(<<x>>, Home) = StartIn(x, Home)
    BY Searched, AtTop
  <2>3. ASSUME NEW c \in Paths, NEW x \in Part, NEW y \in SearchStart,
               At(Append(c, x), Home) \in Directory
        PROVE  At(Append(c, x), Home) /= At(<<y>>, Home)
    <3>1. /\ At(c, Home) \in Directory /\ x \in DOMAIN Below[At(c, Home)]
          /\ At(Append(c, x), Home) = Below[At(c, Home)][x]
      BY <2>3, EntersBelow
    <3> QED
      BY <2>2, <2>3, <3>1 DEF OnePath
  <2>4. CASE \E x \in SearchStart : a = <<x>>
    <3>1. PICK x \in SearchStart : a = <<x>>
      BY <2>4
    <3>2. CASE \E y \in SearchStart : b = <<y>>
      <4>1. PICK y \in SearchStart : b = <<y>>
        BY <3>2
      <4>2. StartIn(x, Home) \in Directory /\ StartIn(x, Home) = StartIn(y, Home)
        BY <2>1, <2>2, <3>1, <4>1
      <4> QED
        BY <3>1, <4>1, <4>2 DEF OnePath
    <3>3. CASE \E c \in Paths : \E y \in Part : b = Append(c, y) /\ Len(b) = Len(c) + 1
      BY <2>1, <2>3, <3>1, <3>3
    <3> QED
      BY <3>2, <3>3, Ends
  <2>5. CASE \E c \in Paths : \E x \in Part : a = Append(c, x) /\ Len(a) = Len(c) + 1
    <3>1. PICK c \in Paths, x \in Part : a = Append(c, x) /\ Len(a) = Len(c) + 1
      BY <2>5
    <3>2. CASE \E y \in SearchStart : b = <<y>>
      BY <2>1, <2>3, <3>1, <3>2
    <3>3. CASE \E e \in Paths : \E y \in Part : b = Append(e, y) /\ Len(b) = Len(e) + 1
      <4>1. PICK e \in Paths, y \in Part : b = Append(e, y)
        BY <3>3
      <4>2. /\ At(c, Home) \in Directory /\ x \in DOMAIN Below[At(c, Home)]
            /\ At(a, Home) = Below[At(c, Home)][x]
        BY <2>1, <3>1, EntersBelow
      <4>3. /\ At(e, Home) \in Directory /\ y \in DOMAIN Below[At(e, Home)]
            /\ At(b, Home) = Below[At(e, Home)][y]
        BY <2>1, <4>1, EntersBelow
      <4>4. At(c, Home) = At(e, Home) /\ x = y
        <5>1. Below[At(c, Home)][x] = Below[At(e, Home)][y]
          BY <2>1, <4>2, <4>3
        <5>2. \A d1, d2 \in Directory : \A j \in DOMAIN Below[d1], k \in DOMAIN Below[d2] :
                 Below[d1][j] = Below[d2][k] => d1 = d2 /\ j = k
          BY DEF OnePath
        <5> QED
          BY <4>2, <4>3, <5>1, <5>2, Zenon
      <4>5. Len(c) <= n
        <5>1. Len(c) \in Nat
          BY DEF Paths
        <5> QED
          BY <2>1, <3>1, <5>1
      <4>6. c = e
        BY <1>2, <4>2, <4>4, <4>5
      <4> QED
        BY <3>1, <4>1, <4>4, <4>6
    <3> QED
      BY <3>2, <3>3, Ends
  <2> QED
    BY <2>4, <2>5, Ends
<1> HIDE DEF T
<1>3. Nat \subseteq T
  BY <1>1, <1>2, SetInduction
<1>4. Len(p) \in Nat /\ Len(p) \in T
  BY <1>3 DEF Paths
<1> QED
  BY <1>4 DEF T

-----------------------------------------------------------------------------
(* What the C compiler reads. The recursion has a solution, since a text   *)
(* has the headers of the text that it is read on with; and it ends, since *)
(* each directive is followed by one less, or by one unread name less.     *)
Texts == (SUBSET Location) \X Seq(Location)
Onwards(t) ==
    IF \E k \in t[1] : k[2] = Head(t[2])[2] THEN <<t[1], Tail(t[2])>>
    ELSE <<t[1] \union {Head(t[2])}, Includes(Head(t[2])) \o Tail(t[2])>>
IsHeaders(f) == f = [t \in Texts |-> IF t[2] = <<>> THEN t[1] ELSE f[Onwards(t)]]
IncludesTyped == \A l \in Location : Includes(l) \in Seq(Location)

LEMMA OnwardsTyped ==
    ASSUME IncludesTyped, NEW t \in Texts, t[2] /= <<>>
    PROVE  Onwards(t) \in Texts
<1> DEFINE r == t[1]
           s == t[2]
<1>1. r \in SUBSET Location /\ s \in Seq(Location) /\ s /= <<>>
  BY DEF Texts
<1>2. Head(s) \in Location /\ Tail(s) \in Seq(Location)
  BY <1>1
<1>3. Includes(Head(s)) \in Seq(Location)
  BY <1>2 DEF IncludesTyped
<1>4. Includes(Head(s)) \o Tail(s) \in Seq(Location)
  BY <1>2, <1>3
<1>5. r \union {Head(s)} \in SUBSET Location
  BY <1>1, <1>2
<1> QED
  BY <1>1, <1>2, <1>4, <1>5 DEF Onwards, Texts

(* The pairs of a text and what is read of it.                             *)
Answered(Z) ==
    \A t \in Texts : \A R \in SUBSET Location :
        /\ t[2] = <<>> /\ R = t[1] => <<t, R>> \in Z
        /\ t[2] /= <<>> /\ <<Onwards(t), R>> \in Z => <<t, R>> \in Z
Answers ==
    {x \in Texts \X (SUBSET Location) :
        \A Z \in SUBSET (Texts \X (SUBSET Location)) : Answered(Z) => x \in Z}
AnswersTo(t) == {R \in SUBSET Location : <<t, R>> \in Answers}
OneOf(A) == CHOOSE R : R \in A

LEMMA AnswersFact ==
    ASSUME IncludesTyped, NEW t \in Texts, NEW R \in SUBSET Location
    PROVE  <<t, R>> \in Answers <=> IF t[2] = <<>> THEN R = t[1] ELSE <<Onwards(t), R>> \in Answers
<1> DEFINE P == Texts \X (SUBSET Location)
           Fixed(u, Q) == IF u[2] = <<>> THEN Q = u[1] ELSE <<Onwards(u), Q>> \in Answers
           Y == {x \in P : Fixed(x[1], x[2])}
<1>1. ASSUME NEW u \in Texts, NEW Q \in SUBSET Location, Fixed(u, Q) PROVE <<u, Q>> \in Answers
  <2>1. <<u, Q>> \in P
    OBVIOUS
  <2>2. ASSUME NEW Z \in SUBSET P, Answered(Z) PROVE <<u, Q>> \in Z
    <3>1. CASE u[2] = <<>>
      BY <1>1, <2>2, <3>1 DEF Answered
    <3>2. CASE u[2] /= <<>>
      <4>1. <<Onwards(u), Q>> \in Answers
        BY <1>1, <3>2
      <4>2. <<Onwards(u), Q>> \in Z
        BY <2>2, <4>1 DEF Answers
      <4> QED
        BY <2>2, <3>2, <4>2 DEF Answered
    <3> QED
      BY <3>1, <3>2
  <2> QED
    BY <2>1, <2>2 DEF Answers
<1>2. Answered(Y)
  <2>1. SUFFICES ASSUME NEW u \in Texts, NEW Q \in SUBSET Location
                 PROVE  /\ u[2] = <<>> /\ Q = u[1] => <<u, Q>> \in Y
                        /\ u[2] /= <<>> /\ <<Onwards(u), Q>> \in Y => <<u, Q>> \in Y
    BY DEF Answered
  <2>2. <<u, Q>> \in P /\ <<u, Q>>[1] = u /\ <<u, Q>>[2] = Q
    OBVIOUS
  <2>3. Fixed(u, Q) => <<u, Q>> \in Y
    <3> DEFINE x == <<u, Q>>
    <3>1. x \in P /\ x[1] = u /\ x[2] = Q
      OBVIOUS
    <3> HIDE DEF x, Fixed, P
    <3>2. Fixed(u, Q) => x \in Y
      BY <3>1
    <3> QED
      BY <3>2 DEF x
  <2>4. CASE u[2] = <<>>
    BY <2>3, <2>4
  <2>5. ASSUME u[2] /= <<>>, <<Onwards(u), Q>> \in Y PROVE <<u, Q>> \in Y
    <3> DEFINE v == Onwards(u)
    <3>1. v \in Texts
      BY <2>5, OnwardsTyped
    <3> HIDE DEF v
    <3>2. <<v, Q>> \in Y
      BY <2>5 DEF v
    <3>3. Fixed(v, Q)
      <4> DEFINE x == <<v, Q>>
      <4>1. x \in Y /\ x[1] = v /\ x[2] = Q
        BY <3>2
      <4> HIDE DEF x, Fixed, P
      <4> QED
        BY <4>1
    <3>4. <<v, Q>> \in Answers
      BY <1>1, <3>1, <3>3
    <3>5. Fixed(u, Q)
      BY <2>5, <3>4 DEF v
    <3> HIDE DEF Y, Fixed
    <3> QED
      BY <2>3, <3>5
  <2> HIDE DEF Y
  <2> QED
    BY <2>4, <2>5
<1>3. ASSUME <<t, R>> \in Answers PROVE Fixed(t, R)
  <2>1. Y \in SUBSET P
    OBVIOUS
  <2> DEFINE x == <<t, R>>
  <2>2. x[1] = t /\ x[2] = R
    OBVIOUS
  <2> HIDE DEF Y, x
  <2>3. x \in Y
    BY <1>2, <1>3, <2>1 DEF Answers, x
  <2> HIDE DEF Fixed
  <2>4. Fixed(x[1], x[2])
    BY <2>3 DEF Y
  <2> QED
    BY <2>2, <2>4
<1>4. Fixed(t, R) => <<t, R>> \in Answers
  BY <1>1
<1> HIDE DEF Y, P
<1> QED
  BY <1>3, <1>4

LEMMA HeadersExist ==
    ASSUME IncludesTyped
    PROVE  \E f : IsHeaders(f)
<1> DEFINE f == [t \in Texts |-> OneOf(AnswersTo(t))]
<1>1. ASSUME NEW t \in Texts PROVE f[t] = IF t[2] = <<>> THEN t[1] ELSE f[Onwards(t)]
  <2>1. f[t] = OneOf(AnswersTo(t))
    OBVIOUS
  <2>2. CASE t[2] = <<>>
    <3>1. t[1] \in SUBSET Location
      BY DEF Texts
    <3>2. \A R \in SUBSET Location : <<t, R>> \in Answers <=> R = t[1]
      BY <2>2, AnswersFact
    <3>3. AnswersTo(t) = {t[1]}
      BY <3>1, <3>2 DEF AnswersTo
    <3>4. OneOf({t[1]}) = t[1]
      <4>1. \E R : R \in {t[1]}
        OBVIOUS
      <4>2. OneOf({t[1]}) \in {t[1]}
        BY <4>1, Zenon DEF OneOf
      <4> QED
        BY <4>2
    <3> HIDE DEF f
    <3> QED
      BY <2>1, <2>2, <3>3, <3>4
  <2>3. CASE t[2] /= <<>>
    <3>1. Onwards(t) \in Texts
      BY <2>3, OnwardsTyped
    <3>2. f[Onwards(t)] = OneOf(AnswersTo(Onwards(t)))
      BY <3>1
    <3>3. \A R \in SUBSET Location : <<t, R>> \in Answers <=> <<Onwards(t), R>> \in Answers
      BY <2>3, AnswersFact
    <3>4. AnswersTo(t) = AnswersTo(Onwards(t))
      BY <3>3 DEF AnswersTo
    <3> HIDE DEF f
    <3> QED
      BY <2>1, <2>3, <3>2, <3>4
  <2> QED
    BY <2>2, <2>3
<1>2. f = [t \in Texts |-> f[t]]
  OBVIOUS
<1> HIDE DEF f
<1>3. IsHeaders(f)
  BY <1>1, <1>2 DEF IsHeaders
<1> QED
  BY <1>3

(* Headers, as a function of the text that is left.                        *)
IsHeadersOf(f) ==
    f = [text \in (SUBSET Location) \X Seq(Location) |->
            IF text[2] = <<>> THEN text[1]
            ELSE IF \E k \in text[1] : k[2] = Head(text[2])[2] THEN f[<<text[1], Tail(text[2])>>]
            ELSE f[<<text[1] \union {Head(text[2])}, Includes(Head(text[2])) \o Tail(text[2])>>]]
HeadersOf == CHOOSE f : IsHeadersOf(f)

LEMMA HeadersFact ==
    ASSUME IncludesTyped
    PROVE  /\ \A t \in Texts : HeadersOf[t] = IF t[2] = <<>> THEN t[1] ELSE HeadersOf[Onwards(t)]
           /\ \A r, s : Headers(r, s) = HeadersOf[<<r, s>>]
<1>1. ASSUME NEW f PROVE IsHeadersOf(f) <=> IsHeaders(f)
  <2> DEFINE A(t) == IF t[2] = <<>> THEN t[1]
                     ELSE IF \E k \in t[1] : k[2] = Head(t[2])[2] THEN f[<<t[1], Tail(t[2])>>]
                     ELSE f[<<t[1] \union {Head(t[2])}, Includes(Head(t[2])) \o Tail(t[2])>>]
             B(t) == IF t[2] = <<>> THEN t[1] ELSE f[Onwards(t)]
  <2>1. \A t \in Texts : A(t) = B(t)
    BY Zenon DEF Onwards
  <2>2. IsHeadersOf(f) <=> f = [t \in Texts |-> A(t)]
    BY Zenon DEF IsHeadersOf, Texts
  <2>3. IsHeaders(f) <=> f = [t \in Texts |-> B(t)]
    BY Zenon DEF IsHeaders
  <2> HIDE DEF A, B
  <2>4. [t \in Texts |-> A(t)] = [t \in Texts |-> B(t)]
    BY <2>1
  <2> QED
    BY <2>2, <2>3, <2>4
<1>2. IsHeadersOf(HeadersOf)
  BY <1>1, HeadersExist, Zenon DEF HeadersOf
<1>3. IsHeaders(HeadersOf)
  BY <1>1, <1>2
<1>4. \A t \in Texts : HeadersOf[t] = IF t[2] = <<>> THEN t[1] ELSE HeadersOf[Onwards(t)]
  <2> DEFINE h == HeadersOf
  <2> HIDE DEF h
  <2>1. h = [t \in Texts |-> IF t[2] = <<>> THEN t[1] ELSE h[Onwards(t)]]
    BY <1>3 DEF IsHeaders, h
  <2>2. \A t \in Texts : h[t] = IF t[2] = <<>> THEN t[1] ELSE h[Onwards(t)]
    BY <2>1
  <2> QED
    BY <2>2 DEF h
<1>5. \A r, s : Headers(r, s) = HeadersOf[<<r, s>>]
  BY Zenon DEF Headers, HeadersOf, IsHeadersOf
<1> QED
  BY <1>4, <1>5

(* Of each name that is asked for, the header of one place is read.        *)
Single(r) == \A j, k \in r : j[2] = k[2] => j = k
Reading(t, W) ==
    /\ t \in Texts /\ t[1] \subseteq W /\ Single(t[1])
    /\ \A i \in 1..Len(t[2]) : t[2][i] \in W
ReadWell(t, W, R) ==
    /\ t[1] \subseteq R /\ R \subseteq W /\ Single(R)
    /\ \A i \in 1..Len(t[2]) : \E k \in R : k[2] = t[2][i][2]
Unread(r) == {m \in ModuleName : \A k \in r : k[2] /= m}

LEMMA ReadingOn ==
    ASSUME IncludesTyped, NEW W, W \subseteq Location,
           \A l \in Location : \A i \in 1..Len(Includes(l)) : Includes(l)[i] \in W,
           NEW t, Reading(t, W), t[2] /= <<>>
    PROVE  /\ Reading(Onwards(t), W)
           /\ \A R : ReadWell(Onwards(t), W, R) => ReadWell(t, W, R)
           /\ \/ Onwards(t)[1] = t[1] /\ Len(Onwards(t)[2]) = Len(t[2]) - 1
              \/ \E m \in Unread(t[1]) : Unread(Onwards(t)[1]) \subseteq Unread(t[1]) \ {m}
<1> DEFINE r == t[1]
           s == t[2]
           l == Head(s)
           u == Onwards(t)
<1>1. /\ r \in SUBSET Location /\ s \in Seq(Location) /\ s /= <<>> /\ Single(r) /\ r \subseteq W
      /\ \A i \in 1..Len(s) : s[i] \in W
  BY DEF Reading, Texts
<1>2. u \in Texts
  BY OnwardsTyped DEF Reading
<1>3. /\ Tail(s) \in Seq(Location) /\ Len(Tail(s)) = Len(s) - 1 /\ Len(s) \in Nat /\ Len(s) >= 1
      /\ l = s[1] /\ \A i \in 1..Len(Tail(s)) : Tail(s)[i] = s[i + 1]
  <2> HIDE DEF s
  <2> QED
    BY <1>1
<1>4. l \in W /\ l \in Location
  BY <1>1, <1>3
<1>5. CASE \E k \in r : k[2] = l[2]
  <2>1. u = <<r, Tail(s)>>
    BY <1>5 DEF Onwards
  <2>2. u[1] = r /\ u[2] = Tail(s)
    BY <2>1
  <2> HIDE DEF u, r, s, l
  <2>3. Reading(u, W)
    <3>1. ASSUME NEW i \in 1..Len(Tail(s)) PROVE Tail(s)[i] \in W
      <4>1. i + 1 \in 1..Len(s)
        BY <1>3
      <4> QED
        BY <1>1, <1>3, <4>1
    <3> QED
      BY <1>1, <1>2, <2>2, <3>1 DEF Reading
  <2>4. ASSUME NEW R, ReadWell(u, W, R) PROVE ReadWell(t, W, R)
    <3>1. r \subseteq R /\ R \subseteq W /\ Single(R)
      BY <2>2, <2>4 DEF ReadWell
    <3>2. ASSUME NEW i \in 1..Len(s) PROVE \E k \in R : k[2] = s[i][2]
      <4>1. CASE i = 1
        BY <1>3, <1>5, <3>1, <4>1
      <4>2. CASE i /= 1
        <5>1. i - 1 \in 1..Len(Tail(s)) /\ (i - 1) + 1 = i
          BY <1>3, <4>2
        <5>2. \E k \in R : k[2] = Tail(s)[i - 1][2]
          BY <2>2, <2>4, <5>1 DEF ReadWell
        <5>3. Tail(s)[i - 1] = s[i]
          BY <1>3, <5>1
        <5> QED
          BY <5>2, <5>3
      <4> QED
        BY <4>1, <4>2
    <3> QED
      BY <3>1, <3>2 DEF ReadWell, r, s
  <2>5. u[1] = r /\ Len(u[2]) = Len(s) - 1
    BY <1>3, <2>2
  <2> QED
    BY <2>3, <2>4, <2>5 DEF u, r, s
<1>6. CASE ~(\E k \in r : k[2] = l[2])
  <2> DEFINE v == Includes(l)
             w == v \o Tail(s)
  <2>1. u = <<r \union {l}, w>>
    BY <1>6 DEF Onwards
  <2>2. u[1] = r \union {l} /\ u[2] = w
    <3> HIDE DEF u, r, s, l, v, w
    <3> QED
      BY <2>1
  <2>3. v \in Seq(Location) /\ \A i \in 1..Len(v) : v[i] \in W
    BY <1>4 DEF IncludesTyped
  <2> HIDE DEF u, r, s, l, v
  <2> DEFINE x == Tail(s)
  <2>0. x \in Seq(Location) /\ Len(x) = Len(s) - 1 /\ \A i \in 1..Len(x) : x[i] = s[i + 1]
    BY <1>3
  <2> HIDE DEF x
  <2>4. /\ Len(w) = Len(v) + Len(x) /\ Len(v) \in Nat /\ Len(x) \in Nat
        /\ \A i \in 1..(Len(v) + Len(x)) : w[i] = IF i <= Len(v) THEN v[i] ELSE x[i - Len(v)]
    <3>1. w = v \o x
      BY DEF x
    <3> HIDE DEF w
    <3> QED
      BY <2>3, <2>0, <3>1, ConcatProperties, LenProperties
  <2> HIDE DEF w
  <2>5. Reading(u, W)
    <3>1. ASSUME NEW i \in 1..Len(w) PROVE w[i] \in W
      <4>1. CASE i <= Len(v)
        BY <2>3, <2>4, <4>1
      <4>2. CASE ~(i <= Len(v))
        <5>1. i - Len(v) \in 1..Len(x) /\ (i - Len(v)) + 1 \in 1..Len(s)
          BY <1>3, <2>0, <2>4, <4>2
        <5> QED
          BY <1>1, <2>0, <2>4, <4>2, <5>1
      <4> QED
        BY <4>1, <4>2
    <3>2. Single(r \union {l})
      BY <1>1, <1>6 DEF Single
    <3> QED
      BY <1>1, <1>2, <1>4, <2>2, <3>1, <3>2 DEF Reading
  <2>6. ASSUME NEW R, ReadWell(u, W, R) PROVE ReadWell(t, W, R)
    <3>1. r \subseteq R /\ l \in R /\ R \subseteq W /\ Single(R)
      BY <2>2, <2>6 DEF ReadWell
    <3>2. ASSUME NEW i \in 1..Len(s) PROVE \E k \in R : k[2] = s[i][2]
      <4>1. CASE i = 1
        BY <1>3, <3>1, <4>1
      <4>2. CASE i /= 1
        <5> DEFINE j == i - 1
        <5>1. j \in 1..Len(x) /\ j + 1 = i
          BY <1>3, <2>0, <4>2
        <5> HIDE DEF j
        <5>2. Len(v) + j \in 1..Len(w) /\ ~(Len(v) + j <= Len(v)) /\ (Len(v) + j) - Len(v) = j
          BY <2>4, <5>1
        <5>3. w[Len(v) + j] = x[j] /\ x[j] = s[i]
          BY <2>0, <2>4, <5>1, <5>2
        <5>4. \E k \in R : k[2] = w[Len(v) + j][2]
          BY <2>2, <2>6, <5>2 DEF ReadWell
        <5> QED
          BY <5>3, <5>4
      <4> QED
        BY <4>1, <4>2
    <3> QED
      BY <3>1, <3>2 DEF ReadWell, r, s
  <2>7. /\ l[2] \in Unread(r)
        /\ Unread(u[1]) \subseteq Unread(r) \ {l[2]}
    <3>1. l[2] \in ModuleName
      BY <1>4 DEF Location
    <3>2. l[2] \in Unread(r)
      BY <1>6, <3>1 DEF Unread
    <3>3. \A m \in Unread(u[1]) : m \in Unread(r) /\ m /= l[2]
      BY <2>2 DEF Unread
    <3> QED
      BY <3>2, <3>3
  <2> QED
    BY <2>5, <2>6, <2>7 DEF u, r, s
<1> QED
  BY <1>5, <1>6

LEMMA UnreadFinite ==
    ASSUME NEW r
    PROVE  IsFiniteSet(Unread(r)) /\ Cardinality(Unread(r)) \in Nat
<1>1. Unread(r) \subseteq ModuleName /\ IsFiniteSet(ModuleName)
  BY PathsAssumption DEF Unread
<1>2. IsFiniteSet(Unread(r))
  BY <1>1, FS_Subset
<1> QED
  BY <1>2, FS_CardinalityType

LEMMA HeadersRead ==
    ASSUME IncludesTyped, NEW W, W \subseteq Location,
           \A l \in Location : \A i \in 1..Len(Includes(l)) : Includes(l)[i] \in W
    PROVE  \A t : Reading(t, W) => ReadWell(t, W, HeadersOf[t])
<1> DEFINE Done(t) == ReadWell(t, W, HeadersOf[t])
           S == {n \in Nat : \A t : Reading(t, W) /\ Cardinality(Unread(t[1])) < n => Done(t)}
<1>1. ASSUME NEW t, Reading(t, W), t[2] = <<>> PROVE Done(t)
  <2>1. HeadersOf[t] = t[1]
    BY <1>1, HeadersFact DEF Reading
  <2>2. 1..Len(t[2]) = {}
    BY <1>1
  <2> QED
    BY <1>1, <2>1, <2>2 DEF Reading, ReadWell
<1>2. ASSUME NEW t, Reading(t, W), t[2] /= <<>>, Done(Onwards(t)) PROVE Done(t)
  <2>1. HeadersOf[t] = HeadersOf[Onwards(t)]
    BY <1>2, HeadersFact DEF Reading
  <2> QED
    BY <1>2, <2>1, ReadingOn
<1> HIDE DEF Done
<1>3. 0 \in S
  BY UnreadFinite
<1>4. ASSUME NEW n \in Nat, n \in S PROVE n + 1 \in S
  <2> DEFINE Small(t, j) == Reading(t, W) /\ Cardinality(Unread(t[1])) < n + 1 /\ Len(t[2]) <= j
             U == {j \in Nat : \A t : Small(t, j) => Done(t)}
  <2>1. 0 \in U
    <3>1. ASSUME NEW t, Small(t, 0) PROVE Done(t)
      <4>1. t[2] \in Seq(Location)
        BY <3>1 DEF Reading, Texts
      <4>2. t[2] = <<>>
        BY <3>1, <4>1
      <4> QED
        BY <1>1, <3>1, <4>2
    <3> QED
      BY <3>1
  <2>2. ASSUME NEW j \in Nat, j \in U PROVE j + 1 \in U
    <3>1. SUFFICES ASSUME NEW t, Small(t, j + 1) PROVE Done(t)
      OBVIOUS
    <3>2. CASE t[2] = <<>>
      BY <1>1, <3>1, <3>2
    <3>3. CASE t[2] /= <<>>
      <4> DEFINE u == Onwards(t)
      <4>1. /\ Reading(u, W)
            /\ \/ u[1] = t[1] /\ Len(u[2]) = Len(t[2]) - 1
               \/ \E m \in Unread(t[1]) : Unread(u[1]) \subseteq Unread(t[1]) \ {m}
        BY <3>1, <3>3, ReadingOn
      <4>2. Len(t[2]) \in Nat
        BY <3>1 DEF Reading, Texts
      <4> HIDE DEF u
      <4>3. CASE u[1] = t[1] /\ Len(u[2]) = Len(t[2]) - 1
        <5>1. Small(u, j)
          BY <3>1, <4>1, <4>2, <4>3
        <5> QED
          BY <1>2, <2>2, <3>1, <3>3, <5>1 DEF u
      <4>4. CASE \E m \in Unread(t[1]) : Unread(u[1]) \subseteq Unread(t[1]) \ {m}
        <5>1. PICK m \in Unread(t[1]) : Unread(u[1]) \subseteq Unread(t[1]) \ {m}
          BY <4>4
        <5> DEFINE A == Unread(t[1])
                   B == Unread(u[1])
        <5>2. /\ IsFiniteSet(A) /\ Cardinality(A) \in Nat /\ Cardinality(A) < n + 1
              /\ IsFiniteSet(B) /\ Cardinality(B) \in Nat /\ m \in A /\ B \subseteq A \ {m}
          BY <3>1, <5>1, UnreadFinite
        <5> HIDE DEF A, B
        <5>3. IsFiniteSet(A \ {m}) /\ Cardinality(A \ {m}) = Cardinality(A) - 1
          BY <5>2, FS_RemoveElement
        <5>4. Cardinality(B) <= Cardinality(A) - 1
          BY <5>2, <5>3, FS_Subset
        <5>5. Cardinality(Unread(u[1])) < n
          BY <5>2, <5>4 DEF B
        <5>6. Done(u)
          BY <1>4, <4>1, <5>5
        <5> QED
          BY <1>2, <3>1, <3>3, <5>6 DEF u
      <4> QED
        BY <4>1, <4>3, <4>4
    <3> QED
      BY <3>2, <3>3
  <2> HIDE DEF U
  <2>3. Nat \subseteq U
    BY <2>1, <2>2, SetInduction
  <2>4. ASSUME NEW t, Reading(t, W), Cardinality(Unread(t[1])) < n + 1 PROVE Done(t)
    <3>1. Len(t[2]) \in Nat
      BY <2>4 DEF Reading, Texts
    <3>2. Len(t[2]) \in U /\ Small(t, Len(t[2]))
      BY <2>3, <2>4, <3>1
    <3> QED
      BY <3>2 DEF U
  <2> QED
    BY <2>4
<1> HIDE DEF S
<1>5. Nat \subseteq S
  BY <1>3, <1>4, SetInduction
<1>6. ASSUME NEW t, Reading(t, W) PROVE Done(t)
  <2> DEFINE n == Cardinality(Unread(t[1]))
  <2>1. n \in Nat
    BY UnreadFinite
  <2> HIDE DEF n
  <2>2. n + 1 \in S /\ n < n + 1
    BY <1>5, <2>1
  <2> QED
    BY <1>6, <2>2 DEF S, n
<1> QED
  BY <1>6 DEF Done

-----------------------------------------------------------------------------
(* The searches of a state.                                                *)
Have == {l \in Location : HasFiles(l[1], l[2])}
FoundIs ==
    \A m \in ModuleName : \A p \in Paths : \A c \in Directory : Found(m, p, c) = FoundIn(Have, m, p, c)
MeantIs ==
    \A m \in ModuleName : \A d \in Directory :
        FoundIn(Have, m, <<0>>, d) /= <<>> => Meant(d, m) = <<At(FoundIn(Have, m, <<0>>, d), d), m>>

LEMMA HaveFact ==
    ASSUME NEW d \in Directory \union {Nowhere}, NEW m \in ModuleName
    PROVE  HasFiles(d, m) <=> <<d, m>> \in Have
<1>1. CASE d = Nowhere
  <2>1. <<d, m>> \notin Location
    BY <1>1, PathsAssumption DEF Location
  <2> QED
    BY <1>1, <2>1 DEF Have, HasFiles
<1>2. CASE d /= Nowhere
  <2>1. <<d, m>> \in Location /\ <<d, m>>[1] = d /\ <<d, m>>[2] = m
    BY <1>2 DEF Location
  <2> DEFINE l == <<d, m>>
  <2> HIDE DEF l
  <2>2. l \in Location /\ l[1] = d /\ l[2] = m
    BY <2>1 DEF l
  <2>3. l \in Have <=> HasFiles(d, m)
    BY <2>2 DEF Have
  <2> QED
    BY <2>3 DEF l
<1> QED
  BY <1>1, <1>2

LEMMA FoundIsSo == FoundIs
<1>1. SUFFICES ASSUME NEW m \in ModuleName, NEW p \in Paths, NEW c \in Directory
               PROVE  Found(m, p, c) = FoundIn(Have, m, p, c)
  BY DEF FoundIs
<1>2. ASSUME NEW i \in 0..LastCandidate
      PROVE  HasFiles(At(Candidate(i, m, p), c), m) <=> <<At(Candidate(i, m, p), c), m>> \in Have
  <2>1. Candidate(i, m, p) \in Paths
    BY CandidateFact
  <2> QED
    BY <2>1, AtTyped, HaveFact
<1> DEFINE A == {i \in 0..(2 * Len(SearchEntry) + 1) : HasFiles(At(Candidate(i, m, p), c), m)}
           B == Present(Have, m, p, c)
<1>3. A = B
  BY <1>2 DEF Present, LastCandidate
<1>4. Found(m, p, c) = IF A = {} THEN <<>> ELSE Candidate(Min(A), m, p)
  BY Zenon DEF Found
<1> HIDE DEF A
<1>5. FoundIn(Have, m, p, c) = IF B = {} THEN <<>> ELSE Candidate(Min(B), m, p)
  BY Zenon DEF FoundIn
<1> QED
  BY <1>3, <1>4, <1>5

LEMMA MeantIsSo == MeantIs
<1>1. SUFFICES ASSUME NEW m \in ModuleName, NEW d \in Directory, FoundIn(Have, m, << 0 >>, d) /= <<>>
               PROVE  Meant(d, m) = <<At(FoundIn(Have, m, <<0>>, d), d), m>>
  BY DEF MeantIs
<1> DEFINE s == MeantEntries(d)
           sub(e) == Subdirectory(e, Prefix[m])
           A == {i \in DOMAIN s : HasFiles(s[i], m) \/ HasFiles(sub(s[i]), m)}
           B == MeantAt(Have, d, m)
           n == Len(SearchEntry)
<1>2. /\ DOMAIN s = 1..(n + 1)
      /\ \A i \in 1..(n + 1) : s[i] \in Directory \union {Nowhere}
  BY MeantEntriesFact
<1>3. \A e \in Directory \union {Nowhere} :
         /\ HasFiles(e, m) <=> <<e, m>> \in Have
         /\ HasFiles(sub(e), m) <=> <<sub(e), m>> \in Have
  BY SubdirectoryTyped, HaveFact
<1>4. A = B
  <2> HIDE DEF s, sub, n
  <2>1. B = {i \in DOMAIN s : <<s[i], m>> \in Have \/ <<sub(s[i]), m>> \in Have}
    BY DEF MeantAt, s, sub
  <2> QED
    BY <1>2, <1>3, <2>1
<1> DEFINE e1 == s[Min(A)]
           e2 == s[Min(B)]
<1>5. Meant(d, m) = <<IF HasFiles(e1, m) THEN e1 ELSE sub(e1), m>>
  BY Zenon DEF Meant, MeantEntries
<1>6. MeantIn(Have, d, m) = <<IF <<e2, m>> \in Have THEN e2 ELSE sub(e2), m>>
  BY Zenon DEF MeantIn
<1>7. e1 = e2
  BY <1>4
<1>8. Have \in SUBSET Location
  BY DEF Have
<1>9. /\ MeantIn(Have, d, m) = <<At(FoundIn(Have, m, <<0>>, d), d), m>>
      /\ Min(B) \in DOMAIN s
  BY <1>1, <1>8, MeantIsFound
<1>10. HasFiles(e1, m) <=> <<e1, m>> \in Have
  BY <1>2, <1>3, <1>7, <1>9
<1> QED
  BY <1>5, <1>6, <1>7, <1>9, <1>10

-----------------------------------------------------------------------------
(* Types.                                                                  *)
Node == [module : ModuleName, path : Paths]
Sought == [module : ModuleName, path : Paths \union {<<>>}]

ImportsIn(H, names, n) ==
    [i \in DOMAIN names |-> ModuleNode(names[i], FoundIn(H, names[i], n.path, Home))]

FilesTyped ==
    /\ list \in [Location -> Seq(ModuleName) \union {NoFile}]
    /\ \A l \in Location : list[l] \in Draft[l] \union {NoFile}
    /\ made \in [Location -> Made \union {NoFile}]
    /\ \A l \in Location : made[l] /= NoFile => Draft[l] /= {}
    /\ modified \subseteq {l \in Location : list[l] /= NoFile}
    /\ \A l \in Location \ modified :
          list[l] /= NoFile /\ made[l] /= NoFile => made[l].imports = list[l]

Imports(n) == ImportsIn(Have, ImportNames(PlaceOf(n)), n)
AllFound(n) == \A i \in DOMAIN Imports(n) : Imports(n)[i].path /= <<>>

Visits == [node : Node, imports : Seq(Sought), done : Nat]

TraversalTyped ==
    /\ \A n \in discovered : n \in Node /\ PlaceOf(n) \in Have
    /\ changed \subseteq discovered
    /\ path \in Seq(Visits)
    /\ \A i \in 1..Len(path) : path[i].node \in discovered
    /\ \A i \in 1..Len(path) : \A n \in Node :
          path[i].node = n => path[i].imports = Imports(n) /\ path[i].done <= Len(Imports(n))
    /\ phase \in {"traversing", "linked"} => \A n \in discovered : AllFound(n)

PathsTyped == FilesTyped /\ TraversalTyped

LEMMA PathsTypedSuffices == PathsTyped => PathsTypeOK
<1> SUFFICES ASSUME PathsTyped PROVE PathsTypeOK
  OBVIOUS
<1>1. NodePath \subseteq discovered
  <2>1. DOMAIN path = 1..Len(path)
    BY DEF PathsTyped, TraversalTyped
  <2> QED
    BY <2>1 DEF NodePath, PathsTyped, TraversalTyped
<1>2. ASSUME NEW n \in discovered PROVE At(n.path, Home) \in Directory
  <2>1. PlaceOf(n) \in Location
    BY DEF PathsTyped, TraversalTyped, Have
  <2> QED
    BY <2>1 DEF PlaceOf, Location
<1> QED
  BY <1>1, <1>2 DEF PathsTypeOK, PathsTyped, FilesTyped, TraversalTyped

NamesTyped == FilesTyped => \A l \in Location : ImportNames(l) \in Seq(ModuleName)
LEMMA NamesTypedSo == NamesTyped
<1> SUFFICES ASSUME FilesTyped, NEW l \in Location PROVE ImportNames(l) \in Seq(ModuleName)
  BY DEF NamesTyped
<1>1. list[l] \in Seq(ModuleName) \union {NoFile} /\ made[l] \in Made \union {NoFile}
  BY DEF FilesTyped
<1>2. CASE list[l] /= NoFile
  BY <1>1, <1>2 DEF ImportNames
<1>3. CASE list[l] = NoFile /\ made[l] /= NoFile
  <2>1. made[l].imports \in Seq(ModuleName)
    BY <1>1, <1>3 DEF Made
  <2> QED
    BY <1>3, <2>1 DEF ImportNames
<1>4. CASE list[l] = NoFile /\ made[l] = NoFile /\ l \notin Installed
  <2>1. ImportNames(l) = <<>>
    BY <1>4 DEF ImportNames
  <2> QED
    BY <2>1
<1>5. CASE list[l] = NoFile /\ made[l] = NoFile /\ l \in Installed
  <2>1. ImportNames(l) = InstalledImports[l]
    BY <1>5 DEF ImportNames
  <2> QED
    BY <1>5, <2>1, LibraryAssumption
<1> QED
  BY <1>2, <1>3, <1>4, <1>5

LEMMA PlaceTyped ==
    ASSUME NEW n \in Node
    PROVE  /\ PlaceOf(n) = <<At(n.path, Home), n.module>>
           /\ PlaceOf(n) \in Location <=> At(n.path, Home) \in Directory
<1>1. n.module \in ModuleName
  BY DEF Node
<1> QED
  BY <1>1 DEF PlaceOf, Location

LEMMA ImportsTyped ==
    ASSUME NEW H \in SUBSET Location, NEW names \in Seq(ModuleName), NEW n \in Node
    PROVE  /\ ImportsIn(H, names, n) \in Seq(Sought)
           /\ Len(ImportsIn(H, names, n)) = Len(names)
           /\ DOMAIN ImportsIn(H, names, n) = 1..Len(names)
           /\ \A i \in 1..Len(names) :
                 LET k == ImportsIn(H, names, n)[i] IN
                 /\ k = ModuleNode(names[i], FoundIn(H, names[i], n.path, Home))
                 /\ k.module = names[i] /\ k.path = FoundIn(H, names[i], n.path, Home)
                 /\ k.path /= <<>> => k \in Node /\ PlaceOf(k) \in H
<1> DEFINE s == ImportsIn(H, names, n)
           K(i) == ModuleNode(names[i], FoundIn(H, names[i], n.path, Home))
<1>1. DOMAIN names = 1..Len(names) /\ Len(names) \in Nat /\ n.path \in Paths
      /\ \A i \in 1..Len(names) : names[i] \in ModuleName
  BY DEF Node
<1>2. s = [i \in 1..Len(names) |-> K(i)]
  BY <1>1 DEF ImportsIn
<1>3. ASSUME NEW i \in 1..Len(names)
      PROVE  /\ K(i) \in Sought
             /\ K(i).module = names[i] /\ K(i).path = FoundIn(H, names[i], n.path, Home)
             /\ K(i).path /= <<>> => K(i) \in Node /\ PlaceOf(K(i)) \in H
  <2> DEFINE m == names[i]
             p == FoundIn(H, m, n.path, Home)
  <2>1. m \in ModuleName
    BY <1>1
  <2> HIDE DEF m
  <2>2. p = <<>> \/ (p \in Paths /\ <<At(p, Home), m>> \in H)
    <3>1. ASSUME p /= <<>> PROVE p \in Paths /\ <<At(p, Home), m>> \in H
      BY <1>1, <2>1, <3>1, FoundFact
    <3> HIDE DEF p
    <3> QED
      BY <3>1
  <2> HIDE DEF p
  <2>3. K(i) = [module |-> m, path |-> p]
    BY DEF ModuleNode, m, p
  <2> HIDE DEF K
  <2> QED
    BY <2>1, <2>2, <2>3 DEF Sought, Node, PlaceOf, m, p
<1> HIDE DEF K
<1>4. s \in [1..Len(names) -> Sought]
  BY <1>2, <1>3
<1>5. \A i \in 1..Len(names) : s[i] = K(i)
  BY <1>2
<1> HIDE DEF s
<1>6. s \in Seq(Sought) /\ Len(s) = Len(names)
  BY <1>1, <1>4, IsASeq
<1>7. DOMAIN s = 1..Len(names)
  BY <1>4
<1> QED
  BY <1>3, <1>5, <1>6, <1>7 DEF s, K

ImportsAre == FilesTyped => \A n \in Node : PlaceOf(n) \in Location => ImportedFiles(n) = Imports(n)
LEMMA ImportsAreSo == ImportsAre
<1> SUFFICES ASSUME FilesTyped, NEW n \in Node, PlaceOf(n) \in Location
             PROVE  ImportedFiles(n) = Imports(n)
  BY DEF ImportsAre
<1> DEFINE names == ImportNames(PlaceOf(n))
<1>1. names \in Seq(ModuleName)
  BY NamesTypedSo DEF NamesTyped
<1>2. ImportedFiles(n) = [i \in DOMAIN names |-> ModuleNode(names[i], Found(names[i], n.path, Home))]
  BY Zenon DEF ImportedFiles
<1>3. Imports(n) = [i \in DOMAIN names |-> ModuleNode(names[i], FoundIn(Have, names[i], n.path, Home))]
  BY Zenon DEF Imports, ImportsIn
<1> HIDE DEF names
<1>4. ASSUME NEW i \in DOMAIN names
      PROVE  Found(names[i], n.path, Home) = FoundIn(Have, names[i], n.path, Home)
  <2>1. names[i] \in ModuleName /\ n.path \in Paths /\ Home \in Directory
    BY <1>1, PathsAssumption DEF Node
  <2> QED
    BY <2>1, FoundIsSo DEF FoundIs
<1>5. [i \in DOMAIN names |-> ModuleNode(names[i], Found(names[i], n.path, Home))]
        = [i \in DOMAIN names |-> ModuleNode(names[i], FoundIn(Have, names[i], n.path, Home))]
  BY <1>4
<1> QED
  BY <1>2, <1>3, <1>5

-----------------------------------------------------------------------------
(* During a build nothing changes of what the search finds and of the      *)
(* import lists.                                                           *)
Settled == Have' = Have /\ \A l \in Location : ImportNames(l)' = ImportNames(l)

LEMMA SettledFiles ==
    ASSUME UNCHANGED fileVars
    PROVE  Settled
<1>1. list' = list /\ made' = made
  BY DEF fileVars
<1>2. Have' = Have
  BY <1>1 DEF Have, HasFiles
<1>3. ASSUME NEW l \in Location PROVE ImportNames(l)' = ImportNames(l)
  BY <1>1 DEF ImportNames
<1> QED
  BY <1>2, <1>3 DEF Settled

LEMMA SettledMaking ==
    ASSUME FilesTyped, NEW l \in Location, list[l] /= NoFile,
           list' = list, \A k \in Location \ {l} : made'[k] = made[k]
    PROVE  Settled
<1>1. ASSUME NEW k \in Location PROVE HasFiles(k[1], k[2])' <=> HasFiles(k[1], k[2])
  <2>1. k = <<k[1], k[2]>>
    BY DEF Location
  <2>2. CASE k = l
    BY <2>1, <2>2 DEF HasFiles
  <2>3. CASE k /= l
    BY <2>1, <2>3 DEF HasFiles
  <2> QED
    BY <2>2, <2>3
<1>2. Have' = Have
  BY <1>1 DEF Have
<1>3. ASSUME NEW k \in Location PROVE ImportNames(k)' = ImportNames(k)
  <2>1. CASE list[k] /= NoFile
    BY <2>1 DEF ImportNames
  <2>2. CASE list[k] = NoFile
    <3>1. made'[k] = made[k] /\ list'[k] = NoFile
      BY <2>2
    <3> QED
      BY <2>2, <3>1 DEF ImportNames
  <2> QED
    BY <2>1, <2>2
<1> QED
  BY <1>2, <1>3 DEF Settled

LEMMA ImportsKept ==
    ASSUME Settled, NEW n, PlaceOf(n) \in Location
    PROVE  Imports(n)' = Imports(n) /\ (AllFound(n)' <=> AllFound(n))
<1>1. Imports(n)' = Imports(n)
  BY DEF Settled, Imports
<1> QED
  BY <1>1 DEF AllFound

-----------------------------------------------------------------------------
(* The visit that a build is at.                                           *)
LEMMA Current ==
    ASSUME PathsTyped, path /= <<>>
    PROVE  /\ Len(path) \in Nat /\ Len(path) >= 1
           /\ CurrentVisit = path[Len(path)]
           /\ CurrentVisit.node \in discovered /\ CurrentVisit.node \in Node
           /\ PlaceOf(CurrentVisit.node) \in Have /\ PlaceOf(CurrentVisit.node) \in Location
           /\ CurrentVisit.imports = Imports(CurrentVisit.node)
           /\ CurrentVisit.imports \in Seq(Sought)
           /\ CurrentVisit.done \in Nat /\ CurrentVisit.done <= Len(CurrentVisit.imports)
<1>1. path \in Seq(Visits)
  BY DEF PathsTyped, TraversalTyped
<1>2. Len(path) \in Nat /\ Len(path) >= 1 /\ Len(path) \in 1..Len(path)
  BY <1>1
<1>3. path[Len(path)] \in Visits
  BY <1>1, <1>2
<1>4. path[Len(path)].node \in Node /\ path[Len(path)].imports \in Seq(Sought)
      /\ path[Len(path)].done \in Nat
  BY <1>3 DEF Visits
<1>5. /\ path[Len(path)].node \in discovered
      /\ path[Len(path)].imports = Imports(path[Len(path)].node)
      /\ path[Len(path)].done <= Len(path[Len(path)].imports)
  BY <1>2, <1>4 DEF PathsTyped, TraversalTyped
<1>6. \A n \in discovered : PlaceOf(n) \in Have
  BY DEF PathsTyped, TraversalTyped
<1>7. Have \subseteq Location
  BY DEF Have
<1> QED
  BY <1>2, <1>4, <1>5, <1>6, <1>7 DEF CurrentVisit

(* What is compiled is compiled in the directory of its source.            *)
LEMMA CompiledThere ==
    ASSUME PathsTyped, path /= <<>>
    PROVE  LET l == PlaceOf(CurrentVisit.node)
               c == CompileDir(CurrentVisit.node)
           IN l = <<c, l[2]>> /\ c = l[1] /\ c \in Directory /\ l[2] \in ModuleName
<1> DEFINE n == CurrentVisit.node
<1>1. PlaceOf(n) \in Location /\ PlaceOf(n) = <<At(n.path, Home), n.module>>
  BY Current DEF PlaceOf
<1> HIDE DEF n
<1> QED
  BY <1>1 DEF CompileDir, Location, n

(* What imports denote for obnc-compile.                                   *)
LEMMA DenotedTyped ==
    ASSUME NEW names \in Seq(ModuleName), NEW c \in Directory,
           CompileOutcome(names, c) /= "imported-module-not-found"
    PROVE  /\ \A i \in 1..Len(names) :
                 /\ FoundIn(Have, names[i], <<0>>, c) /= <<>>
                 /\ Denoted(names, c)[i] = <<At(FoundIn(Have, names[i], <<0>>, c), c), names[i]>>
                 /\ Denoted(names, c)[i] \in Have
           /\ Denoted(names, c) \in Seq(Location) /\ Len(Denoted(names, c)) = Len(names)
           /\ DOMAIN Denoted(names, c) = 1..Len(names)
<1> DEFINE z == <<0>>
           D(i) == <<At(Found(names[i], z, c), c), names[i]>>
<1>1. DOMAIN names = 1..Len(names) /\ Len(names) \in Nat /\ z \in Paths
      /\ \A i \in 1..Len(names) : names[i] \in ModuleName
  <2>1. z \in Paths
    BY HomePath
  <2> HIDE DEF z
  <2> QED
    BY <2>1
<1>2. Denoted(names, c) = [i \in 1..Len(names) |-> D(i)]
  BY <1>1 DEF Denoted
<1>3. Have \in SUBSET Location
  BY DEF Have
<1> HIDE DEF z
<1>4. ASSUME NEW i \in 1..Len(names)
      PROVE  /\ FoundIn(Have, names[i], z, c) /= <<>>
             /\ D(i) = <<At(FoundIn(Have, names[i], z, c), c), names[i]>>
             /\ D(i) \in Have
  <2>1. names[i] \in ModuleName /\ names[i] \in Range(names)
    BY <1>1 DEF Range
  <2>2. Found(names[i], z, c) = FoundIn(Have, names[i], z, c)
    BY <1>1, <2>1, FoundIsSo DEF FoundIs
  <2>3. Found(names[i], z, c) /= <<>>
    BY <2>1, Zenon DEF CompileOutcome, z
  <2>4. <<At(FoundIn(Have, names[i], z, c), c), names[i]>> \in Have
    BY <1>1, <1>3, <2>1, <2>2, <2>3, FoundFact
  <2> QED
    BY <2>2, <2>3, <2>4
<1> HIDE DEF D
<1>5. Denoted(names, c) \in [1..Len(names) -> Location]
  BY <1>2, <1>3, <1>4
<1>6. Denoted(names, c) \in Seq(Location) /\ Len(Denoted(names, c)) = Len(names)
  <2> DEFINE s == Denoted(names, c)
             n == Len(names)
  <2> HIDE DEF s, n
  <2>1. n \in Nat /\ s \in [1..n -> Location]
    BY <1>1, <1>5 DEF s, n
  <2>2. s \in Seq(Location) /\ Len(s) = n
    BY <2>1, IsASeq
  <2> QED
    BY <2>2 DEF s, n
<1>7. \A i \in 1..Len(names) : Denoted(names, c)[i] = D(i)
  BY <1>2
<1>8. DOMAIN Denoted(names, c) = 1..Len(names)
  BY <1>2
<1> QED
  BY <1>4, <1>6, <1>7, <1>8 DEF D, z

(* The modules that an installed one imports.                              *)
LEMMA LibraryFact ==
    ASSUME NEW l \in Installed
    PROVE  /\ l \in Location /\ InstalledImports[l] \in Seq(ModuleName)
           /\ InLibrary(l) \in Seq(Location) /\ Len(InLibrary(l)) = Len(InstalledImports[l])
           /\ DOMAIN InLibrary(l) = 1..Len(InstalledImports[l])
           /\ \A i \in 1..Len(InstalledImports[l]) :
                 /\ InLibrary(l)[i] = <<l[1], InstalledImports[l][i]>>
                 /\ InLibrary(l)[i] \in Installed
<1> DEFINE names == InstalledImports[l]
           s == InLibrary(l)
<1>1. l \in Location /\ names \in Seq(ModuleName) /\ Range(s) \subseteq Installed
  BY LibraryAssumption
<1>2. DOMAIN names = 1..Len(names) /\ Len(names) \in Nat
  BY <1>1
<1>3. s = [i \in 1..Len(names) |-> <<l[1], names[i]>>]
  BY <1>2 DEF InLibrary
<1> HIDE DEF names, s
<1>4. \A i \in 1..Len(names) : s[i] = <<l[1], names[i]>> /\ s[i] \in Installed
  BY <1>1, <1>3 DEF Range
<1>5. s \in Seq(Location) /\ Len(s) = Len(names)
  BY <1>2, <1>3, <1>4, LibraryAssumption
<1> QED
  BY <1>1, <1>3, <1>4, <1>5 DEF names, s

LEMMA IncludesAreTyped ==
    ASSUME FilesTyped
    PROVE  IncludesTyped
<1> SUFFICES ASSUME NEW l \in Location PROVE Includes(l) \in Seq(Location)
  BY DEF IncludesTyped
<1>1. made[l] \in Made \union {NoFile}
  BY DEF FilesTyped
<1>2. CASE made[l] = NoFile /\ l \notin Installed
  <2>1. Includes(l) = <<>>
    BY <1>2 DEF Includes
  <2> QED
    BY <2>1
<1>3. CASE made[l] /= NoFile
  <2>1. made[l].includes \in Seq(Location)
    BY <1>1, <1>3 DEF Made
  <2> QED
    BY <1>3, <2>1 DEF Includes
<1>4. CASE made[l] = NoFile /\ l \in Installed
  <2>1. Includes(l) = InLibrary(l)
    BY <1>4 DEF Includes
  <2> QED
    BY <1>4, <2>1, LibraryFact
<1> QED
  BY <1>2, <1>3, <1>4

(* The headers read when the source of l is compiled.                      *)
OwnHeader(l) == IF l[2] \in Root THEN {} ELSE {l}

LEMMA HeadersOfCompiled ==
    ASSUME FilesTyped, NEW W \in SUBSET Location,
           \A k \in Location : \A i \in 1..Len(Includes(k)) : Includes(k)[i] \in W,
           NEW l \in W, NEW includes \in Seq(Location),
           \A i \in 1..Len(includes) : includes[i] \in W
    PROVE  LET R == Headers(OwnHeader(l), includes) IN
           /\ R \subseteq W /\ Single(R)
           /\ OwnHeader(l) \subseteq R
           /\ \A i \in 1..Len(includes) : \E k \in R : k[2] = includes[i][2]
           /\ includes /= <<>> /\ (l[2] \in Root \/ includes[1][2] /= l[2]) => includes[1] \in R
<1> DEFINE t == <<OwnHeader(l), includes>>
           R == HeadersOf[t]
<1>1. IncludesTyped
  BY IncludesAreTyped
<1>2. t[1] = OwnHeader(l) /\ t[2] = includes /\ t \in Texts /\ OwnHeader(l) \subseteq W
  BY DEF OwnHeader, Texts
<1>3. Single(OwnHeader(l))
  BY DEF OwnHeader, Single
<1>4. Headers(OwnHeader(l), includes) = R
  BY <1>1, HeadersFact
<1> HIDE DEF t, R
<1>5. Reading(t, W)
  BY <1>2, <1>3 DEF Reading
<1>6. ReadWell(t, W, R)
  BY <1>1, <1>5, HeadersRead DEF R
<1>7. ASSUME includes /= <<>>, l[2] \in Root \/ includes[1][2] /= l[2]
      PROVE  includes[1] \in R
  <2>1. R = HeadersOf[Onwards(t)] /\ Reading(Onwards(t), W)
    BY <1>1, <1>2, <1>5, <1>7, HeadersFact, ReadingOn DEF R
  <2>2. Onwards(t)[1] \subseteq R
    BY <1>1, <2>1, HeadersRead DEF ReadWell
  <2>3. ~(\E k \in t[1] : k[2] = Head(t[2])[2]) /\ Head(t[2]) = includes[1]
    BY <1>2, <1>7 DEF OwnHeader
  <2>4. Onwards(t)[1] = t[1] \union {includes[1]}
    BY <2>3 DEF Onwards
  <2> QED
    BY <2>2, <2>4
<1> QED
  BY <1>2, <1>4, <1>6, <1>7 DEF ReadWell

-----------------------------------------------------------------------------
(* What the owner does.                                                    *)
LEMMA OwnerTyped ==
    ASSUME OwnerStep
    PROVE  TraversalTyped'
<1>1. phase' = "idle" /\ discovered' = {} /\ changed' = {} /\ path' = <<>>
  BY DEF OwnerStep
<1>2. path' \in Seq(Visits) /\ Len(path') = 0
  BY <1>1
<1> QED
  BY <1>1, <1>2 DEF TraversalTyped

LEMMA SaveTyped ==
    ASSUME FilesTyped, NEW l \in Location, NEW names \in Draft[l], Save(l, names)
    PROVE  FilesTyped'
<1>1. list' = [list EXCEPT ![l] = names] /\ modified' = modified \union {l} /\ made' = made
  BY DEF Save
<1>2. names \in Seq(ModuleName) /\ names /= NoFile
  BY PathsAssumption
<1>3. list' \in [Location -> Seq(ModuleName) \union {NoFile}]
  BY <1>1, <1>2 DEF FilesTyped
<1>4. \A k \in Location : list'[k] = IF k = l THEN names ELSE list[k]
  BY <1>1 DEF FilesTyped
<1>5. modified' \subseteq {k \in Location : list'[k] /= NoFile}
  BY <1>1, <1>2, <1>4 DEF FilesTyped
<1>6. \A k \in Location \ modified' : list'[k] = list[k] /\ k \in Location \ modified
  BY <1>1, <1>4
<1> QED
  BY <1>1, <1>3, <1>4, <1>5, <1>6 DEF FilesTyped

LEMMA RemoveTyped ==
    ASSUME FilesTyped, NEW l \in Location, RemoveSource(l)
    PROVE  FilesTyped'
<1>1. list' = [list EXCEPT ![l] = NoFile] /\ modified' = modified \ {l} /\ made' = made
  BY DEF RemoveSource
<1>2. list' \in [Location -> Seq(ModuleName) \union {NoFile}]
  BY <1>1 DEF FilesTyped
<1>3. \A k \in Location : list'[k] = IF k = l THEN NoFile ELSE list[k]
  BY <1>1 DEF FilesTyped
<1>4. modified' \subseteq {k \in Location : list'[k] /= NoFile}
  BY <1>1, <1>3 DEF FilesTyped
<1>5. \A k \in Location \ modified' : list'[k] /= NoFile => list'[k] = list[k] /\ k \in Location \ modified
  BY <1>1, <1>3
<1> QED
  BY <1>1, <1>2, <1>3, <1>4, <1>5 DEF FilesTyped

LEMMA CleanTyped ==
    ASSUME FilesTyped, NEW d \in Directory, Clean(d)
    PROVE  FilesTyped'
<1>1. made' = [l \in Location |-> IF l[1] = d THEN NoFile ELSE made[l]] /\ list' = list /\ modified' = modified
  BY DEF Clean
<1>2. made' \in [Location -> Made \union {NoFile}]
  BY <1>1 DEF FilesTyped
<1>3. \A l \in Location : made'[l] /= NoFile => made'[l] = made[l]
  BY <1>1
<1> QED
  BY <1>1, <1>2, <1>3 DEF FilesTyped

-----------------------------------------------------------------------------
(* What obnc does.                                                         *)
LEMMA FilesSame ==
    ASSUME FilesTyped, UNCHANGED fileVars
    PROVE  FilesTyped'
BY DEF FilesTyped, fileVars

(* The module n is entered.                                                *)
LEMMA Entered ==
    ASSUME NEW n, NEW before \in Seq(Visits), NEW met, EnterModule(n, before, met),
           FilesTyped, n \in Node, PlaceOf(n) \in Location
    PROVE  /\ Len(path') = Len(before) + 1 /\ Len(before) \in Nat /\ path' \in Seq(Visits)
           /\ \A i \in 1..Len(before) : path'[i] = before[i]
           /\ path'[Len(before) + 1].node = n
           /\ path'[Len(before) + 1].imports = Imports(n)
           /\ path'[Len(before) + 1].done = 0
           /\ discovered' = met \union {n}
           /\ phase' \in {"traversing", "module-not-found"}
           /\ phase' = "traversing" <=> AllFound(n)
<1> DEFINE v == Visit(n)
<1>1. v = [node |-> n, imports |-> Imports(n), done |-> 0]
  BY ImportsAreSo DEF ImportsAre, Visit
<1>2. Imports(n) \in Seq(Sought)
  <2>1. Have \in SUBSET Location /\ ImportNames(PlaceOf(n)) \in Seq(ModuleName)
    BY NamesTypedSo DEF NamesTyped, Have
  <2> QED
    BY <2>1, ImportsTyped DEF Imports
<1>3. v \in Visits /\ v.node = n /\ v.imports = Imports(n) /\ v.done = 0
  BY <1>1, <1>2 DEF Visits
<1>4. /\ path' = Append(before, v) /\ discovered' = met \union {n}
      /\ phase' = IF \E i \in DOMAIN v.imports : v.imports[i].path = <<>>
                  THEN "module-not-found" ELSE "traversing"
  BY DEF EnterModule
<1> HIDE DEF v
<1>5. (\E i \in DOMAIN v.imports : v.imports[i].path = <<>>) <=> ~AllFound(n)
  BY <1>3 DEF AllFound
<1>6. phase' = IF AllFound(n) THEN "traversing" ELSE "module-not-found"
  BY <1>4, <1>5
<1> QED
  BY <1>3, <1>4, <1>6

(* The visits, when one more import of the innermost module is done.       *)
After == [path EXCEPT ![Len(path)].done = @ + 1]

LEMMA AfterFact ==
    ASSUME PathsTyped, path /= <<>>
    PROVE  /\ After \in Seq(Visits) /\ Len(After) = Len(path)
           /\ \A i \in 1..Len(path) :
                 /\ After[i].node = path[i].node /\ After[i].imports = path[i].imports
                 /\ After[i].done = IF i = Len(path) THEN path[i].done + 1 ELSE path[i].done
<1> DEFINE L == Len(path)
<1>1. path \in Seq(Visits) /\ L \in Nat /\ L >= 1
  BY Current DEF PathsTyped, TraversalTyped
<1>2. \A i \in 1..L : path[i] \in Visits
  BY <1>1
<1> HIDE DEF L
<1>3. path \in [1..L -> Visits] /\ L \in 1..L
  BY <1>1 DEF L
<1>4. After = [path EXCEPT ![L] = [path[L] EXCEPT !.done = @ + 1]]
  BY DEF After, L
<1>5. [path[L] EXCEPT !.done = @ + 1] \in Visits
  BY <1>2, <1>3 DEF Visits
<1>6. After \in [1..L -> Visits]
  BY <1>3, <1>4, <1>5
<1>7. After \in Seq(Visits) /\ Len(After) = L
  BY <1>1, <1>6, IsASeq
<1>8. ASSUME NEW i \in 1..L
      PROVE  /\ After[i].node = path[i].node /\ After[i].imports = path[i].imports
             /\ After[i].done = IF i = L THEN path[i].done + 1 ELSE path[i].done
  <2>1. CASE i = L
    <3>1. After[i] = [path[L] EXCEPT !.done = @ + 1]
      BY <1>3, <1>4, <2>1
    <3>2. path[L] \in [node : Node, imports : Seq(Sought), done : Nat]
      BY <1>2, <1>3 DEF Visits
    <3> QED
      BY <2>1, <3>1, <3>2
  <2>2. CASE i /= L
    BY <1>3, <1>4, <2>2
  <2> QED
    BY <2>1, <2>2
<1> QED
  BY <1>7, <1>8 DEF L

LEMMA HaveKept ==
    ASSUME Settled, NEW n \in Node
    PROVE  /\ Have' = Have /\ PlaceOf(n)' = PlaceOf(n)
           /\ PlaceOf(n) \in Have => Imports(n)' = Imports(n) /\ (AllFound(n)' <=> AllFound(n))
<1>1. Have \subseteq Location
  BY DEF Have
<1>2. PlaceOf(n) \in Have => Imports(n)' = Imports(n) /\ (AllFound(n)' <=> AllFound(n))
  BY <1>1, ImportsKept
<1> QED
  BY <1>2 DEF Settled

(* What is found for a module that was met.                                *)
LEMMA ImportsMet ==
    ASSUME FilesTyped, NEW n \in Node, PlaceOf(n) \in Location
    PROVE  /\ Imports(n) \in Seq(Sought) /\ Len(Imports(n)) \in Nat
           /\ DOMAIN Imports(n) = 1..Len(Imports(n))
           /\ Len(Imports(n)) = Len(ImportNames(PlaceOf(n)))
           /\ \A j \in 1..Len(Imports(n)) :
                 Imports(n)[j].path /= <<>> => Imports(n)[j] \in Node /\ PlaceOf(Imports(n)[j]) \in Have
           /\ AllFound(n) => \A j \in 1..Len(Imports(n)) :
                 Imports(n)[j] \in Node /\ PlaceOf(Imports(n)[j]) \in Have
<1> DEFINE names == ImportNames(PlaceOf(n))
<1>1. Have \in SUBSET Location /\ names \in Seq(ModuleName)
  BY NamesTypedSo DEF NamesTyped, Have
<1>2. Imports(n) = ImportsIn(Have, names, n)
  BY DEF Imports
<1> HIDE DEF names
<1>3. /\ Imports(n) \in Seq(Sought) /\ Len(Imports(n)) = Len(names)
      /\ DOMAIN Imports(n) = 1..Len(names)
      /\ \A j \in 1..Len(names) :
            Imports(n)[j].path /= <<>> => Imports(n)[j] \in Node /\ PlaceOf(Imports(n)[j]) \in Have
  BY <1>1, <1>2, ImportsTyped
<1>4. Len(names) \in Nat
  BY <1>1
<1> QED
  BY <1>3, <1>4 DEF AllFound, names

LEMMA EnterTyped ==
    ASSUME NEW n, NEW before \in Seq(Visits), NEW met, EnterModule(n, before, met),
           FilesTyped, UNCHANGED fileVars, n \in Node, PlaceOf(n) \in Have,
           \A k \in met : k \in Node /\ PlaceOf(k) \in Have /\ AllFound(k),
           changed' \subseteq met,
           \A i \in 1..Len(before) : before[i].node \in met,
           \A i \in 1..Len(before) : \A k \in Node :
               before[i].node = k => before[i].imports = Imports(k) /\ before[i].done <= Len(Imports(k))
    PROVE  TraversalTyped'
<1>1. Settled /\ Have \subseteq Location
  BY SettledFiles DEF Have
<1>2. /\ Len(path') = Len(before) + 1 /\ Len(before) \in Nat /\ path' \in Seq(Visits)
      /\ \A i \in 1..Len(before) : path'[i] = before[i]
      /\ path'[Len(before) + 1].node = n
      /\ path'[Len(before) + 1].imports = Imports(n)
      /\ path'[Len(before) + 1].done = 0
      /\ discovered' = met \union {n}
      /\ phase' \in {"traversing", "module-not-found"}
      /\ phase' = "traversing" <=> AllFound(n)
  BY <1>1, Entered
<1>3. \A k \in discovered' : k \in Node /\ PlaceOf(k)' = PlaceOf(k) /\ PlaceOf(k)' \in Have'
          /\ Imports(k)' = Imports(k) /\ (AllFound(k)' <=> AllFound(k))
  BY <1>1, <1>2, HaveKept
<1>4. \A i \in 1..Len(path') : path'[i].node \in discovered'
  BY <1>2
<1>5. Len(Imports(n)) \in Nat
  BY <1>1, ImportsMet
<1>6. ASSUME NEW i \in 1..Len(path'), NEW k \in Node, path'[i].node = k
      PROVE  path'[i].imports = Imports(k)' /\ path'[i].done <= Len(Imports(k)')
  <2>1. k \in discovered' /\ Imports(k)' = Imports(k)
    BY <1>3, <1>4, <1>6
  <2>2. CASE i \in 1..Len(before)
    BY <1>2, <1>6, <2>1, <2>2
  <2>3. CASE i = Len(before) + 1
    BY <1>2, <1>5, <1>6, <2>1, <2>3
  <2> QED
    BY <1>2, <2>2, <2>3
<1>7. phase' \in {"traversing", "linked"} => \A k \in discovered' : AllFound(k)'
  BY <1>2, <1>3
<1>8. changed' \subseteq discovered'
  BY <1>2
<1> QED
  BY <1>2, <1>3, <1>4, <1>6, <1>7, <1>8 DEF TraversalTyped

LEMMA StartTyped ==
    ASSUME PathsTyped, NEW m \in Root, Start(m)
    PROVE  TraversalTyped'
<1> DEFINE z == <<0>>
           e == <<>>
<1>1. m \in ModuleName /\ Home \in Directory /\ z \in Paths /\ At(z, Home) = Home
  BY PathsAssumption, HomePath
<1> HIDE DEF z
<1>2. /\ list[Home, m] /= NoFile /\ changed' = {} /\ UNCHANGED fileVars
      /\ EnterModule(ModuleNode(m, z), e, {})
  BY Zenon DEF Start, z
<1>3. PICK n : n = ModuleNode(m, z)
  OBVIOUS
<1>4. n \in Node /\ PlaceOf(n) = <<Home, m>>
  BY <1>1, <1>3 DEF ModuleNode, Node, PlaceOf
<1>5. PlaceOf(n) \in Have
  <2>1. HasFiles(Home, m)
    BY <1>1, <1>2, PathsAssumption, Zenon DEF HasFiles
  <2> QED
    BY <1>1, <1>4, <2>1, HaveFact
<1>6. e \in Seq(Visits) /\ Len(e) = 0
  OBVIOUS
<1> HIDE DEF e
<1>7. EnterModule(n, e, {})
  BY <1>2, <1>3
<1> DEFINE none == {}
<1>8. /\ EnterModule(n, e, none) /\ changed' \subseteq none
      /\ \A k \in none : k \in Node /\ PlaceOf(k) \in Have /\ AllFound(k)
  BY <1>2, <1>7
<1>9. /\ \A i \in 1..Len(e) : e[i].node \in none
      /\ \A i \in 1..Len(e) : \A k \in Node :
            e[i].node = k => e[i].imports = Imports(k) /\ e[i].done <= Len(Imports(k))
  BY <1>6
<1> HIDE DEF none
<1>10. FilesTyped
  BY DEF PathsTyped
<1> QED
  BY <1>2, <1>4, <1>5, <1>6, <1>8, <1>9, <1>10, EnterTyped

(* The import that is traversed next.                                      *)
LEMMA NextImport ==
    ASSUME PathsTyped, phase = "traversing", path /= <<>>,
           CurrentVisit.done < Len(CurrentVisit.imports)
    PROVE  /\ Import \in Node /\ PlaceOf(Import) \in Have
           /\ Import = Imports(CurrentVisit.node)[CurrentVisit.done + 1]
<1>1. PICK n \in Node : n = CurrentVisit.node
  BY Current
<1>2. n \in discovered /\ PlaceOf(n) \in Location /\ CurrentVisit.imports = Imports(n)
      /\ CurrentVisit.done \in Nat
  BY <1>1, Current
<1>3. AllFound(n)
  BY <1>2 DEF PathsTyped, TraversalTyped
<1>4. /\ Len(Imports(n)) \in Nat
      /\ \A j \in 1..Len(Imports(n)) : Imports(n)[j] \in Node /\ PlaceOf(Imports(n)[j]) \in Have
  BY <1>2, <1>3, ImportsMet DEF PathsTyped
<1>5. CurrentVisit.done + 1 \in 1..Len(Imports(n))
  BY <1>2, <1>4
<1> QED
  BY <1>1, <1>2, <1>4, <1>5 DEF Import

LEMMA AfterTyped ==
    ASSUME PathsTyped, path /= <<>>, CurrentVisit.done < Len(CurrentVisit.imports)
    PROVE  /\ \A i \in 1..Len(After) : After[i].node \in discovered
           /\ \A i \in 1..Len(After) : \A k \in Node :
                 After[i].node = k => After[i].imports = Imports(k) /\ After[i].done <= Len(Imports(k))
<1> DEFINE L == Len(path)
<1>1. Len(After) = L
      /\ \A i \in 1..L :
                 /\ After[i].node = path[i].node /\ After[i].imports = path[i].imports
                 /\ After[i].done = IF i = L THEN path[i].done + 1 ELSE path[i].done
  BY AfterFact
<1>2. /\ \A i \in 1..L : path[i].node \in discovered
      /\ \A i \in 1..L : \A n \in Node :
            path[i].node = n => path[i].imports = Imports(n) /\ path[i].done <= Len(Imports(n))
  BY DEF PathsTyped, TraversalTyped
<1>3. L \in Nat /\ CurrentVisit = path[L] /\ path[L].done \in Nat /\ path[L].done < Len(path[L].imports)
      /\ path[L].imports \in Seq(Sought)
  BY Current
<1> HIDE DEF L
<1>4. Len(path[L].imports) \in Nat
  BY <1>3
<1>5. ASSUME NEW i \in 1..L, NEW k \in Node, After[i].node = k
      PROVE  After[i].imports = Imports(k) /\ After[i].done <= Len(Imports(k))
  <2>1. path[i].imports = Imports(k) /\ path[i].done <= Len(Imports(k)) /\ After[i].imports = path[i].imports
    BY <1>1, <1>2, <1>5
  <2>2. CASE i = L
    BY <1>1, <1>3, <1>4, <2>1, <2>2
  <2>3. CASE i /= L
    BY <1>1, <2>1, <2>3
  <2> QED
    BY <2>1, <2>2, <2>3
<1> QED
  BY <1>1, <1>2, <1>5

(* Every way of going on with the traversal of a module.                   *)
LEMMA TraverseTyped ==
    ASSUME PathsTyped, Traverse
    PROVE  TraversalTyped'
<1>1. /\ phase = "traversing" /\ path /= <<>> /\ CurrentVisit.done < Len(CurrentVisit.imports)
      /\ UNCHANGED fileVars /\ changed' = changed
      /\ \/ phase' = "import-cycle" /\ path' = path /\ discovered' = discovered
         \/ EnterModule(Import, After, discovered)
         \/ path' = After /\ discovered' = discovered /\ phase' = phase
  BY Zenon DEF Traverse, After
<1>2. Settled /\ FilesTyped /\ TraversalTyped
  BY <1>1, SettledFiles DEF PathsTyped
<1>3. \A n \in discovered : n \in Node /\ PlaceOf(n) \in Have /\ AllFound(n)
  BY <1>1, <1>2 DEF TraversalTyped
<1>4. \A n \in discovered :
         /\ PlaceOf(n)' = PlaceOf(n) /\ PlaceOf(n)' \in Have'
         /\ Imports(n)' = Imports(n) /\ (AllFound(n)' <=> AllFound(n))
  BY <1>2, <1>3, HaveKept
<1>5. CASE phase' = "import-cycle" /\ path' = path /\ discovered' = discovered
  <2>1. ASSUME NEW i \in 1..Len(path'), NEW n \in Node, path'[i].node = n
        PROVE  path'[i].imports = Imports(n)' /\ path'[i].done <= Len(Imports(n)')
    <3>1. n \in discovered /\ path[i].imports = Imports(n) /\ path[i].done <= Len(Imports(n))
      BY <1>2, <1>5, <2>1 DEF TraversalTyped
    <3> QED
      BY <1>4, <1>5, <3>1
  <2> QED
    BY <1>1, <1>2, <1>3, <1>4, <1>5, <2>1 DEF TraversalTyped
<1>6. CASE EnterModule(Import, After, discovered)
  <2>1. PICK n \in Node : n = Import /\ PlaceOf(n) \in Have
    BY <1>1, NextImport
  <2>2. EnterModule(n, After, discovered)
    BY <1>6, <2>1
  <2>3. changed' \subseteq discovered
    BY <1>1, <1>2 DEF TraversalTyped
  <2>4. After \in Seq(Visits)
    BY <1>1, AfterFact
  <2>5. /\ \A i \in 1..Len(After) : After[i].node \in discovered
        /\ \A i \in 1..Len(After) : \A k \in Node :
              After[i].node = k => After[i].imports = Imports(k) /\ After[i].done <= Len(Imports(k))
    BY <1>1, AfterTyped
  <2> QED
    BY <1>1, <1>2, <1>3, <2>1, <2>2, <2>3, <2>4, <2>5, EnterTyped
<1>7. CASE path' = After /\ discovered' = discovered /\ phase' = phase
  <2>1. /\ After \in Seq(Visits)
        /\ \A i \in 1..Len(After) : After[i].node \in discovered
        /\ \A i \in 1..Len(After) : \A k \in Node :
              After[i].node = k => After[i].imports = Imports(k) /\ After[i].done <= Len(Imports(k))
    BY <1>1, AfterFact, AfterTyped
  <2>2. ASSUME NEW i \in 1..Len(path'), NEW n \in Node, path'[i].node = n
        PROVE  path'[i].imports = Imports(n)' /\ path'[i].done <= Len(Imports(n)')
    BY <1>4, <1>7, <2>1, <2>2
  <2> QED
    BY <1>1, <1>2, <1>3, <1>4, <1>7, <2>1, <2>2 DEF TraversalTyped
<1> QED
  BY <1>1, <1>5, <1>6, <1>7

(* A module is left.                                                       *)
LEMMA LeaveFact ==
    ASSUME PathsTyped, path /= <<>>, Leave
    PROVE  /\ path' \in Seq(Visits) /\ Len(path') = Len(path) - 1 /\ Len(path) \in Nat /\ Len(path) >= 1
           /\ \A i \in 1..Len(path') : i \in 1..Len(path) /\ path'[i] = path[i]
<1>1. path \in Seq(Visits) /\ Len(path) \in Nat /\ Len(path) >= 1
  BY Current DEF PathsTyped, TraversalTyped
<1> DEFINE s == path
           L == Len(s)
           f == SubSeq(s, 1, L - 1)
<1>2. path' = f
  BY DEF Leave
<1>3. s \in Seq(Visits) /\ L \in Nat /\ L >= 1
  BY <1>1
<1>4. f \in Seq(Visits) /\ Len(f) = L - 1 /\ \A i \in 1..(L - 1) : f[i] = s[i]
  <2> HIDE DEF s
  <2>1. L - 1 \in 0..L
    BY <1>3
  <2> QED
    BY <1>3, <2>1
<1>5. \A i \in 1..(L - 1) : i \in 1..L
  BY <1>3
<1> HIDE DEF f
<1> QED
  BY <1>1, <1>2, <1>4, <1>5

LEMMA LeaveTyped ==
    ASSUME PathsTyped, path /= <<>>, Leave, Settled, discovered' = discovered,
           changed' \subseteq discovered, phase = "traversing" \/ phase' \notin {"traversing", "linked"}
    PROVE  TraversalTyped'
<1>1. \A n \in discovered : n \in Node /\ PlaceOf(n) \in Have
  BY DEF PathsTyped, TraversalTyped
<1>2. \A n \in discovered :
         /\ PlaceOf(n)' = PlaceOf(n) /\ PlaceOf(n)' \in Have'
         /\ Imports(n)' = Imports(n) /\ (AllFound(n)' <=> AllFound(n))
  BY <1>1, HaveKept
<1>3. /\ path' \in Seq(Visits)
      /\ \A i \in 1..Len(path') : i \in 1..Len(path) /\ path'[i] = path[i]
  BY LeaveFact
<1>4. ASSUME NEW i \in 1..Len(path'), NEW n \in Node, path'[i].node = n
      PROVE  path'[i].imports = Imports(n)' /\ path'[i].done <= Len(Imports(n)')
  <2>1. n \in discovered /\ path[i].imports = Imports(n) /\ path[i].done <= Len(Imports(n))
    BY <1>3, <1>4 DEF PathsTyped, TraversalTyped
  <2> QED
    BY <1>2, <1>3, <2>1
<1>5. \A i \in 1..Len(path') : path'[i].node \in discovered'
  BY <1>3 DEF PathsTyped, TraversalTyped
<1>6. phase' \in {"traversing", "linked"} => \A n \in discovered' : AllFound(n)'
  BY <1>2 DEF PathsTyped, TraversalTyped
<1> QED
  BY <1>1, <1>2, <1>3, <1>4, <1>5, <1>6 DEF TraversalTyped

(* The names in the code of a module that is compiled.                     *)
LEMMA UsedFact ==
    ASSUME FilesTyped, NEW W \in SUBSET Location,
           \A k \in Location : \A i \in 1..Len(Includes(k)) : Includes(k)[i] \in W,
           NEW l \in W, NEW includes \in Seq(Location),
           \A i \in 1..Len(includes) : includes[i] \in W,
           NEW i \in 1..Len(includes)
    PROVE  \E k \in Headers(OwnHeader(l), includes) :
               /\ k \in W /\ k[2] = includes[i][2]
               /\ UsedName(l, includes, includes[i][2]) = ObjectName(k)
<1> DEFINE R == Headers(OwnHeader(l), includes)
           m == includes[i][2]
           h == CHOOSE k \in R : k[2] = m
<1>1. R \subseteq W /\ \E k \in R : k[2] = m
  BY HeadersOfCompiled
<1>2. UsedName(l, includes, m) = ObjectName(h)
  BY DEF UsedName, OwnHeader
<1> HIDE DEF R
<1>3. h \in R /\ h[2] = m
  BY <1>1
<1> HIDE DEF h
<1> QED
  BY <1>1, <1>2, <1>3 DEF R

LEMMA MadeFromFact ==
    ASSUME FilesTyped, NEW l \in Location, list[l] /= NoFile, NEW includes \in Seq(Location)
    PROVE  /\ MadeFrom(l, includes) \in Made
           /\ MadeFrom(l, includes).imports = list[l]
           /\ MadeFrom(l, includes).includes = includes
           /\ DOMAIN MadeFrom(l, includes).uses = 1..Len(includes)
           /\ \A i \in 1..Len(includes) :
                 MadeFrom(l, includes).uses[i] = UsedName(l, includes, includes[i][2])
<1> DEFINE U == [i \in DOMAIN includes |-> UsedName(l, includes, includes[i][2])]
           N == {DirPrefix[d] : d \in Directory} \X ModuleName
           r == MadeFrom(l, includes)
<1>1. r = [imports |-> list[l], includes |-> includes, uses |-> U]
  BY DEF MadeFrom
<1>2. list[l] \in Seq(ModuleName)
  BY DEF FilesTyped
<1>3. DOMAIN includes = 1..Len(includes) /\ Len(includes) \in Nat
  BY <1>2
<1>4. ASSUME NEW i \in 1..Len(includes) PROVE UsedName(l, includes, includes[i][2]) \in N
  <2> DEFINE W == Location
  <2>1. IncludesTyped
    BY IncludesAreTyped
  <2>2. \A k \in Location : \A j \in 1..Len(Includes(k)) : Includes(k)[j] \in W
    BY <2>1 DEF IncludesTyped
  <2>3. \A j \in 1..Len(includes) : includes[j] \in W
    BY <1>3
  <2>4. W \in SUBSET Location /\ l \in W
    OBVIOUS
  <2> HIDE DEF W
  <2>5. PICK k \in Headers(OwnHeader(l), includes) :
               /\ k \in W /\ k[2] = includes[i][2]
               /\ UsedName(l, includes, includes[i][2]) = ObjectName(k)
    BY <2>2, <2>3, <2>4, UsedFact
  <2>6. k \in Location
    BY <2>4, <2>5
  <2>7. ObjectName(k) = <<DirPrefix[k[1]], k[2]>> /\ k[1] \in Directory /\ k[2] \in ModuleName
    BY <2>6 DEF ObjectName, Location
  <2> QED
    BY <2>5, <2>7
<1>5. U \in [1..Len(includes) -> N]
  BY <1>3, <1>4
<1>6. U \in Seq(N) /\ DOMAIN U = 1..Len(includes)
  <2> DEFINE s == U
             n == Len(includes)
  <2> HIDE DEF s, N
  <2>1. s \in [1..n -> N] /\ n \in Nat
    BY <1>3, <1>5 DEF s
  <2> HIDE DEF n
  <2>2. s \in Seq(N) /\ DOMAIN s = 1..n
    BY <2>1, IsASeq
  <2> QED
    BY <2>2 DEF s, n
<1>7. \A i \in 1..Len(includes) : U[i] = UsedName(l, includes, includes[i][2])
  BY <1>3
<1> HIDE DEF U, r
<1>8. r \in Made /\ r.imports = list[l] /\ r.includes = includes /\ r.uses = U
  BY <1>1, <1>2, <1>6 DEF Made
<1> QED
  BY <1>6, <1>7, <1>8 DEF r

LEMMA UpdateFact ==
    ASSUME PathsTyped, NEW incompatible, UpdateObjectFile(incompatible)
    PROVE  \E l \in Have :
           /\ l \in Location /\ l = PlaceOf(CurrentVisit.node) /\ list[l] /= NoFile
           /\ l[1] \in Directory /\ list[l] \in Seq(ModuleName)
           /\ phase = "traversing" /\ path /= <<>>
           /\ CurrentVisit.done = Len(CurrentVisit.imports)
           /\ Leave /\ list' = list /\ discovered' = discovered /\ changed' \subseteq discovered'
           /\ phase' = CompileOutcome(list[l], l[1])
           /\ phase' \in {"traversing", "imported-module-not-found", "symbol-file-not-found"}
           /\ phase' = "traversing" =>
                 /\ made' = [made EXCEPT ![l] = MadeFrom(l, Denoted(list[l], l[1]))]
                 /\ modified' = modified \ {l}
           /\ phase' /= "traversing" => made' = made /\ modified' = modified
<1>1. phase = "traversing" /\ path /= <<>> /\ CurrentVisit.done = Len(CurrentVisit.imports)
  BY DEF UpdateObjectFile, ImportsDone
<1>2. PICK l : l = PlaceOf(CurrentVisit.node)
  OBVIOUS
<1>3. PICK c : c = CompileDir(CurrentVisit.node)
  OBVIOUS
<1>4. l \in Have /\ l \in Location /\ c = l[1] /\ c \in Directory
  BY <1>1, <1>2, <1>3, Current, CompiledThere
<1>5. /\ list[l] /= NoFile
      /\ phase' = CompileOutcome(list[l], c)
      /\ made' = IF CompileOutcome(list[l], c) = "traversing"
                 THEN [made EXCEPT ![l] = MadeFrom(l, Denoted(list[l], c))] ELSE made
      /\ modified' = IF CompileOutcome(list[l], c) = "traversing" THEN modified \ {l} ELSE modified
      /\ changed' \subseteq changed \union {CurrentVisit.node}
      /\ Leave /\ list' = list /\ discovered' = discovered
  BY <1>2, <1>3 DEF UpdateObjectFile
<1>6. CurrentVisit.node \in discovered /\ changed \subseteq discovered
  BY <1>1, Current DEF PathsTyped, TraversalTyped
<1>7. list[l] \in Seq(ModuleName)
  BY <1>4, <1>5 DEF PathsTyped, FilesTyped
<1>8. phase' \in {"traversing", "imported-module-not-found", "symbol-file-not-found"}
  BY <1>5 DEF CompileOutcome
<1> QED
  BY <1>1, <1>2, <1>4, <1>5, <1>6, <1>7, <1>8

LEMMA UpdateTyped ==
    ASSUME PathsTyped, NEW incompatible, UpdateObjectFile(incompatible)
    PROVE  FilesTyped' /\ Settled
<1>1. PICK l \in Have :
           /\ l \in Location /\ list[l] /= NoFile
           /\ l[1] \in Directory /\ list[l] \in Seq(ModuleName)
           /\ list' = list
           /\ phase' = CompileOutcome(list[l], l[1])
           /\ phase' = "traversing" =>
                 /\ made' = [made EXCEPT ![l] = MadeFrom(l, Denoted(list[l], l[1]))]
                 /\ modified' = modified \ {l}
           /\ phase' /= "traversing" => made' = made /\ modified' = modified
  BY UpdateFact
<1>2. FilesTyped
  BY DEF PathsTyped
<1>3. CASE phase' /= "traversing"
  BY <1>1, <1>2, <1>3, FilesSame, SettledFiles DEF fileVars
<1>4. CASE phase' = "traversing"
  <2> DEFINE s == Denoted(list[l], l[1])
  <2>1. PICK r : r = MadeFrom(l, s)
    OBVIOUS
  <2>2. s \in Seq(Location)
    <3>1. CompileOutcome(list[l], l[1]) /= "imported-module-not-found"
      BY <1>1, <1>4
    <3> QED
      BY <1>1, <3>1, DenotedTyped
  <2>3. r \in Made /\ r.imports = list[l]
    BY <1>1, <1>2, <2>1, <2>2, MadeFromFact
  <2>4. made' = [made EXCEPT ![l] = r] /\ modified' = modified \ {l}
    BY <1>1, <1>4, <2>1
  <2>5. \A k \in Location : made'[k] = IF k = l THEN r ELSE made[k]
    BY <1>2, <2>4 DEF FilesTyped
  <2>6. Settled
    BY <1>1, <1>2, <2>5, SettledMaking
  <2>7. made' \in [Location -> Made \union {NoFile}]
    BY <1>2, <2>3, <2>4 DEF FilesTyped
  <2>8. Draft[l] /= {}
    BY <1>1, <1>2 DEF FilesTyped
  <2>9. \A k \in Location : made'[k] /= NoFile => Draft[k] /= {}
    BY <1>2, <2>5, <2>8 DEF FilesTyped
  <2>10. \A k \in Location \ modified' : list'[k] /= NoFile /\ made'[k] /= NoFile => made'[k].imports = list'[k]
    BY <1>1, <1>2, <2>3, <2>4, <2>5 DEF FilesTyped
  <2>11. modified' \subseteq {k \in Location : list'[k] /= NoFile}
    BY <1>1, <1>2, <2>4 DEF FilesTyped
  <2>12. list' \in [Location -> Seq(ModuleName) \union {NoFile}] /\ \A k \in Location : list'[k] \in Draft[k] \union {NoFile}
    BY <1>1, <1>2 DEF FilesTyped
  <2> QED
    BY <2>6, <2>7, <2>9, <2>10, <2>11, <2>12 DEF FilesTyped
<1> QED
  BY <1>3, <1>4

-----------------------------------------------------------------------------
LEMMA PathsTypedInit == PathsInit => PathsTyped
<1> SUFFICES ASSUME PathsInit PROVE PathsTyped
  OBVIOUS
<1>1. FilesTyped
  BY DEF PathsInit, FilesTyped
<1>2. path = <<>> /\ discovered = {} /\ changed = {} /\ phase = "idle"
  BY DEF PathsInit
<1>3. path \in Seq(Visits) /\ Len(path) = 0
  BY <1>2
<1> QED
  BY <1>1, <1>2, <1>3 DEF PathsTyped, TraversalTyped

LEMMA BuildTyped ==
    ASSUME PathsTyped, Build
    PROVE  PathsTyped' /\ Settled
<1>1. FilesTyped /\ TraversalTyped
  BY DEF PathsTyped
<1>2. CASE Traverse
  <2>1. UNCHANGED fileVars
    BY <1>2 DEF Traverse
  <2> QED
    BY <1>1, <1>2, <2>1, FilesSame, SettledFiles, TraverseTyped DEF PathsTyped
<1>3. CASE KeepObjectFile
  <2>1. /\ UNCHANGED fileVars /\ discovered' = discovered /\ changed' = changed /\ phase' = phase
        /\ Leave /\ path /= <<>> /\ phase = "traversing"
    BY <1>3 DEF KeepObjectFile, ImportsDone
  <2>2. Settled /\ FilesTyped' /\ changed' \subseteq discovered
    BY <1>1, <2>1, FilesSame, SettledFiles DEF TraversalTyped
  <2> QED
    BY <2>1, <2>2, LeaveTyped DEF PathsTyped
<1>4. CASE Link
  <2>1. /\ UNCHANGED fileVars /\ path' = path /\ discovered' = discovered /\ changed' = changed
        /\ phase = "traversing" /\ path = <<>>
    BY <1>4 DEF Link, traversalVars
  <2>2. Settled /\ FilesTyped'
    BY <1>1, <2>1, FilesSame, SettledFiles
  <2>3. \A n \in discovered : n \in Node /\ PlaceOf(n) \in Have /\ AllFound(n)
    BY <1>1, <2>1 DEF TraversalTyped
  <2>4. \A n \in discovered :
           /\ PlaceOf(n)' = PlaceOf(n) /\ PlaceOf(n)' \in Have' /\ (AllFound(n)' <=> AllFound(n))
    BY <2>2, <2>3, HaveKept
  <2>5. Len(path) = 0 /\ path' \in Seq(Visits)
    BY <1>1, <2>1 DEF TraversalTyped
  <2> QED
    BY <1>1, <2>1, <2>2, <2>3, <2>4, <2>5 DEF TraversalTyped, PathsTyped
<1>5. CASE \E incompatible \in BOOLEAN : UpdateObjectFile(incompatible)
  <2>1. PICK incompatible \in BOOLEAN : UpdateObjectFile(incompatible)
    BY <1>5
  <2>2. FilesTyped' /\ Settled
    BY <2>1, UpdateTyped
  <2>3. /\ phase = "traversing" /\ path /= <<>>
        /\ Leave /\ discovered' = discovered /\ changed' \subseteq discovered
    BY <2>1, UpdateFact
  <2> QED
    BY <2>2, <2>3, LeaveTyped DEF PathsTyped
<1> QED
  BY <1>2, <1>3, <1>4, <1>5 DEF Build

LEMMA PathsTypedStep ==
    ASSUME PathsTyped, [PathsNext]_pathVars
    PROVE  PathsTyped'
<1>1. FilesTyped /\ TraversalTyped
  BY DEF PathsTyped
<1>2. CASE \E l \in Location : \E names \in Draft[l] : Save(l, names)
  BY <1>1, <1>2, SaveTyped, OwnerTyped DEF PathsTyped, Save
<1>3. CASE \E l \in Location : RemoveSource(l)
  BY <1>1, <1>3, RemoveTyped, OwnerTyped DEF PathsTyped, RemoveSource
<1>4. CASE \E d \in Directory : Clean(d)
  BY <1>1, <1>4, CleanTyped, OwnerTyped DEF PathsTyped, Clean
<1>5. CASE \E m \in Root : Start(m)
  <2>1. PICK m \in Root : Start(m)
    BY <1>5
  <2>2. UNCHANGED fileVars
    BY <2>1 DEF Start
  <2> QED
    BY <1>1, <2>1, <2>2, FilesSame, StartTyped DEF PathsTyped
<1>6. CASE Build
  BY <1>6, BuildTyped
<1>7. CASE UNCHANGED pathVars
  <2>1. /\ list' = list /\ made' = made /\ modified' = modified /\ path' = path
        /\ discovered' = discovered /\ changed' = changed /\ phase' = phase
    BY <1>7 DEF pathVars
  <2>2. Settled /\ FilesTyped'
    BY <1>1, <2>1, FilesSame, SettledFiles DEF fileVars
  <2>3. \A n \in discovered : n \in Node /\ PlaceOf(n) \in Have
    BY <1>1 DEF TraversalTyped
  <2>4. \A n \in discovered :
           /\ PlaceOf(n)' = PlaceOf(n) /\ PlaceOf(n)' \in Have'
           /\ Imports(n)' = Imports(n) /\ (AllFound(n)' <=> AllFound(n))
    BY <2>2, <2>3, HaveKept
  <2>5. ASSUME NEW i \in 1..Len(path'), NEW n \in Node, path'[i].node = n
        PROVE  path'[i].imports = Imports(n)' /\ path'[i].done <= Len(Imports(n)')
    <3>1. n \in discovered /\ path[i].imports = Imports(n) /\ path[i].done <= Len(Imports(n))
      BY <1>1, <2>1, <2>5 DEF TraversalTyped
    <3> QED
      BY <2>1, <2>4, <3>1
  <2> QED
    BY <1>1, <2>1, <2>2, <2>3, <2>4, <2>5 DEF TraversalTyped, PathsTyped
<1> QED
  BY <1>2, <1>3, <1>4, <1>5, <1>6, <1>7 DEF PathsNext

LEMMA PathsAreTyped == PathsSpec => []PathsTyped
<1>1. PathsTyped /\ [PathsNext]_pathVars => PathsTyped'
  BY PathsTypedStep
<1> QED
  BY PathsTypedInit, <1>1, PTL DEF PathsSpec

(* The files and the traversal are well formed in every state              *)
(* (Traverse1, GetImportedFiles).                                          *)
THEOREM PathsTypeCorrect == PathsSpec => []PathsTypeOK
BY PathsAreTyped, PathsTypedSuffices, PTL

-----------------------------------------------------------------------------
(* The traversal: what is off the path has all of its imports discovered,  *)
(* and what is on it those that are done, which are not further out; and   *)
(* only what follows from the entry point by imports is discovered.        *)
OnPath(n) == \E i \in 1..Len(path) : path[i].node = n
Complete ==
    \A n \in discovered : ~OnPath(n) => \A j \in 1..Len(Imports(n)) : Imports(n)[j] \in discovered
DoneMet ==
    \A i \in 1..Len(path) : \A n \in Node : path[i].node = n =>
        \A j \in 1..path[i].done :
            /\ Imports(n)[j] \in discovered
            /\ \A k \in 1..Len(path) : path[k].node = Imports(n)[j] => k > i
Follows(T) ==
    \A n \in T : PlaceOf(n) \in Have /\ AllFound(n) => \A j \in 1..Len(Imports(n)) : Imports(n)[j] \in T
FromRoot(m) ==
    /\ ModuleNode(m, <<0>>) \in discovered
    /\ \A T \in SUBSET Node : Follows(T) /\ ModuleNode(m, <<0>>) \in T => discovered \subseteq T

Going == phase \in {"traversing", "linked"}
TraversedWell ==
    /\ Going => Complete /\ DoneMet /\ \E m \in Root : FromRoot(m)
    /\ phase = "linked" => path = <<>>

LEMMA FollowsKept ==
    ASSUME Settled, NEW T \in SUBSET Node
    PROVE  Follows(T)' <=> Follows(T)
<1>1. \A n \in T : /\ PlaceOf(n)' = PlaceOf(n) /\ Have' = Have
                   /\ PlaceOf(n) \in Have => Imports(n)' = Imports(n) /\ (AllFound(n)' <=> AllFound(n))
  BY HaveKept
<1>2. Follows(T)' <=> \A n \in T : PlaceOf(n)' \in Have' /\ AllFound(n)' =>
                          \A j \in 1..Len(Imports(n)') : Imports(n)'[j] \in T
  BY DEF Follows
<1> QED
  BY <1>1, <1>2 DEF Follows

LEMMA DiscoveredKept ==
    ASSUME TraversalTyped, Settled, Going
    PROVE  \A n \in discovered :
               /\ n \in Node /\ PlaceOf(n) \in Have /\ AllFound(n)
               /\ PlaceOf(n)' = PlaceOf(n) /\ PlaceOf(n)' \in Have'
               /\ Imports(n)' = Imports(n) /\ (AllFound(n)' <=> AllFound(n))
<1>1. \A n \in discovered : n \in Node /\ PlaceOf(n) \in Have /\ AllFound(n)
  BY DEF TraversalTyped, Going
<1> QED
  BY <1>1, HaveKept

(* What each step of a build does to the traversal.                        *)
LEMMA StartWell ==
    ASSUME PathsTyped, NEW m \in Root, Start(m)
    PROVE  TraversedWell'
<1> DEFINE z == <<0>>
           e == <<>>
<1>1. m \in ModuleName /\ Home \in Directory /\ z \in Paths /\ At(z, Home) = Home
  BY PathsAssumption, HomePath
<1> HIDE DEF z
<1>2. EnterModule(ModuleNode(m, z), e, {})
  BY Zenon DEF Start, z
<1>3. PICK n : n = ModuleNode(m, z)
  OBVIOUS
<1>4. n \in Node /\ PlaceOf(n) \in Location
  BY <1>1, <1>3 DEF ModuleNode, Node, PlaceOf, Location
<1>5. e \in Seq(Visits) /\ Len(e) = 0
  OBVIOUS
<1> HIDE DEF e
<1> DEFINE none == {}
<1>6. EnterModule(n, e, none)
  BY <1>2, <1>3
<1>7. discovered' = {n} /\ n = ModuleNode(m, <<0>>)
  <2>1. discovered' = none \union {n}
    BY <1>6 DEF EnterModule
  <2> QED
    BY <1>3, <2>1 DEF z
<1> HIDE DEF none
<1>8. /\ Len(path') = 1 /\ path'[1].node = n /\ path'[1].done = 0
      /\ phase' \in {"traversing", "module-not-found"}
  <2>1. FilesTyped
    BY DEF PathsTyped
  <2>2. /\ Len(path') = Len(e) + 1 /\ path'[Len(e) + 1].node = n /\ path'[Len(e) + 1].done = 0
        /\ phase' \in {"traversing", "module-not-found"}
    BY <1>4, <1>5, <1>6, <2>1, Entered
  <2> QED
    BY <1>5, <2>2
<1>9. Complete'
  BY <1>7, <1>8 DEF Complete, OnPath
<1>10. DoneMet'
  BY <1>8 DEF DoneMet
<1>11. FromRoot(m)'
  BY <1>7 DEF FromRoot
<1> QED
  BY <1>8, <1>9, <1>10, <1>11 DEF TraversedWell

LEMMA TraverseFact ==
    ASSUME PathsTyped, Traverse
    PROVE  /\ phase = "traversing" /\ path /= <<>> /\ CurrentVisit.done < Len(CurrentVisit.imports)
           /\ UNCHANGED fileVars /\ changed' = changed
           /\ \/ phase' = "import-cycle" /\ path' = path /\ discovered' = discovered
              \/ /\ \A i \in 1..Len(path) : path[i].node /= Import
                 /\ EnterModule(Import, After, discovered)
              \/ /\ \A i \in 1..Len(path) : path[i].node /= Import
                 /\ Import \in discovered
                 /\ path' = After /\ discovered' = discovered /\ phase' = phase
<1>1. path \in Seq(Visits)
  BY DEF PathsTyped, TraversalTyped
<1>2. ~MatchingModuleNode(Import, NodePath) => \A i \in 1..Len(path) : path[i].node /= Import
  BY <1>1 DEF MatchingModuleNode, NodePath
<1>3. MatchingModuleNode(Import, discovered) <=> Import \in discovered
  BY DEF MatchingModuleNode
<1> QED
  BY <1>2, <1>3, Zenon DEF Traverse, After

(* One more import of the innermost module is done.                        *)
LEMMA OneMoreDone ==
    ASSUME PathsTyped, TraversedWell, Settled, phase = "traversing", path /= <<>>,
           CurrentVisit.done < Len(CurrentVisit.imports),
           \A i \in 1..Len(path) : path[i].node /= Import
    PROVE  \A i \in 1..Len(path) : \A n \in Node : path[i].node = n =>
               /\ n \in discovered
               /\ \A j \in 1..After[i].done :
                     /\ Imports(n)'[j] \in discovered \/ Imports(n)'[j] = Import
                     /\ \A k \in 1..Len(path) : path[k].node = Imports(n)'[j] => k > i
<1> SUFFICES ASSUME NEW i \in 1..Len(path), NEW n \in Node, path[i].node = n,
                    NEW j \in 1..After[i].done
             PROVE  /\ n \in discovered
                    /\ Imports(n)'[j] \in discovered \/ Imports(n)'[j] = Import
                    /\ \A k \in 1..Len(path) : path[k].node = Imports(n)'[j] => k > i
  BY DEF PathsTyped, TraversalTyped
<1>1. Going /\ TraversalTyped
  BY DEF PathsTyped, Going
<1>2. n \in discovered /\ Imports(n)' = Imports(n)
  BY <1>1, DiscoveredKept DEF TraversalTyped
<1>3. DoneMet
  BY <1>1 DEF TraversedWell
<1>4. CASE j \in 1..path[i].done
  BY <1>2, <1>3, <1>4 DEF DoneMet
<1>5. CASE j \notin 1..path[i].done
  <2>1. /\ Len(path) \in Nat /\ CurrentVisit = path[Len(path)] /\ path[Len(path)].done \in Nat
        /\ Import = Imports(CurrentVisit.node)[CurrentVisit.done + 1]
    BY Current, NextImport
  <2>2. After[i].done = IF i = Len(path) THEN path[i].done + 1 ELSE path[i].done
    BY AfterFact
  <2>3. i = Len(path) /\ j = path[i].done + 1
    BY <1>5, <2>1, <2>2
  <2>4. Imports(n)[j] = Import
    BY <2>1, <2>3
  <2> QED
    BY <1>2, <2>4
<1> QED
  BY <1>4, <1>5

LEMMA TraverseWell ==
    ASSUME PathsTyped, TraversedWell, Traverse
    PROVE  TraversedWell'
<1>1. /\ phase = "traversing" /\ path /= <<>> /\ CurrentVisit.done < Len(CurrentVisit.imports)
      /\ UNCHANGED fileVars
      /\ \/ phase' = "import-cycle" /\ path' = path /\ discovered' = discovered
         \/ /\ \A i \in 1..Len(path) : path[i].node /= Import
            /\ EnterModule(Import, After, discovered)
         \/ /\ \A i \in 1..Len(path) : path[i].node /= Import
            /\ Import \in discovered
            /\ path' = After /\ discovered' = discovered /\ phase' = phase
  BY TraverseFact
<1>2. Settled /\ FilesTyped /\ TraversalTyped /\ Going
  BY <1>1, SettledFiles DEF PathsTyped, Going
<1>3. Complete /\ DoneMet /\ \E m \in Root : FromRoot(m)
  BY <1>2 DEF TraversedWell
<1>4. \A n \in discovered :
         /\ n \in Node /\ PlaceOf(n) \in Have /\ AllFound(n) /\ Imports(n)' = Imports(n)
  BY <1>2, DiscoveredKept
<1>5. /\ After \in Seq(Visits) /\ Len(After) = Len(path) /\ Len(path) \in Nat
      /\ \A i \in 1..Len(path) : After[i].node = path[i].node
  BY <1>1, AfterFact, Current
<1>6. CASE phase' = "import-cycle"
  BY <1>6 DEF TraversedWell, Going
<1>7. CASE /\ \A i \in 1..Len(path) : path[i].node /= Import
           /\ EnterModule(Import, After, discovered)
  <2>1. PICK n \in Node : n = Import
    BY <1>1, NextImport
  <2>2. PlaceOf(n) \in Location
    BY <1>1, <2>1, NextImport DEF Have
  <2>3. EnterModule(n, After, discovered)
    BY <1>7, <2>1
  <2>4. /\ Len(path') = Len(path) + 1
        /\ \A i \in 1..Len(path) : path'[i] = After[i]
        /\ path'[Len(path) + 1].node = n /\ path'[Len(path) + 1].done = 0
        /\ discovered' = discovered \union {n}
        /\ phase' \in {"traversing", "module-not-found"}
    BY <1>2, <1>5, <2>2, <2>3, Entered
  <2>5. Complete'
    <3> SUFFICES ASSUME NEW k \in discovered', ~OnPath(k)'
                 PROVE  \A j \in 1..Len(Imports(k)') : Imports(k)'[j] \in discovered'
      BY DEF Complete
    <3>1. k /= n
      BY <1>5, <2>4 DEF OnPath
    <3>2. k \in discovered /\ ~OnPath(k)
      BY <1>5, <2>4, <3>1 DEF OnPath
    <3> QED
      BY <1>3, <1>4, <2>4, <3>2 DEF Complete
  <2>6. DoneMet'
    <3> SUFFICES ASSUME NEW i \in 1..Len(path'), NEW k \in Node, path'[i].node = k,
                        NEW j \in 1..path'[i].done
                 PROVE  /\ Imports(k)'[j] \in discovered'
                        /\ \A h \in 1..Len(path') : path'[h].node = Imports(k)'[j] => h > i
      BY DEF DoneMet
    <3>1. i \in 1..Len(path) /\ path[i].node = k /\ j \in 1..After[i].done
      BY <1>5, <2>4
    <3>2. /\ Imports(k)'[j] \in discovered \/ Imports(k)'[j] = Import
          /\ \A h \in 1..Len(path) : path[h].node = Imports(k)'[j] => h > i
      BY <1>1, <1>2, <1>7, <3>1, OneMoreDone
    <3> QED
      BY <1>5, <2>1, <2>4, <3>1, <3>2
  <2>7. ASSUME NEW m \in Root, FromRoot(m) PROVE FromRoot(m)'
    <3>1. ModuleNode(m, <<0>>) \in discovered'
      BY <2>4, <2>7 DEF FromRoot
    <3>2. ASSUME NEW T \in SUBSET Node, Follows(T)', ModuleNode(m, << 0 >>) \in T
          PROVE  discovered' \subseteq T
      <4>1. Follows(T) /\ discovered \subseteq T
        BY <1>2, <2>7, <3>2, FollowsKept DEF FromRoot
      <4>2. PICK c : c = CurrentVisit.node
        OBVIOUS
      <4>3. c \in discovered /\ CurrentVisit.imports = Imports(c) /\ CurrentVisit.done \in Nat
            /\ n = Imports(c)[CurrentVisit.done + 1]
        BY <1>1, <2>1, <4>2, Current, NextImport
      <4>4. Len(Imports(c)) \in Nat
        <5>1. c \in Node /\ PlaceOf(c) \in Location
          BY <1>4, <4>3 DEF Have
        <5> QED
          BY <1>2, <5>1, ImportsMet
      <4>5. n \in T
        BY <1>1, <1>4, <4>1, <4>3, <4>4 DEF Follows
      <4> QED
        BY <2>4, <4>1, <4>5
    <3> QED
      BY <3>1, <3>2 DEF FromRoot
  <2>8. phase' /= "linked"
    BY <2>4
  <2> QED
    BY <1>3, <2>5, <2>6, <2>7, <2>8 DEF TraversedWell
<1>8. CASE /\ \A i \in 1..Len(path) : path[i].node /= Import
           /\ Import \in discovered
           /\ path' = After /\ discovered' = discovered /\ phase' = phase
  <2>1. Complete'
    <3> SUFFICES ASSUME NEW k \in discovered', ~OnPath(k)'
                 PROVE  \A j \in 1..Len(Imports(k)') : Imports(k)'[j] \in discovered'
      BY DEF Complete
    <3>1. k \in discovered /\ ~OnPath(k)
      BY <1>5, <1>8 DEF OnPath
    <3> QED
      BY <1>3, <1>4, <1>8, <3>1 DEF Complete
  <2>2. DoneMet'
    <3> SUFFICES ASSUME NEW i \in 1..Len(path'), NEW k \in Node, path'[i].node = k,
                        NEW j \in 1..path'[i].done
                 PROVE  /\ Imports(k)'[j] \in discovered'
                        /\ \A h \in 1..Len(path') : path'[h].node = Imports(k)'[j] => h > i
      BY DEF DoneMet
    <3>1. i \in 1..Len(path) /\ path[i].node = k /\ j \in 1..After[i].done
      BY <1>5, <1>8
    <3>2. /\ Imports(k)'[j] \in discovered \/ Imports(k)'[j] = Import
          /\ \A h \in 1..Len(path) : path[h].node = Imports(k)'[j] => h > i
      BY <1>1, <1>2, <1>8, <3>1, OneMoreDone
    <3> QED
      BY <1>5, <1>8, <3>2
  <2>3. ASSUME NEW m \in Root, FromRoot(m) PROVE FromRoot(m)'
    BY <1>2, <1>8, <2>3, FollowsKept DEF FromRoot
  <2> QED
    BY <1>1, <1>3, <1>8, <2>1, <2>2, <2>3 DEF TraversedWell
<1> QED
  BY <1>1, <1>6, <1>7, <1>8

LEMMA LeaveWell ==
    ASSUME PathsTyped, TraversedWell, path /= <<>>, Leave, Settled, phase = "traversing",
           CurrentVisit.done = Len(CurrentVisit.imports),
           discovered' = discovered, phase' /= "linked"
    PROVE  TraversedWell'
<1>1. TraversalTyped /\ Going
  BY DEF PathsTyped, Going
<1>2. Complete /\ DoneMet /\ \E m \in Root : FromRoot(m)
  BY <1>1 DEF TraversedWell
<1>3. \A n \in discovered : n \in Node /\ Imports(n)' = Imports(n)
  BY <1>1, DiscoveredKept
<1>4. /\ Len(path') = Len(path) - 1 /\ Len(path) \in Nat /\ Len(path) >= 1
      /\ \A i \in 1..Len(path') : i \in 1..Len(path) /\ path'[i] = path[i]
  BY LeaveFact
<1>5. Complete'
  <2> SUFFICES ASSUME NEW n \in discovered', ~OnPath(n)'
               PROVE  \A j \in 1..Len(Imports(n)') : Imports(n)'[j] \in discovered'
    BY DEF Complete
  <2>1. n \in discovered /\ Imports(n)' = Imports(n)
    BY <1>3
  <2>2. CASE ~OnPath(n)
    BY <1>2, <2>1, <2>2 DEF Complete
  <2>3. CASE OnPath(n)
    <3>1. PICK i \in 1..Len(path) : path[i].node = n
      BY <2>3 DEF OnPath
    <3>2. i = Len(path)
      BY <1>4, <3>1 DEF OnPath
    <3>3. path[i].done = Len(Imports(n))
      BY <3>1, <3>2, Current
    <3> QED
      BY <1>2, <1>3, <2>1, <3>1, <3>3 DEF DoneMet
  <2> QED
    BY <2>2, <2>3
<1>6. DoneMet'
  <2> SUFFICES ASSUME NEW i \in 1..Len(path'), NEW n \in Node, path'[i].node = n,
                      NEW j \in 1..path'[i].done
               PROVE  /\ Imports(n)'[j] \in discovered'
                      /\ \A k \in 1..Len(path') : path'[k].node = Imports(n)'[j] => k > i
    BY DEF DoneMet
  <2>1. i \in 1..Len(path) /\ path[i].node = n /\ j \in 1..path[i].done
    BY <1>4
  <2>2. n \in discovered
    BY <1>1, <2>1 DEF TraversalTyped
  <2> QED
    BY <1>2, <1>3, <1>4, <2>1, <2>2 DEF DoneMet
<1>7. ASSUME NEW m \in Root, FromRoot(m) PROVE FromRoot(m)'
  BY <1>7, FollowsKept DEF FromRoot
<1> QED
  BY <1>2, <1>5, <1>6, <1>7 DEF TraversedWell

LEMMA SameWell ==
    ASSUME TraversalTyped, TraversedWell, Settled, path' = path, discovered' = discovered,
           Going' => Going, phase' = "linked" => path = <<>>
    PROVE  TraversedWell'
<1>1. phase' = "linked" => path' = <<>>
  OBVIOUS
<1> SUFFICES ASSUME Going' PROVE Complete' /\ DoneMet' /\ \E m \in Root : FromRoot(m)'
  BY <1>1 DEF TraversedWell
<1>2. Going /\ Complete /\ DoneMet /\ \E m \in Root : FromRoot(m)
  BY DEF TraversedWell
<1>3. \A n \in discovered : n \in Node /\ Imports(n)' = Imports(n)
  BY <1>2, DiscoveredKept
<1>4. Complete'
  BY <1>2, <1>3 DEF Complete, OnPath
<1>5. DoneMet'
  <2> SUFFICES ASSUME NEW i \in 1..Len(path'), NEW n \in Node, path'[i].node = n,
                      NEW j \in 1..path'[i].done
               PROVE  /\ Imports(n)'[j] \in discovered'
                      /\ \A k \in 1..Len(path') : path'[k].node = Imports(n)'[j] => k > i
    BY DEF DoneMet
  <2>1. n \in discovered
    BY DEF TraversalTyped
  <2> QED
    BY <1>2, <1>3, <2>1 DEF DoneMet
<1>6. ASSUME NEW m \in Root, FromRoot(m) PROVE FromRoot(m)'
  BY <1>6, FollowsKept DEF FromRoot
<1> QED
  BY <1>2, <1>4, <1>5, <1>6

LEMMA OwnerWell ==
    ASSUME OwnerStep
    PROVE  TraversedWell'
BY DEF OwnerStep, TraversedWell, Going

LEMMA BuildWell ==
    ASSUME PathsTyped, TraversedWell, Build
    PROVE  TraversedWell'
<1>1. Settled /\ TraversalTyped
  BY BuildTyped DEF PathsTyped
<1>2. CASE Traverse
  BY <1>2, TraverseWell
<1>3. CASE KeepObjectFile
  <2>1. /\ discovered' = discovered /\ phase' = phase /\ CurrentVisit.done = Len(CurrentVisit.imports)
        /\ Leave /\ path /= <<>> /\ phase = "traversing"
    BY <1>3 DEF KeepObjectFile, ImportsDone
  <2>2. phase' /= "linked"
    BY <2>1
  <2> QED
    BY <1>1, <2>1, <2>2, LeaveWell
<1>4. CASE Link
  <2>1. path' = path /\ discovered' = discovered /\ phase = "traversing" /\ path = <<>>
    BY <1>4 DEF Link, traversalVars
  <2> QED
    BY <1>1, <2>1, SameWell DEF Going
<1>5. CASE \E incompatible \in BOOLEAN : UpdateObjectFile(incompatible)
  <2>1. PICK incompatible \in BOOLEAN : UpdateObjectFile(incompatible)
    BY <1>5
  <2>2. /\ phase = "traversing" /\ path /= <<>> /\ CurrentVisit.done = Len(CurrentVisit.imports)
        /\ Leave /\ discovered' = discovered
        /\ phase' \in {"traversing", "imported-module-not-found", "symbol-file-not-found"}
    BY <2>1, UpdateFact
  <2>3. phase' /= "linked"
    BY <2>2
  <2> QED
    BY <1>1, <2>2, <2>3, LeaveWell
<1> QED
  BY <1>2, <1>3, <1>4, <1>5 DEF Build

LEMMA TraversedWellStep ==
    ASSUME PathsTyped, TraversedWell, [PathsNext]_pathVars
    PROVE  TraversedWell'
<1>1. CASE \E l \in Location : \E names \in Draft[l] : Save(l, names)
  BY <1>1, OwnerWell DEF Save
<1>2. CASE \E l \in Location : RemoveSource(l)
  BY <1>2, OwnerWell DEF RemoveSource
<1>3. CASE \E d \in Directory : Clean(d)
  BY <1>3, OwnerWell DEF Clean
<1>4. CASE \E m \in Root : Start(m)
  BY <1>4, StartWell
<1>5. CASE Build
  BY <1>5, BuildWell
<1>6. CASE UNCHANGED pathVars
  <2>1. UNCHANGED fileVars /\ path' = path /\ discovered' = discovered /\ phase' = phase
    BY <1>6 DEF pathVars, fileVars
  <2>2. TraversalTyped /\ Settled
    BY <2>1, SettledFiles DEF PathsTyped
  <2>3. (Going' => Going) /\ (phase' = "linked" => path = <<>>)
    BY <2>1 DEF Going, TraversedWell
  <2> QED
    BY <2>1, <2>2, <2>3, SameWell
<1> QED
  BY <1>1, <1>2, <1>3, <1>4, <1>5, <1>6 DEF PathsNext

LEMMA PathsAreTraversedWell == PathsSpec => [](PathsTyped /\ TraversedWell)
<1>1. PathsInit => TraversedWell
  BY DEF PathsInit, TraversedWell, Going
<1>2. PathsTyped /\ TraversedWell /\ [PathsNext]_pathVars => (PathsTyped /\ TraversedWell)'
  BY PathsTypedStep, TraversedWellStep
<1> QED
  BY PathsTypedInit, <1>1, <1>2, PTL DEF PathsSpec

-----------------------------------------------------------------------------
(* Where obnc and obnc-compile find the imports of a module that was met.  *)
LEMMA ImportedPlace ==
    ASSUME AbsoluteEntries, FilesTyped, NEW n \in Node, PlaceOf(n) \in Have, AllFound(n),
           NEW j \in 1..Len(Imports(n))
    PROVE  LET l == PlaceOf(n)
               m == ImportNames(l)[j]
               q == FoundIn(Have, m, <<0>>, l[1])
           IN /\ m \in ModuleName /\ l[1] \in Directory
              /\ q /= <<>> /\ PlaceOf(Imports(n)[j]) = <<At(q, l[1]), m>>
<1> DEFINE l == PlaceOf(n)
           names == ImportNames(l)
           m == names[j]
           z == <<0>>
           q == FoundIn(Have, m, z, l[1])
           p == FoundIn(Have, m, n.path, Home)
<1>1. l \in Location /\ Have \in SUBSET Location
  BY DEF Have
<1>2. names \in Seq(ModuleName)
  BY <1>1, NamesTypedSo DEF NamesTyped
<1>3. l[1] = At(n.path, Home) /\ l[1] \in Directory /\ n.path \in Paths
  BY <1>1, PlaceTyped DEF Location, Node
<1>4. Imports(n) = ImportsIn(Have, names, n)
  BY DEF Imports
<1> HIDE DEF l
<1> HIDE DEF names
<1>5. /\ Len(Imports(n)) = Len(names)
      /\ Imports(n)[j] = ModuleNode(m, p) /\ Imports(n)[j].module = m /\ Imports(n)[j].path = p
  BY <1>1, <1>2, <1>4, ImportsTyped
<1>6. m \in ModuleName
  BY <1>2, <1>5
<1>7. p /= <<>>
  <2>1. l \in Location /\ l = PlaceOf(n)
    BY <1>1 DEF l
  <2>2. DOMAIN Imports(n) = 1..Len(Imports(n))
    BY <2>1, ImportsMet
  <2>3. Imports(n)[j].path /= <<>>
    BY <2>2 DEF AllFound
  <2> QED
    BY <1>5, <2>3
<1>8. PlaceOf(Imports(n)[j]) = <<At(p, Home), m>>
  BY <1>5 DEF PlaceOf
<1> HIDE DEF m
<1>9. q /= <<>> /\ At(p, Home) = At(q, l[1])
  BY <1>3, <1>6, <1>7, SameSearch
<1> QED
  BY <1>3, <1>6, <1>8, <1>9 DEF l, m, names, q, z

LEMMA MeantMet ==
    ASSUME AbsoluteEntries, FilesTyped, NEW n \in Node, PlaceOf(n) \in Have, AllFound(n)
    PROVE  Range(MeantImports(PlaceOf(n))) = {PlaceOf(Imports(n)[j]) : j \in 1..Len(Imports(n))}
<1> DEFINE l == PlaceOf(n)
           names == ImportNames(l)
           z == <<0>>
<1>1. l \in Location
  BY DEF Have
<1>2. names \in Seq(ModuleName) /\ Len(Imports(n)) = Len(names)
  BY <1>1, NamesTypedSo, ImportsMet DEF NamesTyped
<1>3. MeantImports(l) = [i \in DOMAIN names |-> Meant(l[1], names[i])]
  BY DEF MeantImports
<1>4. ASSUME NEW j \in 1..Len(Imports(n))
      PROVE  PlaceOf(Imports(n)[j]) = Meant(l[1], names[j])
  <2>1. /\ names[j] \in ModuleName /\ l[1] \in Directory
        /\ FoundIn(Have, names[j], z, l[1]) /= <<>>
        /\ PlaceOf(Imports(n)[j]) = <<At(FoundIn(Have, names[j], z, l[1]), l[1]), names[j]>>
    BY ImportedPlace
  <2>2. \A i \in ModuleName : \A d \in Directory :
            FoundIn(Have, i, z, d) /= <<>> => Meant(d, i) = <<At(FoundIn(Have, i, z, d), d), i>>
    BY MeantIsSo DEF MeantIs
  <2> HIDE DEF z, names, l
  <2> QED
    BY <2>1, <2>2
<1> HIDE DEF names, l, z
<1>5. DOMAIN names = 1..Len(Imports(n))
  BY <1>2
<1>6. Range(MeantImports(l)) = {Meant(l[1], names[j]) : j \in 1..Len(Imports(n))}
  BY <1>3, <1>5 DEF Range
<1>7. Range(MeantImports(l)) = {PlaceOf(Imports(n)[j]) : j \in 1..Len(Imports(n))}
  BY <1>4, <1>6
<1> QED
  BY <1>7 DEF l

-----------------------------------------------------------------------------
(* What is in reach by imports.                                            *)
Spread(W) == UNION {{j} \union Range(MeantImports(j)) : j \in W}
Spreading(f, r, k) == IF k = 0 THEN {r} ELSE UNION {{j} \union Range(MeantImports(j)) : j \in f[k - 1]}
IsWithin(f, r, n) == f = [k \in 0..n |-> Spreading(f, r, k)]
Within(r) == CHOOSE f : IsWithin(f, r, Cardinality(Location))

LEMMA LocationFinite == IsFiniteSet(Location) /\ Cardinality(Location) \in Nat
<1>1. IsFiniteSet(Location)
  BY PathsAssumption, FS_Product DEF Location
<1> QED
  BY <1>1, FS_CardinalityType

LEMMA WithinExists ==
    ASSUME NEW r, NEW n \in Nat
    PROVE  \E f : IsWithin(f, r, n)
<1> DEFINE S == {j \in Nat : \E f : IsWithin(f, r, j)}
<1>1. 0 \in S
  <2> DEFINE g == [k \in 0..0 |-> {r}]
  <2>1. \A k \in 0..0 : g[k] = Spreading(g, r, k)
    BY DEF Spreading
  <2>2. g = [k \in 0..0 |-> g[k]]
    OBVIOUS
  <2> HIDE DEF g
  <2>3. IsWithin(g, r, 0)
    BY <2>1, <2>2 DEF IsWithin
  <2> QED
    BY <2>3
<1>2. ASSUME NEW j \in Nat, j \in S PROVE j + 1 \in S
  <2>1. PICK f : IsWithin(f, r, j)
    BY <1>2
  <2> DEFINE g == [k \in 0..(j + 1) |-> IF k <= j THEN f[k] ELSE Spreading(f, r, j + 1)]
  <2>2. ASSUME NEW k \in 0..(j + 1) PROVE g[k] = Spreading(g, r, k)
    <3>1. k /= 0 => g[k - 1] = f[k - 1]
      OBVIOUS
    <3>2. g[k] = Spreading(f, r, k)
      <4>1. CASE k <= j
        BY <2>1, <4>1 DEF IsWithin
      <4>2. CASE k = j + 1
        BY <4>2
      <4> QED
        BY <4>1, <4>2
    <3> HIDE DEF g
    <3> QED
      BY <3>1, <3>2 DEF Spreading
  <2>3. IsWithin(g, r, j + 1)
    <3>1. g = [k \in 0..(j + 1) |-> g[k]]
      OBVIOUS
    <3> HIDE DEF g
    <3> QED
      BY <2>2, <3>1 DEF IsWithin
  <2> QED
    BY <2>3
<1> HIDE DEF S
<1>3. n \in S
  BY <1>1, <1>2, SetInduction
<1> QED
  BY <1>3 DEF S

LEMMA WithinFact ==
    ASSUME NEW r
    PROVE  LET n == Cardinality(Location) IN
           /\ Reach(r) = Within(r)[n]
           /\ Within(r)[0] = {r}
           /\ \A k \in 0..(n - 1) : Within(r)[k + 1] = Spread(Within(r)[k])
<1> DEFINE n == Cardinality(Location)
           w == Within(r)
<1>1. n \in Nat
  BY LocationFinite
<1>2. IsWithin(w, r, n)
  <2>1. \E f : IsWithin(f, r, n)
    BY <1>1, WithinExists
  <2> QED
    BY <2>1, Zenon DEF Within
<1>3. Reach(r) = w[n]
  BY Zenon DEF Reach, Within, IsWithin, Spreading
<1> HIDE DEF w, n
<1>4. \A k \in 0..n : w[k] = Spreading(w, r, k)
  <2>1. w = [k \in 0..n |-> Spreading(w, r, k)]
    BY <1>2, Zenon DEF IsWithin
  <2> QED
    BY <2>1
<1>5. w[0] = {r}
  <2>1. 0 \in 0..n
    BY <1>1
  <2>2. w[0] = Spreading(w, r, 0)
    BY <1>4, <2>1
  <2>3. Spreading(w, r, 0) = {r}
    BY Zenon DEF Spreading
  <2> QED
    BY <2>2, <2>3
<1>6. ASSUME NEW k \in 0..(n - 1) PROVE w[k + 1] = Spread(w[k])
  <2>1. k + 1 \in 0..n /\ k + 1 /= 0 /\ (k + 1) - 1 = k
    BY <1>1
  <2>2. w[k + 1] = Spreading(w, r, k + 1)
    BY <1>4, <2>1
  <2> QED
    BY <2>1, <2>2 DEF Spreading, Spread
<1> QED
  BY <1>3, <1>5, <1>6 DEF w, n

(* In a set of places that is closed under imports all that is in reach of *)
(* r is in there, and it is closed as well: as long as it grows there is   *)
(* one more place each time.                                               *)
LEMMA ReachFact ==
    ASSUME NEW D \in SUBSET Location, NEW r \in D,
           \A l \in D : Range(MeantImports(l)) \subseteq D
    PROVE  /\ Reach(r) \subseteq D /\ r \in Reach(r)
           /\ \A l \in Reach(r) : Range(MeantImports(l)) \subseteq Reach(r)
<1> DEFINE n == Cardinality(Location)
           w == Within(r)
           C(W) == Spread(W) \subseteq W
<1>1. n \in Nat /\ IsFiniteSet(Location)
  BY LocationFinite
<1>2. Reach(r) = w[n] /\ w[0] = {r} /\ \A k \in 0..(n - 1) : w[k + 1] = Spread(w[k])
  BY WithinFact
<1> HIDE DEF n, w
<1>3. \A W : W \subseteq Spread(W)
  BY DEF Spread
<1>4. \A W : W \subseteq D => Spread(W) \subseteq D
  BY DEF Spread
<1> DEFINE S == {k \in Nat : w[k] \subseteq D /\ r \in w[k] /\ (C(w[k]) \/ Cardinality(w[k]) >= k + 1)}
<1>5. 0 \in S
  <2>1. Cardinality({r}) = 1
    BY FS_Singleton
  <2>2. w[0] \subseteq D /\ r \in w[0] /\ Cardinality(w[0]) >= 0 + 1
    BY <1>2, <2>1
  <2> QED
    BY <2>2
<1>6. ASSUME NEW k \in 0..(n - 1), k \in S PROVE k + 1 \in S
  <2>1. PICK V : V = w[k]
    OBVIOUS
  <2>2. PICK U : U = w[k + 1]
    OBVIOUS
  <2>3. U = Spread(V) /\ V \subseteq D /\ r \in V /\ (C(V) \/ Cardinality(V) >= k + 1)
    BY <1>2, <1>6, <2>1, <2>2
  <2>4. V \subseteq U /\ U \subseteq D
    BY <1>3, <1>4, <2>3
  <2>5. C(U) \/ Cardinality(U) >= k + 2
    <3>1. CASE C(V)
      <4>1. U = V
        BY <2>3, <2>4, <3>1
      <4> QED
        BY <3>1, <4>1
    <3>2. CASE ~C(V)
      <4>1. IsFiniteSet(U)
        BY <1>1, <2>4, FS_Subset
      <4>2. V /= U
        BY <2>3, <3>2
      <4>3. IsFiniteSet(V) /\ Cardinality(V) <= Cardinality(U) /\ Cardinality(V) /= Cardinality(U)
        BY <2>4, <4>1, <4>2, FS_Subset
      <4>4. Cardinality(V) \in Nat /\ Cardinality(U) \in Nat
        BY <4>1, <4>3, FS_CardinalityType
      <4>5. Cardinality(V) >= k + 1
        BY <2>3, <3>2
      <4> QED
        BY <4>3, <4>4, <4>5
    <3> QED
      BY <3>1, <3>2
  <2>6. (k + 1) + 1 = k + 2 /\ k + 1 \in Nat
    BY <1>1
  <2> QED
    BY <2>2, <2>3, <2>4, <2>5, <2>6
<1> HIDE DEF S
<1>7. n \in S
  <2>1. 0..n \subseteq S
    BY <1>1, <1>5, <1>6, BoundedInduction
  <2> QED
    BY <1>1, <2>1
<1>8. w[n] \subseteq D /\ r \in w[n] /\ (C(w[n]) \/ Cardinality(w[n]) >= n + 1)
  BY <1>7 DEF S
<1>9. Cardinality(w[n]) <= n /\ Cardinality(w[n]) \in Nat
  <2>1. w[n] \in SUBSET Location
    BY <1>8
  <2>2. IsFiniteSet(w[n]) /\ Cardinality(w[n]) <= n
    BY <1>1, <2>1, FS_Subset DEF n
  <2> QED
    BY <2>2, FS_CardinalityType
<1>10. C(w[n])
  BY <1>1, <1>8, <1>9
<1> QED
  BY <1>2, <1>8, <1>10 DEF Spread

(* Modules that were met are different places.                             *)
LEMMA MetOnce ==
    ASSUME OnePath, NEW j \in Node, NEW k \in Node, PlaceOf(j) \in Have, PlaceOf(j) = PlaceOf(k)
    PROVE  j = k
<1>1. /\ j = [module |-> j.module, path |-> j.path] /\ k = [module |-> k.module, path |-> k.path]
      /\ j.path \in Paths /\ k.path \in Paths
  BY DEF Node
<1>2. j.module = k.module /\ At(j.path, Home) = At(k.path, Home)
  BY DEF PlaceOf
<1>3. At(j.path, Home) \in Directory
  BY PlaceTyped DEF Have
<1>4. j.path = k.path
  BY <1>1, <1>2, <1>3, SamePath
<1> QED
  BY <1>1, <1>2, <1>4

(* The places of what is linked are those in reach.                        *)
LEMMA LinkedInReach ==
    ASSUME AbsoluteEntries, PathsTyped, TraversedWell, phase = "linked",
           NEW m \in Root, FromRoot(m)
    PROVE  {PlaceOf(n) : n \in discovered} = Reach(<<Home, m>>)
<1> DEFINE D == {PlaceOf(n) : n \in discovered}
           r == <<Home, m>>
           z == <<0>>
           n0 == ModuleNode(m, z)
<1>1. /\ FilesTyped /\ path = <<>> /\ Going /\ Complete
      /\ \A n \in discovered : n \in Node /\ PlaceOf(n) \in Have /\ AllFound(n)
  BY DEF PathsTyped, TraversalTyped, TraversedWell, Going
<1>2. \A n \in discovered : \A j \in 1..Len(Imports(n)) : Imports(n)[j] \in discovered
  BY <1>1 DEF Complete, OnPath
<1>3. n0 \in discovered /\ PlaceOf(n0) = r
  <2>1. At(z, Home) = Home
    BY HomePath
  <2>2. n0.module = m /\ n0.path = z
    BY DEF ModuleNode
  <2>3. n0 \in discovered
    BY DEF FromRoot
  <2> HIDE DEF n0, z
  <2> QED
    BY <2>1, <2>2, <2>3 DEF PlaceOf
<1>4. D \in SUBSET Location /\ r \in D
  BY <1>1, <1>3 DEF Have
<1>5. \A n \in discovered : Range(MeantImports(PlaceOf(n))) = {PlaceOf(Imports(n)[j]) : j \in 1..Len(Imports(n))}
  BY <1>1, MeantMet
<1>6. \A l \in D : Range(MeantImports(l)) \subseteq D
  <2> SUFFICES ASSUME NEW n \in discovered PROVE Range(MeantImports(PlaceOf(n))) \subseteq D
    OBVIOUS
  <2>1. \A j \in 1..Len(Imports(n)) : PlaceOf(Imports(n)[j]) \in D
    BY <1>2
  <2> HIDE DEF D
  <2> QED
    BY <1>5, <2>1
<1> HIDE DEF D, r
<1>7. /\ Reach(r) \subseteq D /\ r \in Reach(r)
      /\ \A l \in Reach(r) : Range(MeantImports(l)) \subseteq Reach(r)
  BY <1>4, <1>6, ReachFact
<1>8. D \subseteq Reach(r)
  <2> DEFINE T == {n \in discovered : PlaceOf(n) \in Reach(r)}
  <2>1. T \in SUBSET Node /\ n0 \in T
    BY <1>1, <1>3, <1>7
  <2>2. Follows(T)
    <3> SUFFICES ASSUME NEW n \in T, NEW j \in 1..Len(Imports(n)) PROVE Imports(n)[j] \in T
      BY DEF Follows
    <3>1. Imports(n)[j] \in discovered
      BY <1>2
    <3>2. PlaceOf(Imports(n)[j]) \in Range(MeantImports(PlaceOf(n)))
      BY <1>5
    <3>3. PlaceOf(Imports(n)[j]) \in Reach(r)
      BY <1>7, <3>2
    <3> QED
      BY <3>1, <3>3
  <2>3. T = T /\ T \subseteq discovered /\ \A n \in T : PlaceOf(n) \in Reach(r)
    OBVIOUS
  <2> HIDE DEF T
  <2>4. discovered \subseteq T
    BY <2>1, <2>2 DEF FromRoot
  <2> QED
    BY <2>3, <2>4 DEF D
<1> QED
  BY <1>7, <1>8 DEF D, r

LEMMA ReachIsLinked ==
    ASSUME AbsoluteEntries, OnePath, PathsTyped, TraversedWell
    PROVE  ReachLinked
<1> SUFFICES ASSUME phase = "linked"
             PROVE  \E m \in Root :
                        /\ {PlaceOf(n) : n \in discovered} = Reach(<<Home, m>>)
                        /\ Cardinality(discovered) = Cardinality(Reach(<<Home, m>>))
  BY DEF ReachLinked
<1> DEFINE P == {PlaceOf(n) : n \in discovered}
           F == [n \in discovered |-> PlaceOf(n)]
<1>1. PICK m \in Root : FromRoot(m)
  BY DEF TraversedWell, Going
<1>2. P = Reach(<<Home, m>>)
  BY <1>1, LinkedInReach
<1>3. \A n \in discovered : n \in Node /\ PlaceOf(n) \in Have
  BY DEF PathsTyped, TraversalTyped
<1>4. IsFiniteSet(P)
  <2>1. P \in SUBSET Location
    BY <1>3 DEF Have
  <2> QED
    BY <2>1, LocationFinite, FS_Subset
<1>5. F \in [discovered -> P] /\ (\A a, b \in discovered : F[a] = F[b] => a = b)
      /\ \A l \in P : \E n \in discovered : F[n] = l
  BY <1>3, MetOnce
<1> HIDE DEF F, P
<1>6. F \in Injection(discovered, P) /\ F \in Surjection(discovered, P)
  BY <1>5, Fun_IsInj, Fun_IsSurj
<1>7. Cardinality(discovered) = Cardinality(P)
  BY <1>4, <1>6, FS_Injection
<1> QED
  BY <1>2, <1>7 DEF P

(* Where entries of the search path are the same in every directory and    *)
(* no directory is reached by two paths, a program consists of what its    *)
(* entry point imports by the manual, directly or not, and of no module    *)
(* twice (MatchingModuleNode, ModulePaths_Directory).                      *)
THEOREM LinkedIsReach ==
    ASSUME AbsoluteEntries, OnePath
    PROVE  PathsSpec => []ReachLinked
<1>1. PathsTyped /\ TraversedWell => ReachLinked
  BY ReachIsLinked
<1> QED
  BY PathsAreTraversedWell, <1>1, PTL

-----------------------------------------------------------------------------
HaveIs == \A l \in Location : l \in Have <=> list[l] /= NoFile \/ made[l] /= NoFile \/ l \in Installed
LEMMA HaveIsSo == HaveIs
<1> SUFFICES ASSUME NEW l \in Location
             PROVE  l \in Have <=> list[l] /= NoFile \/ made[l] /= NoFile \/ l \in Installed
  BY DEF HaveIs
<1>1. PICK d \in Directory, m \in ModuleName : l = <<d, m>>
  BY DEF Location
<1>2. l \in Have <=> HasFiles(d, m)
  BY <1>1, HaveFact
<1>3. d /= Nowhere
  BY PathsAssumption
<1>4. HasFiles(d, m) <=> list[l] /= NoFile \/ made[l] /= NoFile \/ l \in Installed
  BY <1>1, <1>3, Zenon DEF HasFiles
<1> QED
  BY <1>2, <1>4

LEMMA HaveReal ==
    ASSUME FilesTyped
    PROVE  Have \subseteq Real /\ Real \subseteq Location
<1> SUFFICES ASSUME NEW l \in Have PROVE l \in Real
  BY DEF Real
<1>1. l \in Location
  BY DEF Have
<1>2. list[l] /= NoFile \/ made[l] /= NoFile \/ l \in Installed
  BY <1>1, HaveIsSo DEF HaveIs
<1> QED
  BY <1>1, <1>2 DEF FilesTyped, Real

(* The search for a module depends on the files of that name only.         *)
LEMMA SameFound ==
    ASSUME NEW H, NEW G, NEW m, \A d : <<d, m>> \in H <=> <<d, m>> \in G, NEW p, NEW c
    PROVE  FoundIn(G, m, p, c) = FoundIn(H, m, p, c)
<1>1. Present(G, m, p, c) = Present(H, m, p, c)
  BY DEF Present
<1> QED
  BY <1>1 DEF FoundIn

(* A module is found in the directory where the search begins, if it is    *)
(* there.                                                                  *)
LEMMA OwnFirst ==
    ASSUME NEW H \in SUBSET Location, NEW m \in ModuleName, NEW c, <<c, m>> \in H
    PROVE  At(FoundIn(H, m, <<0>>, c), c) = c
<1> DEFINE z == <<0>>
           S == Present(H, m, z, c)
<1>1. z \in Paths /\ At(z, c) = c
  BY HomePath
<1> HIDE DEF z
<1>2. 0 \in 0..LastCandidate /\ LastCandidate \in Nat
  BY Searched DEF LastCandidate
<1>3. At(Candidate(0, m, z), c) = c
  <2>1. At(Candidate(0, m, z), c) = EntryAt(0, z, c)
    BY <1>1, <1>2, CandidateFact
  <2> QED
    BY <1>1, <2>1 DEF EntryAt
<1>4. 0 \in S
  BY <1>2, <1>3 DEF Present
<1>5. S \in SUBSET Nat
  BY <1>2 DEF Present
<1>6. Min(S) = 0
  <2>1. Min(S) \in S /\ Min(S) <= 0
    BY <1>4, <1>5, LeastElement
  <2> QED
    BY <1>5, <2>1
<1>7. FoundIn(H, m, z, c) = Candidate(0, m, z)
  BY <1>4, <1>6, Zenon DEF FoundIn
<1> QED
  BY <1>3, <1>7 DEF z

(* What was made of l includes and uses what its imports denote, where the *)
(* places that have files are those in H.                                  *)
BoundAt(r, H, l) ==
    /\ DOMAIN r.uses = 1..Len(r.imports)
    /\ \A i \in 1..Len(r.includes) : r.includes[i] \in Real
    /\ \A i \in 1..Len(r.imports) :
          /\ FoundIn(H, r.imports[i], <<0>>, l[1]) /= <<>>
          /\ r.uses[i] = ObjectName(<<At(FoundIn(H, r.imports[i], <<0>>, l[1]), l[1]), r.imports[i]>>)

MadeAsMeant == \A l \in Location : made[l] /= NoFile => BoundAt(made[l], Have, l)

LEMMA BoundKept ==
    ASSUME NEW H, NEW G, NEW r, NEW l, BoundAt(r, H, l),
           \A i \in 1..Len(r.imports) : \A d : <<d, r.imports[i]>> \in H <=> <<d, r.imports[i]>> \in G
    PROVE  BoundAt(r, G, l)
<1>1. \A i \in 1..Len(r.imports) :
        FoundIn(G, r.imports[i], <<0>>, l[1]) = FoundIn(H, r.imports[i], <<0>>, l[1])
  BY SameFound
<1> QED
  BY <1>1 DEF BoundAt

(* The code that is made of a module.                                      *)
LEMMA MadeBound ==
    ASSUME SharedNamesFirst, FilesTyped, MadeAsMeant,
           NEW l \in Have, list[l] /= NoFile, CompileOutcome(list[l], l[1]) = "traversing"
    PROVE  BoundAt(MadeFrom(l, Denoted(list[l], l[1])), Have, l)
<1> DEFINE names == list[l]
           c == l[1]
           s == Denoted(names, c)
           z == <<0>>
           q(i) == FoundIn(Have, names[i], z, c)
           R == Headers(OwnHeader(l), s)
<1>1. /\ l \in Location /\ names \in Seq(ModuleName) /\ names \in Draft[l] /\ c \in Directory
      /\ Have \in SUBSET Location /\ Have \subseteq Real /\ Real \in SUBSET Location
  BY HaveReal DEF Have, Location, FilesTyped
<1>2. CompileOutcome(names, c) /= "imported-module-not-found"
  OBVIOUS
<1>3. /\ \A i \in 1..Len(names) :
            /\ q(i) /= <<>> /\ s[i] = <<At(q(i), c), names[i]>> /\ s[i] \in Have
      /\ s \in Seq(Location) /\ Len(s) = Len(names)
  BY <1>1, <1>2, DenotedTyped
<1>4. \A k \in Location : \A i \in 1..Len(Includes(k)) : Includes(k)[i] \in Real
  <2> SUFFICES ASSUME NEW k \in Location, NEW i \in 1..Len(Includes(k)) PROVE Includes(k)[i] \in Real
    OBVIOUS
  <2>1. CASE made[k] = NoFile /\ k \notin Installed
    <3>1. Includes(k) = <<>>
      BY <2>1 DEF Includes
    <3> QED
      BY <3>1
  <2>2. CASE made[k] /= NoFile
    BY <2>2 DEF Includes, MadeAsMeant, BoundAt
  <2>3. CASE made[k] = NoFile /\ k \in Installed
    <3>1. Includes(k) = InLibrary(k)
      BY <2>3 DEF Includes
    <3>2. InLibrary(k)[i] \in Installed /\ InLibrary(k)[i] \in Location
      BY <2>3, <3>1, LibraryFact, LibraryAssumption
    <3> QED
      BY <3>1, <3>2 DEF Real
  <2> QED
    BY <2>1, <2>2, <2>3
<1>5. l \in Real /\ \A i \in 1..Len(s) : s[i] \in Real
  BY <1>1, <1>3
<1>6. /\ R \subseteq Real /\ Single(R) /\ OwnHeader(l) \subseteq R
      /\ s /= <<>> /\ (l[2] \in Root \/ s[1][2] /= l[2]) => s[1] \in R
  <2> DEFINE W == Real
  <2>1. /\ W \in SUBSET Location /\ l \in W /\ s \in Seq(Location)
        /\ \A i \in 1..Len(s) : s[i] \in W
        /\ \A k \in Location : \A i \in 1..Len(Includes(k)) : Includes(k)[i] \in W
    BY <1>1, <1>3, <1>4, <1>5
  <2> HIDE DEF W, s
  <2>2. /\ R \subseteq W /\ Single(R) /\ OwnHeader(l) \subseteq R
        /\ s /= <<>> /\ (l[2] \in Root \/ s[1][2] /= l[2]) => s[1] \in R
    BY <2>1, HeadersOfCompiled
  <2> QED
    BY <2>2 DEF W
<1>7. ASSUME NEW i \in 1..Len(s) PROVE UsedName(l, s, s[i][2]) = ObjectName(s[i])
  <2>1. PICK k \in R : k \in Real /\ k[2] = s[i][2] /\ UsedName(l, s, s[i][2]) = ObjectName(k)
    BY <1>1, <1>3, <1>4, <1>5, UsedFact
  <2>2. s[i][2] = names[i] /\ s[i] \in Real
    BY <1>3, <1>5
  <2>3. CASE i /= 1
    <3>1. i \in 2..Len(names)
      BY <1>3, <2>3
    <3>2. k = s[i]
      BY <1>1, <2>1, <2>2, <3>1 DEF SharedNamesFirst
    <3> QED
      BY <2>1, <3>2
  <2>4. CASE i = 1 /\ (l[2] \in Root \/ s[1][2] /= l[2])
    <3>1. s /= <<>>
      BY <2>4
    <3>2. s[1] \in R
      BY <1>6, <2>4, <3>1
    <3>3. k = s[1]
      BY <1>6, <2>1, <2>4, <3>2 DEF Single
    <3> QED
      BY <2>1, <2>4, <3>3
  <2>5. CASE i = 1 /\ l[2] \notin Root /\ s[1][2] = l[2]
    <3>1. l \in R
      BY <1>6, <2>5 DEF OwnHeader
    <3>2. k = l
      BY <1>6, <2>1, <2>5, <3>1 DEF Single
    <3>3. names[1] = l[2] /\ l[2] \in ModuleName /\ l = <<c, l[2]>>
      BY <1>1, <2>2, <2>5 DEF Location
    <3>4. At(q(1), c) = c
      BY <1>1, <3>3, OwnFirst
    <3>5. s[1] = <<At(q(1), c), names[1]>>
      BY <1>3, <2>5
    <3> QED
      BY <2>1, <2>5, <3>2, <3>3, <3>4, <3>5
  <2> QED
    BY <2>3, <2>4, <2>5
<1> DEFINE r == MadeFrom(l, s)
<1>8. /\ r.imports = names /\ r.includes = s /\ DOMAIN r.uses = 1..Len(s)
      /\ \A i \in 1..Len(s) : r.uses[i] = UsedName(l, s, s[i][2])
  BY <1>1, <1>3, MadeFromFact
<1> HIDE DEF r, s, names
<1>9. \A i \in 1..Len(names) : r.uses[i] = ObjectName(<<At(q(i), c), names[i]>>)
  BY <1>3, <1>7, <1>8
<1>10. BoundAt(r, Have, l)
  BY <1>3, <1>5, <1>8, <1>9 DEF BoundAt
<1> QED
  BY <1>10 DEF r, s, names

(* An owner who rebinds no import leaves alone what a name denotes that    *)
(* some kept code was made for.                                            *)
LEMMA NotRebound ==
    ASSUME FilesTyped, PathUsage = {}, NEW names, NEW cleaned, MayRebind(names, cleaned),
           NEW l \in Location, made[l] /= NoFile, l[1] \notin cleaned,
           NEW i \in 1..Len(made[l].imports)
    PROVE  made[l].imports[i] \notin names
<1> DEFINE s == made[l].imports
<1>1. made[l] \in Made
  BY DEF FilesTyped
<1>2. s \in Seq(ModuleName)
  BY <1>1 DEF Made
<1> HIDE DEF s
<1>3. s[i] \in Range(s)
  BY <1>2 DEF Range, s
<1>4. ASSUME s[i] \in names PROVE FALSE
  <2>1. Range(s) \cap names /= {}
    BY <1>3, <1>4
  <2>2. l[1] \in cleaned
    BY <2>1 DEF MayRebind, s
  <2> QED
    BY <2>2
<1> QED
  BY <1>4 DEF s

LEMMA OwnerBound ==
    ASSUME FilesTyped, MadeAsMeant,
           \A l \in Location : made'[l] /= NoFile => made'[l] = made[l],
           \A l \in Location : made'[l] /= NoFile =>
               \A i \in 1..Len(made[l].imports) : \A k \in Location :
                   k[2] = made[l].imports[i] => (k \in Have' <=> k \in Have)
    PROVE  MadeAsMeant'
<1> SUFFICES ASSUME NEW l \in Location, made'[l] /= NoFile PROVE BoundAt(made'[l], Have', l)
  BY DEF MadeAsMeant
<1>1. PICK r : r = made[l]
  OBVIOUS
<1>2. PICK H : H = Have
  OBVIOUS
<1>3. PICK G : G = Have'
  OBVIOUS
<1>4. made'[l] = r /\ BoundAt(r, H, l)
  BY <1>1, <1>2 DEF MadeAsMeant
<1>5. H \subseteq Location /\ G \subseteq Location
  BY <1>2, <1>3 DEF Have
<1>6. ASSUME NEW i \in 1..Len(r.imports), NEW d
      PROVE  <<d, r.imports[i]>> \in H <=> <<d, r.imports[i]>> \in G
  <2> DEFINE k == <<d, r.imports[i]>>
  <2>1. k[2] = r.imports[i]
    OBVIOUS
  <2> HIDE DEF k
  <2>2. k \in Location => (k \in H <=> k \in G)
    BY <1>1, <1>2, <1>3, <2>1
  <2> QED
    BY <1>5, <2>2 DEF k
<1>7. BoundAt(r, G, l)
  BY <1>4, <1>6, BoundKept
<1> QED
  BY <1>3, <1>4, <1>7

HaveIsNext == \A l \in Location : l \in Have' <=> list'[l] /= NoFile \/ made'[l] /= NoFile \/ l \in Installed
LEMMA HaveIsAfter == HaveIsNext
<1>1. HaveIs'
  BY HaveIsSo, PTL
<1> QED
  BY <1>1 DEF HaveIs, HaveIsNext

LEMMA SaveBound ==
    ASSUME FilesTyped, MadeAsMeant, PathUsage = {},
           NEW l \in Location, NEW names \in Draft[l], Save(l, names)
    PROVE  MadeAsMeant'
<1>1. list' = [list EXCEPT ![l] = names] /\ made' = made
      /\ (HasFiles(l[1], l[2]) \/ MayRebind({l[2]}, {}))
  BY DEF Save
<1>2. names /= NoFile
  BY PathsAssumption
<1>3. \A k \in Location : list'[k] = IF k = l THEN names ELSE list[k]
  BY <1>1 DEF FilesTyped
<1>4. \A k \in Location : k /= l => (k \in Have' <=> k \in Have)
  BY <1>1, <1>3, HaveIsSo, HaveIsAfter DEF HaveIs, HaveIsNext
<1>5. l \in Have'
  BY <1>2, <1>3, HaveIsAfter DEF HaveIsNext
<1>6. CASE l \in Have
  BY <1>1, <1>4, <1>5, <1>6, OwnerBound
<1>7. CASE l \notin Have
  <2>1. MayRebind({l[2]}, {})
    BY <1>1, <1>7 DEF Have
  <2>2. ASSUME NEW j \in Location, made[j] /= NoFile, NEW i \in 1..Len(made[j].imports)
        PROVE  made[j].imports[i] /= l[2]
    <3>1. j[1] \notin {}
      OBVIOUS
    <3>2. made[j].imports[i] \notin {l[2]}
      BY <2>1, <2>2, <3>1, NotRebound
    <3> QED
      BY <3>2
  <2> QED
    BY <1>1, <1>4, <2>2, OwnerBound
<1> QED
  BY <1>6, <1>7

LEMMA RemoveBound ==
    ASSUME FilesTyped, MadeAsMeant, PathUsage = {}, NEW l \in Location, RemoveSource(l)
    PROVE  MadeAsMeant'
<1>1. list' = [list EXCEPT ![l] = NoFile] /\ made' = made
      /\ list[l] /= NoFile /\ (made[l] /= NoFile \/ MayRebind({l[2]}, {}))
  BY DEF RemoveSource
<1>2. \A k \in Location : list'[k] = IF k = l THEN NoFile ELSE list[k]
  BY <1>1 DEF FilesTyped
<1>3. \A k \in Location : k /= l => (k \in Have' <=> k \in Have)
  BY <1>1, <1>2, HaveIsSo, HaveIsAfter DEF HaveIs, HaveIsNext
<1>4. CASE made[l] /= NoFile
  <2>1. l \in Have /\ l \in Have'
    BY <1>1, <1>4, HaveIsSo, HaveIsAfter DEF HaveIs, HaveIsNext
  <2> QED
    BY <1>1, <1>3, <2>1, OwnerBound
<1>5. CASE made[l] = NoFile
  <2>1. MayRebind({l[2]}, {})
    BY <1>1, <1>5
  <2>2. ASSUME NEW j \in Location, made[j] /= NoFile, NEW i \in 1..Len(made[j].imports)
        PROVE  made[j].imports[i] /= l[2]
    <3>1. j[1] \notin {}
      OBVIOUS
    <3>2. made[j].imports[i] \notin {l[2]}
      BY <2>1, <2>2, <3>1, NotRebound
    <3> QED
      BY <3>2
  <2> QED
    BY <1>1, <1>3, <2>2, OwnerBound
<1> QED
  BY <1>4, <1>5

LEMMA CleanBound ==
    ASSUME FilesTyped, MadeAsMeant, PathUsage = {}, NEW d \in Directory, Clean(d)
    PROVE  MadeAsMeant'
<1> DEFINE gone == {m \in ModuleName : made[d, m] /= NoFile /\ list[d, m] = NoFile}
<1>1. made' = [l \in Location |-> IF l[1] = d THEN NoFile ELSE made[l]] /\ list' = list
      /\ MayRebind(gone, {d})
  BY DEF Clean
<1>2. \A l \in Location : made'[l] /= NoFile => made'[l] = made[l] /\ made[l] /= NoFile /\ l[1] /= d
  BY <1>1
<1> HIDE DEF gone
<1>3. \A k \in Location : k[2] \in gone \/ (k \in Have' <=> k \in Have)
  <2> SUFFICES ASSUME NEW k \in Location, k[2] \notin gone PROVE k \in Have' <=> k \in Have
    OBVIOUS
  <2>1. CASE k[1] /= d
    BY <1>1, <2>1, HaveIsSo, HaveIsAfter DEF HaveIs, HaveIsNext
  <2>2. CASE k[1] = d
    <3>1. k = <<d, k[2]>> /\ k[2] \in ModuleName
      BY <2>2 DEF Location
    <3>2. made[k] = NoFile \/ list[k] /= NoFile
      BY <3>1, Zenon DEF gone
    <3> QED
      BY <1>1, <3>2, HaveIsSo, HaveIsAfter DEF HaveIs, HaveIsNext
  <2> QED
    BY <2>1, <2>2
<1>4. ASSUME NEW l \in Location, made'[l] /= NoFile, NEW i \in 1..Len(made[l].imports)
      PROVE  made[l].imports[i] \notin gone
  <2>1. made[l] /= NoFile /\ l[1] \notin {d}
    BY <1>2, <1>4
  <2> QED
    BY <1>1, <1>4, <2>1, NotRebound
<1> QED
  BY <1>2, <1>3, <1>4, OwnerBound

LEMMA SettledBound ==
    ASSUME FilesTyped, MadeAsMeant, UNCHANGED fileVars
    PROVE  MadeAsMeant'
<1>1. Settled /\ made' = made
  BY SettledFiles DEF fileVars
<1> QED
  BY <1>1, OwnerBound DEF Settled

LEMMA UpdateBound ==
    ASSUME SharedNamesFirst, PathsTyped, MadeAsMeant, NEW incompatible, UpdateObjectFile(incompatible)
    PROVE  MadeAsMeant'
<1>1. PICK l \in Have :
           /\ l \in Location /\ list[l] /= NoFile
           /\ phase' = CompileOutcome(list[l], l[1])
           /\ phase' = "traversing" => made' = [made EXCEPT ![l] = MadeFrom(l, Denoted(list[l], l[1]))]
           /\ phase' /= "traversing" => made' = made
  BY UpdateFact
<1>2. FilesTyped /\ Have' = Have
  BY UpdateTyped DEF PathsTyped, Settled
<1> SUFFICES ASSUME NEW k \in Location, made'[k] /= NoFile PROVE BoundAt(made'[k], Have', k)
  BY DEF MadeAsMeant
<1>3. CASE phase' /= "traversing" \/ k /= l
  <2>1. made'[k] = made[k]
    BY <1>1, <1>2, <1>3 DEF FilesTyped
  <2> QED
    BY <1>2, <2>1 DEF MadeAsMeant
<1>4. CASE phase' = "traversing" /\ k = l
  <2>1. BoundAt(MadeFrom(l, Denoted(list[l], l[1])), Have, l)
    BY <1>1, <1>2, <1>4, MadeBound
  <2>2. made'[k] = MadeFrom(l, Denoted(list[l], l[1]))
    BY <1>1, <1>2, <1>4 DEF FilesTyped
  <2> QED
    BY <1>2, <1>4, <2>1, <2>2
<1> QED
  BY <1>3, <1>4

(* What is off the path is made, and not from an earlier source.           *)
OffPathBuilt ==
    Going => \A n \in discovered :
                 list[PlaceOf(n)] /= NoFile =>
                     OnPath(n) \/ (made[PlaceOf(n)] /= NoFile /\ PlaceOf(n) \notin modified)

LEMMA BuildBuilt ==
    ASSUME PathsTyped, TraversedWell, OffPathBuilt, Build
    PROVE  OffPathBuilt'
<1> SUFFICES ASSUME Going', NEW n \in discovered', list'[PlaceOf(n)] /= NoFile, ~OnPath(n)'
             PROVE  made'[PlaceOf(n)] /= NoFile /\ PlaceOf(n) \notin modified'
  BY DEF OffPathBuilt
<1>1. PICK l : l = PlaceOf(n)
  OBVIOUS
<1>2. FilesTyped /\ TraversalTyped
  BY DEF PathsTyped
<1>3. CASE Traverse
  <2>1. /\ phase = "traversing" /\ path /= <<>> /\ CurrentVisit.done < Len(CurrentVisit.imports)
        /\ UNCHANGED fileVars
        /\ \/ phase' = "import-cycle"
           \/ EnterModule(Import, After, discovered)
           \/ path' = After /\ discovered' = discovered
    BY <1>3, TraverseFact
  <2>2. /\ After \in Seq(Visits) /\ Len(After) = Len(path) /\ Len(path) \in Nat
        /\ \A i \in 1..Len(path) : After[i].node = path[i].node
    BY <2>1, AfterFact, Current
  <2>3. n \in discovered /\ ~OnPath(n)
    <3>1. CASE EnterModule(Import, After, discovered)
      <4>1. PICK k \in Node : k = Import /\ PlaceOf(k) \in Location
        BY <2>1, NextImport DEF Have
      <4>2. EnterModule(k, After, discovered)
        BY <3>1, <4>1
      <4>3. /\ Len(path') = Len(path) + 1
            /\ \A i \in 1..Len(path) : path'[i] = After[i]
            /\ path'[Len(path) + 1].node = k
            /\ discovered' = discovered \union {k}
        BY <1>2, <2>2, <4>1, <4>2, Entered
      <4> QED
        BY <2>2, <4>3 DEF OnPath
    <3>2. CASE path' = After /\ discovered' = discovered
      BY <2>2, <3>2 DEF OnPath
    <3> QED
      BY <2>1, <3>1, <3>2 DEF Going
  <2> QED
    BY <2>1, <2>3 DEF OffPathBuilt, Going, fileVars
<1>4. CASE KeepObjectFile
  <2>1. /\ UNCHANGED fileVars /\ discovered' = discovered /\ path /= <<>> /\ phase = "traversing" /\ Leave
        /\ list[PlaceOf(CurrentVisit.node)] = NoFile \/ ~NeedsCompilation(PlaceOf(CurrentVisit.node))
    BY <1>4 DEF KeepObjectFile, ImportsDone
  <2>2. /\ Len(path') = Len(path) - 1 /\ Len(path) \in Nat /\ Len(path) >= 1
        /\ \A i \in 1..Len(path') : path'[i] = path[i]
    BY <2>1, LeaveFact
  <2>3. CASE OnPath(n)
    <3>1. n = CurrentVisit.node
      BY <2>2, <2>3 DEF OnPath, CurrentVisit
    <3>2. list[l] = NoFile \/ ~NeedsCompilation(l)
      BY <1>1, <2>1, <3>1
    <3> QED
      BY <1>1, <2>1, <3>2 DEF NeedsCompilation, fileVars
  <2>4. CASE ~OnPath(n)
    BY <2>1, <2>4 DEF OffPathBuilt, Going, fileVars
  <2> QED
    BY <2>3, <2>4
<1>5. CASE Link
  BY <1>5 DEF Link, traversalVars, fileVars, OffPathBuilt, Going, OnPath
<1>6. CASE \E incompatible \in BOOLEAN : UpdateObjectFile(incompatible)
  <2>1. PICK incompatible \in BOOLEAN : UpdateObjectFile(incompatible)
    BY <1>6
  <2>2. PICK k \in Have :
           /\ k \in Location /\ k = PlaceOf(CurrentVisit.node) /\ list[k] /= NoFile
           /\ k[1] \in Directory /\ list[k] \in Seq(ModuleName)
           /\ phase = "traversing" /\ path /= <<>>
           /\ Leave /\ list' = list /\ discovered' = discovered
           /\ phase' = CompileOutcome(list[k], k[1])
           /\ phase' \in {"traversing", "imported-module-not-found", "symbol-file-not-found"}
           /\ phase' = "traversing" =>
                 /\ made' = [made EXCEPT ![k] = MadeFrom(k, Denoted(list[k], k[1]))]
                 /\ modified' = modified \ {k}
    BY <2>1, UpdateFact
  <2>3. phase' = "traversing"
    BY <2>2 DEF Going
  <2>4. PICK r : r = MadeFrom(k, Denoted(list[k], k[1]))
    OBVIOUS
  <2>5. r \in Made
    <3>1. CompileOutcome(list[k], k[1]) /= "imported-module-not-found"
      BY <2>2, <2>3
    <3>2. Denoted(list[k], k[1]) \in Seq(Location)
      BY <2>2, <3>1, DenotedTyped
    <3> QED
      BY <1>2, <2>2, <2>4, <3>2, MadeFromFact
  <2>6. r /= NoFile
    BY <2>5, PathsAssumption
  <2>7. made' = [made EXCEPT ![k] = r] /\ modified' = modified \ {k}
    BY <2>2, <2>3, <2>4
  <2>8. l \in Location
    BY <1>1, <1>2, <2>2 DEF TraversalTyped, Have
  <2>9. CASE l = k
    BY <1>1, <1>2, <2>6, <2>7, <2>8, <2>9 DEF FilesTyped
  <2>10. CASE l /= k
    <3>1. made'[l] = made[l] /\ (l \notin modified => l \notin modified')
      BY <1>2, <2>7, <2>8, <2>10 DEF FilesTyped
    <3>2. /\ Len(path') = Len(path) - 1 /\ Len(path) \in Nat /\ Len(path) >= 1
          /\ \A i \in 1..Len(path') : path'[i] = path[i]
      BY <2>2, LeaveFact
    <3>3. ~OnPath(n)
      <4>1. n /= CurrentVisit.node
        BY <1>1, <2>2, <2>10
      <4> QED
        BY <3>2, <4>1 DEF OnPath, CurrentVisit
    <3> QED
      BY <1>1, <2>2, <3>1, <3>3 DEF OffPathBuilt, Going
  <2> QED
    BY <2>9, <2>10
<1> QED
  BY <1>3, <1>4, <1>5, <1>6 DEF Build

LEMMA PathsBuiltStep ==
    ASSUME PathsTyped, TraversedWell, OffPathBuilt, [PathsNext]_pathVars
    PROVE  OffPathBuilt'
<1>1. CASE \E l \in Location : \E names \in Draft[l] : Save(l, names)
  BY <1>1 DEF Save, OwnerStep, OffPathBuilt, Going
<1>2. CASE \E l \in Location : RemoveSource(l)
  BY <1>2 DEF RemoveSource, OwnerStep, OffPathBuilt, Going
<1>3. CASE \E d \in Directory : Clean(d)
  BY <1>3 DEF Clean, OwnerStep, OffPathBuilt, Going
<1>4. CASE \E m \in Root : Start(m)
  <2>1. PICK m \in Root : Start(m)
    BY <1>4
  <2> DEFINE e == <<>>
  <2>2. EnterModule(ModuleNode(m, <<0>>), e, {})
    BY <2>1, Zenon DEF Start
  <2>3. PICK n : n = ModuleNode(m, <<0>>)
    OBVIOUS
  <2>4. path' = Append(e, Visit(n)) /\ discovered' = {n}
    <3>1. path' = Append(e, Visit(n)) /\ discovered' = {} \union {n}
      BY <2>2, <2>3 DEF EnterModule
    <3> QED
      BY <3>1
  <2>5. PICK v : v = Visit(n)
    OBVIOUS
  <2>6. v.node = n
    BY <2>5 DEF Visit
  <2>7. path' = <<v>>
    BY <2>4, <2>5
  <2>8. OnPath(n)'
    BY <2>6, <2>7 DEF OnPath
  <2> QED
    BY <2>4, <2>8 DEF OffPathBuilt
<1>5. CASE Build
  BY <1>5, BuildBuilt
<1>6. CASE UNCHANGED pathVars
  BY <1>6 DEF pathVars, OffPathBuilt, Going, OnPath
<1> QED
  BY <1>1, <1>2, <1>3, <1>4, <1>5, <1>6 DEF PathsNext

LEMMA PathsBoundStep ==
    ASSUME PathUsage = {}, SharedNamesFirst, PathsTyped, MadeAsMeant, [PathsNext]_pathVars
    PROVE  MadeAsMeant'
<1>1. FilesTyped
  BY DEF PathsTyped
<1>2. CASE \E l \in Location : \E names \in Draft[l] : Save(l, names)
  BY <1>1, <1>2, SaveBound
<1>3. CASE \E l \in Location : RemoveSource(l)
  BY <1>1, <1>3, RemoveBound
<1>4. CASE \E d \in Directory : Clean(d)
  BY <1>1, <1>4, CleanBound
<1>5. CASE \E m \in Root : Start(m)
  BY <1>1, <1>5, SettledBound DEF Start
<1>6. CASE Build
  <2>1. CASE \E incompatible \in BOOLEAN : UpdateObjectFile(incompatible)
    BY <2>1, UpdateBound
  <2>2. CASE Traverse \/ KeepObjectFile \/ Link
    <3>1. UNCHANGED fileVars
      BY <2>2 DEF Traverse, KeepObjectFile, Link
    <3> QED
      BY <1>1, <3>1, SettledBound
  <2> QED
    BY <1>6, <2>1, <2>2 DEF Build
<1>7. CASE UNCHANGED pathVars
  <2>1. UNCHANGED fileVars
    BY <1>7 DEF pathVars, fileVars
  <2> QED
    BY <1>1, <2>1, SettledBound
<1> QED
  BY <1>2, <1>3, <1>4, <1>5, <1>6, <1>7 DEF PathsNext

LEMMA BoundIsMeant ==
    ASSUME PathsTyped, TraversedWell, MadeAsMeant, OffPathBuilt
    PROVE  BoundAsMeant
<1> SUFFICES ASSUME phase = "linked", NEW n \in discovered, made[PlaceOf(n)] /= NoFile
             PROVE  made[PlaceOf(n)].uses =
                        [i \in DOMAIN MeantImports(PlaceOf(n)) |-> ObjectName(MeantImports(PlaceOf(n))[i])]
  BY DEF BoundAsMeant
<1>1. PICK l : l = PlaceOf(n)
  OBVIOUS
<1>2. l \in Location /\ l \in Have /\ l[1] \in Directory /\ FilesTyped
  BY <1>1 DEF PathsTyped, TraversalTyped, Have, Location
<1>3. PICK r : r = made[l]
  OBVIOUS
<1>4. r \in Made /\ r.imports \in Seq(ModuleName)
  BY <1>1, <1>2, <1>3 DEF FilesTyped, Made
<1>5. PICK names \in Seq(ModuleName) : names = r.imports
  BY <1>4
<1>6. ImportNames(l) = names
  <2>1. CASE list[l] = NoFile
    BY <1>1, <1>3, <1>5, <2>1 DEF ImportNames
  <2>2. CASE list[l] /= NoFile
    <3>1. path = <<>> /\ Going
      BY DEF TraversedWell, Going
    <3>2. ~OnPath(n)
      BY <3>1 DEF OnPath
    <3>3. l \notin modified
      BY <1>1, <2>2, <3>1, <3>2 DEF OffPathBuilt
    <3>4. made[l].imports = list[l]
      BY <1>1, <1>2, <2>2, <3>3 DEF FilesTyped
    <3> QED
      BY <1>3, <1>5, <2>2, <3>4 DEF ImportNames
  <2> QED
    BY <2>1, <2>2
<1> DEFINE z == <<0>>
<1>7. /\ DOMAIN r.uses = 1..Len(names)
      /\ \A i \in 1..Len(names) :
            /\ FoundIn(Have, names[i], z, l[1]) /= <<>>
            /\ r.uses[i] = ObjectName(<<At(FoundIn(Have, names[i], z, l[1]), l[1]), names[i]>>)
  BY <1>1, <1>2, <1>3, <1>5 DEF MadeAsMeant, BoundAt
<1>8. \A m \in ModuleName : \A d \in Directory :
          FoundIn(Have, m, z, d) /= <<>> => Meant(d, m) = <<At(FoundIn(Have, m, z, d), d), m>>
  BY MeantIsSo DEF MeantIs
<1> HIDE DEF z
<1>9. MeantImports(l) = [i \in DOMAIN names |-> Meant(l[1], names[i])] /\ DOMAIN names = 1..Len(names)
  BY <1>6 DEF MeantImports
<1>10. \A i \in 1..Len(names) : names[i] \in ModuleName
  OBVIOUS
<1>11. \A i \in 1..Len(names) : r.uses[i] = ObjectName(Meant(l[1], names[i]))
  BY <1>2, <1>7, <1>8, <1>10
<1>12. r.uses = [i \in DOMAIN r.uses |-> r.uses[i]]
  <2>1. r.uses \in Seq({DirPrefix[d] : d \in Directory} \X ModuleName)
    BY <1>4 DEF Made
  <2> DEFINE N == {DirPrefix[d] : d \in Directory} \X ModuleName
             u == r.uses
  <2>2. u \in Seq(N)
    BY <2>1
  <2> HIDE DEF u, N
  <2>3. u = [i \in DOMAIN u |-> u[i]]
    BY <2>2
  <2> QED
    BY <2>3 DEF u
<1>13. r.uses = [i \in DOMAIN MeantImports(l) |-> ObjectName(MeantImports(l)[i])]
  <2>1. PICK u : u = r.uses
    OBVIOUS
  <2>2. PICK f : f = MeantImports(l)
    OBVIOUS
  <2>3. DOMAIN f = 1..Len(names) /\ \A i \in 1..Len(names) : f[i] = Meant(l[1], names[i])
    BY <1>9, <2>2
  <2>4. u = [i \in 1..Len(names) |-> u[i]] /\ \A i \in 1..Len(names) : u[i] = ObjectName(f[i])
    BY <1>7, <1>11, <1>12, <2>1, <2>3
  <2>5. u = [i \in DOMAIN f |-> ObjectName(f[i])]
    BY <2>3, <2>4
  <2> QED
    BY <2>1, <2>2, <2>5
<1> QED
  BY <1>1, <1>3, <1>13

PathsBound == PathsTyped /\ TraversedWell /\ OffPathBuilt /\ MadeAsMeant

LEMMA PathsAreBound ==
    ASSUME PathUsage = {}, SharedNamesFirst
    PROVE  PathsSpec => []PathsBound
<1>1. PathsInit => PathsBound
  <2> SUFFICES ASSUME PathsInit PROVE PathsBound
    OBVIOUS
  <2>1. PathsTyped
    BY PathsTypedInit
  <2>2. TraversedWell /\ OffPathBuilt /\ MadeAsMeant
    BY DEF PathsInit, TraversedWell, Going, OffPathBuilt, MadeAsMeant
  <2> QED
    BY <2>1, <2>2 DEF PathsBound
<1>2. PathsBound /\ [PathsNext]_pathVars => PathsBound'
  BY PathsTypedStep, TraversedWellStep, PathsBuiltStep, PathsBoundStep DEF PathsBound
<1> QED
  BY <1>1, <1>2, PTL DEF PathsSpec

(* Where owners rebind no import and modules of one name are only imported *)
(* first, the names in the code of a program are those of the modules that *)
(* the imports mean (Generate_ImportList,                                  *)
(* GenerateObjectFileSymbolDefinitions).                                   *)
THEOREM UsesAreMeant ==
    ASSUME PathUsage = {}, SharedNamesFirst
    PROVE  PathsSpec => []BoundAsMeant
<1>1. PathsBound => BoundAsMeant
  BY BoundIsMeant DEF PathsBound
<1> QED
  BY PathsAreBound, <1>1, PTL

-----------------------------------------------------------------------------
(* The imports of a module that is about to be compiled are compiled.      *)
LEMMA ImportsCompiled ==
    ASSUME AbsoluteEntries, LibraryApart, PathsBound, NEW incompatible, UpdateObjectFile(incompatible)
    PROVE  phase' = "traversing"
<1>1. PICK l \in Have :
           /\ l \in Location /\ l = PlaceOf(CurrentVisit.node) /\ list[l] /= NoFile
           /\ l[1] \in Directory /\ list[l] \in Seq(ModuleName)
           /\ phase = "traversing" /\ path /= <<>>
           /\ CurrentVisit.done = Len(CurrentVisit.imports)
           /\ phase' = CompileOutcome(list[l], l[1])
  BY UpdateFact DEF PathsBound
<1>2. PathsTyped /\ FilesTyped /\ TraversalTyped /\ TraversedWell /\ OffPathBuilt
  BY DEF PathsBound, PathsTyped
<1>3. Going /\ DoneMet
  BY <1>1, <1>2 DEF TraversedWell, Going
<1>4. PICK n \in discovered : n = CurrentVisit.node /\ n \in Node /\ l = PlaceOf(n) /\ AllFound(n)
  BY <1>1, <1>2, <1>3, Current DEF TraversalTyped, Going
<1> DEFINE names == list[l]
           z == <<0>>
           c == l[1]
           q(i) == FoundIn(Have, names[i], z, c)
           s == Denoted(names, c)
<1>5. ImportNames(l) = names /\ Len(Imports(n)) = Len(names)
  <2>1. ImportNames(l) = names
    BY <1>1 DEF ImportNames
  <2> QED
    BY <1>1, <1>2, <1>4, <2>1, ImportsMet
<1>6. \A i \in 1..Len(names) :
         names[i] \in ModuleName /\ q(i) /= <<>> /\ PlaceOf(Imports(n)[i]) = <<At(q(i), c), names[i]>>
  <2> SUFFICES ASSUME NEW i \in 1..Len(names)
               PROVE  names[i] \in ModuleName /\ q(i) /= <<>>
                      /\ PlaceOf(Imports(n)[i]) = <<At(q(i), c), names[i]>>
    OBVIOUS
  <2>1. i \in 1..Len(Imports(n))
    BY <1>5
  <2>2. /\ ImportNames(PlaceOf(n))[i] \in ModuleName
        /\ FoundIn(Have, ImportNames(PlaceOf(n))[i], z, PlaceOf(n)[1]) /= <<>>
        /\ PlaceOf(Imports(n)[i]) =
               <<At(FoundIn(Have, ImportNames(PlaceOf(n))[i], z, PlaceOf(n)[1]), PlaceOf(n)[1]),
                 ImportNames(PlaceOf(n))[i]>>
    BY <1>1, <1>2, <1>4, <2>1, ImportedPlace
  <2> QED
    BY <1>4, <1>5, <2>2
<1>7. \A i \in 1..Len(names) :
         LET k == PlaceOf(Imports(n)[i]) IN
         k \in Have /\ (list[k] /= NoFile => made[k] /= NoFile)
  <2> SUFFICES ASSUME NEW i \in 1..Len(names)
               PROVE  LET k == PlaceOf(Imports(n)[i]) IN
                      k \in Have /\ (list[k] /= NoFile => made[k] /= NoFile)
    OBVIOUS
  <2>1. /\ Len(path) \in Nat /\ Len(path) >= 1 /\ path[Len(path)] = CurrentVisit
        /\ CurrentVisit.imports = Imports(n) /\ path[Len(path)].node = n
    BY <1>1, <1>2, <1>4, Current
  <2>2. i \in 1..path[Len(path)].done /\ Len(path) \in 1..Len(path)
    BY <1>1, <1>5, <2>1
  <2>3. PICK k : k = Imports(n)[i]
    OBVIOUS
  <2>4. k \in discovered /\ \A h \in 1..Len(path) : path[h].node = k => h > Len(path)
    BY <1>3, <1>4, <2>1, <2>2, <2>3 DEF DoneMet
  <2>5. ~OnPath(k)
    BY <2>1, <2>4 DEF OnPath
  <2> QED
    BY <1>2, <1>3, <2>3, <2>4, <2>5 DEF OffPathBuilt, TraversalTyped
<1> HIDE DEF names, z, c, q
<1>8. ASSUME NEW m \in Range(names) PROVE Found(m, z, c) /= <<>>
  <2>1. DOMAIN names = 1..Len(names)
    BY <1>1 DEF names
  <2>2. PICK i \in 1..Len(names) : m = names[i]
    BY <2>1 DEF Range
  <2>3. m \in ModuleName /\ q(i) /= <<>> /\ q(i) = FoundIn(Have, m, z, c)
    BY <1>6, <2>2 DEF q
  <2>4. z \in Paths /\ c \in Directory
    BY <1>1, HomePath DEF z, c
  <2>5. Found(m, z, c) = FoundIn(Have, m, z, c)
    BY <2>3, <2>4, FoundIsSo DEF FoundIs
  <2> QED
    BY <2>3, <2>5
<1>9. CompileOutcome(names, c) /= "imported-module-not-found"
  BY <1>8 DEF CompileOutcome, z
<1>10. /\ \A i \in 1..Len(names) : s[i] = PlaceOf(Imports(n)[i])
       /\ DOMAIN s = 1..Len(names)
  <2>1. /\ \A i \in 1..Len(names) : s[i] = <<At(q(i), c), names[i]>>
        /\ DOMAIN s = 1..Len(names)
    BY <1>1, <1>9, DenotedTyped DEF names, c, q, z
  <2> QED
    BY <1>6, <2>1
<1>11. ASSUME NEW k \in Range(s) PROVE SymbolFileFound(k)
  <2>1. PICK i \in 1..Len(names) : k = PlaceOf(Imports(n)[i])
    BY <1>10 DEF Range
  <2>2. k \in Have /\ k \in Location /\ (list[k] /= NoFile => made[k] /= NoFile)
    BY <1>7, <2>1 DEF Have
  <2>3. list[k] /= NoFile \/ made[k] /= NoFile \/ k \in Installed
    BY <2>2, HaveIsSo DEF HaveIs
  <2>4. CASE made[k] /= NoFile
    <3>1. k[2] \in ModuleName /\ k = <<k[1], k[2]>>
      BY <2>2 DEF Location
    <3>2. \E m \in ModuleName : made[k[1], m] /= NoFile
      BY <2>4, <3>1
    <3> QED
      BY <2>4, <3>2, Zenon DEF SymbolFileFound
  <2>5. CASE made[k] = NoFile
    <3>1. k \in Installed
      BY <2>2, <2>3, <2>5
    <3>2. ASSUME NEW m \in ModuleName PROVE made[k[1], m] = NoFile
      <4> DEFINE h == <<k[1], m>>
      <4>1. h \in Location /\ h[1] = k[1]
        BY <2>2 DEF Location
      <4>2. Draft[h] = {}
        BY <3>1, <4>1 DEF LibraryApart
      <4>3. made[h] = NoFile
        BY <1>2, <4>1, <4>2 DEF FilesTyped
      <4> QED
        BY <4>3
    <3> QED
      BY <3>1, <3>2, Zenon DEF SymbolFileFound
  <2> QED
    BY <2>4, <2>5
<1>12. CompileOutcome(names, c) = "traversing"
  BY <1>8, <1>11 DEF CompileOutcome, z
<1> QED
  BY <1>1, <1>12 DEF names, c

(* The directory of the importing module is searched first.                *)
LEMMA FoundBeside ==
    ASSUME NEW m \in ModuleName, NEW d \in Directory, <<d, m>> \in Have
    PROVE  At(FoundIn(Have, m, <<0>>, d), d) = d
<1> DEFINE z == <<0>>
           S == Present(Have, m, z, d)
<1>1. z \in Paths /\ At(z, d) = d
  BY HomePath
<1>2. 0 \in 0..LastCandidate
  BY Searched DEF LastCandidate
<1>3. Candidate(0, m, z) = z
  BY DEF Candidate
<1> HIDE DEF z
<1>4. 0 \in S /\ S \subseteq Nat
  BY <1>1, <1>2, <1>3 DEF Present
<1> HIDE DEF S
<1>5. Min(S) = 0
  <2>1. Min(S) \in S /\ \A n \in S : Min(S) <= n
    BY <1>4, LeastElement
  <2> DEFINE x == Min(S)
  <2>2. x \in Nat /\ x <= 0
    BY <1>4, <2>1
  <2> HIDE DEF x
  <2>3. x = 0
    BY <2>2
  <2> QED
    BY <2>3 DEF x
<1>6. FoundIn(Have, m, z, d) = z
  BY <1>3, <1>4, <1>5 DEF FoundIn, S
<1> QED
  BY <1>1, <1>6 DEF z

(* What the code of an installed module uses is met with it.               *)
LEMMA InstalledDefined ==
    ASSUME AbsoluteEntries, LibraryApart, PathsTyped, FilesTyped, Complete,
           NEW n \in discovered, n \in Node, PlaceOf(n) \in Have, PlaceOf(n) \in Location,
           ~OnPath(n), AllFound(n), made[PlaceOf(n)] = NoFile,
           NEW name \in UsedBy(PlaceOf(n))
    PROVE  Definers(name) /= {}
<1>1. PICK l \in Location : l = PlaceOf(n)
  OBVIOUS
<1>2. l \in Installed /\ name \in {ObjectName(k) : k \in Range(InLibrary(l))}
  BY <1>1 DEF UsedBy
<1> DEFINE names == InstalledImports[l]
<1>3. PICK i \in 1..Len(names) : name = ObjectName(InLibrary(l)[i])
  BY <1>2, LibraryFact DEF Range
<1>4. /\ InLibrary(l)[i] = <<l[1], names[i]>> /\ InLibrary(l)[i] \in Installed
      /\ InLibrary(l)[i] \in Location
  BY <1>2, <1>3, LibraryFact, LibraryAssumption
<1>5. l[1] \in Directory /\ names[i] \in ModuleName /\ <<l[1], names[i]>> \in Have
  <2>1. l[1] \in Directory /\ names[i] \in ModuleName
    BY <1>2, <1>3, LibraryFact DEF Location
  <2> QED
    BY <1>4, <2>1, HaveIsSo DEF HaveIs
<1>6. list[l] = NoFile
  <2>1. Draft[l] = {}
    BY <1>2 DEF LibraryApart
  <2> QED
    BY <2>1 DEF FilesTyped
<1>7. ImportNames(l) = names
  BY <1>1, <1>2, <1>6 DEF ImportNames
<1>8. Len(Imports(n)) = Len(names)
  BY <1>1, <1>7, ImportsMet
<1>9. PICK k : k = Imports(n)[i]
  OBVIOUS
<1>10. k \in discovered
  BY <1>3, <1>8, <1>9 DEF Complete
<1>11. PlaceOf(k) = <<l[1], names[i]>>
  <2>1. PlaceOf(Imports(n)[i]) =
             <<At(FoundIn(Have, ImportNames(PlaceOf(n))[i], <<0>>, PlaceOf(n)[1]), PlaceOf(n)[1]),
               ImportNames(PlaceOf(n))[i]>>
    BY <1>3, <1>8, ImportedPlace
  <2>2. At(FoundIn(Have, names[i], <<0>>, l[1]), l[1]) = l[1]
    BY <1>5, FoundBeside
  <2> HIDE DEF names
  <2> QED
    BY <1>1, <1>7, <1>9, <2>1, <2>2
<1> QED
  BY <1>3, <1>4, <1>10, <1>11 DEF Definers

(* The linker finds one definition of each name.                           *)
LEMMA AllDefined ==
    ASSUME AbsoluteEntries, OnePath, NamesApart, LibraryApart, PathsBound, phase = "traversing", path = <<>>
    PROVE  /\ \A n \in discovered : Definers(ObjectName(PlaceOf(n))) = {n}
           /\ \A name \in UsedNames : Definers(name) /= {}
<1>1. PathsTyped /\ FilesTyped /\ TraversalTyped /\ TraversedWell /\ OffPathBuilt /\ MadeAsMeant
  BY DEF PathsBound, PathsTyped
<1>2. Going /\ Complete /\ \A n : ~OnPath(n)
  BY <1>1 DEF TraversedWell, Going, OnPath
<1>3. \A n \in discovered : n \in Node /\ PlaceOf(n) \in Have /\ PlaceOf(n) \in Location /\ AllFound(n)
  BY <1>1, <1>2 DEF TraversalTyped, Going, Have
<1>4. ASSUME NEW n \in discovered PROVE Definers(ObjectName(PlaceOf(n))) = {n}
  <2> SUFFICES ASSUME NEW k \in discovered, ObjectName(PlaceOf(k)) = ObjectName(PlaceOf(n)) PROVE k = n
    BY DEF Definers
  <2>1. PICK i \in Location : i = PlaceOf(k)
    BY <1>3
  <2>2. PICK j \in Location : j = PlaceOf(n)
    BY <1>3
  <2>3. <<DirPrefix[i[1]], i[2]>> = <<DirPrefix[j[1]], j[2]>>
    BY <2>1, <2>2 DEF ObjectName
  <2>4. i[1] \in Directory /\ j[1] \in Directory /\ i = <<i[1], i[2]>> /\ j = <<j[1], j[2]>>
    BY DEF Location
  <2>5. i = j
    BY <2>3, <2>4 DEF NamesApart
  <2> QED
    BY <1>3, <2>1, <2>2, <2>5, MetOnce
<1>5. ASSUME NEW name \in UsedNames PROVE Definers(name) /= {}
  <2>1. ASSUME NEW n \in discovered, name \in UsedBy(PlaceOf(n)), made[PlaceOf(n)] = NoFile
        PROVE  Definers(name) /= {}
    BY <1>1, <1>2, <1>3, <2>1, InstalledDefined
  <2> SUFFICES ASSUME NEW n \in discovered, made[PlaceOf(n)] /= NoFile,
                      name \in Range(made[PlaceOf(n)].uses)
               PROVE  Definers(name) /= {}
    BY <1>5, <2>1 DEF UsedNames, UsedBy
  <2>2. PICK l \in Location : l = PlaceOf(n)
    BY <1>3
  <2>3. PICK r : r = made[l]
    OBVIOUS
  <2>4. r \in Made /\ r.imports \in Seq(ModuleName)
    BY <1>1, <2>2, <2>3 DEF FilesTyped, Made
  <2>5. BoundAt(r, Have, l)
    BY <1>1, <2>2, <2>3 DEF MadeAsMeant
  <2>6. ImportNames(l) = r.imports
    <3>1. CASE list[l] = NoFile
      BY <2>2, <2>3, <3>1 DEF ImportNames
    <3>2. CASE list[l] /= NoFile
      <4>1. l \notin modified
        BY <1>1, <1>2, <2>2, <3>2 DEF OffPathBuilt
      <4>2. made[l].imports = list[l]
        BY <1>1, <2>2, <3>2, <4>1 DEF FilesTyped
      <4> QED
        BY <2>3, <3>2, <4>2 DEF ImportNames
    <3> QED
      BY <3>1, <3>2
  <2> DEFINE z == <<0>>
             names == r.imports
             q(i) == FoundIn(Have, names[i], z, l[1])
  <2>7. PICK i \in 1..Len(names) : name = r.uses[i]
    <3>1. name \in Range(r.uses) /\ DOMAIN r.uses = 1..Len(names)
      BY <2>2, <2>3, <2>5 DEF BoundAt
    <3> QED
      BY <3>1 DEF Range
  <2>8. name = ObjectName(<<At(q(i), l[1]), names[i]>>)
    BY <2>5, <2>7 DEF BoundAt
  <2>9. Len(Imports(n)) = Len(names)
    <3>1. n \in Node /\ PlaceOf(n) \in Location
      BY <1>3
    <3> QED
      BY <1>1, <2>2, <2>6, <3>1, ImportsMet
  <2>10. PICK k : k = Imports(n)[i]
    OBVIOUS
  <2>11. k \in discovered
    BY <1>2, <2>7, <2>9, <2>10 DEF Complete
  <2>12. PlaceOf(k) = <<At(q(i), l[1]), names[i]>>
    <3>1. i \in 1..Len(Imports(n)) /\ n \in Node /\ PlaceOf(n) \in Have /\ AllFound(n)
      BY <1>3, <2>7, <2>9
    <3>2. PlaceOf(Imports(n)[i]) =
               <<At(FoundIn(Have, ImportNames(PlaceOf(n))[i], z, PlaceOf(n)[1]), PlaceOf(n)[1]),
                 ImportNames(PlaceOf(n))[i]>>
      BY <1>1, <3>1, ImportedPlace
    <3> QED
      BY <2>2, <2>6, <2>10, <3>2
  <2>13. k \in Definers(name)
    BY <2>8, <2>11, <2>12 DEF Definers
  <2> QED
    BY <2>13
<1> QED
  BY <1>4, <1>5

LEMMA ToolsAgreeStep ==
    ASSUME AbsoluteEntries, OnePath, NamesApart, LibraryApart,
           PathsBound, ToolsAgree, [PathsNext]_pathVars
    PROVE  ToolsAgree'
<1>1. PathsTyped
  BY DEF PathsBound
<1>2. CASE \E l \in Location : \E names \in Draft[l] : Save(l, names)
  BY <1>2 DEF Save, OwnerStep, ToolsAgree
<1>3. CASE \E l \in Location : RemoveSource(l)
  BY <1>3 DEF RemoveSource, OwnerStep, ToolsAgree
<1>4. CASE \E d \in Directory : Clean(d)
  BY <1>4 DEF Clean, OwnerStep, ToolsAgree
<1>5. CASE \E m \in Root : Start(m)
  <2>1. phase' \in {"traversing", "module-not-found"}
    BY <1>5 DEF Start, EnterModule
  <2> QED
    BY <2>1 DEF ToolsAgree
<1>6. CASE Traverse
  <2>1. phase' \in {"traversing", "module-not-found", "import-cycle"}
    BY <1>6 DEF Traverse, EnterModule
  <2> QED
    BY <2>1 DEF ToolsAgree
<1>7. CASE KeepObjectFile
  BY <1>7 DEF KeepObjectFile, ToolsAgree
<1>8. CASE Link
  <2>1. phase = "traversing" /\ path = <<>>
    BY <1>8 DEF Link
  <2>2. /\ \A n \in discovered : Definers(ObjectName(PlaceOf(n))) = {n}
        /\ \A name \in UsedNames : Definers(name) /= {}
    BY <2>1, AllDefined
  <2>3. phase' = "linked"
    BY <1>8, <2>2, Zenon DEF Link
  <2> QED
    BY <2>3 DEF ToolsAgree
<1>9. CASE \E incompatible \in BOOLEAN : UpdateObjectFile(incompatible)
  BY <1>9, ImportsCompiled DEF ToolsAgree
<1>10. CASE UNCHANGED pathVars
  BY <1>10 DEF pathVars, ToolsAgree
<1> QED
  BY <1>2, <1>3, <1>4, <1>5, <1>6, <1>7, <1>8, <1>9, <1>10 DEF PathsNext, Build

(* Where entries of the search path are the same in every directory, no    *)
(* directory is reached by two paths, directories differ in the names of   *)
(* their object code, installed modules have a directory of their own,     *)
(* owners rebind no import and modules of one name are only imported       *)
(* first, the compiler and the linker find all that obnc found             *)
(* (ModulePaths_Directory, ImportList in Oberon.y).                        *)
THEOREM ToolsFindTheSame ==
    ASSUME AbsoluteEntries, OnePath, NamesApart, LibraryApart, PathUsage = {}, SharedNamesFirst
    PROVE  PathsSpec => []ToolsAgree
<1>1. PathsInit => ToolsAgree
  BY DEF PathsInit, ToolsAgree
<1>2. PathsBound /\ ToolsAgree /\ [PathsNext]_pathVars => ToolsAgree'
  BY ToolsAgreeStep
<1> QED
  BY PathsAreBound, <1>1, <1>2, PTL DEF PathsSpec
================================================================================
