-------------------------------- MODULE Strings --------------------------------
(***************************************************************************)
(* The library module Strings (lib/obnc/Strings.obn): operations on        *)
(* character arrays that hold a string, ended by 0X, and anything behind   *)
(* it. An open array is passed by reference whether it is a variable or a  *)
(* value parameter, so that a string may be moved within its own array;    *)
(* the loops are taken character by character in the order of the code.    *)
(* An index outside of an array ends the program.                          *)
(***************************************************************************)
EXTENDS Integers, SequencesExt

CONSTANTS
    StringVar,      \* arrays of characters
    StringSize,     \* StringSize[v]: LEN(v)
    Letter,         \* characters other than 0X, which is 0
    Capital,        \* Capital[c]: what Cap makes of the letter c
    StringUsage,    \* {"aliased"}, or {} if no array is both source and dest
    Outside, NoCall

Contents(v) == [0..(StringSize[v] - 1) -> Letter \union {0}]

ASSUME StringsAssumption ==
    /\ StringSize \in [StringVar -> Nat \ {0}]
    /\ Outside \notin [StringVar -> UNION {Contents(v) : v \in StringVar}]
    /\ Letter \subseteq Nat \ {0} /\ Capital \in [Letter -> Letter]
    /\ StringUsage \subseteq {"aliased"}

VARIABLES
    chars,     \* chars[v]: the elements of v, or chars = Outside
    call,      \* the last call and what the arrays were before, or NoCall
    result     \* what Pos returned

stringVars == <<chars, call, result>>

Ended(a) == \E i \in DOMAIN a : a[i] = 0

-----------------------------------------------------------------------------
(* Statements. Once an index was outside, nothing more is done.            *)

Assigned(k, d, i, c) ==
    IF k /= Outside /\ i \in DOMAIN k[d] THEN [k EXCEPT ![d][i] = c] ELSE Outside
Moved(k, s, j, d, i) ==
    IF k /= Outside /\ j \in DOMAIN k[s] THEN Assigned(k, d, i, k[s][j]) ELSE Outside

Upwards(low, high) == IF low > high THEN <<>> ELSE [n \in 1..(high - low + 1) |-> low + n - 1]
Downwards(high, low) == Reverse(Upwards(low, high))

(* FOR i := ... DO d[i] := s[i + shift] END, for i in the sequence is.     *)
Loop(k, s, shift, d, is) ==
    LET after[n \in 0..Len(is)] ==
            IF n = 0 THEN k ELSE Moved(after[n - 1], s, is[n] + shift, d, is[n])
    IN after[Len(is)]

Length(a) == CHOOSE i \in DOMAIN a : a[i] = 0 /\ \A j \in 0..(i - 1) : a[j] /= 0
Lesser(a, b) == IF a > b THEN b ELSE a

-----------------------------------------------------------------------------
(* The procedures: the arrays after a call with the arrays k.              *)

(* Mutant of InsertString: room is made from the front.                    *)
InsertUpwards(k, source, pos, dest) ==
    LET sourceLength == Length(k[source])
        newLength == Lesser(Length(k[dest]) + sourceLength, StringSize[dest] - 1)
        room == Loop(Assigned(k, dest, newLength, 0), dest, -sourceLength, dest,
                     Upwards(pos + sourceLength, newLength - 1))
    IN Loop(room, source, -pos, dest, Upwards(pos, Lesser(pos + sourceLength, newLength) - 1))

InsertString(k, source, pos, dest) ==
    LET sourceLength == Length(k[source])
        newLength == Lesser(Length(k[dest]) + sourceLength, StringSize[dest] - 1)
        room == Loop(Assigned(k, dest, newLength, 0), dest, -sourceLength, dest,
                     Downwards(newLength - 1, pos + sourceLength))
    IN Loop(room, source, -pos, dest, Upwards(pos, Lesser(pos + sourceLength, newLength) - 1))

AppendString(k, extra, dest) ==
    LET destLength == Length(k[dest])
        newLength == Lesser(destLength + Length(k[extra]), StringSize[dest] - 1)
    IN Assigned(Loop(k, extra, -destLength, dest, Upwards(destLength, newLength - 1)),
                dest, newLength, 0)

DeleteString(k, s, pos, n) ==
    LET n1 == Lesser(n, Length(k[s]) - pos)
    IN Loop(k, s, n1, s, Upwards(pos, Length(k[s]) - n1))

ReplaceString(k, source, pos, dest) ==
    LET n == Lesser(Length(k[source]), StringSize[dest] - 1 - pos)
        replaced == Loop(k, source, -pos, dest, Upwards(pos, pos + n - 1))
    IN IF pos + n > Length(k[dest]) THEN Assigned(replaced, dest, pos + n, 0) ELSE replaced

ExtractString(k, source, pos, n, dest) ==
    LET n1 == Lesser(n, Lesser(Length(k[source]) - pos, StringSize[dest] - 1))
    IN Assigned(Loop(k, source, pos, dest, Upwards(0, n1 - 1)), dest, n1, 0)

CapString(k, s) ==
    [k EXCEPT ![s] = [i \in DOMAIN k[s] |-> IF i < Length(k[s]) THEN Capital[k[s][i]] ELSE k[s][i]]]

(* The characters of the pattern that agree with those of s from is on.    *)
Agreeing(pattern, s, is) ==
    CHOOSE ip \in DOMAIN pattern :
        /\ pattern[ip] = 0 \/ s[is + ip] /= pattern[ip]
        /\ \A j \in 0..(ip - 1) : pattern[j] /= 0 /\ s[is + j] = pattern[j]

(* The place where the search ends: the pattern is found or s has ended.   *)
PosString(pattern, s, pos) ==
    LET ends(is) == LET ip == Agreeing(pattern, s, is) IN pattern[ip] = 0 \/ s[is + ip] = 0
        is == CHOOSE i \in pos..Length(s) : ends(i) /\ \A j \in pos..(i - 1) : ~ends(j)
    IN IF pattern[Agreeing(pattern, s, is)] = 0 THEN is ELSE -1

-----------------------------------------------------------------------------
StringsInit ==
    /\ chars = [v \in StringVar |-> [i \in 0..(StringSize[v] - 1) |-> 0]]
    /\ call = NoCall /\ result = 0

(* The client gives an array other contents.                               *)
Fill(v, a) ==
    /\ chars /= Outside /\ call = NoCall /\ Ended(a)
    /\ chars' = [chars EXCEPT ![v] = a]
    /\ UNCHANGED <<call, result>>

(* The client takes what the call left.                                    *)
GoOn ==
    /\ chars /= Outside /\ call /= NoCall
    /\ call' = NoCall /\ result' = 0
    /\ UNCHANGED chars

(* A call with the arguments that the description of the module allows     *)
(* gives the arrays the contents k.                                        *)
Called(name, source, pos, n, dest, k) ==
    /\ chars /= Outside /\ call = NoCall
    /\ source /= dest \/ name \in {"Delete", "Cap", "Pos"} \/ "aliased" \in StringUsage
    /\ chars' = k
    /\ call' = [name |-> name, source |-> source, pos |-> pos, n |-> n, dest |-> dest, before |-> chars]

Positions(v) == IF chars = Outside THEN {} ELSE 0..Length(chars[v])

Insert(s, d) ==
    \E pos \in Positions(d) :
        Called("Insert", s, pos, 0, d, InsertString(chars, s, pos, d)) /\ UNCHANGED result
AppendTo(s, d) ==
    Called("Append", s, 0, 0, d, AppendString(chars, s, d)) /\ UNCHANGED result
Delete(d) ==
    \E pos \in Positions(d), n \in 0..StringSize[d] :
        Called("Delete", d, pos, n, d, DeleteString(chars, d, pos, n)) /\ UNCHANGED result
Replace(s, d) ==
    \E pos \in Positions(d) :
        Called("Replace", s, pos, 0, d, ReplaceString(chars, s, pos, d)) /\ UNCHANGED result
Extract(s, d) ==
    \E pos \in Positions(s), n \in 0..StringSize[s] :
        Called("Extract", s, pos, n, d, ExtractString(chars, s, pos, n, d)) /\ UNCHANGED result
Cap(d) ==
    Called("Cap", d, 0, 0, d, CapString(chars, d)) /\ UNCHANGED result
Pos(s, d) ==
    \E pos \in Positions(d) :
        /\ Called("Pos", s, pos, 0, d, chars)
        /\ result' = PosString(chars[s], chars[d], pos)

StringsNext ==
    \/ \E v \in StringVar : \E a \in Contents(v) : Fill(v, a)
    \/ GoOn
    \/ \E d \in StringVar : Delete(d) \/ Cap(d)
    \/ \E s, d \in StringVar :
          Insert(s, d) \/ AppendTo(s, d) \/ Replace(s, d) \/ Extract(s, d) \/ Pos(s, d)

StringsSpec == StringsInit /\ [][StringsNext]_stringVars

-----------------------------------------------------------------------------
(* What the description promises, on strings.                              *)

Text(a) == [i \in 1..Length(a) |-> a[i - 1]]
Cut(t, size) == SubSeq(t, 1, Lesser(Len(t), size - 1))
Deleted(t, pos, n) == SubSeq(t, 1, pos) \o SubSeq(t, pos + n + 1, Len(t))
Inserted(t, pos, u) == SubSeq(t, 1, pos) \o u \o SubSeq(t, pos + 1, Len(t))

Promised(c) ==
    LET t == Text(c.before[c.dest])
        u == Text(c.before[c.source])
    IN CASE c.name = "Insert" -> Inserted(t, c.pos, u)
         [] c.name = "Append" -> Inserted(t, Len(t), u)
         [] c.name = "Delete" -> Deleted(t, c.pos, c.n)
         [] c.name = "Replace" -> Inserted(Deleted(t, c.pos, Len(u)), c.pos, u)
         [] c.name = "Extract" -> SubSeq(u, c.pos + 1, Lesser(c.pos + c.n, Len(u)))
         [] c.name = "Cap" -> [i \in DOMAIN t |-> Capital[t[i]]]
         [] c.name = "Pos" -> t

Occurrences(u, t, pos) ==
    {i \in pos..(Len(t) - Len(u)) : SubSeq(t, i + 1, i + Len(u)) = u}

(* Each procedure does what it promises, cutting off what the array has no *)
(* room for: no index is outside, every array keeps its 0X, and only the   *)
(* destination changes (Strings.obn).                                      *)
StringsExact ==
    /\ chars /= Outside /\ \A v \in StringVar : Ended(chars[v])
    /\ call /= NoCall =>
          /\ Text(chars[call.dest]) = Cut(Promised(call), StringSize[call.dest])
          /\ \A v \in StringVar \ {call.dest} : chars[v] = call.before[v]
          /\ call.name = "Pos" =>
                LET found == Occurrences(Text(chars[call.source]), Text(chars[call.dest]), call.pos)
                IN result = IF found = {} THEN -1 ELSE Min(found)
================================================================================
