----------------------------- MODULE FilePromise -----------------------------
(***************************************************************************)
(* What the definition module Files.obn promises: a file is a sequence of  *)
(* bytes that a handle stands for, a directory maps names to files, and a  *)
(* rider is a position in a file. Registering enters the file of a handle  *)
(* in the directory and leaves the file that had the name to the handles   *)
(* that stand for it; deleting and renaming change the directory only.     *)
(* Close writes a file back; other calls may do so, too. If the program is *)
(* killed, nothing is lost but what was not written back.                  *)
(***************************************************************************)
EXTENDS Integers, Sequences

CONSTANTS
    Handle, Name, Rider, None,
    Item,        \* the byte sequences a program writes in one call
    Continued,   \* the bytes that are not the last one of a number
    Amount,      \* the numbers of bytes asked for in one call
    WordLen      \* bytes of an integer, a real number or a set

VARIABLES
    text,    \* text[h]: the bytes of the file h stands for, or None
    dir,     \* dir[n]: a handle, the bytes of a file nobody uses, or None
    rider,   \* rider[r]: a handle, a position and eof, or None
    unsaved, \* the handles whose files are not written back
    out      \* the result of the last call

vars == <<text, dir, rider, unsaved, out>>

NoResult == out' = <<"none">>

(* Any file may be written back meanwhile.                                 *)
Saved == unsaved' \subseteq unsaved
SavedBut(h) == unsaved' \subseteq unsaved \union {h}
SavedWith(h) == unsaved' \subseteq unsaved \ {h}

Kind == {"byte", "word", "number", "string"}

LongerOf(a, b) == IF a > b THEN a ELSE b

(* s with bytes written from position pos on; a gap is filled with zeros.  *)
Overwrite(s, pos, bytes) ==
    IF bytes = <<>> THEN s
    ELSE [i \in 1 .. LongerOf(Len(s), pos + Len(bytes)) |->
             CASE i \in pos + 1 .. pos + Len(bytes) -> bytes[i - pos]
               [] i \notin pos + 1 .. pos + Len(bytes) /\ i <= Len(s) -> s[i]
               [] OTHER -> 0]

SetOn(r, h) == rider[r] /= None /\ rider[r].base = h
Rest(r) == SubSeq(text[rider[r].base], rider[r].pos + 1, Len(text[rider[r].base]))

Init ==
    /\ text = [h \in Handle |-> None]
    /\ dir = [n \in Name |-> None]
    /\ rider = [r \in Rider |-> None]
    /\ unsaved = {}
    /\ out = <<"none">>

New(h) ==
    /\ text[h] = None
    /\ text' = [text EXCEPT ![h] = <<>>]
    /\ UNCHANGED <<dir, rider>> /\ Saved /\ NoResult

Old(h, n) ==
    /\ text[h] = None
    /\ dir[n] \notin Handle \union {None}
    /\ text' = [text EXCEPT ![h] = dir[n]]
    /\ dir' = [dir EXCEPT ![n] = h]
    /\ UNCHANGED rider /\ Saved /\ NoResult

Register(h, n) ==
    /\ text[h] /= None
    /\ dir' = [dir EXCEPT ![n] = h]
    /\ UNCHANGED <<text, rider>> /\ SavedBut(h) /\ NoResult

Close(h) ==
    /\ text[h] /= None
    /\ UNCHANGED <<text, dir, rider>> /\ SavedWith(h) /\ NoResult

Purge(h) ==
    /\ text[h] /= None
    /\ text' = [text EXCEPT ![h] = <<>>]
    /\ UNCHANGED <<dir, rider>> /\ SavedWith(h) /\ NoResult

Delete(n) ==
    /\ dir' = [dir EXCEPT ![n] = None]
    /\ UNCHANGED <<text, rider>> /\ Saved /\ NoResult

Rename(old, new) ==
    /\ dir[old] /= None
    /\ dir' = [[dir EXCEPT ![old] = None] EXCEPT ![new] = dir[old]]
    /\ UNCHANGED <<text, rider>> /\ Saved /\ NoResult

Length(h) ==
    /\ text[h] /= None
    /\ out' = <<"length", Len(text[h])>>
    /\ UNCHANGED <<text, dir, rider>> /\ Saved

(* The program forgets a handle and its riders: a file without a name is   *)
(* gone, another keeps its bytes.                                          *)
Forget(h) ==
    /\ text[h] /= None
    /\ rider' = [r \in Rider |-> IF SetOn(r, h) THEN None ELSE rider[r]]
    /\ text' = [text EXCEPT ![h] = None]
    /\ dir' = [n \in Name |-> IF dir[n] = h THEN text[h] ELSE dir[n]]
    /\ SavedWith(h) /\ NoResult

Set(r, h, pos) ==
    /\ text[h] /= None
    /\ pos \in 0 .. Len(text[h])
    /\ rider' = [rider EXCEPT ![r] = [base |-> h, pos |-> pos, eof |-> FALSE]]
    /\ UNCHANGED <<text, dir>> /\ Saved /\ NoResult

(* s is an item of a kind, the one that a read procedure for the kind      *)
(* delivers: a byte, a word, a compactly encoded number, a string with its *)
(* terminating zero.                                                       *)
IsItem(kind, s) ==
    LET last == Len(s)
        before == {s[i] : i \in 1 .. last - 1} IN
    /\ s /= <<>>
    /\ kind = "byte" => last = 1
    /\ kind = "word" => last = WordLen
    /\ kind = "number" => before \subseteq Continued /\ s[last] \notin Continued
    /\ kind = "string" => 0 \notin before /\ s[last] = 0

(* The item at the rider is delivered and passed, or there is none and the *)
(* rider is at eof. A string longer than its variable is not delivered.    *)
Read(r, kind) ==
    /\ rider[r] /= None
    /\ \E k \in 0 .. Len(Rest(r)) :
         LET taken == SubSeq(Rest(r), 1, k) IN
         \/ /\ IsItem(kind, taken)
            /\ rider' = [rider EXCEPT ![r].pos = @ + k]
            /\ out' = <<kind, taken>>
         \/ /\ \A n \in 1 .. Len(Rest(r)) : ~IsItem(kind, SubSeq(Rest(r), 1, n))
            /\ rider' = [rider EXCEPT ![r].pos = @ + k, ![r].eof = TRUE]
            /\ out' = <<"eof">>
         \/ /\ kind = "string" /\ k > 0 /\ 0 \notin {taken[i] : i \in 1 .. k}
            /\ rider' = [rider EXCEPT ![r].pos = @ + k]
            /\ out' = <<"overlong">>
    /\ UNCHANGED <<text, dir>> /\ Saved

(* As many bytes as are left, at most n; eof if they are fewer.            *)
ReadBytes(r, n) ==
    /\ rider[r] /= None
    /\ LET taken == SubSeq(Rest(r), 1, IF n < Len(Rest(r)) THEN n ELSE Len(Rest(r))) IN
       /\ rider' = [rider EXCEPT ![r].pos = @ + Len(taken), ![r].eof = @ \/ Len(taken) < n]
       /\ out' = <<"bytes", taken>>
    /\ UNCHANGED <<text, dir>> /\ Saved

Write(r, bytes) ==
    /\ rider[r] /= None
    /\ text' = [text EXCEPT ![rider[r].base] = Overwrite(@, rider[r].pos, bytes)]
    /\ rider' = [rider EXCEPT ![r].pos = @ + Len(bytes)]
    /\ UNCHANGED dir /\ SavedBut(rider[r].base) /\ NoResult

(* The program is killed, and started anew: a name still stands for its    *)
(* file, of which only what was not written back may be another.           *)
Kill ==
    /\ text' = [h \in Handle |-> None]
    /\ rider' = [r \in Rider |-> None]
    /\ dir' = [n \in Name |-> dir'[n]]
    /\ \A n \in Name :
          /\ dir[n] \notin Handle => dir'[n] = dir[n]
          /\ dir[n] \in Handle => dir'[n] \notin Handle \union {None}
          /\ dir[n] \in Handle \ unsaved => dir'[n] = text[dir[n]]
    /\ unsaved' = {} /\ NoResult

Next ==
    \/ Kill
    \/ \E h \in Handle : New(h) \/ Close(h) \/ Purge(h) \/ Length(h) \/ Forget(h)
    \/ \E h \in Handle, n \in Name : Old(h, n) \/ Register(h, n)
    \/ \E n \in Name : Delete(n)
    \/ \E old, new \in Name : Rename(old, new)
    \/ \E r \in Rider, h \in Handle : text[h] /= None /\ \E pos \in 0 .. Len(text[h]) : Set(r, h, pos)
    \/ \E r \in Rider, kind \in Kind : Read(r, kind)
    \/ \E r \in Rider, n \in Amount : ReadBytes(r, n)
    \/ \E r \in Rider, bytes \in Item : Write(r, bytes)

Spec == Init /\ [][Next]_vars
==============================================================================
