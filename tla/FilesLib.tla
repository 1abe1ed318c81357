------------------------------- MODULE FilesLib -------------------------------
(***************************************************************************)
(* The library module Files as lib/obnc/Files.c implements it, over the    *)
(* C library and a POSIX directory. A file that New creates is a temporary *)
(* file; Register copies it to a file that it opens under the remembered   *)
(* name; Purge opens a file anew to empty it. Riders are positions only:   *)
(* every access seeks first, which also writes the buffer of the stream    *)
(* back.                                                                   *)
(*                                                                         *)
(* Not modelled: failures of the C library (no space, no permission),      *)
(* files longer than a stream buffer, and reading a file through two       *)
(* streams. The program may be killed between two calls; when it ends, by  *)
(* itself or in a trap, the C library closes all streams.                  *)
(***************************************************************************)
EXTENDS Integers, Sequences

CONSTANTS
    Handle,      \* values of type Files.File
    Name,        \* file names
    Rider,       \* variables of type Files.Rider
    Inode,       \* files of the operating system
    Item,        \* byte sequences written in one call
    Continued,   \* the bytes >= 128, which are not the last one of a number
    Amount,      \* the numbers of bytes asked for in one call
    WordLen,     \* size of an INTEGER, REAL or SET
    MaxLen,      \* bound: the length of a file
    Usage,       \* which of AllUsages a program makes
    None

(* What a program may do besides ordinary use: purge a file after its name *)
(* was deleted or renamed, register a file under the name of another one   *)
(* that it has open, forget a file that it wrote to without closing it.    *)
AllUsages == {"purge renamed", "register over open", "unclosed"}

ASSUME UsageAssumption == Usage \subseteq AllUsages
ASSUME LengthAssumption == MaxLen \in Nat /\ WordLen \in Nat \ {0} /\ Amount \subseteq Nat \ {0}
ASSUME ItemAssumption == Item \subseteq Seq(Nat)

Byte == {0} \union UNION {{s[i] : i \in 1 .. Len(s)} : s \in Item}
Stream == [inode : Inode, from : Nat, bytes : Seq(Byte), name : Name, registered : BOOLEAN]
Position == [base : Handle, pos : Nat, eof : BOOLEAN]

ASSUME NoneAssumption == None \notin Inode \union Stream \union Position
ASSUME HandleAssumption == \A h \in Handle \union {None} : h \notin Seq(Byte) /\ None \notin Handle

VARIABLES
    disk,    \* disk[i]: the bytes of inode i
    entry,   \* entry[n]: the inode of the directory entry n, or None
    file,    \* file[h]: what h points to, or None
    rider,   \* rider[r]: base, pos and eof, or None before the first Set
    out      \* what the last call delivered

vars == <<disk, entry, file, rider, out>>

NoResult == out' = <<"none">>

LongerOf(a, b) == IF a > b THEN a ELSE b
ShorterOf(a, b) == IF a < b THEN a ELSE b

(* s after writing bytes at offset pos, with zeros in a gap.               *)
Overwrite(s, pos, bytes) ==
    IF bytes = <<>> THEN s
    ELSE [i \in 1 .. LongerOf(Len(s), pos + Len(bytes)) |->
             IF i \in pos + 1 .. pos + Len(bytes) THEN bytes[i - pos]
             ELSE IF i <= Len(s) THEN s[i] ELSE 0]

(* file[h] holds an open stream: its inode and what is in its buffer, to   *)
(* be written at offset from.                                              *)
Seen(h) == Overwrite(disk[file[h].inode], file[h].from, file[h].bytes)

Open == {h \in Handle : file[h] /= None}
InUse == {entry[n] : n \in Name} \union {file[h].inode : h \in Open}

(* An inode without a name or a stream is freed.                           *)
FreeUnused(d) == disk' = [i \in Inode |-> IF i \in InUse' THEN d[i] ELSE <<>>]
FreeInode == CHOOSE i \in Inode : i \notin InUse
DiskFull == Inode \subseteq InUse

(* fseek and fflush write the buffer of a stream back.                     *)
WriteBack(h) ==
    /\ disk' = [disk EXCEPT ![file[h].inode] = Seen(h)]
    /\ file' = [file EXCEPT ![h].from = 0, ![h].bytes = <<>>]

Init ==
    /\ entry = [n \in Name |-> None]
    /\ disk = [i \in Inode |-> <<>>]
    /\ file = [h \in Handle |-> None]
    /\ rider = [r \in Rider |-> None]
    /\ out = <<"none">>

NewFile(h, i, n, registered) ==
    file' = [file EXCEPT ![h] = [inode |-> i, from |-> 0, bytes |-> <<>>,
                                 name |-> n, registered |-> registered]]

(* A file is opened by one handle at a time.                               *)
Old(h, n) ==
    /\ file[h] = None
    /\ entry[n] /= None
    /\ \A g \in Open : file[g].inode /= entry[n]
    /\ NewFile(h, entry[n], n, TRUE)
    /\ UNCHANGED <<disk, entry, rider>> /\ NoResult

New(h, n) ==
    /\ file[h] = None
    /\ ~DiskFull
    /\ NewFile(h, FreeInode, n, FALSE)
    /\ UNCHANGED <<disk, entry, rider>> /\ NoResult

(* fopen(name, "w+b"): empties the file of that name or makes one.         *)
Opened(n) == IF entry[n] /= None THEN entry[n] ELSE FreeInode
CanOpen(n) == entry[n] /= None \/ ~DiskFull

(* Mutant of Register: f->file is not replaced.                            *)
RegisterKeepingStream(h) ==
    /\ h \in Open
    /\ ~file[h].registered
    /\ LET n == file[h].name
           i == Opened(n) IN
       /\ CanOpen(n)
       /\ "register over open" \notin Usage => \A g \in Open : file[g].inode /= i
       /\ entry' = [entry EXCEPT ![n] = i]
       /\ file' = [file EXCEPT ![h].registered = TRUE]
       /\ FreeUnused([disk EXCEPT ![i] = Seen(h)])
    /\ UNCHANGED rider /\ NoResult

(* Register does nothing for a registered file. The copy is left in the    *)
(* buffer of the new stream; the temporary file is closed by nobody.       *)
Register(h) ==
    /\ h \in Open
    /\ ~file[h].registered
    /\ LET n == file[h].name
           i == Opened(n) IN
       /\ CanOpen(n)
       /\ "register over open" \notin Usage => \A g \in Open : file[g].inode /= i
       /\ entry' = [entry EXCEPT ![n] = i]
       /\ file' = [file EXCEPT ![h] = [inode |-> i, from |-> 0, bytes |-> Seen(h),
                                       name |-> n, registered |-> TRUE]]
       /\ FreeUnused([disk EXCEPT ![i] = <<>>])
    /\ UNCHANGED rider /\ NoResult

Close(h) == h \in Open /\ WriteBack(h) /\ UNCHANGED <<entry, rider>> /\ NoResult

(* Mutant of Purge: the name is opened for an unregistered file, too.      *)
PurgeByName(h) ==
    /\ h \in Open
    /\ LET n == file[h].name
           i == Opened(n) IN
       /\ CanOpen(n)
       /\ "purge renamed" \notin Usage /\ file[h].registered => i = file[h].inode
       /\ entry' = [entry EXCEPT ![n] = i]
       /\ NewFile(h, i, n, file[h].registered)
       /\ FreeUnused([[disk EXCEPT ![file[h].inode] = Seen(h)] EXCEPT ![i] = <<>>])
    /\ UNCHANGED rider /\ NoResult

(* fclose writes the buffer back; then the name is opened, or a temporary  *)
(* file, which may be the inode just freed.                                *)
Purge(h) ==
    /\ h \in Open
    /\ LET n == file[h].name
           i == IF file[h].registered THEN Opened(n) ELSE file[h].inode IN
       /\ file[h].registered => CanOpen(n)
       /\ "purge renamed" \notin Usage /\ file[h].registered => i = file[h].inode
       /\ entry' = IF file[h].registered THEN [entry EXCEPT ![n] = i] ELSE entry
       /\ NewFile(h, i, n, file[h].registered)
       /\ FreeUnused([[disk EXCEPT ![file[h].inode] = Seen(h)] EXCEPT ![i] = <<>>])
    /\ UNCHANGED rider /\ NoResult

(* unlink and rename; the name remembered in a file record stays.          *)
Delete(n) ==
    /\ entry[n] /= None
    /\ entry' = [entry EXCEPT ![n] = None]
    /\ UNCHANGED <<file, rider>> /\ NoResult
    /\ FreeUnused(disk)

Rename(old, new) ==
    /\ entry[old] /= None
    /\ entry' = [[entry EXCEPT ![old] = None] EXCEPT ![new] = entry[old]]
    /\ UNCHANGED <<file, rider>> /\ NoResult
    /\ FreeUnused(disk)

SetOn(r, h) == rider[r] /= None /\ rider[r].base = h

(* A handle and the riders set on it go out of scope. The stream stays     *)
(* open until the program ends: what is left in its buffer is not seen by  *)
(* anybody before.                                                         *)
Forget(h) ==
    /\ h \in Open
    /\ \/ file[h].bytes = <<>>
       \/ \A n \in Name : entry[n] /= file[h].inode
       \/ "unclosed" \in Usage
    /\ file' = [file EXCEPT ![h] = None]
    /\ rider' = [r \in Rider |-> IF SetOn(r, h) THEN None ELSE rider[r]]
    /\ UNCHANGED entry /\ NoResult
    /\ FreeUnused(disk)

Length(h) ==
    /\ h \in Open
    /\ WriteBack(h)
    /\ out' = <<"length", Len(Seen(h))>>
    /\ UNCHANGED <<entry, rider>>

(* The program is killed, with what is in its buffers, and started anew.   *)
Kill ==
    /\ Open /= {}
    /\ file' = [h \in Handle |-> None]
    /\ rider' = [r \in Rider |-> None]
    /\ UNCHANGED entry /\ NoResult
    /\ FreeUnused(disk)

-----------------------------------------------------------------------------
(* Set asserts 0 <= pos <= Length(f); a program that violates it halts.    *)
Set(r, h, pos) ==
    /\ h \in Open
    /\ pos \in 0 .. Len(Seen(h))
    /\ WriteBack(h)
    /\ rider' = [rider EXCEPT ![r] = [base |-> h, pos |-> pos, eof |-> FALSE]]
    /\ UNCHANGED entry /\ NoResult

(* Position: the base of the rider is written back and read from pos on.   *)
Seek(r) == rider[r] /= None /\ WriteBack(rider[r].base)
Rest(r) == LET s == Seen(rider[r].base) IN SubSeq(s, rider[r].pos + 1, Len(s))

Advance(r, k) == rider' = [rider EXCEPT ![r].pos = @ + k]
AtEnd(r, k) ==
    /\ rider' = [rider EXCEPT ![r].pos = @ + k, ![r].eof = TRUE]
    /\ out' = <<"eof">>

(* The first k bytes of s are in S, and no more.                           *)
Leading(s, S, k) ==
    /\ k \in 0 .. Len(s)
    /\ \A i \in 1 .. k : s[i] \in S
    /\ k < Len(s) => s[k + 1] \notin S

(* Read and ReadBool take one byte; ReadInt, ReadReal and ReadSet one      *)
(* element of WordLen bytes, or none at all.                               *)
ReadFixed(r, kind, n) ==
    /\ Seek(r)
    /\ IF n <= Len(Rest(r))
       THEN Advance(r, n) /\ out' = <<kind, SubSeq(Rest(r), 1, n)>>
       ELSE AtEnd(r, 0)
    /\ UNCHANGED entry

ReadNum(r) ==
    /\ Seek(r)
    /\ \E k \in 0 .. MaxLen :
          /\ Leading(Rest(r), Continued, k)
          /\ IF k < Len(Rest(r))
             THEN Advance(r, k + 1) /\ out' = <<"number", SubSeq(Rest(r), 1, k + 1)>>
             ELSE AtEnd(r, k)
    /\ UNCHANGED entry

(* ReadString into an array of n characters.                               *)
ReadString(r, n) ==
    /\ Seek(r)
    /\ \E len \in 0 .. MaxLen :
          LET rest == Rest(r)
              k == ShorterOf(len, n - 1) IN
          /\ Leading(rest, Byte \ {0}, len)
          /\ IF k < Len(rest)
             THEN /\ Advance(r, k + 1)
                  /\ out' = IF rest[k + 1] = 0 THEN <<"string", SubSeq(rest, 1, k + 1)>>
                            ELSE <<"overlong">>
             ELSE AtEnd(r, 0)
    /\ UNCHANGED entry

(* n is the smaller one of the length of the buffer and the number asked   *)
(* for.                                                                    *)
ReadBytes(r, n) ==
    /\ Seek(r)
    /\ LET taken == SubSeq(Rest(r), 1, ShorterOf(n, Len(Rest(r)))) IN
       /\ rider' = [rider EXCEPT ![r].pos = @ + Len(taken),
                                 ![r].eof = @ \/ Len(taken) < n]
       /\ out' = <<"bytes", taken>>
    /\ UNCHANGED entry

(* All write procedures: the bytes stay in the buffer until the next seek, *)
(* flush or close of this stream.                                          *)
Write(r, bytes) ==
    /\ rider[r] /= None
    /\ LET h == rider[r].base IN
       /\ Len(Overwrite(Seen(h), rider[r].pos, bytes)) <= MaxLen
       /\ disk' = [disk EXCEPT ![file[h].inode] = Seen(h)]
       /\ file' = [file EXCEPT ![h].from = rider[r].pos, ![h].bytes = bytes]
    /\ Advance(r, Len(bytes))
    /\ UNCHANGED entry /\ NoResult

Next ==
    \/ \E h \in Handle, n \in Name : Old(h, n) \/ New(h, n)
    \/ \E h \in Handle : Register(h) \/ Close(h) \/ Purge(h) \/ Forget(h) \/ Length(h)
    \/ Kill
    \/ \E n \in Name : Delete(n)
    \/ \E old, new \in Name : Rename(old, new)
    \/ \E r \in Rider, h \in Handle, pos \in 0 .. MaxLen : Set(r, h, pos)
    \/ \E r \in Rider : ReadFixed(r, "byte", 1) \/ ReadFixed(r, "word", WordLen)
    \/ \E r \in Rider : ReadNum(r)
    \/ \E r \in Rider, n \in Amount : ReadString(r, n)
    \/ \E r \in Rider, n \in Amount : ReadBytes(r, n)
    \/ \E r \in Rider, bytes \in Item : Write(r, bytes)

Spec == Init /\ [][Next]_vars

-----------------------------------------------------------------------------
TypeOK ==
    /\ disk \in [Inode -> Seq(Byte)]
    /\ entry \in [Name -> Inode \union {None}]
    /\ file \in [Handle -> Stream \union {None}]
    /\ rider \in [Rider -> Position \union {None}]

(* A rider is set on a handle in use, and neither files nor positions grow *)
(* beyond what was written.                                                *)
Within ==
    /\ \A i \in Inode : Len(disk[i]) <= MaxLen
    /\ \A h \in Open : Len(Seen(h)) <= MaxLen
    /\ \A r \in Rider : rider[r] /= None => rider[r].base \in Open /\ rider[r].pos <= MaxLen

(* No file is reached in two ways, so that no operation on one file can    *)
(* touch another: names and handles stand for different inodes, and the    *)
(* inode of a file that was never registered has no name.                  *)
Separate ==
    /\ \A m, n \in Name : entry[m] = entry[n] /\ entry[m] /= None => m = n
    /\ \A g, h \in Open : file[g].inode = file[h].inode => g = h
    /\ \A h \in Open, n \in Name : entry[n] = file[h].inode => file[h].registered

(* Nothing is left of a file that has neither a name nor a stream: the     *)
(* next file that gets its inode starts out empty.                         *)
Cleared == \A i \in Inode \ InUse : disk[i] = <<>>

FilesInv == TypeOK /\ Within /\ Separate /\ Cleared

(* What a handle and a name stand for: the file with what is still in the  *)
(* buffer of its stream, the handle by which a named file is in use.       *)
Text == [h \in Handle |-> IF file[h] = None THEN None ELSE Seen(h)]
Dir == [n \in Name |->
           IF \E h \in Open : file[h].inode = entry[n]
           THEN CHOOSE h \in Open : file[h].inode = entry[n]
           ELSE IF entry[n] = None THEN None ELSE disk[entry[n]]]

(* Files of which something is still in the buffer of a stream only.       *)
Unsaved == {h \in Open : file[h].bytes /= <<>>}

(* Files.obn: every handle, name and rider behaves as if files were byte   *)
(* sequences of their own, although registering and purging move a file    *)
(* to another stream and the bytes written last are not in it yet; and     *)
(* what was closed is found again after the program was killed.            *)
Promise == INSTANCE FilePromise WITH text <- Text, dir <- Dir, unsaved <- Unsaved
FilesPromised == Promise!Spec
==============================================================================
