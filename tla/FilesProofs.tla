------------------------------ MODULE FilesProofs ------------------------------
(***************************************************************************)
(* Where a program makes none of the unusual uses, FilesInv is an          *)
(* inductive invariant of FilesLib: proof for every set of handles, names, *)
(* riders and inodes, every length and every item written.                 *)
(***************************************************************************)
EXTENDS FilesLib, TLAPS, SequenceTheorems

Ordinary == Usage = {}

(* The part of FilesInv about the files, and the part about the riders.    *)
StoreOK ==
    /\ disk \in [Inode -> Seq(Byte)]
    /\ entry \in [Name -> Inode \union {None}]
    /\ file \in [Handle -> Stream \union {None}]
    /\ \A i \in Inode : Len(disk[i]) <= MaxLen
    /\ \A h \in Open : Len(Seen(h)) <= MaxLen
    /\ Separate

RidersOK ==
    /\ rider \in [Rider -> Position \union {None}]
    /\ \A r \in Rider : rider[r] /= None => rider[r].base \in Open /\ rider[r].pos <= MaxLen

LEMMA Parts == FilesInv <=> StoreOK /\ RidersOK /\ Cleared
  BY DEF FilesInv, TypeOK, Within, StoreOK, RidersOK

-----------------------------------------------------------------------------
(* What Overwrite returns.                                                 *)
LEMMA OverwriteSeq ==
    ASSUME NEW s \in Seq(Byte), NEW pos \in Nat, NEW bytes \in Seq(Byte)
    PROVE  /\ Overwrite(s, pos, bytes) \in Seq(Byte)
           /\ bytes = <<>> => Overwrite(s, pos, bytes) = s
           /\ bytes /= <<>> => Len(Overwrite(s, pos, bytes)) = LongerOf(Len(s), pos + Len(bytes))
  <1>1. CASE bytes = <<>>
    BY <1>1 DEF Overwrite
  <1>2. CASE bytes /= <<>>
    <2> DEFINE len == LongerOf(Len(s), pos + Len(bytes))
               at(i) == IF i \in pos + 1 .. pos + Len(bytes) THEN bytes[i - pos]
                        ELSE IF i <= Len(s) THEN s[i] ELSE 0
    <2>1. len \in Nat
      BY DEF LongerOf
    <2>2. ASSUME NEW i \in 1 .. len PROVE at(i) \in Byte
      <3>1. CASE i \in pos + 1 .. pos + Len(bytes)
        BY <3>1
      <3>2. CASE i \notin pos + 1 .. pos + Len(bytes) /\ i <= Len(s)
        BY <3>2
      <3>3. 0 \in Byte
        BY DEF Byte
      <3> QED
        BY <3>1, <3>2, <3>3
    <2>3. Overwrite(s, pos, bytes) = [i \in 1 .. len |-> at(i)]
      BY <1>2 DEF Overwrite
    <2> HIDE DEF len, at
    <2>4. [i \in 1 .. len |-> at(i)] \in Seq(Byte) /\ Len([i \in 1 .. len |-> at(i)]) = len
      BY <2>1, <2>2
    <2> QED
      BY <1>2, <2>3, <2>4 DEF len
  <1> QED
    BY <1>1, <1>2

(* The contents of an open file, and where they are.                       *)
LEMMA OpenFile ==
    ASSUME StoreOK, NEW h \in Open
    PROVE  /\ h \in Handle /\ file[h] \in Stream /\ file[h].inode \in InUse
           /\ Seen(h) \in Seq(Byte) /\ Len(Seen(h)) \in Nat /\ Len(Seen(h)) <= MaxLen
  <1>1. h \in Handle /\ file[h] \in Stream /\ file[h].inode \in InUse
    BY DEF StoreOK, Open, InUse
  <1>2. disk[file[h].inode] \in Seq(Byte)
    BY <1>1 DEF StoreOK, Stream
  <1>3. Seen(h) \in Seq(Byte)
    BY <1>1, <1>2, OverwriteSeq DEF Seen, Stream
  <1> QED
    BY <1>1, <1>3 DEF StoreOK

(* A file that New or fopen makes is nobody's.                             *)
LEMMA FreshInode == ~DiskFull => FreeInode \in Inode /\ FreeInode \notin InUse
  BY DEF DiskFull, FreeInode

(* Files without buffered bytes that are in use keep their text when the   *)
(* unused inodes are freed.                                                *)
LEMMA Freed ==
    ASSUME NEW d \in [Inode -> Seq(Byte)], \A i \in Inode : Len(d[i]) <= MaxLen,
           FreeUnused(d)
    PROVE  /\ disk' \in [Inode -> Seq(Byte)]
           /\ \A i \in Inode : Len(disk'[i]) <= MaxLen
           /\ \A h \in Open' : file'[h].inode \in Inode => disk'[file'[h].inode] = d[file'[h].inode]
  <1>1. <<>> \in Seq(Byte) /\ Len(<<>>) <= MaxLen
    BY LengthAssumption
  <1>2. \A h \in Open' : file'[h].inode \in InUse'
    BY DEF InUse
  <1> QED
    BY <1>1, <1>2 DEF FreeUnused

-----------------------------------------------------------------------------
(* Files stay separate when each open one keeps its inode and each name    *)
(* stands for what some name stood for.                                    *)
LEMMA SameSeparate ==
    ASSUME Separate, Open' \subseteq Open, UNCHANGED entry,
           \A g \in Open : file'[g].inode = file[g].inode /\ file'[g].registered = file[g].registered
    PROVE  Separate'
  <1>1. \A m, n \in Name : entry'[m] = entry'[n] /\ entry'[m] /= None => m = n
    BY DEF Separate
  <1>2. \A g, h \in Open' : file'[g].inode = file'[h].inode => g = h
    BY DEF Separate
  <1>3. ASSUME NEW h \in Open', NEW n \in Name, entry'[n] = file'[h].inode
        PROVE  file'[h].registered
    <2>1. h \in Open /\ entry[n] = file[h].inode
      BY <1>3
    <2>2. file[h].registered
      BY <2>1, Zenon DEF Separate
    <2> QED
      BY <2>1, <2>2
  <1> QED
    BY <1>1, <1>2, <1>3 DEF Separate

(* Writing the buffer of a file back and putting bytes into it touches no  *)
(* other file.                                                             *)
LEMMA Rebuffer ==
    ASSUME StoreOK, NEW h \in Open, NEW p \in Nat, NEW b \in Seq(Byte),
           Len(Overwrite(Seen(h), p, b)) <= MaxLen,
           disk' = [disk EXCEPT ![file[h].inode] = Seen(h)],
           file' = [file EXCEPT ![h].from = p, ![h].bytes = b],
           UNCHANGED entry
    PROVE  StoreOK' /\ Open' = Open
  <1> DEFINE i == file[h].inode
  <1>1. h \in Handle /\ file[h] \in Stream /\ i \in Inode
    BY OpenFile DEF Stream
  <1>2. Seen(h) \in Seq(Byte) /\ Len(Seen(h)) <= MaxLen
    BY OpenFile
  <1>3. disk' \in [Inode -> Seq(Byte)] /\ \A j \in Inode : Len(disk'[j]) <= MaxLen
    BY <1>1, <1>2 DEF StoreOK
  <1>4. /\ file'[h] \in Stream /\ file'[h].inode = i /\ file'[h].registered = file[h].registered
        /\ file'[h].from = p /\ file'[h].bytes = b
        /\ \A g \in Handle \ {h} : file'[g] = file[g]
        /\ file' \in [Handle -> Stream \union {None}]
    <2>1. PICK f \in [inode : Inode, from : Nat, bytes : Seq(Byte), name : Name, registered : BOOLEAN] :
              f = file[h]
      BY <1>1 DEF Stream
    <2>2. /\ [[f EXCEPT !.from = p] EXCEPT !.bytes = b]
                \in [inode : Inode, from : Nat, bytes : Seq(Byte), name : Name, registered : BOOLEAN]
          /\ [[f EXCEPT !.from = p] EXCEPT !.bytes = b].inode = f.inode
          /\ [[f EXCEPT !.from = p] EXCEPT !.bytes = b].registered = f.registered
          /\ [[f EXCEPT !.from = p] EXCEPT !.bytes = b].from = p
          /\ [[f EXCEPT !.from = p] EXCEPT !.bytes = b].bytes = b
      OBVIOUS
    <2>3. file' = [file EXCEPT ![h] = [[f EXCEPT !.from = p] EXCEPT !.bytes = b]]
      BY <1>1, <2>1 DEF StoreOK
    <2> QED
      BY <1>1, <2>1, <2>2, <2>3 DEF StoreOK, Stream
  <1>5. Open' = Open
    BY <1>1, <1>4, NoneAssumption DEF Open
  <1>6. \A g \in Open : file'[g].inode = file[g].inode /\ file'[g].registered = file[g].registered
    BY <1>4 DEF Open
  <1>7. ASSUME NEW g \in Open PROVE Len(Seen(g)') <= MaxLen
    <2>1. disk'[i] = Seen(h)
      BY <1>1 DEF StoreOK
    <2>2. CASE g = h
      BY <1>4, <2>1, <2>2 DEF Seen
    <2>3. CASE g /= h
      <3>1. g \in Handle /\ file[g].inode \in Inode \ {i}
        BY <2>3, OpenFile DEF StoreOK, Separate, Stream
      <3>2. disk'[file[g].inode] = disk[file[g].inode] /\ file'[g] = file[g]
        BY <1>1, <1>4, <2>3, <3>1 DEF StoreOK
      <3>3. Seen(g)' = Seen(g)
        BY <3>2 DEF Seen
      <3> QED
        BY <3>3, OpenFile
    <2> QED
      BY <2>2, <2>3
  <1>8. Separate'
    BY <1>5, <1>6, SameSeparate DEF StoreOK
  <1> QED
    BY <1>3, <1>4, <1>5, <1>7, <1>8 DEF StoreOK

LEMMA WriteBackStore ==
    ASSUME StoreOK, NEW h \in Open, WriteBack(h), UNCHANGED entry
    PROVE  StoreOK' /\ Open' = Open
  <1>1. Overwrite(Seen(h), 0, <<>>) = Seen(h) /\ <<>> \in Seq(Byte) /\ 0 \in Nat
    BY DEF Overwrite
  <1>2. Len(Overwrite(Seen(h), 0, <<>>)) <= MaxLen
    BY <1>1, OpenFile
  <1> QED
    BY <1>1, <1>2, Rebuffer DEF WriteBack

-----------------------------------------------------------------------------
(* A handle gets another stream.                                           *)
LEMMA Restreamed ==
    ASSUME StoreOK, NEW h \in Handle, NEW stream \in Stream, file' = [file EXCEPT ![h] = stream]
    PROVE  /\ file' \in [Handle -> Stream \union {None}]
           /\ file'[h] = stream /\ \A g \in Handle \ {h} : file'[g] = file[g]
           /\ \A g \in Open \ {h} : file'[g] = file[g]
           /\ Open' = Open \union {h}
  <1>1. file' \in [Handle -> Stream \union {None}]
        /\ file'[h] = stream /\ \A g \in Handle \ {h} : file'[g] = file[g]
    BY DEF StoreOK
  <1> QED
    BY <1>1, NoneAssumption DEF Open

(* A handle may get the stream of any inode that no other handle has.      *)
LEMMA OpenAnew ==
    ASSUME StoreOK, NEW h \in Handle, NEW i \in Inode, NEW b \in Seq(Byte), NEW n \in Name,
           NEW reg \in BOOLEAN,
           file' = [file EXCEPT ![h] = [inode |-> i, from |-> 0, bytes |-> b,
                                        name |-> n, registered |-> reg]],
           disk' \in [Inode -> Seq(Byte)],
           \A j \in Inode : Len(disk'[j]) <= MaxLen,
           Len(Overwrite(disk'[i], 0, b)) <= MaxLen,
           \A g \in Open \ {h} :
              file[g].inode /= i /\ disk'[file[g].inode] = disk[file[g].inode],
           entry' \in [Name -> Inode \union {None}],
           \A k, m \in Name : entry'[k] = entry'[m] /\ entry'[k] /= None => k = m,
           \A g \in Open \ {h}, m \in Name : entry'[m] = file[g].inode => entry[m] = entry'[m],
           (\E m \in Name : entry'[m] = i) => reg
    PROVE  StoreOK' /\ Open' = Open \union {h}
  <1> DEFINE stream == [inode |-> i, from |-> 0, bytes |-> b, name |-> n, registered |-> reg]
  <1>1. stream \in Stream /\ file' = [file EXCEPT ![h] = stream]
    BY DEF Stream
  <1> HIDE DEF stream
  <1>2. file'[h] = stream /\ \A g \in Handle \ {h} : file'[g] = file[g]
    BY <1>1, Restreamed
  <1>3. file' \in [Handle -> Stream \union {None}] /\ Open' = Open \union {h}
    BY <1>1, Restreamed
  <1>4. ASSUME NEW g \in Open' PROVE Len(Seen(g)') <= MaxLen
    <2>1. CASE g = h
      BY <1>2, <2>1 DEF Seen, stream
    <2>2. CASE g /= h
      <3>1. g \in Open /\ g \in Handle /\ file'[g] = file[g]
        BY <1>2, <1>3, <2>2 DEF Open
      <3>2. Seen(g)' = Seen(g)
        BY <2>2, <3>1 DEF Seen
      <3> QED
        BY <3>1, <3>2, OpenFile
    <2> QED
      BY <2>1, <2>2
  <1>5. \A g, f \in Open' : file'[g].inode = file'[f].inode => g = f
    <2>1. file'[h].inode = i /\ \A g \in Open \ {h} : file'[g] = file[g]
      BY <1>2 DEF stream, Open
    <2> QED
      BY <1>3, <2>1 DEF StoreOK, Separate
  <1>6. ASSUME NEW g \in Open', NEW m \in Name, entry'[m] = file'[g].inode
        PROVE  file'[g].registered
    <2>1. CASE g = h
      BY <1>2, <1>6, <2>1 DEF stream
    <2>2. CASE g /= h
      <3>1. g \in Open /\ file'[g] = file[g]
        BY <1>2, <1>3, <2>2 DEF Open
      <3>2. entry[m] = file[g].inode
        BY <1>6, <2>2, <3>1
      <3>3. file[g].registered
        BY <3>1, <3>2, Zenon DEF StoreOK, Separate
      <3> QED
        BY <3>1, <3>3
    <2> QED
      BY <2>1, <2>2
  <1>7. Separate'
    BY <1>5, <1>6 DEF Separate
  <1> QED
    BY <1>3, <1>4, <1>7 DEF StoreOK

(* The riders on the handles that stay open stay where they are.           *)
LEMMA SameRiders ==
    ASSUME RidersOK, UNCHANGED rider, Open \subseteq Open'
    PROVE  RidersOK'
  BY DEF RidersOK

LEMMA InitOK == Init => StoreOK /\ RidersOK
  <1> SUFFICES ASSUME Init PROVE StoreOK /\ RidersOK
    OBVIOUS
  <1>1. Open = {}
    BY DEF Init, Open
  <1>2. <<>> \in Seq(Byte) /\ Len(<<>>) <= MaxLen
    BY LengthAssumption
  <1> QED
    BY <1>1, <1>2, NoneAssumption DEF Init, StoreOK, RidersOK, Separate

LEMMA OldOK == ASSUME StoreOK, RidersOK, NEW h \in Handle, NEW n \in Name, Old(h, n)
               PROVE  StoreOK' /\ RidersOK'
  <1>1. entry[n] \in Inode /\ UNCHANGED <<disk, entry, rider>>
    BY DEF Old, StoreOK
  <1>2. file' = [file EXCEPT ![h] = [inode |-> entry[n], from |-> 0, bytes |-> <<>>,
                                     name |-> n, registered |-> TRUE]]
    BY DEF Old, NewFile
  <1>3. Overwrite(disk'[entry[n]], 0, <<>>) = disk[entry[n]] /\ <<>> \in Seq(Byte)
    BY <1>1 DEF Overwrite
  <1>4. disk' \in [Inode -> Seq(Byte)] /\ \A j \in Inode : Len(disk'[j]) <= MaxLen
    BY <1>1 DEF StoreOK
  <1>5. /\ entry' \in [Name -> Inode \union {None}]
        /\ \A k, m \in Name : entry'[k] = entry'[m] /\ entry'[k] /= None => k = m
    BY <1>1 DEF StoreOK, Separate
  <1>6. \A g \in Open \ {h} : file[g].inode /= entry[n]
    BY DEF Old
  <1>7. Len(Overwrite(disk'[entry[n]], 0, <<>>)) <= MaxLen
    BY <1>1, <1>3 DEF StoreOK
  <1>8. StoreOK' /\ Open' = Open \union {h}
    BY <1>1, <1>2, <1>3, <1>4, <1>5, <1>6, <1>7, OpenAnew
  <1> QED
    BY <1>1, <1>8, SameRiders

LEMMA NewOK == ASSUME StoreOK, RidersOK, NEW h \in Handle, NEW n \in Name, New(h, n)
               PROVE  StoreOK' /\ RidersOK'
  <1>1. FreeInode \in Inode /\ FreeInode \notin InUse /\ UNCHANGED <<disk, entry, rider>>
    BY FreshInode DEF New
  <1>2. file' = [file EXCEPT ![h] = [inode |-> FreeInode, from |-> 0, bytes |-> <<>>,
                                     name |-> n, registered |-> FALSE]]
    BY DEF New, NewFile
  <1>3. Overwrite(disk'[FreeInode], 0, <<>>) = disk[FreeInode] /\ <<>> \in Seq(Byte)
    BY <1>1 DEF Overwrite
  <1>4. disk' \in [Inode -> Seq(Byte)] /\ \A j \in Inode : Len(disk'[j]) <= MaxLen
    BY <1>1 DEF StoreOK
  <1>5. /\ entry' \in [Name -> Inode \union {None}]
        /\ \A k, m \in Name : entry'[k] = entry'[m] /\ entry'[k] /= None => k = m
    BY <1>1 DEF StoreOK, Separate
  <1>6. \A g \in Open \ {h} : file[g].inode /= FreeInode
    BY <1>1 DEF InUse
  <1>7. ~ \E m \in Name : entry'[m] = FreeInode
    BY <1>1 DEF InUse
  <1>8. Len(Overwrite(disk'[FreeInode], 0, <<>>)) <= MaxLen
    BY <1>1, <1>3 DEF StoreOK
  <1>9. StoreOK' /\ Open' = Open \union {h}
    BY <1>1, <1>2, <1>3, <1>4, <1>5, <1>6, <1>7, <1>8, OpenAnew
  <1> QED
    BY <1>1, <1>9, SameRiders

(* fopen(name, "w+b") gives the inode of the name, or a fresh one.         *)
LEMMA OpenedInode ==
    ASSUME StoreOK, NEW n \in Name, CanOpen(n)
    PROVE  /\ Opened(n) \in Inode
           /\ \A m \in Name \ {n} : entry[m] /= Opened(n)
           /\ entry[n] = Opened(n) \/ Opened(n) \notin InUse
  <1>1. CASE entry[n] /= None
    BY <1>1 DEF Opened, StoreOK, Separate
  <1>2. CASE entry[n] = None
    BY <1>2, FreshInode DEF Opened, CanOpen, InUse
  <1> QED
    BY <1>1, <1>2

LEMMA RegisterOK == ASSUME Ordinary, StoreOK, RidersOK, NEW h \in Handle, Register(h)
                    PROVE  StoreOK' /\ RidersOK'
  <1> DEFINE n == file[h].name
             i == Opened(n)
             d == [disk EXCEPT ![i] = <<>>]
  <1>1. h \in Open /\ CanOpen(n) /\ UNCHANGED rider /\ entry' = [entry EXCEPT ![n] = i]
        /\ FreeUnused(d)
        /\ file' = [file EXCEPT ![h] = [inode |-> i, from |-> 0, bytes |-> Seen(h),
                                        name |-> n, registered |-> TRUE]]
    BY DEF Register
  <1>2. n \in Name /\ Seen(h) \in Seq(Byte) /\ Len(Seen(h)) <= MaxLen
    BY <1>1, OpenFile DEF Stream
  <1>3. i \in Inode /\ \A m \in Name \ {n} : entry[m] /= i
    BY <1>1, <1>2, OpenedInode
  <1>4. \A g \in Open : file[g].inode /= i
    BY DEF Ordinary, Register
  <1>5. d \in [Inode -> Seq(Byte)] /\ \A j \in Inode : Len(d[j]) <= MaxLen
    <2>1. <<>> \in Seq(Byte) /\ Len(<<>>) <= MaxLen
      BY LengthAssumption
    <2> QED
      BY <1>3, <2>1 DEF StoreOK
  <1> HIDE DEF i, n
  <1>6. /\ file'[h].inode = i /\ \A g \in Open \ {h} : file'[g] = file[g]
        /\ Open' = Open
    <2> DEFINE stream == [inode |-> i, from |-> 0, bytes |-> Seen(h),
                          name |-> n, registered |-> TRUE]
    <2>1. stream \in Stream /\ stream.inode = i
      BY <1>2, <1>3 DEF Stream
    <2>2. file' = [file EXCEPT ![h] = stream]
      BY <1>1
    <2> HIDE DEF stream
    <2>3. /\ file'[h] = stream /\ \A g \in Open \ {h} : file'[g] = file[g]
          /\ Open' = Open \union {h}
      BY <2>1, <2>2, Restreamed
    <2>4. Open \union {h} = Open
      BY <1>1
    <2> QED
      BY <2>1, <2>3, <2>4
  <1> HIDE DEF d
  <1>7. /\ disk' \in [Inode -> Seq(Byte)]
        /\ \A j \in Inode : Len(disk'[j]) <= MaxLen
        /\ \A g \in Open' : file'[g].inode \in Inode => disk'[file'[g].inode] = d[file'[g].inode]
    BY <1>1, <1>5, Freed
  <1>8. ASSUME NEW g \in Open \ {h}
        PROVE  file[g].inode /= i /\ disk'[file[g].inode] = disk[file[g].inode]
    <2>1. file[g].inode \in Inode /\ file[g].inode /= i /\ file'[g] = file[g] /\ g \in Open'
      BY <1>4, <1>6, OpenFile DEF Stream
    <2>2. d[file[g].inode] = disk[file[g].inode]
      BY <1>3, <2>1 DEF d, StoreOK
    <2> QED
      BY <1>7, <2>1, <2>2
  <1>9. Overwrite(disk'[i], 0, Seen(h)) \in Seq(Byte)
        /\ Len(Overwrite(disk'[i], 0, Seen(h))) <= MaxLen
    <2>1. disk'[i] = <<>> /\ <<>> \in Seq(Byte)
      BY <1>1, <1>3, <1>6, <1>7 DEF d, StoreOK
    <2>2. CASE Seen(h) = <<>>
      BY <2>1, <2>2, LengthAssumption DEF Overwrite
    <2>3. CASE Seen(h) /= <<>>
      <3>1. /\ Overwrite(<<>>, 0, Seen(h)) \in Seq(Byte)
            /\ Len(Overwrite(<<>>, 0, Seen(h))) = LongerOf(Len(<<>>), 0 + Len(Seen(h)))
        BY <1>2, <2>1, <2>3, OverwriteSeq
      <3>2. LongerOf(Len(<<>>), 0 + Len(Seen(h))) <= MaxLen
        BY <1>2, LengthAssumption DEF LongerOf
      <3> QED
        BY <2>1, <3>1, <3>2
    <2> QED
      BY <2>2, <2>3
  <1>10. /\ entry' \in [Name -> Inode \union {None}]
         /\ entry'[n] = i
         /\ \A m \in Name \ {n} : entry'[m] = entry[m]
    BY <1>1, <1>2, <1>3 DEF StoreOK
  <1>11. /\ \A k, m \in Name : entry'[k] = entry'[m] /\ entry'[k] /= None => k = m
         /\ \A g \in Open \ {h}, m \in Name : entry'[m] = file[g].inode => entry[m] = entry'[m]
    <2>1. \A k, m \in Name : entry[k] = entry[m] /\ entry[k] /= None => k = m
      BY DEF StoreOK, Separate
    <2>2. \A k, m \in Name : entry'[k] = entry'[m] /\ entry'[k] /= None => k = m
      BY <1>3, <1>10, <2>1
    <2>3. \A g \in Open \ {h}, m \in Name : entry'[m] = file[g].inode => entry[m] = entry'[m]
      BY <1>4, <1>10
    <2> QED
      BY <2>2, <2>3
  <1>12. StoreOK' /\ Open' = Open \union {h}
    <2>1. file' = [file EXCEPT ![h] = [inode |-> i, from |-> 0, bytes |-> Seen(h),
                                       name |-> n, registered |-> TRUE]]
      BY <1>1
    <2>2. i \in Inode /\ Seen(h) \in Seq(Byte) /\ n \in Name
      BY <1>2, <1>3
    <2> QED
      BY <2>1, <2>2, <1>7, <1>8, <1>9, <1>10, <1>11, OpenAnew
  <1> QED
    BY <1>1, <1>12, SameRiders

(* In ordinary use the name of a purged file is still its own.             *)
LEMMA PurgeInPlace ==
    ASSUME Ordinary, StoreOK, NEW h \in Handle, Purge(h)
    PROVE  /\ UNCHANGED entry
           /\ file' = [file EXCEPT ![h] =
                          [inode |-> file[h].inode, from |-> 0, bytes |-> <<>>,
                           name |-> file[h].name, registered |-> file[h].registered]]
           /\ FreeUnused([[disk EXCEPT ![file[h].inode] = Seen(h)] EXCEPT ![file[h].inode] = <<>>])
  <1> DEFINE n == file[h].name
             i == file[h].inode
  <1>1. h \in Open
    BY DEF Purge
  <1>2. n \in Name /\ i \in InUse
    BY <1>1, OpenFile DEF Stream
  <1>3. file[h].registered => Opened(n) = i /\ CanOpen(n)
    BY DEF Purge, Ordinary
  <1>4. file[h].registered => entry[n] = i
    BY <1>2, <1>3, OpenedInode
  <1>5. UNCHANGED entry
    <2>1. CASE file[h].registered
      <3>1. entry' = [entry EXCEPT ![n] = Opened(n)]
        BY <2>1 DEF Purge
      <3> QED
        BY <1>2, <1>3, <1>4, <2>1, <3>1 DEF StoreOK
    <2>2. CASE ~file[h].registered
      BY <2>2 DEF Purge
    <2> QED
      BY <2>1, <2>2
  <1> QED
    BY <1>3, <1>5 DEF Purge, NewFile

LEMMA PurgeOK == ASSUME Ordinary, StoreOK, RidersOK, NEW h \in Handle, Purge(h)
                 PROVE  StoreOK' /\ RidersOK'
  <1> DEFINE n == file[h].name
             i == file[h].inode
             d == [[disk EXCEPT ![i] = Seen(h)] EXCEPT ![i] = <<>>]
  <1>1. h \in Open /\ UNCHANGED rider
    BY DEF Purge
  <1>2. n \in Name /\ i \in Inode /\ i \in InUse /\ file[h].registered \in BOOLEAN
        /\ Seen(h) \in Seq(Byte) /\ Len(Seen(h)) <= MaxLen
    BY <1>1, OpenFile DEF Stream
  <1>3. UNCHANGED entry
    BY PurgeInPlace
  <1>4. /\ file' = [file EXCEPT ![h] = [inode |-> i, from |-> 0, bytes |-> <<>>,
                                        name |-> n, registered |-> file[h].registered]]
        /\ FreeUnused(d)
    BY PurgeInPlace
  <1>5. d \in [Inode -> Seq(Byte)] /\ \A j \in Inode : Len(d[j]) <= MaxLen
    <2>1. <<>> \in Seq(Byte) /\ Len(<<>>) <= MaxLen
      BY LengthAssumption
    <2> QED
      BY <1>2, <2>1 DEF StoreOK
  <1>6. \A g \in Open \ {h} : file[g].inode /= i
    BY <1>1 DEF StoreOK, Separate
  <1> HIDE DEF i, n
  <1>7. /\ file'[h].inode = i /\ \A g \in Open \ {h} : file'[g] = file[g]
        /\ Open' = Open
    <2> DEFINE stream == [inode |-> i, from |-> 0, bytes |-> <<>>,
                          name |-> n, registered |-> file[h].registered]
    <2>1. stream \in Stream /\ stream.inode = i
      BY <1>2 DEF Stream
    <2>2. file' = [file EXCEPT ![h] = stream]
      BY <1>4
    <2> HIDE DEF stream
    <2>3. /\ file'[h] = stream /\ \A g \in Open \ {h} : file'[g] = file[g]
          /\ Open' = Open \union {h}
      BY <2>1, <2>2, Restreamed
    <2>4. Open \union {h} = Open
      BY <1>1
    <2> QED
      BY <2>1, <2>3, <2>4
  <1> HIDE DEF d
  <1>8. /\ disk' \in [Inode -> Seq(Byte)]
         /\ \A j \in Inode : Len(disk'[j]) <= MaxLen
         /\ \A g \in Open' : file'[g].inode \in Inode => disk'[file'[g].inode] = d[file'[g].inode]
    BY <1>4, <1>5, Freed
  <1>9. ASSUME NEW g \in Open \ {h}
         PROVE  file[g].inode /= i /\ disk'[file[g].inode] = disk[file[g].inode]
    <2>1. file[g].inode \in Inode /\ file[g].inode /= i /\ file'[g] = file[g] /\ g \in Open'
      BY <1>6, <1>7, OpenFile DEF Stream
    <2>2. d[file[g].inode] = disk[file[g].inode]
      BY <1>2, <2>1 DEF d, StoreOK
    <2> QED
      BY <1>8, <2>1, <2>2
  <1>10. Overwrite(disk'[i], 0, <<>>) = disk'[i] /\ <<>> \in Seq(Byte)
    BY DEF Overwrite
  <1>11. /\ entry' \in [Name -> Inode \union {None}]
         /\ \A k, m \in Name : entry'[k] = entry'[m] /\ entry'[k] /= None => k = m
    BY <1>3 DEF StoreOK, Separate
  <1>12. (\E m \in Name : entry'[m] = i) => file[h].registered
    <2>1. ASSUME NEW m \in Name, entry[m] = i PROVE file[h].registered
      BY <1>1, <2>1, Zenon DEF StoreOK, Separate, i
    <2> QED
      BY <1>3, <2>1
  <1>13. Len(Overwrite(disk'[i], 0, <<>>)) <= MaxLen
    BY <1>2, <1>8, <1>10
  <1>14. StoreOK' /\ Open' = Open \union {h}
    BY <1>1, <1>2, <1>3, <1>4, <1>8, <1>9, <1>10, <1>11, <1>12, <1>13, OpenAnew
  <1> QED
    BY <1>1, <1>14, SameRiders

(* Names and handles may go, and a name may move.                          *)
LEMMA Freeing ==
    ASSUME StoreOK, FreeUnused(disk), file' \in [Handle -> Stream \union {None}],
           Open' \subseteq Open, \A g \in Open' : file'[g] = file[g],
           entry' \in [Name -> Inode \union {None}],
           \A k, m \in Name : entry'[k] = entry'[m] /\ entry'[k] /= None => k = m,
           \A m \in Name : entry'[m] = None \/ \E k \in Name : entry[k] = entry'[m]
    PROVE  StoreOK'
  <1>1. disk \in [Inode -> Seq(Byte)] /\ \A j \in Inode : Len(disk[j]) <= MaxLen
    BY DEF StoreOK
  <1>2. /\ disk' \in [Inode -> Seq(Byte)]
        /\ \A j \in Inode : Len(disk'[j]) <= MaxLen
        /\ \A g \in Open' : file'[g].inode \in Inode => disk'[file'[g].inode] = disk[file'[g].inode]
    BY <1>1, Freed
  <1>3. ASSUME NEW g \in Open' PROVE Len(Seen(g)') <= MaxLen
    <2>1. g \in Open /\ file'[g] = file[g] /\ file[g].inode \in Inode
      BY OpenFile DEF Stream
    <2>2. Seen(g)' = Seen(g)
      BY <1>2, <2>1 DEF Seen
    <2> QED
      BY <2>1, <2>2, OpenFile
  <1>4. \A f, g \in Open' : file'[f].inode = file'[g].inode => f = g
    BY DEF StoreOK, Separate
  <1>5. ASSUME NEW g \in Open', NEW m \in Name, entry'[m] = file'[g].inode
        PROVE  file'[g].registered
    <2>1. g \in Open /\ file'[g] = file[g] /\ file[g].inode \in Inode
      BY OpenFile DEF Stream
    <2>2. PICK k \in Name : entry[k] = file[g].inode
      BY <1>5, <2>1, NoneAssumption
    <2>3. file[g].registered
      BY <2>1, <2>2, Zenon DEF StoreOK, Separate
    <2> QED
      BY <2>1, <2>3
  <1>6. Separate'
    BY <1>4, <1>5 DEF Separate
  <1> QED
    BY <1>2, <1>3, <1>6 DEF StoreOK

LEMMA DeleteOK == ASSUME StoreOK, RidersOK, NEW n \in Name, Delete(n)
                  PROVE  StoreOK' /\ RidersOK'
  <1>1. UNCHANGED <<file, rider>> /\ FreeUnused(disk) /\ Open' = Open
    BY DEF Delete, Open
  <1>2. entry' \in [Name -> Inode \union {None}]
        /\ \A m \in Name : entry'[m] = None \/ entry'[m] = entry[m]
    BY DEF Delete, StoreOK
  <1>3. \A k, m \in Name : entry'[k] = entry'[m] /\ entry'[k] /= None => k = m
    BY <1>2 DEF StoreOK, Separate
  <1>4. file' \in [Handle -> Stream \union {None}] /\ \A g \in Open' : file'[g] = file[g]
    BY <1>1 DEF StoreOK
  <1>5. StoreOK'
    BY <1>1, <1>2, <1>3, <1>4, Freeing
  <1> QED
    BY <1>1, <1>5, SameRiders

LEMMA RenameOK == ASSUME StoreOK, RidersOK, NEW old \in Name, NEW new \in Name, Rename(old, new)
                  PROVE  StoreOK' /\ RidersOK'
  <1>1. UNCHANGED <<file, rider>> /\ FreeUnused(disk) /\ Open' = Open
    BY DEF Rename, Open
  <1>2. /\ entry' \in [Name -> Inode \union {None}]
        /\ entry'[new] = entry[old]
        /\ old /= new => entry'[old] = None
        /\ \A m \in Name \ {old, new} : entry'[m] = entry[m]
    BY DEF Rename, StoreOK
  <1>3. \A k, m \in Name : entry'[k] = entry'[m] /\ entry'[k] /= None => k = m
    <2>1. \A k, m \in Name : entry[k] = entry[m] /\ entry[k] /= None => k = m
      BY DEF StoreOK, Separate
    <2> QED
      BY <1>2, <2>1
  <1>4. file' \in [Handle -> Stream \union {None}] /\ \A g \in Open' : file'[g] = file[g]
    BY <1>1 DEF StoreOK
  <1>5. \A m \in Name : entry'[m] = None \/ \E k \in Name : entry[k] = entry'[m]
    BY DEF Rename, StoreOK
  <1>6. StoreOK'
    BY <1>1, <1>2, <1>3, <1>4, <1>5, Freeing
  <1> QED
    BY <1>1, <1>6, SameRiders

LEMMA ForgetOK == ASSUME StoreOK, RidersOK, NEW h \in Handle, Forget(h)
                  PROVE  StoreOK' /\ RidersOK'
  <1>1. /\ h \in Open /\ UNCHANGED entry /\ FreeUnused(disk)
        /\ file' = [file EXCEPT ![h] = None]
        /\ rider' = [r \in Rider |-> IF SetOn(r, h) THEN None ELSE rider[r]]
    BY DEF Forget
  <1>2. /\ file' \in [Handle -> Stream \union {None}]
        /\ Open' = Open \ {h} /\ \A g \in Open' : file'[g] = file[g]
    BY <1>1 DEF StoreOK, Open
  <1>3. /\ entry' \in [Name -> Inode \union {None}]
        /\ \A k, m \in Name : entry'[k] = entry'[m] /\ entry'[k] /= None => k = m
    BY <1>1 DEF StoreOK, Separate
  <1>4. StoreOK'
    BY <1>1, <1>2, <1>3, Freeing
  <1>5. RidersOK'
    BY <1>1, <1>2 DEF RidersOK, SetOn
  <1> QED
    BY <1>4, <1>5

LEMMA KillOK == ASSUME StoreOK, RidersOK, Kill PROVE StoreOK' /\ RidersOK'
  <1>1. /\ UNCHANGED entry /\ FreeUnused(disk)
        /\ file' = [h \in Handle |-> None] /\ rider' = [r \in Rider |-> None]
    BY DEF Kill
  <1>2. file' \in [Handle -> Stream \union {None}] /\ Open' = {}
    BY <1>1 DEF Open
  <1>3. /\ entry' \in [Name -> Inode \union {None}]
        /\ \A k, m \in Name : entry'[k] = entry'[m] /\ entry'[k] /= None => k = m
    BY <1>1 DEF StoreOK, Separate
  <1>4. StoreOK'
    BY <1>1, <1>2, <1>3, Freeing
  <1> QED
    BY <1>1, <1>4 DEF RidersOK

-----------------------------------------------------------------------------
(* Closing a file and asking for its length only write its buffer back.    *)
LEMMA WriteBackOK == ASSUME StoreOK, RidersOK, NEW h \in Open, WriteBack(h), UNCHANGED <<entry, rider>>
                     PROVE  StoreOK' /\ RidersOK'
  BY WriteBackStore, SameRiders

LEMMA SetOK == ASSUME StoreOK, RidersOK, NEW r \in Rider, NEW h \in Handle,
                      NEW pos \in 0 .. MaxLen, Set(r, h, pos)
               PROVE  StoreOK' /\ RidersOK'
  <1> DEFINE p == [base |-> h, pos |-> pos, eof |-> FALSE]
  <1>1. h \in Open /\ WriteBack(h) /\ UNCHANGED entry /\ rider' = [rider EXCEPT ![r] = p]
    BY DEF Set
  <1>2. StoreOK' /\ Open' = Open
    BY <1>1, WriteBackStore
  <1>3. p \in Position /\ p.base = h /\ p.pos = pos /\ pos <= MaxLen
    BY LengthAssumption DEF Position
  <1> HIDE DEF p
  <1>4. RidersOK'
    BY <1>1, <1>2, <1>3 DEF RidersOK
  <1> QED
    BY <1>2, <1>4

(* A rider that is set, and how far it may go.                             *)
LEMMA SetRider ==
    ASSUME StoreOK, RidersOK, NEW r \in Rider, rider[r] /= None
    PROVE  /\ rider[r] \in Position /\ rider[r].base \in Open
           /\ rider[r].pos \in Nat /\ rider[r].pos <= MaxLen
           /\ Rest(r) \in Seq(Byte) /\ Len(Rest(r)) \in Nat
           /\ \A k \in Nat : k <= Len(Rest(r)) => rider[r].pos + k <= MaxLen
  <1>1. rider[r] \in Position /\ rider[r].base \in Open /\ rider[r].pos \in Nat /\ rider[r].pos <= MaxLen
    BY DEF RidersOK, Position
  <1> DEFINE s == Seen(rider[r].base)
             p == rider[r].pos
  <1>2. s \in Seq(Byte) /\ Len(s) \in Nat /\ Len(s) <= MaxLen
    BY <1>1, OpenFile
  <1>3. Rest(r) = SubSeq(s, p + 1, Len(s))
    BY DEF Rest
  <1> HIDE DEF s, p
  <1>4. p \in Nat /\ p <= MaxLen
    BY <1>1 DEF p
  <1>5. /\ SubSeq(s, p + 1, Len(s)) \in Seq(Byte)
        /\ Len(SubSeq(s, p + 1, Len(s))) = IF p + 1 <= Len(s) THEN Len(s) - p ELSE 0
    BY <1>2, <1>4
  <1>6. \A k \in Nat : k <= Len(Rest(r)) => p + k <= MaxLen
    BY <1>2, <1>3, <1>4, <1>5, LengthAssumption
  <1>7. Rest(r) \in Seq(Byte) /\ Len(Rest(r)) \in Nat
    BY <1>2, <1>3, <1>4, <1>5
  <1>8. \A k \in Nat : k <= Len(Rest(r)) => rider[r].pos + k <= MaxLen
    BY <1>6 DEF p
  <1> QED
    BY <1>1, <1>4, <1>7, <1>8 DEF p

(* A rider moves within its file.                                          *)
Moves(r, k) ==
    \E p \in Position :
       /\ rider' = [rider EXCEPT ![r] = p]
       /\ p.base = rider[r].base /\ p.pos = rider[r].pos + k

LEMMA MovedPosition ==
    ASSUME NEW q \in Position, NEW k \in Nat, NEW e \in BOOLEAN
    PROVE  /\ [q EXCEPT !.pos = @ + k] \in Position
           /\ [q EXCEPT !.pos = @ + k].base = q.base
           /\ [q EXCEPT !.pos = @ + k].pos = q.pos + k
           /\ [[q EXCEPT !.pos = @ + k] EXCEPT !.eof = e] \in Position
           /\ [[q EXCEPT !.pos = @ + k] EXCEPT !.eof = e].base = q.base
           /\ [[q EXCEPT !.pos = @ + k] EXCEPT !.eof = e].pos = q.pos + k
  <1> DEFINE p == [q EXCEPT !.pos = @ + k]
  <1>1. p \in Position /\ p.base = q.base /\ p.pos = q.pos + k
    BY DEF Position
  <1> HIDE DEF p
  <1>2. [p EXCEPT !.eof = e] \in Position
        /\ [p EXCEPT !.eof = e].base = p.base /\ [p EXCEPT !.eof = e].pos = p.pos
    BY <1>1 DEF Position
  <1> QED
    BY <1>1, <1>2 DEF p

LEMMA Moving ==
    ASSUME StoreOK, RidersOK, NEW r \in Rider, rider[r] /= None, NEW k \in Nat,
           Advance(r, k) \/ AtEnd(r, k)
    PROVE  Moves(r, k)
  <1> DEFINE q == rider[r]
             p1 == [q EXCEPT !.pos = @ + k]
             p2(e) == [[q EXCEPT !.pos = @ + k] EXCEPT !.eof = e]
  <1>1. q \in Position
    BY DEF RidersOK
  <1>2. rider' = [rider EXCEPT ![r] = p1] \/ rider' = [rider EXCEPT ![r] = p2(TRUE)]
    BY DEF Advance, AtEnd, RidersOK
  <1>3. /\ p1 \in Position /\ p1.base = q.base /\ p1.pos = q.pos + k
        /\ \A e \in BOOLEAN : p2(e) \in Position /\ p2(e).base = q.base /\ p2(e).pos = q.pos + k
    BY <1>1, MovedPosition
  <1> HIDE DEF p1, p2
  <1> QED
    BY <1>2, <1>3 DEF Moves

LEMMA MoveOK ==
    ASSUME StoreOK, RidersOK, NEW r \in Rider, rider[r] /= None, NEW k \in Nat,
           Moves(r, k), rider[r].pos + k <= MaxLen, StoreOK', Open' = Open
    PROVE  StoreOK' /\ RidersOK'
  <1>1. PICK p \in Position : /\ rider' = [rider EXCEPT ![r] = p]
                              /\ p.base = rider[r].base /\ p.pos = rider[r].pos + k
    BY DEF Moves
  <1>2. p.base \in Open /\ p.pos <= MaxLen
    BY <1>1, SetRider
  <1> QED
    BY <1>1, <1>2 DEF RidersOK

(* A read takes at most the rest of the file.                              *)
LEMMA ReadOK ==
    ASSUME StoreOK, RidersOK, NEW r \in Rider, Seek(r), UNCHANGED entry,
           NEW k \in Nat, k <= Len(Rest(r)), Moves(r, k)
    PROVE  StoreOK' /\ RidersOK'
  <1>1. rider[r] /= None /\ WriteBack(rider[r].base)
    BY DEF Seek
  <1>2. rider[r].base \in Open /\ rider[r].pos + k <= MaxLen
    BY <1>1, SetRider
  <1>3. StoreOK' /\ Open' = Open
    BY <1>1, <1>2, WriteBackStore
  <1> QED
    BY <1>1, <1>2, <1>3, MoveOK

LEMMA ReadFixedOK == ASSUME StoreOK, RidersOK, NEW r \in Rider, NEW kind, NEW n \in Nat, ReadFixed(r, kind, n)
                     PROVE  StoreOK' /\ RidersOK'
  <1>1. Seek(r) /\ UNCHANGED entry /\ rider[r] /= None
    BY DEF ReadFixed, Seek
  <1>2. Len(Rest(r)) \in Nat
    BY <1>1, SetRider
  <1>3. \E k \in {0, n} : k <= Len(Rest(r)) /\ (Advance(r, k) \/ AtEnd(r, k))
    BY <1>2 DEF ReadFixed
  <1>4. PICK k \in Nat : k <= Len(Rest(r)) /\ (Advance(r, k) \/ AtEnd(r, k))
    BY <1>3
  <1> QED
    BY <1>1, <1>4, Moving, ReadOK

LEMMA ReadNumOK == ASSUME StoreOK, RidersOK, NEW r \in Rider, ReadNum(r)
                   PROVE  StoreOK' /\ RidersOK'
  <1>1. Seek(r) /\ UNCHANGED entry /\ rider[r] /= None
    BY DEF ReadNum, Seek
  <1>2. Len(Rest(r)) \in Nat
    BY <1>1, SetRider
  <1>3. PICK k \in 0 .. MaxLen : /\ Leading(Rest(r), Continued, k)
                                 /\ \/ k < Len(Rest(r)) /\ Advance(r, k + 1)
                                    \/ AtEnd(r, k)
    BY DEF ReadNum
  <1>4. k \in Nat /\ k + 1 \in Nat /\ k <= Len(Rest(r))
    BY <1>2, <1>3, LengthAssumption DEF Leading
  <1>5. \E j \in Nat : j <= Len(Rest(r)) /\ (Advance(r, j) \/ AtEnd(r, j))
    <2>1. CASE k < Len(Rest(r)) /\ Advance(r, k + 1)
      <3>1. k + 1 <= Len(Rest(r))
        BY <1>2, <1>4, <2>1
      <3> QED
        BY <1>4, <2>1, <3>1
    <2>2. CASE AtEnd(r, k)
      BY <1>4, <2>2
    <2> QED
      BY <1>3, <2>1, <2>2
  <1> QED
    BY <1>1, <1>5, Moving, ReadOK

LEMMA ReadStringOK == ASSUME StoreOK, RidersOK, NEW r \in Rider, NEW n \in Amount, ReadString(r, n)
                      PROVE  StoreOK' /\ RidersOK'
  <1>1. Seek(r) /\ UNCHANGED entry /\ rider[r] /= None
    BY DEF ReadString, Seek
  <1>2. Len(Rest(r)) \in Nat
    BY <1>1, SetRider
  <1>3. PICK len \in 0 .. MaxLen :
           \/ ShorterOf(len, n - 1) < Len(Rest(r)) /\ Advance(r, ShorterOf(len, n - 1) + 1)
           \/ AtEnd(r, 0)
    BY DEF ReadString
  <1> DEFINE k == ShorterOf(len, n - 1)
  <1>4. k \in Nat
    BY LengthAssumption DEF ShorterOf
  <1> HIDE DEF k
  <1>5. \E j \in Nat : j <= Len(Rest(r)) /\ (Advance(r, j) \/ AtEnd(r, j))
    <2>1. CASE k < Len(Rest(r)) /\ Advance(r, k + 1)
      <3>1. k + 1 \in Nat /\ k + 1 <= Len(Rest(r))
        BY <1>2, <1>4, <2>1
      <3> QED
        BY <2>1, <3>1
    <2>2. CASE AtEnd(r, 0)
      BY <1>2, <2>2
    <2> QED
      BY <1>3, <2>1, <2>2 DEF k
  <1> QED
    BY <1>1, <1>5, Moving, ReadOK

LEMMA ReadBytesOK == ASSUME StoreOK, RidersOK, NEW r \in Rider, NEW n \in Amount, ReadBytes(r, n)
                     PROVE  StoreOK' /\ RidersOK'
  <1>1. Seek(r) /\ UNCHANGED entry /\ rider[r] /= None
    BY DEF ReadBytes, Seek
  <1> DEFINE rest == Rest(r)
             taken == SubSeq(rest, 1, ShorterOf(n, Len(rest)))
             k == Len(taken)
             q == rider[r]
             p(e) == [[q EXCEPT !.pos = @ + k] EXCEPT !.eof = e]
  <1>2. rest \in Seq(Byte) /\ Len(rest) \in Nat /\ q \in Position
    BY <1>1, SetRider
  <1>3. k \in Nat /\ k <= Len(rest)
    <2>1. ShorterOf(n, Len(rest)) \in 0 .. Len(rest)
      BY <1>2, LengthAssumption DEF ShorterOf
    <2> QED
      BY <1>2, <2>1
  <1>4. rider' = [rider EXCEPT ![r] = p(q.eof \/ k < n)]
    BY DEF ReadBytes, RidersOK
  <1> HIDE DEF k, taken
  <1>5. \A e \in BOOLEAN : p(e) \in Position /\ p(e).base = q.base /\ p(e).pos = q.pos + k
    BY <1>2, <1>3, MovedPosition
  <1>6. (q.eof \/ k < n) \in BOOLEAN
    OBVIOUS
  <1> HIDE DEF p
  <1>7. Moves(r, k)
    BY <1>4, <1>5, <1>6 DEF Moves
  <1> QED
    BY <1>1, <1>3, <1>7, ReadOK

(* The items written are bytes.                                            *)
LEMMA ItemBytes == ASSUME NEW bytes \in Item PROVE bytes \in Seq(Byte)
  <1>1. bytes \in Seq(Nat)
    BY ItemAssumption
  <1>2. \A i \in 1 .. Len(bytes) : bytes[i] \in Byte
    BY DEF Byte
  <1> QED
    BY <1>1, <1>2

LEMMA WriteStore == ASSUME StoreOK, RidersOK, NEW r \in Rider, NEW bytes \in Item, Write(r, bytes)
                    PROVE  StoreOK' /\ RidersOK' /\ Open' = Open
  <1> DEFINE h == rider[r].base
             p == rider[r].pos
  <1>1. /\ rider[r] /= None /\ UNCHANGED entry /\ Advance(r, Len(bytes))
        /\ Len(Overwrite(Seen(h), p, bytes)) <= MaxLen
        /\ disk' = [disk EXCEPT ![file[h].inode] = Seen(h)]
        /\ file' = [file EXCEPT ![h].from = p, ![h].bytes = bytes]
    BY DEF Write
  <1>2. h \in Open /\ p \in Nat /\ p <= MaxLen
    BY <1>1, SetRider
  <1>3. bytes \in Seq(Byte) /\ Len(bytes) \in Nat
    BY ItemBytes
  <1>4. Seen(h) \in Seq(Byte) /\ Len(Seen(h)) \in Nat
    BY <1>2, OpenFile
  <1>5. p + Len(bytes) <= MaxLen
    <2>1. CASE bytes = <<>>
      BY <1>2, <2>1
    <2>2. CASE bytes /= <<>>
      <3>1. Len(Overwrite(Seen(h), p, bytes)) = LongerOf(Len(Seen(h)), p + Len(bytes))
        BY <1>2, <1>3, <1>4, <2>2, OverwriteSeq
      <3> QED
        BY <1>1, <1>2, <1>3, <1>4, <3>1, LengthAssumption DEF LongerOf
    <2> QED
      BY <2>1, <2>2
  <1> HIDE DEF h, p
  <1>6. StoreOK' /\ Open' = Open
    BY <1>1, <1>2, <1>3, Rebuffer
  <1>7. Moves(r, Len(bytes))
    BY <1>1, <1>3, Moving
  <1> QED
    BY <1>1, <1>3, <1>5, <1>6, <1>7, MoveOK DEF p

LEMMA WriteOK == ASSUME StoreOK, RidersOK, NEW r \in Rider, NEW bytes \in Item, Write(r, bytes)
                 PROVE  StoreOK' /\ RidersOK'
  BY WriteStore

-----------------------------------------------------------------------------
LEMMA NextOK == ASSUME Ordinary, StoreOK, RidersOK, [Next]_vars
                PROVE  StoreOK' /\ RidersOK'
  <1>1. ASSUME NEW h \in Handle, NEW n \in Name, Old(h, n) \/ New(h, n)
        PROVE  StoreOK' /\ RidersOK'
    BY <1>1, OldOK, NewOK
  <1>2. ASSUME NEW h \in Handle, Register(h) \/ Purge(h) \/ Forget(h)
        PROVE  StoreOK' /\ RidersOK'
    BY <1>2, RegisterOK, PurgeOK, ForgetOK
  <1>3. ASSUME NEW h \in Handle, Close(h) \/ Length(h)
        PROVE  StoreOK' /\ RidersOK'
    BY <1>3, WriteBackOK DEF Close, Length
  <1>4. ASSUME NEW n \in Name, Delete(n) PROVE StoreOK' /\ RidersOK'
    BY <1>4, DeleteOK
  <1>5. ASSUME NEW old \in Name, NEW new \in Name, Rename(old, new) PROVE StoreOK' /\ RidersOK'
    BY <1>5, RenameOK
  <1>6. ASSUME NEW r \in Rider, NEW h \in Handle, NEW pos \in 0 .. MaxLen, Set(r, h, pos)
        PROVE  StoreOK' /\ RidersOK'
    BY <1>6, SetOK
  <1>7. ASSUME NEW r \in Rider, ReadFixed(r, "byte", 1) \/ ReadFixed(r, "word", WordLen) \/ ReadNum(r)
        PROVE  StoreOK' /\ RidersOK'
    BY <1>7, ReadFixedOK, ReadNumOK, LengthAssumption
  <1>8. ASSUME NEW r \in Rider, NEW n \in Amount, ReadString(r, n) \/ ReadBytes(r, n)
        PROVE  StoreOK' /\ RidersOK'
    BY <1>8, ReadStringOK, ReadBytesOK
  <1>9. ASSUME NEW r \in Rider, NEW bytes \in Item, Write(r, bytes)
        PROVE  StoreOK' /\ RidersOK'
    BY <1>9, WriteOK
  <1>10. CASE UNCHANGED vars
    <2>1. Open' = Open /\ \A h \in Open : Seen(h)' = Seen(h)
      BY <1>10 DEF vars, Open, Seen
    <2> QED
      BY <1>10, <2>1 DEF vars, StoreOK, RidersOK, Separate
  <1>11. CASE Kill
    BY <1>11, KillOK
  <1> QED
    BY <1>1, <1>2, <1>3, <1>4, <1>5, <1>6, <1>7, <1>8, <1>9, <1>10, <1>11 DEF Next

(* Every call that takes away the last name or stream of a file clears it, *)
(* and no other call writes into a file that nobody uses.                  *)
LEMMA WriteCleared ==
    ASSUME StoreOK, Cleared, NEW h \in Open, NEW s, NEW p, NEW b, UNCHANGED entry, StoreOK',
           disk' = [disk EXCEPT ![file[h].inode] = s],
           file' = [file EXCEPT ![h].from = p, ![h].bytes = b], Open' = Open
    PROVE  Cleared'
  <1>1. file[h].inode \in InUse
    BY DEF InUse
  <1>2. \A g \in Open : file'[g].inode = file[g].inode
    <2>1. file \in [Handle -> Stream \union {None}] /\ \A g \in Open : g \in Handle /\ file[g] \in Stream
      BY OpenFile DEF StoreOK
    <2>2. file'[h].inode = file[h].inode
      BY <2>1 DEF Stream
    <2>3. \A g \in Open \ {h} : file'[g] = file[g]
      BY <2>1
    <2> QED
      BY <2>2, <2>3
  <1>3. InUse' = InUse
    BY <1>2 DEF InUse
  <1> QED
    BY <1>1, <1>3 DEF Cleared, StoreOK

LEMMA FreeCleared == ASSUME NEW d, FreeUnused(d) PROVE Cleared'
  BY DEF FreeUnused, Cleared

LEMMA ClearedOK == ASSUME Ordinary, StoreOK, RidersOK, Cleared, [Next]_vars, StoreOK'
                   PROVE  Cleared'
  <1>1. ASSUME NEW h \in Handle, NEW n \in Name, Old(h, n) \/ New(h, n)
        PROVE  Cleared'
    <2>1. \A g \in Handle \ {h} : file'[g] = file[g]
      BY <1>1 DEF Old, New, NewFile, StoreOK
    <2>2. file[h] = None /\ UNCHANGED <<disk, entry>>
      BY <1>1 DEF Old, New
    <2>3. InUse \subseteq InUse'
      BY <2>1, <2>2 DEF InUse, Open
    <2> QED
      BY <2>2, <2>3 DEF Cleared
  <1>2. ASSUME NEW h \in Handle, Register(h) \/ Purge(h) \/ Forget(h)
        PROVE  Cleared'
    BY <1>2, FreeCleared DEF Register, Purge, Forget
  <1>3. ASSUME NEW n \in Name, Delete(n) PROVE Cleared'
    BY <1>3, FreeCleared DEF Delete
  <1>4. ASSUME NEW old \in Name, NEW new \in Name, Rename(old, new) PROVE Cleared'
    BY <1>4, FreeCleared DEF Rename
  <1>5. ASSUME NEW h \in Open, WriteBack(h), UNCHANGED entry PROVE Cleared'
    <2>1. Open' = Open
      BY <1>5, WriteBackStore
    <2> QED
      BY <1>5, <2>1, WriteCleared DEF WriteBack
  <1>6. ASSUME NEW h \in Handle, Close(h) \/ Length(h) PROVE Cleared'
    BY <1>5, <1>6 DEF Close, Length
  <1>7. ASSUME NEW r \in Rider, NEW h \in Handle, NEW pos \in 0 .. MaxLen, Set(r, h, pos)
        PROVE  Cleared'
    BY <1>5, <1>7 DEF Set
  <1>8. ASSUME NEW r \in Rider, Seek(r), UNCHANGED entry PROVE Cleared'
    <2>1. rider[r].base \in Open
      BY <1>8, SetRider DEF Seek
    <2> QED
      BY <1>5, <1>8, <2>1 DEF Seek
  <1>9. ASSUME NEW r \in Rider, ReadFixed(r, "byte", 1) \/ ReadFixed(r, "word", WordLen) \/ ReadNum(r)
        PROVE  Cleared'
    BY <1>8, <1>9 DEF ReadFixed, ReadNum
  <1>10. ASSUME NEW r \in Rider, NEW n \in Amount, ReadString(r, n) \/ ReadBytes(r, n)
         PROVE  Cleared'
    BY <1>8, <1>10 DEF ReadString, ReadBytes
  <1>11. ASSUME NEW r \in Rider, NEW bytes \in Item, Write(r, bytes) PROVE Cleared'
    <2>1. rider[r].base \in Open
      BY <1>11, SetRider DEF Write
    <2>2. Open' = Open
      BY <1>11, WriteStore
    <2> QED
      BY <1>11, <2>1, <2>2, WriteCleared DEF Write
  <1>12. CASE UNCHANGED vars
    BY <1>12 DEF vars, Cleared, InUse, Open
  <1>13. CASE Kill
    BY <1>13, FreeCleared DEF Kill
  <1> QED
    BY <1>1, <1>2, <1>3, <1>4, <1>6, <1>7, <1>9, <1>10, <1>11, <1>12, <1>13 DEF Next

(* In ordinary use, whatever is opened, written, registered, purged,       *)
(* renamed and deleted in whatever order, no file of lib/obnc/Files.c is   *)
(* reached in two ways, and every rider stays on an open file, within the  *)
(* length that files have.                                                 *)
THEOREM FilesInvariant == ASSUME Ordinary PROVE Spec => []FilesInv
  <1>1. Init => FilesInv
    BY InitOK, Parts DEF Init, Cleared
  <1>2. FilesInv /\ [Next]_vars => FilesInv'
    <2>1. FilesInv' <=> StoreOK' /\ RidersOK' /\ Cleared'
      BY DEF FilesInv, TypeOK, Within, StoreOK, RidersOK
    <2> QED
      BY <2>1, NextOK, ClearedOK, Parts
  <1> QED
    BY <1>1, <1>2, PTL DEF Spec

-----------------------------------------------------------------------------
(* The refinement of FilePromise: what handles and names stand for before  *)
(* and after a call.                                                       *)
Named(n, v) ==
    \/ v \in Open /\ file[v].inode = entry[n]
    \/ /\ entry[n] /= None /\ \A g \in Open : file[g].inode /= entry[n]
       /\ v = disk[entry[n]]
    \/ entry[n] = None /\ v = None

NewNamed(n, v) ==
    \/ v \in Open' /\ file'[v].inode = entry'[n]
    \/ /\ entry'[n] /= None /\ \A g \in Open' : file'[g].inode /= entry'[n]
       /\ v = disk'[entry'[n]]
    \/ entry'[n] = None /\ v = None

LEMMA TextIs ==
    ASSUME StoreOK
    PROVE  /\ Text = [h \in Handle |-> Text[h]]
           /\ \A h \in Open : Text[h] = Seen(h) /\ Text[h] \in Seq(Byte) /\ Text[h] /= None
           /\ \A h \in Handle \ Open : Text[h] = None
  <1>1. Text = [h \in Handle |-> IF file[h] = None THEN None ELSE Seen(h)]
    BY DEF Text
  <1>2. Text = [h \in Handle |-> Text[h]]
    BY DEF Text
  <1>3. \A h \in Open : Seen(h) \in Seq(Byte) /\ h \in Handle /\ file[h] /= None
    BY OpenFile DEF Open
  <1>4. \A h \in Handle \ Open : file[h] = None
    BY DEF Open
  <1>5. \A h \in Handle : Text[h] = IF file[h] = None THEN None ELSE Seen(h)
    BY <1>1
  <1>6. \A h \in Open : Seen(h) /= None
    BY <1>3, HandleAssumption
  <1> QED
    BY <1>2, <1>3, <1>4, <1>5, <1>6

(* What is in the buffers of the others stays there; h is written back     *)
(* unless its stream has bytes in its buffer.                              *)
LEMMA OthersSaved ==
    ASSUME NEW h, \A g \in Open' \ {h} : g \in Open /\ file'[g] = file[g]
    PROVE  /\ Unsaved' \subseteq Unsaved \union {h}
           /\ (h \in Open' => file'[h].bytes = <<>>) => Unsaved' \subseteq Unsaved \ {h}
  BY DEF Unsaved

LEMMA NewText ==
    ASSUME NEW t, t = [h \in Handle |-> t[h]], \A h \in Open' : t[h] = Seen(h)',
           \A h \in Handle \ Open' : t[h] = None
    PROVE  Text' = t
  <1>1. \A h \in Handle : t[h] = IF file'[h] = None THEN None ELSE Seen(h)'
    BY DEF Open
  <1>2. [h \in Handle |-> t[h]] = [h \in Handle |-> IF file'[h] = None THEN None ELSE Seen(h)']
    BY <1>1
  <1>3. Text' = [h \in Handle |-> IF file'[h] = None THEN None ELSE Seen(h)']
    BY DEF Text
  <1> QED
    BY <1>2, <1>3

LEMMA DirIs ==
    ASSUME StoreOK
    PROVE  /\ Dir = [n \in Name |-> Dir[n]]
           /\ \A n \in Name : Named(n, Dir[n])
  <1>1. Dir = [n \in Name |-> Dir[n]]
    BY DEF Dir
  <1>2. ASSUME NEW n \in Name PROVE Named(n, Dir[n])
    <2>1. CASE \E h \in Open : file[h].inode = entry[n]
      <3>1. Dir[n] = CHOOSE h \in Open : file[h].inode = entry[n]
        BY <2>1 DEF Dir
      <3>2. Dir[n] \in Open /\ file[Dir[n]].inode = entry[n]
        BY <2>1, <3>1
      <3> QED
        BY <3>2 DEF Named
    <2>2. CASE ~ \E h \in Open : file[h].inode = entry[n]
      <3>1. Dir[n] = IF entry[n] = None THEN None ELSE disk[entry[n]]
        BY <2>2 DEF Dir
      <3> QED
        BY <2>2, <3>1 DEF Named
    <2> QED
      BY <2>1, <2>2
  <1> QED
    BY <1>1, <1>2

LEMMA NewDir ==
    ASSUME StoreOK', NEW d, d = [n \in Name |-> d[n]], \A n \in Name : NewNamed(n, d[n])
    PROVE  Dir' = d
  <1>1. ASSUME NEW n \in Name
        PROVE  d[n] = IF \E h \in Open' : file'[h].inode = entry'[n]
                      THEN CHOOSE h \in Open' : file'[h].inode = entry'[n]
                      ELSE IF entry'[n] = None THEN None ELSE disk'[entry'[n]]
    <2>1. CASE \E h \in Open' : file'[h].inode = entry'[n]
      <3>1. PICK h \in Open' : file'[h].inode = entry'[n]
        BY <2>1
      <3>2. entry'[n] /= None
        BY <3>1, NoneAssumption DEF StoreOK, Stream, Open
      <3>3. d[n] \in Open' /\ file'[d[n]].inode = entry'[n]
        BY <2>1, <3>2 DEF NewNamed
      <3>4. \A g \in Open' : file'[g].inode = entry'[n] => g = d[n]
        BY <3>3 DEF StoreOK, Separate
      <3>5. (CHOOSE g \in Open' : file'[g].inode = entry'[n]) = d[n]
        BY <3>3, <3>4
      <3> QED
        BY <2>1, <3>5
    <2>2. CASE ~ \E h \in Open' : file'[h].inode = entry'[n]
      <3>1. d[n] = IF entry'[n] = None THEN None ELSE disk'[entry'[n]]
        BY <2>2 DEF NewNamed
      <3> QED
        BY <2>2, <3>1
    <2> QED
      BY <2>1, <2>2
  <1>2. Dir' = [n \in Name |-> IF \E h \in Open' : file'[h].inode = entry'[n]
                               THEN CHOOSE h \in Open' : file'[h].inode = entry'[n]
                               ELSE IF entry'[n] = None THEN None ELSE disk'[entry'[n]]]
    BY DEF Dir
  <1> QED
    BY <1>1, <1>2

(* An access to an open file changes what its handle stands for, if        *)
(* anything.                                                               *)
LEMMA Accessed ==
    ASSUME StoreOK, NEW h \in Open, NEW p \in Nat, NEW b \in Seq(Byte), UNCHANGED entry,
           disk' = [disk EXCEPT ![file[h].inode] = Seen(h)],
           file' = [file EXCEPT ![h].from = p, ![h].bytes = b],
           StoreOK', Open' = Open
    PROVE  /\ Dir' = Dir /\ Text' = [Text EXCEPT ![h] = Overwrite(Seen(h), p, b)]
           /\ Unsaved' \subseteq Unsaved \union {h}
           /\ b = <<>> => Unsaved' \subseteq Unsaved \ {h}
  <1> DEFINE i == file[h].inode
             t == [Text EXCEPT ![h] = Overwrite(Seen(h), p, b)]
  <1>1. h \in Handle /\ i \in Inode /\ \A g \in Open : g \in Handle /\ file[g] \in Stream
    BY OpenFile DEF Stream
  <1>2. disk'[i] = Seen(h) /\ \A j \in Inode \ {i} : disk'[j] = disk[j]
    BY <1>1 DEF StoreOK
  <1>3. /\ file'[h].inode = i /\ file'[h].from = p /\ file'[h].bytes = b
        /\ \A g \in Open \ {h} : file'[g] = file[g]
    <2>1. file \in [Handle -> Stream \union {None}]
      BY DEF StoreOK
    <2> QED
      BY <1>1, <2>1 DEF Stream
  <1>4. Seen(h)' = Overwrite(Seen(h), p, b)
    BY <1>2, <1>3 DEF Seen
  <1>5. \A g \in Open \ {h} : file[g].inode \in Inode \ {i}
    BY <1>1 DEF StoreOK, Separate, Stream
  <1>6. \A g \in Open \ {h} : Seen(g)' = Seen(g)
    BY <1>2, <1>3, <1>5 DEF Seen
  <1>7. t = [g \in Handle |-> t[g]] /\ t[h] = Overwrite(Seen(h), p, b)
        /\ \A g \in Handle \ {h} : t[g] = Text[g]
    BY <1>1, TextIs
  <1> HIDE DEF t
  <1>8. \A g \in Open' : t[g] = Seen(g)'
    BY <1>1, <1>4, <1>6, <1>7, TextIs
  <1>9. \A g \in Handle \ Open' : t[g] = None
    BY <1>7, TextIs
  <1>10. Text' = t
    BY <1>7, <1>8, <1>9, NewText
  <1>11. ASSUME NEW n \in Name PROVE NewNamed(n, Dir[n])
    <2>1. Named(n, Dir[n])
      BY DirIs
    <2>2. \A g \in Open : file'[g].inode = file[g].inode
      BY <1>3
    <2>3. entry[n] /= None /\ (\A g \in Open : file[g].inode /= entry[n]) => disk'[entry[n]] = disk[entry[n]]
      BY <1>2 DEF StoreOK
    <2> QED
      BY <2>1, <2>2, <2>3 DEF Named, NewNamed
  <1>12. Dir' = Dir
    BY <1>11, DirIs, NewDir
  <1>13. \A g \in Open' \ {h} : g \in Open /\ file'[g] = file[g]
    BY <1>3
  <1>14. /\ Unsaved' \subseteq Unsaved \union {h}
         /\ b = <<>> => Unsaved' \subseteq Unsaved \ {h}
    BY <1>3, <1>13, OthersSaved
  <1> QED
    BY <1>10, <1>12, <1>14 DEF t

(* Writing the buffer back changes nothing.                                *)
LEMMA WrittenBack ==
    ASSUME StoreOK, NEW h \in Open, WriteBack(h), UNCHANGED entry
    PROVE  Dir' = Dir /\ Text' = Text /\ Unsaved' \subseteq Unsaved \ {h}
  <1>1. StoreOK' /\ Open' = Open
    BY WriteBackStore
  <1>2. Overwrite(Seen(h), 0, <<>>) = Seen(h) /\ <<>> \in Seq(Byte) /\ 0 \in Nat
    BY DEF Overwrite
  <1>3. /\ Dir' = Dir /\ Text' = [Text EXCEPT ![h] = Overwrite(Seen(h), 0, <<>>)]
        /\ Unsaved' \subseteq Unsaved \ {h}
    BY <1>1, <1>2, Accessed DEF WriteBack
  <1>4. [Text EXCEPT ![h] = Seen(h)] = Text
    BY TextIs, OpenFile
  <1> QED
    BY <1>2, <1>3, <1>4


LEMMA CloseKept == ASSUME StoreOK, NEW h \in Handle, Close(h) PROVE Promise!Close(h)
  <1>1. h \in Open /\ WriteBack(h) /\ UNCHANGED <<entry, rider>> /\ NoResult
    BY DEF Close
  <1>2. Dir' = Dir /\ Text' = Text /\ Text[h] /= None /\ Unsaved' \subseteq Unsaved \ {h}
    BY <1>1, WrittenBack, TextIs
  <1> QED
    BY <1>1, <1>2 DEF Promise!Close, Promise!SavedWith, Promise!NoResult, NoResult

LEMMA LengthKept == ASSUME StoreOK, NEW h \in Handle, Length(h) PROVE Promise!Length(h)
  <1>1. h \in Open /\ WriteBack(h) /\ UNCHANGED <<entry, rider>> /\ out' = <<"length", Len(Seen(h))>>
    BY DEF Length
  <1>2. Dir' = Dir /\ Text' = Text /\ Text[h] = Seen(h) /\ Text[h] /= None
        /\ Unsaved' \subseteq Unsaved
    BY <1>1, WrittenBack, TextIs
  <1> QED
    BY <1>1, <1>2 DEF Promise!Length, Promise!Saved

LEMMA SetKept ==
    ASSUME StoreOK, NEW r \in Rider, NEW h \in Handle, NEW pos \in 0 .. MaxLen, Set(r, h, pos)
    PROVE  Text[h] /= None /\ pos \in 0 .. Len(Text[h]) /\ Promise!Set(r, h, pos)
  <1>1. /\ h \in Open /\ WriteBack(h) /\ UNCHANGED entry /\ NoResult /\ pos \in 0 .. Len(Seen(h))
        /\ rider' = [rider EXCEPT ![r] = [base |-> h, pos |-> pos, eof |-> FALSE]]
    BY DEF Set
  <1>2. Dir' = Dir /\ Text' = Text /\ Text[h] = Seen(h) /\ Text[h] /= None
        /\ Unsaved' \subseteq Unsaved
    BY <1>1, WrittenBack, TextIs
  <1> QED
    BY <1>1, <1>2 DEF Promise!Set, Promise!Saved, Promise!NoResult, NoResult

LEMMA SameOverwrite ==
    ASSUME NEW s \in Seq(Byte), NEW pos \in Nat, NEW bytes \in Seq(Byte)
    PROVE  Promise!Overwrite(s, pos, bytes) = Overwrite(s, pos, bytes)
  <1> DEFINE len == LongerOf(Len(s), pos + Len(bytes))
             at(i) == IF i \in pos + 1 .. pos + Len(bytes) THEN bytes[i - pos]
                      ELSE IF i <= Len(s) THEN s[i] ELSE 0
             bt(i) == CASE i \in pos + 1 .. pos + Len(bytes) -> bytes[i - pos]
                        [] i \notin pos + 1 .. pos + Len(bytes) /\ i <= Len(s) -> s[i]
                        [] OTHER -> 0
  <1>1. \A i \in 1 .. len : at(i) = bt(i)
    OBVIOUS
  <1>2. Promise!LongerOf(Len(s), pos + Len(bytes)) = len
    BY DEF Promise!LongerOf, LongerOf
  <1>3. [i \in 1 .. len |-> at(i)] = [i \in 1 .. len |-> bt(i)]
    BY <1>1
  <1>4. CASE bytes = <<>>
    BY <1>4 DEF Overwrite, Promise!Overwrite
  <1>5. CASE bytes /= <<>>
    <2>1. Overwrite(s, pos, bytes) = [i \in 1 .. len |-> at(i)]
      BY <1>5 DEF Overwrite
    <2>2. Promise!Overwrite(s, pos, bytes) = [i \in 1 .. len |-> bt(i)]
      BY <1>2, <1>5 DEF Promise!Overwrite
    <2> QED
      BY <1>3, <2>1, <2>2
  <1> QED
    BY <1>4, <1>5

LEMMA WriteKept ==
    ASSUME StoreOK, RidersOK, NEW r \in Rider, NEW bytes \in Item, Write(r, bytes)
    PROVE  Promise!Write(r, bytes)
  <1> DEFINE h == rider[r].base
             p == rider[r].pos
  <1>1. /\ rider[r] /= None /\ UNCHANGED entry /\ Advance(r, Len(bytes)) /\ NoResult
        /\ disk' = [disk EXCEPT ![file[h].inode] = Seen(h)]
        /\ file' = [file EXCEPT ![h].from = p, ![h].bytes = bytes]
    BY DEF Write
  <1>2. h \in Open /\ p \in Nat
    BY <1>1, SetRider
  <1>3. bytes \in Seq(Byte) /\ Seen(h) \in Seq(Byte)
    BY <1>2, ItemBytes, OpenFile
  <1>4. StoreOK' /\ Open' = Open
    BY WriteStore
  <1> HIDE DEF h, p
  <1>5. /\ Dir' = Dir /\ Text' = [Text EXCEPT ![h] = Overwrite(Seen(h), p, bytes)]
        /\ Unsaved' \subseteq Unsaved \union {h}
    BY <1>1, <1>2, <1>3, <1>4, Accessed
  <1>6. Overwrite(Seen(h), p, bytes) = Promise!Overwrite(Text[h], p, bytes)
    BY <1>2, <1>3, SameOverwrite, TextIs
  <1>7. Text' = [Text EXCEPT ![h] = Promise!Overwrite(@, p, bytes)]
    BY <1>5, <1>6
  <1> QED
    BY <1>1, <1>5, <1>7 DEF Promise!Write, Promise!SavedBut, Promise!NoResult, NoResult, Advance, h, p


(* The three outcomes of a read.                                           *)
LEMMA Sought ==
    ASSUME StoreOK, RidersOK, NEW r \in Rider, Seek(r), UNCHANGED entry
    PROVE  /\ rider[r] /= None /\ Dir' = Dir /\ Text' = Text /\ Unsaved' \subseteq Unsaved
           /\ Promise!Rest(r) = Rest(r) /\ Rest(r) \in Seq(Byte)
  <1>1. rider[r] /= None /\ WriteBack(rider[r].base)
    BY DEF Seek
  <1>2. rider[r].base \in Open /\ Rest(r) \in Seq(Byte)
    BY <1>1, SetRider
  <1>3. Text[rider[r].base] = Seen(rider[r].base)
    BY <1>2, TextIs
  <1>4. Dir' = Dir /\ Text' = Text /\ Unsaved' \subseteq Unsaved
    BY <1>1, <1>2, WrittenBack
  <1> QED
    BY <1>1, <1>2, <1>3, <1>4 DEF Promise!Rest, Rest

LEMMA Delivered ==
    ASSUME StoreOK, RidersOK, NEW r \in Rider, Seek(r), UNCHANGED entry,
           NEW kind, NEW k \in 0 .. Len(Rest(r)), Promise!IsItem(kind, SubSeq(Rest(r), 1, k)),
           Advance(r, k), out' = <<kind, SubSeq(Rest(r), 1, k)>>
    PROVE  Promise!Read(r, kind)
  BY Sought DEF Promise!Read, Promise!Saved, Advance

LEMMA NothingDelivered ==
    ASSUME StoreOK, RidersOK, NEW r \in Rider, Seek(r), UNCHANGED entry,
           NEW kind, NEW k \in 0 .. Len(Rest(r)), AtEnd(r, k),
           \A n \in 1 .. Len(Rest(r)) : ~Promise!IsItem(kind, SubSeq(Rest(r), 1, n))
    PROVE  Promise!Read(r, kind)
  BY Sought DEF Promise!Read, Promise!Saved, AtEnd

LEMMA TooLong ==
    ASSUME StoreOK, RidersOK, NEW r \in Rider, Seek(r), UNCHANGED entry,
           NEW k \in 1 .. Len(Rest(r)), Advance(r, k), out' = <<"overlong">>,
           \A i \in 1 .. k : SubSeq(Rest(r), 1, k)[i] /= 0
    PROVE  Promise!Read(r, "string")
  <1>1. 0 \notin {SubSeq(Rest(r), 1, k)[i] : i \in 1 .. k}
    OBVIOUS
  <1> DEFINE len == Len(Rest(r))
  <1>2. len \in Nat
    <2>1. Rest(r) \in Seq(Byte)
      BY Sought
    <2> QED
      BY <2>1
  <1>3. k \in 1 .. len
    OBVIOUS
  <1> HIDE DEF len
  <1>4. k \in 0 .. len /\ k > 0
    BY <1>2, <1>3
  <1> QED
    BY <1>1, <1>4, Sought DEF Promise!Read, Promise!Saved, Advance, len

LEMMA Taken ==
    ASSUME NEW s \in Seq(Byte), NEW k \in 0 .. Len(s)
    PROVE  /\ SubSeq(s, 1, k) \in Seq(Byte) /\ Len(SubSeq(s, 1, k)) = k
           /\ \A i \in 1 .. k : SubSeq(s, 1, k)[i] = s[i]
           /\ SubSeq(s, 1, k) = <<>> <=> k = 0
  OBVIOUS

LEMMA ReadFixedKept ==
    ASSUME StoreOK, RidersOK, NEW r \in Rider, NEW kind, NEW n,
           <<kind, n>> \in {<<"byte", 1>>, <<"word", WordLen>>}, ReadFixed(r, kind, n)
    PROVE  Promise!Read(r, kind)
  <1>1. Seek(r) /\ UNCHANGED entry /\ n \in Nat \ {0}
        /\ ((kind = "byte" /\ n = 1) \/ (kind = "word" /\ n = WordLen))
    BY LengthAssumption DEF ReadFixed
  <1>2. Rest(r) \in Seq(Byte) /\ Len(Rest(r)) \in Nat
    BY <1>1, Sought
  <1>3. CASE n <= Len(Rest(r))
    <2>1. Advance(r, n) /\ out' = <<kind, SubSeq(Rest(r), 1, n)>> /\ n \in 0 .. Len(Rest(r))
      BY <1>1, <1>2, <1>3 DEF ReadFixed
    <2>2. Promise!IsItem(kind, SubSeq(Rest(r), 1, n))
      BY <1>1, <1>2, <2>1, Taken DEF Promise!IsItem
    <2> QED
      BY <1>1, <2>1, <2>2, Delivered
  <1>4. CASE ~(n <= Len(Rest(r)))
    <2>1. AtEnd(r, 0) /\ 0 \in 0 .. Len(Rest(r))
      BY <1>2, <1>4 DEF ReadFixed
    <2>2. ASSUME NEW m \in 1 .. Len(Rest(r)) PROVE ~Promise!IsItem(kind, SubSeq(Rest(r), 1, m))
      <3>1. Len(SubSeq(Rest(r), 1, m)) = m /\ m /= n
        BY <1>1, <1>2, <1>4, Taken
      <3> QED
        BY <1>1, <3>1 DEF Promise!IsItem
    <2> QED
      BY <1>1, <2>1, <2>2, NothingDelivered
  <1> QED
    BY <1>3, <1>4

LEMMA ReadNumKept ==
    ASSUME StoreOK, RidersOK, NEW r \in Rider, ReadNum(r)
    PROVE  Promise!Read(r, "number")
  <1>1. Seek(r) /\ UNCHANGED entry
    BY DEF ReadNum
  <1>2. Rest(r) \in Seq(Byte) /\ Len(Rest(r)) \in Nat
    BY <1>1, Sought
  <1>3. PICK k \in 0 .. MaxLen :
           /\ Leading(Rest(r), Continued, k)
           /\ IF k < Len(Rest(r))
              THEN Advance(r, k + 1) /\ out' = <<"number", SubSeq(Rest(r), 1, k + 1)>>
              ELSE AtEnd(r, k)
    BY DEF ReadNum
  <1>4. /\ k \in 0 .. Len(Rest(r)) /\ k \in Nat /\ \A i \in 1 .. k : Rest(r)[i] \in Continued
        /\ k < Len(Rest(r)) => Rest(r)[k + 1] \notin Continued
    BY <1>3, LengthAssumption DEF Leading
  <1>5. CASE k < Len(Rest(r))
    <2>1. Advance(r, k + 1) /\ out' = <<"number", SubSeq(Rest(r), 1, k + 1)>>
          /\ k + 1 \in 0 .. Len(Rest(r)) /\ k + 1 /= 0
      BY <1>2, <1>3, <1>4, <1>5
    <2>2. Promise!IsItem("number", SubSeq(Rest(r), 1, k + 1))
      <3> DEFINE s == SubSeq(Rest(r), 1, k + 1)
      <3>1. Len(s) = k + 1 /\ s /= <<>> /\ \A i \in 1 .. k + 1 : s[i] = Rest(r)[i]
        BY <1>2, <2>1, Taken
      <3>2. Len(s) - 1 = k
        BY <1>4, <3>1
      <3> HIDE DEF s
      <3>3. \A i \in 1 .. k : s[i] \in Continued
        BY <1>4, <3>1
      <3>4. s[Len(s)] \notin Continued
        BY <1>4, <1>5, <3>1
      <3>5. {s[i] : i \in 1 .. Len(s) - 1} \subseteq Continued
        BY <3>2, <3>3
      <3>6. Promise!IsItem("number", s)
        BY <3>1, <3>4, <3>5 DEF Promise!IsItem
      <3> QED
        BY <3>6 DEF s
    <2> QED
      BY <1>1, <2>1, <2>2, Delivered
  <1>6. CASE ~(k < Len(Rest(r)))
    <2>1. AtEnd(r, k) /\ k = Len(Rest(r))
      BY <1>2, <1>3, <1>4, <1>6
    <2>2. ASSUME NEW m \in 1 .. Len(Rest(r)) PROVE ~Promise!IsItem("number", SubSeq(Rest(r), 1, m))
      <3> DEFINE s == SubSeq(Rest(r), 1, m)
      <3>1. Len(s) = m /\ s[m] = Rest(r)[m]
        BY <1>2, Taken
      <3>2. Rest(r)[m] \in Continued
        BY <1>4, <2>1
      <3> HIDE DEF s
      <3>3. ~Promise!IsItem("number", s)
        BY <3>1, <3>2 DEF Promise!IsItem
      <3> QED
        BY <3>3 DEF s
    <2> QED
      BY <1>1, <1>4, <2>1, <2>2, NothingDelivered
  <1> QED
    BY <1>5, <1>6

LEMMA ReadStringKept ==
    ASSUME StoreOK, RidersOK, NEW r \in Rider, NEW n \in Amount, ReadString(r, n)
    PROVE  Promise!Read(r, "string")
  <1>1. Seek(r) /\ UNCHANGED entry
    BY DEF ReadString
  <1>2. Rest(r) \in Seq(Byte) /\ Len(Rest(r)) \in Nat
    BY <1>1, Sought
  <1> DEFINE rest == Rest(r)
  <1>3. PICK len \in 0 .. MaxLen :
           /\ Leading(rest, Byte \ {0}, len)
           /\ IF ShorterOf(len, n - 1) < Len(rest)
              THEN /\ Advance(r, ShorterOf(len, n - 1) + 1)
                   /\ out' = IF rest[ShorterOf(len, n - 1) + 1] = 0
                             THEN <<"string", SubSeq(rest, 1, ShorterOf(len, n - 1) + 1)>>
                             ELSE <<"overlong">>
              ELSE AtEnd(r, 0)
    BY DEF ReadString
  <1> DEFINE k == ShorterOf(len, n - 1)
  <1>4. k \in Nat /\ k <= len /\ len \in Nat
    BY LengthAssumption DEF ShorterOf
  <1>5. len <= Len(rest) /\ \A i \in 1 .. len : rest[i] /= 0
    BY <1>2, <1>3 DEF Leading
  <1>6. /\ k < Len(rest) => /\ Advance(r, k + 1)
                            /\ out' = IF rest[k + 1] = 0 THEN <<"string", SubSeq(rest, 1, k + 1)>>
                                      ELSE <<"overlong">>
        /\ ~(k < Len(rest)) => AtEnd(r, 0)
    BY <1>3
  <1> HIDE DEF k, rest
  <1>7. rest \in Seq(Byte) /\ Len(rest) \in Nat /\ rest = Rest(r)
    BY <1>2 DEF rest
  <1>8. ASSUME k < Len(rest), rest[k + 1] = 0 PROVE Promise!Read(r, "string")
    <2> DEFINE s == SubSeq(rest, 1, k + 1)
    <2>1. k + 1 \in 0 .. Len(rest) /\ k + 1 /= 0
      BY <1>4, <1>7, <1>8
    <2>2. Len(s) = k + 1 /\ s /= <<>> /\ \A i \in 1 .. k + 1 : s[i] = rest[i]
      BY <1>7, <2>1, Taken
    <2>3. Advance(r, k + 1) /\ out' = <<"string", s>>
      BY <1>6, <1>8
    <2> HIDE DEF s
    <2>4. Len(s) - 1 = k /\ s[Len(s)] = 0
      BY <1>4, <1>8, <2>2
    <2>5. \A i \in 1 .. k : s[i] /= 0
      BY <1>4, <1>5, <2>2
    <2>6. 0 \notin {s[i] : i \in 1 .. Len(s) - 1}
      BY <2>4, <2>5
    <2>7. Promise!IsItem("string", s)
      BY <2>2, <2>4, <2>6 DEF Promise!IsItem
    <2> QED
      BY <1>1, <1>7, <2>1, <2>3, <2>7, Delivered DEF s
  <1>9. ASSUME k < Len(rest), rest[k + 1] /= 0 PROVE Promise!Read(r, "string")
    <2>1. k + 1 \in 1 .. Len(rest) /\ Advance(r, k + 1) /\ out' = <<"overlong">>
      BY <1>4, <1>6, <1>7, <1>9
    <2>2. \A i \in 1 .. k + 1 : rest[i] /= 0
      BY <1>4, <1>5, <1>9
    <2>3. \A i \in 1 .. k + 1 : SubSeq(rest, 1, k + 1)[i] /= 0
      BY <1>7, <2>1, <2>2, Taken
    <2> QED
      BY <1>1, <1>7, <2>1, <2>3, TooLong
  <1>10. ASSUME ~(k < Len(rest)) PROVE Promise!Read(r, "string")
    <2>1. AtEnd(r, 0) /\ len = Len(rest) /\ 0 \in 0 .. Len(rest)
      BY <1>4, <1>5, <1>6, <1>7, <1>10
    <2>2. ASSUME NEW m \in 1 .. Len(rest) PROVE ~Promise!IsItem("string", SubSeq(rest, 1, m))
      <3> DEFINE s == SubSeq(rest, 1, m)
      <3>1. Len(s) = m /\ s[m] = rest[m]
        BY <1>7, Taken
      <3>2. rest[m] /= 0
        BY <1>5, <2>1
      <3> HIDE DEF s
      <3>3. ~Promise!IsItem("string", s)
        BY <3>1, <3>2 DEF Promise!IsItem
      <3> QED
        BY <3>3 DEF s
    <2> QED
      BY <1>1, <1>7, <2>1, <2>2, NothingDelivered
  <1> QED
    BY <1>8, <1>9, <1>10

LEMMA ReadBytesKept ==
    ASSUME StoreOK, RidersOK, NEW r \in Rider, NEW n \in Amount, ReadBytes(r, n)
    PROVE  Promise!ReadBytes(r, n)
  <1>1. Seek(r) /\ UNCHANGED entry
    BY DEF ReadBytes
  <1>2. ShorterOf(n, Len(Rest(r))) = IF n < Len(Rest(r)) THEN n ELSE Len(Rest(r))
    BY DEF ShorterOf
  <1> QED
    BY <1>1, <1>2, Sought DEF ReadBytes, Promise!ReadBytes, Promise!Saved


-----------------------------------------------------------------------------
(* A handle gets the stream of an inode that holds s, and nothing else     *)
(* happens.                                                                *)
LEMMA Began ==
    ASSUME StoreOK, NEW h \in Handle, file[h] = None, NEW i \in Inode, NEW n \in Name, NEW reg \in BOOLEAN,
           NewFile(h, i, n, reg), UNCHANGED <<disk, entry>>
    PROVE  /\ Text' = [Text EXCEPT ![h] = disk[i]]
           /\ Open' = Open \union {h} /\ file'[h].inode = i
           /\ \A g \in Open : file'[g] = file[g]
           /\ Unsaved' \subseteq Unsaved
  <1> DEFINE stream == [inode |-> i, from |-> 0, bytes |-> <<>>, name |-> n, registered |-> reg]
             t == [Text EXCEPT ![h] = disk[i]]
  <1>1. file' = [file EXCEPT ![h] = stream]
    BY DEF NewFile
  <1>2. stream \in Stream /\ stream.inode = i /\ stream.from = 0 /\ stream.bytes = <<>>
    BY DEF Stream
  <1> HIDE DEF stream
  <1>3. /\ file'[h] = stream /\ \A g \in Open \ {h} : file'[g] = file[g]
        /\ Open' = Open \union {h}
    BY <1>1, <1>2, Restreamed
  <1>4. h \notin Open
    BY DEF Open
  <1>5. Seen(h)' = disk[i]
    BY <1>2, <1>3 DEF Seen, Overwrite
  <1>6. \A g \in Open : file'[g] = file[g] /\ Seen(g)' = Seen(g)
    BY <1>3, <1>4 DEF Seen
  <1>7. t = [g \in Handle |-> t[g]] /\ t[h] = disk[i] /\ \A g \in Handle \ {h} : t[g] = Text[g]
    BY TextIs
  <1> HIDE DEF t
  <1>8. \A g \in Open' : t[g] = Seen(g)'
    <2>1. ASSUME NEW g \in Open PROVE t[g] = Seen(g)'
      <3>1. g \in Handle \ {h} /\ Text[g] = Seen(g)
        BY <1>4, OpenFile, TextIs
      <3> QED
        BY <1>6, <1>7, <3>1
    <2> QED
      BY <1>3, <1>5, <1>7, <2>1
  <1>9. \A g \in Handle \ Open' : t[g] = None
    BY <1>3, <1>7, TextIs
  <1>10. Unsaved' \subseteq Unsaved
    BY <1>2, <1>3, OthersSaved
  <1> QED
    BY <1>2, <1>3, <1>6, <1>7, <1>8, <1>9, <1>10, NewText DEF t

LEMMA OldKept ==
    ASSUME StoreOK, NEW h \in Handle, NEW n \in Name, Old(h, n), StoreOK'
    PROVE  Promise!Old(h, n)
  <1>1. /\ file[h] = None /\ entry[n] /= None /\ \A g \in Open : file[g].inode /= entry[n]
        /\ NewFile(h, entry[n], n, TRUE) /\ UNCHANGED <<disk, entry, rider>> /\ NoResult
    BY DEF Old
  <1>2. entry[n] \in Inode /\ disk[entry[n]] \in Seq(Byte)
    BY <1>1 DEF StoreOK
  <1>3. /\ Text' = [Text EXCEPT ![h] = disk[entry[n]]]
        /\ Open' = Open \union {h} /\ file'[h].inode = entry[n]
        /\ \A g \in Open : file'[g] = file[g]
        /\ Unsaved' \subseteq Unsaved
    BY <1>1, <1>2, Began
  <1>4. Named(n, Dir[n])
    BY DirIs
  <1>5. Dir[n] = disk[entry[n]]
    BY <1>1, <1>4 DEF Named
  <1>6. Dir[n] \notin Handle \union {None}
    BY <1>2, <1>5, HandleAssumption
  <1>7. Text[h] = None
    BY <1>1, TextIs DEF Open
  <1> DEFINE d == [Dir EXCEPT ![n] = h]
  <1>8. d = [m \in Name |-> d[m]] /\ d[n] = h /\ \A m \in Name \ {n} : d[m] = Dir[m]
    BY DirIs
  <1> HIDE DEF d
  <1>9. ASSUME NEW m \in Name PROVE NewNamed(m, d[m])
    <2>1. CASE m = n
      BY <1>1, <1>3, <1>8, <2>1 DEF NewNamed
    <2>2. CASE m /= n
      <3>1. Named(m, Dir[m]) /\ d[m] = Dir[m] /\ entry'[m] = entry[m]
        BY <1>1, <1>8, <2>2, DirIs
      <3>2. entry[m] /= None => entry[m] /= entry[n]
        BY <2>2 DEF StoreOK, Separate
      <3> QED
        BY <1>1, <1>3, <3>1, <3>2 DEF Named, NewNamed
    <2> QED
      BY <2>1, <2>2
  <1>10. Dir' = d
    BY <1>8, <1>9, NewDir
  <1> QED
    BY <1>1, <1>3, <1>5, <1>6, <1>7, <1>10 DEF Promise!Old, Promise!Saved, Promise!NoResult, NoResult, d

LEMMA NewKept ==
    ASSUME StoreOK, Cleared, NEW h \in Handle, NEW n \in Name, New(h, n), StoreOK'
    PROVE  Promise!New(h)
  <1>1. /\ file[h] = None /\ FreeInode \in Inode \ InUse
        /\ NewFile(h, FreeInode, n, FALSE) /\ UNCHANGED <<disk, entry, rider>> /\ NoResult
    BY FreshInode DEF New
  <1>2. disk[FreeInode] = <<>>
    BY <1>1 DEF Cleared
  <1>3. /\ Text' = [Text EXCEPT ![h] = <<>>]
        /\ Open' = Open \union {h} /\ file'[h].inode = FreeInode
        /\ \A g \in Open : file'[g] = file[g]
        /\ Unsaved' \subseteq Unsaved
    BY <1>1, <1>2, Began
  <1>4. Text[h] = None
    BY <1>1, TextIs DEF Open
  <1>5. ASSUME NEW m \in Name PROVE NewNamed(m, Dir[m])
    <2>1. Named(m, Dir[m]) /\ entry'[m] = entry[m]
      BY <1>1, DirIs
    <2>2. entry[m] /= FreeInode
      BY <1>1 DEF InUse
    <2> QED
      BY <1>1, <1>3, <2>1, <2>2 DEF Named, NewNamed
  <1>6. Dir' = Dir
    BY <1>5, DirIs, NewDir
  <1> QED
    BY <1>1, <1>3, <1>4, <1>6 DEF Promise!New, Promise!Saved, Promise!NoResult, NoResult


(* What is still named or open is not touched when files are freed.        *)
LEMMA FreedOthers ==
    ASSUME NEW d, FreeUnused(d), StoreOK'
    PROVE  /\ \A n \in Name : entry'[n] /= None => disk'[entry'[n]] = d[entry'[n]]
           /\ \A g \in Open' : disk'[file'[g].inode] = d[file'[g].inode]
  <1>1. \A n \in Name : entry'[n] /= None => entry'[n] \in Inode \intersect InUse'
    BY DEF StoreOK, InUse
  <1>2. \A g \in Open' : file'[g].inode \in Inode \intersect InUse'
    BY DEF StoreOK, InUse, Open, Stream
  <1> QED
    BY <1>1, <1>2 DEF FreeUnused

LEMMA Renamed ==
    ASSUME StoreOK, StoreOK', FreeUnused(disk), UNCHANGED file
    PROVE  /\ Text' = Text /\ Unsaved' = Unsaved
           /\ \A m, k \in Name : entry'[m] = entry[k] => NewNamed(m, Dir[k])
           /\ \A m \in Name : entry'[m] = None => NewNamed(m, None)
  <1>1. Open' = Open
    BY DEF Open
  <1>2. \A g \in Open : Seen(g)' = Seen(g)
    BY <1>1, FreedOthers DEF Seen
  <1>3. Text' = Text
    BY <1>1, <1>2, TextIs, NewText
  <1>4. ASSUME NEW m \in Name, NEW k \in Name, entry'[m] = entry[k] PROVE NewNamed(m, Dir[k])
    <2>1. Named(k, Dir[k])
      BY DirIs
    <2>2. entry'[m] /= None => disk'[entry'[m]] = disk[entry'[m]]
      BY FreedOthers
    <2> QED
      BY <1>1, <1>4, <2>1, <2>2 DEF Named, NewNamed
  <1>5. \A m \in Name : entry'[m] = None => NewNamed(m, None)
    BY DEF NewNamed
  <1>6. Unsaved' = Unsaved
    BY <1>1 DEF Unsaved
  <1> QED
    BY <1>3, <1>4, <1>5, <1>6

LEMMA DeleteKept ==
    ASSUME StoreOK, NEW n \in Name, Delete(n), StoreOK'
    PROVE  Promise!Delete(n)
  <1>1. /\ entry' = [entry EXCEPT ![n] = None] /\ UNCHANGED <<file, rider>> /\ NoResult
        /\ FreeUnused(disk)
    BY DEF Delete
  <1>2. entry'[n] = None /\ \A m \in Name \ {n} : entry'[m] = entry[m]
    BY <1>1 DEF StoreOK
  <1> DEFINE d == [Dir EXCEPT ![n] = None]
  <1>3. d = [m \in Name |-> d[m]] /\ d[n] = None /\ \A m \in Name \ {n} : d[m] = Dir[m]
    BY DirIs
  <1> HIDE DEF d
  <1>4. \A m \in Name : NewNamed(m, d[m])
    BY <1>1, <1>2, <1>3, Renamed
  <1>5. Dir' = d /\ Text' = Text /\ Unsaved' = Unsaved
    BY <1>1, <1>3, <1>4, NewDir, Renamed
  <1> QED
    BY <1>1, <1>5 DEF Promise!Delete, Promise!Saved, Promise!NoResult, NoResult, d

LEMMA RenameKept ==
    ASSUME StoreOK, NEW old \in Name, NEW new \in Name, Rename(old, new), StoreOK'
    PROVE  Promise!Rename(old, new)
  <1>1. /\ entry[old] /= None /\ UNCHANGED <<file, rider>> /\ NoResult /\ FreeUnused(disk)
        /\ entry' = [[entry EXCEPT ![old] = None] EXCEPT ![new] = entry[old]]
    BY DEF Rename
  <1>2. /\ entry'[new] = entry[old]
        /\ old /= new => entry'[old] = None
        /\ \A m \in Name \ {old, new} : entry'[m] = entry[m]
    BY <1>1 DEF StoreOK
  <1> DEFINE d == [[Dir EXCEPT ![old] = None] EXCEPT ![new] = Dir[old]]
  <1>3. /\ d = [m \in Name |-> d[m]] /\ d[new] = Dir[old]
        /\ old /= new => d[old] = None
        /\ \A m \in Name \ {old, new} : d[m] = Dir[m]
    BY DirIs
  <1> HIDE DEF d
  <1>4. ASSUME NEW m \in Name PROVE NewNamed(m, d[m])
    <2>1. FreeUnused(disk) /\ UNCHANGED file
      BY <1>1
    <2>2. /\ \A k \in Name : entry'[m] = entry[k] => NewNamed(m, Dir[k])
          /\ entry'[m] = None => NewNamed(m, None)
      BY <2>1, Renamed
    <2>3. CASE m = new
      BY <1>2, <1>3, <2>2, <2>3
    <2>4. CASE m = old /\ old /= new
      BY <1>2, <1>3, <2>2, <2>4
    <2>5. CASE m \notin {old, new}
      BY <1>2, <1>3, <2>2, <2>5
    <2> QED
      BY <2>3, <2>4, <2>5
  <1>5. Dir' = d /\ Text' = Text /\ Unsaved' = Unsaved
    <2>1. Dir' = d
      BY <1>3, <1>4, NewDir
    <2>2. Text' = Text /\ Unsaved' = Unsaved
      BY <1>1, Renamed
    <2> QED
      BY <2>1, <2>2
  <1>6. Dir[old] /= None
    <2>1. Named(old, Dir[old]) /\ entry[old] \in Inode
      BY <1>1, DirIs DEF StoreOK
    <2>2. CASE Dir[old] \in Open
      BY <2>2, OpenFile, HandleAssumption
    <2>3. CASE Dir[old] = disk[entry[old]]
      <3>1. Dir[old] \in Seq(Byte)
        BY <2>1, <2>3 DEF StoreOK
      <3> QED
        BY <3>1, HandleAssumption
    <2> QED
      BY <1>1, <2>1, <2>2, <2>3 DEF Named
  <1> QED
    BY <1>1, <1>5, <1>6 DEF Promise!Rename, Promise!Saved, Promise!NoResult, NoResult, d

LEMMA ForgetKept ==
    ASSUME Ordinary, StoreOK, NEW h \in Handle, Forget(h), StoreOK'
    PROVE  Promise!Forget(h)
  <1>1. /\ h \in Open /\ file' = [file EXCEPT ![h] = None]
        /\ file[h].bytes = <<>> \/ \A n \in Name : entry[n] /= file[h].inode
        /\ rider' = [r \in Rider |-> IF SetOn(r, h) THEN None ELSE rider[r]]
        /\ UNCHANGED entry /\ NoResult /\ FreeUnused(disk)
    BY DEF Forget, Ordinary
  <1>2. Open' = Open \ {h} /\ \A g \in Open' : file'[g] = file[g]
    BY <1>1 DEF StoreOK, Open
  <1>3. \A g \in Open' : Seen(g)' = Seen(g)
    BY <1>2, <1>1, FreedOthers DEF Seen
  <1> DEFINE t == [Text EXCEPT ![h] = None]
  <1>4. t = [g \in Handle |-> t[g]] /\ t[h] = None /\ \A g \in Handle \ {h} : t[g] = Text[g]
    BY TextIs
  <1> HIDE DEF t
  <1>5. \A g \in Open' : t[g] = Seen(g)'
    <2>1. \A g \in Open : g \in Handle
      BY DEF Open
    <2> QED
      BY <1>2, <1>3, <1>4, <2>1, TextIs
  <1>6. \A g \in Handle \ Open' : t[g] = None
    BY <1>2, <1>4, TextIs
  <1>7. Text' = t
    BY <1>4, <1>5, <1>6, NewText
  <1> DEFINE d == [n \in Name |-> IF Dir[n] = h THEN Text[h] ELSE Dir[n]]
  <1>8. d = [n \in Name |-> d[n]] /\ \A n \in Name : d[n] = IF Dir[n] = h THEN Text[h] ELSE Dir[n]
    OBVIOUS
  <1> HIDE DEF d
  <1>9. ASSUME NEW n \in Name PROVE NewNamed(n, d[n])
    <2>1. Named(n, Dir[n]) /\ entry'[n] = entry[n]
      BY <1>1, DirIs
    <2>2. entry[n] /= None => disk'[entry[n]] = disk[entry[n]]
      BY <1>1, FreedOthers
    <2>3. CASE entry[n] = file[h].inode
      <3>1. entry[n] /= None
        BY <1>1, <2>3, OpenFile, NoneAssumption DEF Stream
      <3>2. \A g \in Open : file[g].inode = entry[n] => g = h
        BY <1>1, <2>3 DEF StoreOK, Separate
      <3>3. Dir[n] = h
        BY <1>1, <2>1, <2>3, <3>1, <3>2 DEF Named
      <3>4. Seen(h) = disk[entry[n]]
        BY <1>1, <2>3 DEF Seen, Overwrite
      <3>5. d[n] = disk'[entry'[n]]
        BY <1>1, <1>8, <2>1, <2>2, <3>1, <3>3, <3>4, TextIs
      <3>6. \A g \in Open' : file'[g].inode /= entry'[n]
        BY <1>2, <2>1, <3>2
      <3> QED
        BY <2>1, <3>1, <3>5, <3>6 DEF NewNamed
    <2>4. CASE entry[n] /= file[h].inode
      <3>1. Dir[n] /= h
        <4>1. CASE entry[n] = None
          BY <2>1, <4>1, <1>1, <2>4, HandleAssumption DEF Named
        <4>2. CASE entry[n] /= None
          <5>1. disk[entry[n]] \in Seq(Byte)
            BY <4>2 DEF StoreOK
          <5>2. disk[entry[n]] /= h
            BY <5>1, HandleAssumption
          <5> QED
            BY <2>1, <2>4, <4>2, <5>2 DEF Named
        <4> QED
          BY <4>1, <4>2
      <3>2. d[n] = Dir[n]
        BY <1>8, <3>1
      <3>3. Dir[n] \in Open => Dir[n] \in Open'
        BY <1>2, <3>1
      <3> QED
        BY <1>2, <2>1, <2>2, <2>4, <3>2, <3>3 DEF Named, NewNamed
    <2> QED
      BY <2>3, <2>4
  <1>10. Dir' = d
    BY <1>8, <1>9, NewDir
  <1>11. Text[h] /= None
    BY <1>1, TextIs
  <1>12. Unsaved' \subseteq Unsaved \ {h}
    BY <1>2, OthersSaved
  <1> QED
    BY <1>1, <1>7, <1>10, <1>11, <1>12 DEF Promise!Forget, Promise!SavedWith, Promise!NoResult, NoResult, Promise!SetOn, SetOn, d, t


(* The copy that Register leaves in the buffer of the new stream.          *)
LEMMA Copied == ASSUME NEW s \in Seq(Byte) PROVE Overwrite(<<>>, 0, s) = s
  <1>1. CASE s = <<>>
    BY <1>1 DEF Overwrite
  <1>2. CASE s /= <<>>
    <2> DEFINE o == Overwrite(<<>>, 0, s)
    <2>1. <<>> \in Seq(Byte) /\ Len(<<>>) = 0 /\ Len(s) \in Nat
      OBVIOUS
    <2>2. o \in Seq(Byte) /\ Len(o) = LongerOf(Len(<<>>), 0 + Len(s))
      <3>1. \A p \in Seq(Byte) :
               /\ Overwrite(p, 0, s) \in Seq(Byte)
               /\ Len(Overwrite(p, 0, s)) = LongerOf(Len(p), 0 + Len(s))
        BY <1>2, OverwriteSeq
      <3> QED
        BY <2>1, <3>1
    <2>3. Len(o) = Len(s)
      BY <2>1, <2>2 DEF LongerOf
    <2>4. \A i \in 1 .. Len(s) : o[i] = s[i]
      <3>1. LongerOf(Len(<<>>), 0 + Len(s)) = Len(s)
        BY <2>1 DEF LongerOf
      <3>2. o = [i \in 1 .. Len(s) |->
                   IF i \in 0 + 1 .. 0 + Len(s) THEN s[i - 0]
                   ELSE IF i <= Len(<<>>) THEN <<>>[i] ELSE 0]
        BY <1>2, <3>1 DEF Overwrite
      <3> QED
        BY <2>1, <3>2
    <2> HIDE DEF o
    <2>5. o = s
      BY <2>2, <2>3, <2>4
    <2> QED
      BY <2>5 DEF o
  <1> QED
    BY <1>1, <1>2

(* The stream of an open file is replaced by one of which the handle sees  *)
(* s, and the files that others use stay as they were.                     *)
LEMMA Replaced ==
    ASSUME StoreOK, NEW h \in Open, NEW i \in Inode, NEW b \in Seq(Byte), NEW n \in Name, NEW reg \in BOOLEAN,
           file' = [file EXCEPT ![h] = [inode |-> i, from |-> 0, bytes |-> b,
                                        name |-> n, registered |-> reg]],
           disk'[i] = <<>>, \A g \in Open \ {h} : disk'[file[g].inode] = disk[file[g].inode]
    PROVE  /\ Text' = [Text EXCEPT ![h] = b]
           /\ Open' = Open /\ file'[h].inode = i
           /\ \A g \in Open \ {h} : file'[g] = file[g]
           /\ Unsaved' \subseteq Unsaved \union {h}
           /\ b = <<>> => Unsaved' \subseteq Unsaved \ {h}
  <1> DEFINE stream == [inode |-> i, from |-> 0, bytes |-> b, name |-> n, registered |-> reg]
             t == [Text EXCEPT ![h] = b]
  <1>1. /\ stream \in Stream /\ file' = [file EXCEPT ![h] = stream]
        /\ stream.inode = i /\ stream.from = 0 /\ stream.bytes = b
    BY DEF Stream
  <1> HIDE DEF stream
  <1>2. h \in Handle
    BY DEF Open
  <1>3. /\ file'[h] = stream /\ \A g \in Open \ {h} : file'[g] = file[g]
        /\ Open' = Open \union {h}
    BY <1>1, <1>2, Restreamed
  <1>4. Open' = Open
    BY <1>3
  <1>5. Seen(h)' = b
    <2>1. Seen(h)' = Overwrite(<<>>, 0, b)
      BY <1>1, <1>3 DEF Seen
    <2> QED
      BY <2>1, Copied
  <1>6. \A g \in Open \ {h} : Seen(g)' = Seen(g)
    BY <1>3 DEF Seen
  <1>7. t = [g \in Handle |-> t[g]] /\ t[h] = b /\ \A g \in Handle \ {h} : t[g] = Text[g]
    BY <1>2, TextIs
  <1> HIDE DEF t
  <1>8. \A g \in Open' : t[g] = Seen(g)'
    <2>1. ASSUME NEW g \in Open \ {h} PROVE t[g] = Seen(g)'
      <3>1. g \in Handle \ {h} /\ Text[g] = Seen(g)
        BY OpenFile, TextIs
      <3> QED
        BY <1>6, <1>7, <3>1
    <2> QED
      BY <1>4, <1>5, <1>7, <2>1
  <1>9. \A g \in Handle \ Open' : t[g] = None
    BY <1>4, <1>7, TextIs
  <1>10. /\ Unsaved' \subseteq Unsaved \union {h}
         /\ b = <<>> => Unsaved' \subseteq Unsaved \ {h}
    BY <1>1, <1>3, <1>4, OthersSaved
  <1> QED
    BY <1>1, <1>3, <1>4, <1>7, <1>8, <1>9, <1>10, NewText DEF t

LEMMA PurgeKept ==
    ASSUME Ordinary, StoreOK, NEW h \in Handle, Purge(h), StoreOK'
    PROVE  Promise!Purge(h)
  <1> DEFINE i == file[h].inode
             n == file[h].name
             reg == file[h].registered
             d == [[disk EXCEPT ![i] = Seen(h)] EXCEPT ![i] = <<>>]
  <1>1. h \in Open /\ UNCHANGED rider /\ NoResult
    BY DEF Purge
  <1>2. /\ UNCHANGED entry /\ FreeUnused(d)
        /\ file' = [file EXCEPT ![h] = [inode |-> i, from |-> 0, bytes |-> <<>>,
                                        name |-> n, registered |-> reg]]
    BY PurgeInPlace
  <1>3. i \in Inode /\ n \in Name /\ reg \in BOOLEAN /\ <<>> \in Seq(Byte)
    BY <1>1, OpenFile DEF Stream
  <1>4. d[i] = <<>> /\ \A j \in Inode \ {i} : d[j] = disk[j]
    BY <1>3 DEF StoreOK
  <1> HIDE DEF d
  <1>5. \A g \in Open \ {h} : file[g].inode \in Inode \ {i}
    BY <1>1, OpenFile DEF StoreOK, Separate, Stream
  <1> HIDE DEF i, n, reg
  <1>6. file'[h].inode = i /\ Open' = Open /\ \A g \in Open \ {h} : file'[g] = file[g]
    <2> DEFINE stream == [inode |-> i, from |-> 0, bytes |-> <<>>, name |-> n, registered |-> reg]
    <2>1. stream \in Stream /\ stream.inode = i
      BY <1>3 DEF Stream
    <2>2. file' = [file EXCEPT ![h] = stream]
      BY <1>2
    <2> HIDE DEF stream
    <2>3. file'[h] = stream /\ \A g \in Open \ {h} : file'[g] = file[g] /\ Open' = Open \union {h}
      BY <2>1, <2>2, Restreamed
    <2>4. Open' = Open \union {h}
      BY <2>1, <2>2, Restreamed
    <2> QED
      BY <1>1, <2>1, <2>3, <2>4
  <1>7. disk'[i] = <<>> /\ \A g \in Open \ {h} : disk'[file[g].inode] = disk[file[g].inode]
    <2>1. \A g \in Open' : disk'[file'[g].inode] = d[file'[g].inode]
      BY <1>2, FreedOthers
    <2> QED
      BY <1>1, <1>4, <1>5, <1>6, <2>1
  <1>8. Text' = [Text EXCEPT ![h] = <<>>] /\ Unsaved' \subseteq Unsaved \ {h}
    BY <1>1, <1>2, <1>3, <1>7, Replaced
  <1>9. ASSUME NEW m \in Name PROVE NewNamed(m, Dir[m])
    <2>1. Named(m, Dir[m]) /\ entry'[m] = entry[m]
      BY <1>2, DirIs
    <2>2. \A g \in Open : file'[g].inode = file[g].inode
      BY <1>6 DEF i
    <2>3. entry[m] /= None => entry[m] \in Inode /\ disk'[entry[m]] = d[entry[m]]
      <3>1. entry'[m] /= None => disk'[entry'[m]] = d[entry'[m]]
        BY <1>2, FreedOthers
      <3> QED
        BY <2>1, <3>1 DEF StoreOK
    <2>4. (entry[m] /= None /\ \A g \in Open : file[g].inode /= entry[m]) => disk'[entry[m]] = disk[entry[m]]
      BY <1>1, <1>4, <2>3 DEF i
    <2> QED
      BY <1>6, <2>1, <2>2, <2>4 DEF Named, NewNamed
  <1>10. Dir' = Dir
    BY <1>9, DirIs, NewDir
  <1>11. Text[h] /= None
    BY <1>1, TextIs
  <1> QED
    BY <1>1, <1>8, <1>10, <1>11 DEF Promise!Purge, Promise!SavedWith, Promise!NoResult, NoResult

LEMMA RegisterKept ==
    ASSUME Ordinary, StoreOK, NEW h \in Handle, Register(h), StoreOK'
    PROVE  \E n \in Name : Promise!Register(h, n)
  <1> DEFINE n == file[h].name
             i == Opened(n)
             d == [disk EXCEPT ![i] = <<>>]
  <1>1. /\ h \in Open /\ ~file[h].registered /\ CanOpen(n) /\ UNCHANGED rider /\ NoResult
        /\ entry' = [entry EXCEPT ![n] = i] /\ FreeUnused(d)
        /\ \A g \in Open : file[g].inode /= i
        /\ file' = [file EXCEPT ![h] = [inode |-> i, from |-> 0, bytes |-> Seen(h),
                                        name |-> n, registered |-> TRUE]]
    BY DEF Register, Ordinary
  <1>2. n \in Name /\ Seen(h) \in Seq(Byte)
    BY <1>1, OpenFile DEF Stream
  <1>3. i \in Inode /\ \A m \in Name \ {n} : entry[m] /= i
    BY <1>1, <1>2, OpenedInode
  <1> HIDE DEF i, n
  <1>4. d[i] = <<>> /\ \A j \in Inode \ {i} : d[j] = disk[j]
    BY <1>3 DEF StoreOK
  <1> HIDE DEF d
  <1>5. \A g \in Open : file[g].inode \in Inode \ {i}
    BY <1>1, OpenFile DEF Stream
  <1>6. file'[h].inode = i /\ Open' = Open /\ \A g \in Open \ {h} : file'[g] = file[g]
    <2> DEFINE stream == [inode |-> i, from |-> 0, bytes |-> Seen(h), name |-> n, registered |-> TRUE]
    <2>1. stream \in Stream /\ stream.inode = i
      BY <1>2, <1>3 DEF Stream
    <2>2. file' = [file EXCEPT ![h] = stream]
      BY <1>1
    <2> HIDE DEF stream
    <2>3. file'[h] = stream /\ \A g \in Open \ {h} : file'[g] = file[g]
      BY <2>1, <2>2, Restreamed
    <2>4. Open' = Open \union {h}
      BY <2>1, <2>2, Restreamed
    <2> QED
      BY <1>1, <2>1, <2>3, <2>4
  <1>7. disk'[i] = <<>> /\ \A g \in Open \ {h} : disk'[file[g].inode] = disk[file[g].inode]
    <2>1. \A g \in Open' : disk'[file'[g].inode] = d[file'[g].inode]
      BY <1>1, FreedOthers
    <2> QED
      BY <1>1, <1>4, <1>5, <1>6, <2>1
  <1>8. Text' = Text /\ Unsaved' \subseteq Unsaved \union {h}
    <2>1. Text' = [Text EXCEPT ![h] = Seen(h)] /\ Unsaved' \subseteq Unsaved \union {h}
      <3>1. file' = [file EXCEPT ![h] = [inode |-> i, from |-> 0, bytes |-> Seen(h),
                                        name |-> n, registered |-> TRUE]]
        BY <1>1
      <3>2. h \in Open /\ i \in Inode /\ n \in Name /\ Seen(h) \in Seq(Byte) /\ TRUE \in BOOLEAN
        BY <1>1, <1>2, <1>3
      <3> QED
        BY <1>7, <3>1, <3>2, Replaced
    <2>2. [Text EXCEPT ![h] = Seen(h)] = Text
      BY <1>1, TextIs
    <2> QED
      BY <2>1, <2>2
  <1>9. entry'[n] = i /\ \A m \in Name \ {n} : entry'[m] = entry[m]
    BY <1>1, <1>2 DEF StoreOK
  <1> DEFINE e == [Dir EXCEPT ![n] = h]
  <1>10. e = [m \in Name |-> e[m]] /\ e[n] = h /\ \A m \in Name \ {n} : e[m] = Dir[m]
    BY <1>2, DirIs
  <1> HIDE DEF e
  <1>11. ASSUME NEW m \in Name PROVE NewNamed(m, e[m])
    <2>1. CASE m = n
      BY <1>1, <1>6, <1>9, <1>10, <2>1 DEF NewNamed
    <2>2. CASE m /= n
      <3>1. Named(m, Dir[m]) /\ e[m] = Dir[m] /\ entry'[m] = entry[m] /\ entry[m] /= i
        BY <1>3, <1>9, <1>10, <2>2, DirIs
      <3>2. entry[m] /= file[h].inode
        BY <1>1, Zenon DEF StoreOK, Separate
      <3>3. entry[m] /= None => entry[m] \in Inode /\ disk'[entry[m]] = disk[entry[m]]
        <4>1. entry'[m] /= None => disk'[entry'[m]] = d[entry'[m]]
          BY <1>1, FreedOthers
        <4>2. entry[m] /= None => entry[m] \in Inode
          BY DEF StoreOK
        <4> QED
          BY <1>4, <3>1, <4>1, <4>2
      <3> QED
        BY <1>1, <1>6, <3>1, <3>2, <3>3 DEF Named, NewNamed
    <2> QED
      BY <2>1, <2>2
  <1>12. Dir' = e
    BY <1>10, <1>11, NewDir
  <1>13. Text[h] /= None
    BY <1>1, TextIs
  <1>14. Promise!Register(h, n)
    BY <1>1, <1>8, <1>12, <1>13 DEF Promise!Register, Promise!SavedBut, Promise!NoResult, NoResult, e
  <1> QED
    BY <1>2, <1>14

(* What is left when the program is killed.                                *)
LEMMA KillKept == ASSUME StoreOK, Kill, StoreOK' PROVE Promise!Kill
  <1>1. /\ UNCHANGED entry /\ FreeUnused(disk) /\ NoResult
        /\ file' = [h \in Handle |-> None] /\ rider' = [r \in Rider |-> None]
    BY DEF Kill
  <1>2. Open' = {}
    BY <1>1 DEF Open
  <1>3. Text' = [h \in Handle |-> None] /\ Unsaved' = {}
    BY <1>1, <1>2 DEF Text, Unsaved
  <1> DEFINE d == [n \in Name |-> IF entry[n] = None THEN None ELSE disk[entry[n]]]
  <1>4. d = [n \in Name |-> d[n]]
        /\ \A n \in Name : d[n] = IF entry[n] = None THEN None ELSE disk[entry[n]]
    OBVIOUS
  <1> HIDE DEF d
  <1>5. ASSUME NEW n \in Name PROVE NewNamed(n, d[n])
    <2>1. entry[n] /= None => disk'[entry[n]] = disk[entry[n]]
      BY <1>1, FreedOthers
    <2> QED
      BY <1>1, <1>2, <1>4, <2>1 DEF NewNamed
  <1>6. Dir' = d
    BY <1>4, <1>5, NewDir
  <1>7. ASSUME NEW n \in Name
        PROVE  /\ Dir[n] \notin Handle => Dir'[n] = Dir[n]
               /\ Dir[n] \in Handle => Dir'[n] \notin Handle \union {None}
               /\ Dir[n] \in Handle \ Unsaved => Dir'[n] = Text[Dir[n]]
    <2>1. Named(n, Dir[n]) /\ Dir'[n] = IF entry[n] = None THEN None ELSE disk[entry[n]]
      BY <1>4, <1>6, DirIs
    <2>2. entry[n] /= None => entry[n] \in Inode /\ disk[entry[n]] \in Seq(Byte)
      BY DEF StoreOK
    <2>3. CASE Dir[n] \in Open /\ file[Dir[n]].inode = entry[n]
      <3>1. entry[n] /= None /\ Dir[n] \in Handle
        BY <2>3, OpenFile, NoneAssumption DEF Stream
      <3>2. Dir'[n] \notin Handle \union {None}
        BY <2>1, <2>2, <3>1, HandleAssumption
      <3>3. Dir[n] \notin Unsaved => Seen(Dir[n]) = disk[entry[n]]
        BY <2>3 DEF Unsaved, Seen, Overwrite
      <3> QED
        BY <2>1, <2>3, <3>1, <3>2, <3>3, TextIs
    <2>4. CASE entry[n] /= None /\ Dir[n] = disk[entry[n]]
      BY <2>1, <2>2, <2>4, HandleAssumption
    <2>5. CASE entry[n] = None /\ Dir[n] = None
      BY <2>1, <2>5, HandleAssumption
    <2> QED
      BY <2>1, <2>3, <2>4, <2>5 DEF Named
  <1>8. Dir' = [n \in Name |-> Dir'[n]]
    BY <1>4, <1>6
  <1> QED
    BY <1>1, <1>3, <1>7, <1>8 DEF Promise!Kill, Promise!NoResult, NoResult

-----------------------------------------------------------------------------
LEMMA StepKept ==
    ASSUME Ordinary, StoreOK, RidersOK, Cleared, Next, StoreOK' PROVE Promise!Next
  <1>1. ASSUME NEW h \in Handle, NEW n \in Name, Old(h, n) \/ New(h, n)
        PROVE  Promise!Next
    BY <1>1, OldKept, NewKept DEF Promise!Next
  <1>2. ASSUME NEW h \in Handle, Register(h) PROVE Promise!Next
    BY <1>2, RegisterKept DEF Promise!Next
  <1>3. ASSUME NEW h \in Handle, Close(h) \/ Purge(h) \/ Forget(h) \/ Length(h) PROVE Promise!Next
    BY <1>3, CloseKept, PurgeKept, ForgetKept, LengthKept DEF Promise!Next
  <1>4. ASSUME NEW n \in Name, Delete(n) PROVE Promise!Next
    BY <1>4, DeleteKept DEF Promise!Next
  <1>5. ASSUME NEW old \in Name, NEW new \in Name, Rename(old, new) PROVE Promise!Next
    BY <1>5, RenameKept DEF Promise!Next
  <1>6. ASSUME NEW r \in Rider, NEW h \in Handle, NEW pos \in 0 .. MaxLen, Set(r, h, pos)
        PROVE  Promise!Next
    BY <1>6, SetKept DEF Promise!Next
  <1>7. ASSUME NEW r \in Rider, ReadFixed(r, "byte", 1) \/ ReadFixed(r, "word", WordLen) \/ ReadNum(r)
        PROVE  Promise!Next
    <2>1. \E kind \in Promise!Kind : Promise!Read(r, kind)
      BY <1>7, ReadFixedKept, ReadNumKept DEF Promise!Kind
    <2> QED
      BY <2>1 DEF Promise!Next
  <1>8. ASSUME NEW r \in Rider, NEW n \in Amount, ReadString(r, n) PROVE Promise!Next
    <2>1. \E kind \in Promise!Kind : Promise!Read(r, kind)
      BY <1>8, ReadStringKept DEF Promise!Kind
    <2> QED
      BY <2>1 DEF Promise!Next
  <1>9. ASSUME NEW r \in Rider, NEW n \in Amount, ReadBytes(r, n) PROVE Promise!Next
    BY <1>9, ReadBytesKept DEF Promise!Next
  <1>10. ASSUME NEW r \in Rider, NEW bytes \in Item, Write(r, bytes) PROVE Promise!Next
    BY <1>10, WriteKept DEF Promise!Next
  <1>11. CASE Kill
    BY <1>11, KillKept DEF Promise!Next
  <1> QED
    BY <1>1, <1>2, <1>3, <1>4, <1>5, <1>6, <1>7, <1>8, <1>9, <1>10, <1>11 DEF Next

(* In ordinary use lib/obnc/Files.c keeps the promise of Files.obn: each   *)
(* call is the one of the definition module on byte sequences, whatever is *)
(* still in the buffers and whichever streams the files have moved to; and *)
(* a program that is killed loses nothing of a file that was closed after  *)
(* the last call that changed it.                                          *)
THEOREM FilesKept == ASSUME Ordinary PROVE Spec => FilesPromised
  <1>1. Init => Promise!Init
    <2> SUFFICES ASSUME Init PROVE Promise!Init
      OBVIOUS
    <2>1. Open = {} /\ \A h \in Handle : file[h] = None
      BY DEF Init, Open
    <2>2. Text = [h \in Handle |-> None]
      BY <2>1 DEF Text
    <2>3. Dir = [n \in Name |-> None]
      BY <2>1 DEF Dir, Init
    <2> QED
      BY <2>1, <2>2, <2>3 DEF Init, Promise!Init, Unsaved
  <1>2. FilesInv /\ FilesInv' /\ [Next]_vars => [Promise!Next]_(Promise!vars)
    <2> SUFFICES ASSUME FilesInv, FilesInv', [Next]_vars PROVE [Promise!Next]_(Promise!vars)
      OBVIOUS
    <2>1. StoreOK /\ RidersOK /\ Cleared /\ StoreOK'
      BY Parts DEF FilesInv, TypeOK, Within, StoreOK
    <2>2. CASE Next
      BY <2>1, <2>2, StepKept
    <2>3. CASE UNCHANGED vars
      <3>1. Text' = Text /\ Dir' = Dir /\ Unsaved' = Unsaved
        BY <2>3 DEF vars, Text, Dir, Seen, Open, Unsaved
      <3> QED
        BY <2>3, <3>1 DEF vars, Promise!vars
    <2> QED
      BY <2>2, <2>3
  <1> QED
    BY <1>1, <1>2, FilesInvariant, PTL DEF Spec, FilesPromised, Promise!Spec

=============================================================================
