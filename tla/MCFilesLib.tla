------------------------------ MODULE MCFilesLib ------------------------------
(***************************************************************************)
(* Small instances of FilesLib: two names, two handles, two riders. The    *)
(* byte 1 stands for the bytes >= 128. Handles, names, riders and inodes   *)
(* are interchangeable: which free inode a file gets makes no difference.  *)
(***************************************************************************)
EXTENDS FilesLib, FiniteSets, TLC

Items == {<<1>>, <<1, 0>>}

Symmetry == Permutations(Handle) \union Permutations(Name)
            \union Permutations(Rider) \union Permutations(Inode)

(* Bound: at most one inode has a text other than the two of Plain. While  *)
(* two handles are in use there is none, and one rider, which has not seen *)
(* the end of its file; with one handle there are two riders.              *)
Plain == {<<>>, <<1, 0>>}
FewTexts ==
    /\ \A i, j \in Inode : disk[i] \notin Plain /\ disk[j] \notin Plain => i = j
    /\ Cardinality(Open) > 1 =>
          /\ Cardinality({r \in Rider : rider[r] /= None}) <= 1
          /\ \A r \in Rider : rider[r] /= None => ~rider[r].eof
          /\ \A i \in Inode : disk[i] \in Plain
          /\ \A h \in Open : file[h].bytes \in Plain
==============================================================================
