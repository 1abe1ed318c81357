------------------------------ MODULE RecordTypes ------------------------------
(***************************************************************************)
(* Record types and their extensions, as obnc-compile knows them and as    *)
(* the generated program does. A pointer type is represented by the record *)
(* type it points to. Chain[t] lists the base types of t from the          *)
(* outermost one to t itself; it is given, since how declarations are      *)
(* accepted is the subject of Declarations.                                *)
(***************************************************************************)
EXTENDS Integers, Sequences

CONSTANTS RecordType, Chain

ASSUME ChainAssumption ==
    /\ Chain \in [RecordType -> Seq(RecordType)]
    /\ \A t \in RecordType :
          /\ Len(Chain[t]) > 0
          /\ Chain[t][Len(Chain[t])] = t
          /\ \A k \in 1 .. Len(Chain[t]) : Chain[Chain[t][k]] = SubSeq(Chain[t], 1, k)

(* Types_Extends: t is b or extends it.                                    *)
Extends(b, t) == \E k \in DOMAIN Chain[t] : Chain[t][k] = b

ExtensionLevel(t) == Len(Chain[t]) - 1

(* The type descriptor that is generated for t: the addresses of the type  *)
(* IDs of its base types, the outermost first, and of its own.             *)
Descriptor(t) == [ids |-> Chain[t], nids |-> ExtensionLevel(t) + 1]

(* Mutant of Is: sibling types of one level are not told apart.            *)
IsLevel(td, t) == ExtensionLevel(t) < td.nids

(* OBNC_IS, with a pointer that is not NIL; ids is an array from 0.        *)
Is(td, t) ==
    /\ ExtensionLevel(t) < td.nids
    /\ td.ids[ExtensionLevel(t) + 1] = t

(* Mutant of RecordAssignable: only the lengths are compared.              *)
RecordAssignableLonger(src, dst) == src.nids >= dst.nids

(* OBNC_RAT: whether a record described by src may be assigned to one      *)
(* described by dst.                                                       *)
RecordAssignable(src, dst) ==
    /\ src.nids >= dst.nids
    /\ src.ids[dst.nids] = dst.ids[dst.nids]
==============================================================================
