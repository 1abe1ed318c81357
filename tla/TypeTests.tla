------------------------------- MODULE TypeTests -------------------------------
(***************************************************************************)
(* Dynamic types in a generated program (src/Generate.c, the macros of     *)
(* OBNC.h): records on the heap carry a type descriptor, declared records  *)
(* do not, and the descriptor of a record that is passed as a variable     *)
(* parameter is passed with it. Type tests, type guards and record         *)
(* assignments compare descriptors.                                        *)
(*                                                                         *)
(* A designator is a variable with up to two type guards:                  *)
(*    p^, p(T)^        a pointer variable, dereferenced                    *)
(*    p^(U), p(T)^(U)  the same, for p a variable parameter                *)
(*    r, r(T), r(T)(U) the record parameter of the procedure being run     *)
(*    v                a declared record variable                          *)
(* guard is T and late is U: a guard of a record that is not the first     *)
(* selector. Pointers in records and arrays, fields and what records       *)
(* contain are left out.                                                   *)
(***************************************************************************)
EXTENDS RecordTypes

CONSTANTS
    Pointer,       \* pointer variables
    Param,         \* those of them that are variable parameters
    PointerType,   \* PointerType[p]: the record type that p points to
    RecordVar,     \* declared record variables
    RecordVarType, \* RecordVarType[v]: the type of v
    Heap,          \* bound: the records there is memory for
    LateGuards,    \* whether there are late guards in the program
    MaxDepth,      \* bound: how deep procedure calls are nested
    NoType, NIL

ASSUME TypeTestsAssumption ==
    /\ Param \subseteq Pointer
    /\ PointerType \in [Pointer -> RecordType]
    /\ RecordVarType \in [RecordVar -> RecordType]
    /\ RecordVar \cap Heap = {} /\ RecordVar \cap Pointer = {}
    /\ NoType \notin RecordType
    /\ NIL \notin Heap
    /\ "r" \notin Pointer \union RecordVar
    /\ LateGuards \in BOOLEAN
    /\ MaxDepth \in Nat

VARIABLES
    heapType,   \* heapType[o]: the type that o was allocated with
    pointsTo,   \* pointsTo[p]: a record or NIL
    frames,     \* the calls in progress, the outermost first
    trapped     \* whether a trap has ended the program

typeTestVars == <<heapType, pointsTo, frames, trapped>>

Record == Heap \union RecordVar

(* What a call knows of its record parameter: how it was declared, where   *)
(* the record is, and for a variable parameter the descriptor that was     *)
(* passed.                                                                 *)
Frame == [kind : {"value", "var"}, formal : RecordType, object : Record, td : RecordType]

Top == frames[Len(frames)]
DynamicType(o) == IF o \in Heap THEN heapType[o] ELSE RecordVarType[o]

(* Bound: whether a second guard is considered.                            *)
LateGuard == IF LateGuards THEN RecordType \union {NoType} ELSE {NoType}
Designator == [base : Pointer \union RecordVar \union {"r"},
               guard : RecordType \union {NoType}, late : LateGuard]

-----------------------------------------------------------------------------
(* What obnc-compile accepts (SetSelectorTypes).                           *)

DeclaredType(d) ==
    IF d.base = "r" THEN Top.formal
    ELSE IF d.base \in Pointer THEN PointerType[d.base] ELSE RecordVarType[d.base]
GuardedType(d) == IF d.guard = NoType THEN DeclaredType(d) ELSE d.guard
Type(d) == IF d.late = NoType THEN GuardedType(d) ELSE d.late

(* A record that is guarded must be, or be reached through, a variable     *)
(* parameter; a guard names an extension.                                  *)
Accepted(d) ==
    /\ d.base = "r" => frames /= <<>>
    /\ d.guard /= NoType =>
          /\ d.base \in Pointer \/ (d.base = "r" /\ Top.kind = "var")
          /\ Extends(DeclaredType(d), d.guard)
    /\ d.late /= NoType =>
          /\ d.base \in Param \/ (d.base = "r" /\ Top.kind = "var" /\ d.guard /= NoType)
          /\ Extends(GuardedType(d), d.late)

AcceptedOnes == {d \in Designator : Accepted(d)}

(* Writable: assigned to or passed as a variable parameter.                *)
Writable(d) == d.base = "r" => Top.kind = "var"

-----------------------------------------------------------------------------
(* What is generated for a designator.                                     *)

ObjectOf(d) ==
    IF d.base = "r" THEN Top.object
    ELSE IF d.base \in Pointer THEN pointsTo[d.base] ELSE d.base

(* Mutant of Passes: only NIL is trapped.                                  *)
PassesUntested(d) == ObjectOf(d) /= NIL

(* GenerateTypeGuard: a pointer is tested with the descriptor on the heap, *)
(* the first guard of a parameter with the one that was passed, any other  *)
(* record with the descriptor of the selector's type, which is the type    *)
(* that the guard names. OBNC_PT traps when NIL is dereferenced.           *)
GuardDescriptor(d) == Descriptor(IF d.base = "r" THEN Top.td ELSE DynamicType(ObjectOf(d)))
Passes(d) ==
    /\ ObjectOf(d) /= NIL
    /\ d.guard /= NoType => Is(GuardDescriptor(d), d.guard)
    /\ d.late /= NoType => Is(Descriptor(d.late), d.late)

(* Mutant of TypeDesc: the parameter's own type is taken.                  *)
TypeDescStatic(d) ==
    IF d.late = NoType /\ d.base \in Pointer THEN DynamicType(ObjectOf(d)) ELSE Type(d)

(* GenerateTypeDescExp: the descriptor on the heap behind a dereference,   *)
(* the one passed for a parameter with at most one guard, else the one of  *)
(* the designator's type. The td of a value parameter's frame is that of   *)
(* its type.                                                               *)
TypeDesc(d) ==
    IF d.late /= NoType \/ d.base \in RecordVar THEN Type(d)
    ELSE IF d.base = "r" THEN Top.td ELSE DynamicType(ObjectOf(d))

(* GenerateISExpression: d IS t.                                           *)
IsExpression(d, t) == Is(Descriptor(TypeDesc(d)), t)

-----------------------------------------------------------------------------
TypeTestsInit ==
    /\ heapType = [o \in Heap |-> NoType]
    /\ pointsTo = [p \in Pointer |-> NIL]
    /\ frames = <<>>
    /\ trapped = FALSE

Go == UNCHANGED trapped
Trap == trapped' = TRUE /\ UNCHANGED <<heapType, pointsTo, frames>>

(* OBNC_NEW: the variable is set to NIL when there is no memory.           *)
New(p) ==
    /\ \/ \E o \in Heap :
             /\ heapType[o] = NoType
             /\ heapType' = [heapType EXCEPT ![o] = PointerType[p]]
             /\ pointsTo' = [pointsTo EXCEPT ![p] = o]
       \/ pointsTo' = [pointsTo EXCEPT ![p] = NIL] /\ UNCHANGED heapType
    /\ UNCHANGED frames /\ Go

(* p := q or p := q(guard)                                                 *)
AssignPointer(p, q, guard) ==
    LET d == [base |-> q, guard |-> guard, late |-> NoType] IN
    /\ Accepted(d) /\ Extends(PointerType[p], Type(d))
    /\ IF guard /= NoType /\ ~Passes(d) THEN Trap
       ELSE /\ pointsTo' = [pointsTo EXCEPT ![p] = pointsTo[q]]
            /\ UNCHANGED <<heapType, frames>> /\ Go

(* A procedure with a record parameter is called with d.                   *)
Call(d, kind, formal) ==
    /\ Len(frames) < MaxDepth
    /\ Extends(formal, Type(d))
    /\ kind = "var" => Writable(d)
    /\ IF ~Passes(d) THEN Trap
       ELSE /\ frames' = Append(frames,
                  [kind |-> kind, formal |-> formal, object |-> ObjectOf(d),
                   td |-> IF kind = "var" THEN TypeDesc(d) ELSE formal])
            /\ UNCHANGED <<heapType, pointsTo>> /\ Go

Return ==
    /\ frames /= <<>>
    /\ frames' = SubSeq(frames, 1, Len(frames) - 1)
    /\ UNCHANGED <<heapType, pointsTo>> /\ Go

(* GenerateRecordAssignment: dst := src is checked when dst is a parameter *)
(* with at most one guard. The fields of the type of dst are copied.       *)
Checked(dst) == dst.base = "r" /\ dst.late = NoType
Assigns(dst, src) ==
    /\ Passes(dst) /\ Passes(src)
    /\ Checked(dst) => RecordAssignable(Descriptor(TypeDesc(src)), Descriptor(TypeDesc(dst)))
AssignRecord(dst, src) ==
    /\ Writable(dst)
    /\ Extends(Type(dst), Type(src))
    /\ ~Assigns(dst, src)
    /\ Trap

TypeTestsNext ==
    /\ ~trapped
    /\ \/ \E p \in Pointer : New(p)
       \/ \E p, q \in Pointer, guard \in RecordType \union {NoType} : AssignPointer(p, q, guard)
       \/ Return
       \/ \E d \in AcceptedOnes, kind \in {"value", "var"}, formal \in RecordType :
             Call(d, kind, formal)
       \/ \E dst, src \in AcceptedOnes : AssignRecord(dst, src)

TypeTestsSpec == TypeTestsInit /\ [][TypeTestsNext]_typeTestVars

-----------------------------------------------------------------------------
TypeTestsOK ==
    /\ heapType \in [Heap -> RecordType \union {NoType}]
    /\ pointsTo \in [Pointer -> Heap \union {NIL}]
    /\ frames \in Seq(Frame)
    /\ trapped \in BOOLEAN

(* A pointer points to a record that has at least the type it is declared  *)
(* to point to; the descriptor of a variable parameter is that of the      *)
(* record, and that of a value parameter is that of its type.              *)
PointersTyped ==
    \A p \in Pointer : pointsTo[p] /= NIL =>
        /\ heapType[pointsTo[p]] \in RecordType
        /\ Extends(PointerType[p], heapType[pointsTo[p]])
FramesTyped ==
    \A k \in DOMAIN frames :
        LET dynamic == DynamicType(frames[k].object) IN
        /\ dynamic \in RecordType
        /\ Extends(frames[k].formal, frames[k].td)
        /\ Extends(frames[k].td, dynamic)
        /\ frames[k].kind = "var" => frames[k].td = dynamic
TypeTestsInv == TypeTestsOK /\ PointersTyped /\ FramesTyped

(* Oberon report, 8.2.4: "the test v IS T determines whether the actually  *)
(* designated variable is (not only a T0, but also) a T": the test that is *)
(* generated has this value, and a guard passes exactly when the test it   *)
(* stands for is true, along any chain of calls.                           *)
Testable(d) ==
    /\ d.guard = NoType /\ d.late = NoType
    /\ d.base \in Pointer \/ (d.base = "r" /\ frames /= <<>> /\ Top.kind = "var")
    /\ ObjectOf(d) /= NIL
TestsExact ==
    \A d \in Designator, t \in RecordType : Testable(d) /\ Extends(DeclaredType(d), t) =>
        LET true == Extends(t, DynamicType(ObjectOf(d))) IN
        /\ IsExpression(d, t) = true
        /\ Passes([base |-> d.base, guard |-> t, late |-> NoType]) = true

(* Behind guards that passed, a record is only taken for what it is: the   *)
(* fields that a designator gives access to are within the record that was *)
(* allocated, and so are those that a record assignment copies. This is    *)
(* what a guard is for: it "asserts that v is of type T0, i.e. it aborts   *)
(* program execution, if it is not of type T0" (Oberon report, 8.1).       *)
AccessWithinRecord ==
    \A d \in Designator : Accepted(d) /\ Passes(d) =>
        Extends(Type(d), DynamicType(ObjectOf(d)))

(* A record is assigned to a variable parameter only if its dynamic type   *)
(* is that of the record the parameter stands for, or an extension of it.  *)
AssignedExtends ==
    \A dst, src \in AcceptedOnes :
        Writable(dst) /\ Checked(dst) /\ Assigns(dst, src) =>
            Extends(DynamicType(ObjectOf(dst)), DynamicType(ObjectOf(src)))
==============================================================================
