------------------------------ MODULE TypesProofs ------------------------------
(***************************************************************************)
(* For every hierarchy of record types and any number of variables,        *)
(* records and nested calls, in a program without late guards: type        *)
(* descriptors describe what they are used for (TypeTestsInv), so that     *)
(* type tests are exact and guarded accesses stay within the record.       *)
(*                                                                         *)
(* For every sequence of CASE statements: a value selects one branch, at   *)
(* most, and, where type CASE statements are not nested, their variables   *)
(* have the type of the label, and the declared one again behind END.      *)
(*                                                                         *)
(* For any modules, texts, import lists, aliases and bounds: symbol files  *)
(* are sufficient. The argument: while a symbol file is being written,     *)
(* each name that a line mentions has a line of its own or is on the list  *)
(* of indirectly exported types. Since both the list and what was written  *)
(* are keyed by names in the symbol table, this rests on a fact about      *)
(* names: identifiers that share a name in the symbol table share the name *)
(* that is written, unless an alias is the name of another module of which *)
(* a type is re-exported. What a symbol file says is true even then.       *)
(***************************************************************************)
EXTENDS TypeTests, CaseStatements, SymbolFiles, FiniteSetTheorems, SequenceTheorems, TLAPS

-----------------------------------------------------------------------------
(* Type tests.                                                             *)

LEMMA ChainFacts ==
    ASSUME NEW t \in RecordType
    PROVE  /\ Chain[t] \in Seq(RecordType)
           /\ Len(Chain[t]) \in Nat /\ Len(Chain[t]) > 0
           /\ DOMAIN Chain[t] = 1 .. Len(Chain[t])
           /\ Chain[t][Len(Chain[t])] = t
           /\ \A k \in 1 .. Len(Chain[t]) :
                 Chain[t][k] \in RecordType /\ Chain[Chain[t][k]] = SubSeq(Chain[t], 1, k)
<1>1. Chain[t] \in Seq(RecordType)
    BY ChainAssumption
<1>2. /\ Len(Chain[t]) \in Nat /\ DOMAIN Chain[t] = 1 .. Len(Chain[t])
      /\ \A k \in 1 .. Len(Chain[t]) : Chain[t][k] \in RecordType
    BY <1>1
<1>3. /\ Len(Chain[t]) > 0 /\ Chain[t][Len(Chain[t])] = t
      /\ \A k \in 1 .. Len(Chain[t]) : Chain[Chain[t][k]] = SubSeq(Chain[t], 1, k)
    BY ChainAssumption
<1> QED
    BY <1>1, <1>2, <1>3

LEMMA ExtendsReflexive == ASSUME NEW t \in RecordType PROVE Extends(t, t)
BY ChainFacts DEF Extends

LEMMA ExtendsTransitive ==
    ASSUME NEW a \in RecordType, NEW b \in RecordType, NEW c \in RecordType,
           Extends(a, b), Extends(b, c)
    PROVE  Extends(a, c)
<1>1. PICK k \in 1 .. Len(Chain[c]) : Chain[c][k] = b
    BY ChainFacts DEF Extends
<1>2. Chain[b] = SubSeq(Chain[c], 1, k)
    BY <1>1, ChainFacts
<1>3. PICK j \in 1 .. Len(Chain[b]) : Chain[b][j] = a
    BY ChainFacts DEF Extends
<1>4. Len(Chain[b]) = k
    BY <1>2, ChainFacts
<1>5. j \in 1 .. Len(Chain[c]) /\ Chain[c][j] = a
    BY <1>2, <1>3, <1>4, ChainFacts
<1> QED
    BY <1>5, ChainFacts DEF Extends

(* The comparison of OBNC_IS decides whether a type is extended.           *)
LEMMA IsExtends ==
    ASSUME NEW d \in RecordType, NEW t \in RecordType
    PROVE  Is(Descriptor(d), t) <=> Extends(t, d)
<1>1. ASSUME Is(Descriptor(d), t) PROVE Extends(t, d)
    <2>1. Len(Chain[t]) \in 1 .. Len(Chain[d]) /\ Chain[d][Len(Chain[t])] = t
        BY <1>1, ChainFacts DEF Is, Descriptor, ExtensionLevel
    <2> QED
        BY <2>1, ChainFacts DEF Extends
<1>2. ASSUME Extends(t, d) PROVE Is(Descriptor(d), t)
    <2>1. PICK k \in 1 .. Len(Chain[d]) : Chain[d][k] = t
        BY <1>2, ChainFacts DEF Extends
    <2>2. Chain[t] = SubSeq(Chain[d], 1, k)
        BY <2>1, ChainFacts
    <2>3. Len(Chain[t]) = k
        BY <2>2, ChainFacts
    <2> QED
        BY <2>1, <2>3, ChainFacts DEF Is, Descriptor, ExtensionLevel
<1> QED
    BY <1>1, <1>2

LEMMA AssignableExtends ==
    ASSUME NEW src \in RecordType, NEW dst \in RecordType,
           RecordAssignable(Descriptor(src), Descriptor(dst))
    PROVE  Extends(dst, src)
<1>1. /\ Len(Chain[dst]) \in 1 .. Len(Chain[src])
      /\ Chain[src][Len(Chain[dst])] = dst
    BY ChainFacts DEF RecordAssignable, Descriptor, ExtensionLevel
<1> QED
    BY <1>1, ChainFacts DEF Extends
-----------------------------------------------------------------------------
LEMMA TopTyped ==
    ASSUME TypeTestsInv, frames /= <<>>
    PROVE  /\ Len(frames) \in Nat /\ Len(frames) > 0
           /\ Top \in Frame
           /\ DynamicType(Top.object) \in RecordType
           /\ Extends(Top.formal, Top.td)
           /\ Extends(Top.td, DynamicType(Top.object))
           /\ Top.kind = "var" => Top.td = DynamicType(Top.object)
<1>1. Len(frames) \in DOMAIN frames /\ Len(frames) > 0 /\ Len(frames) \in Nat
    BY DEF TypeTestsInv, TypeTestsOK
<1> QED
    BY <1>1 DEF TypeTestsInv, TypeTestsOK, FramesTyped, Top

(* An accepted designator has a type, and so has the variable it begins    *)
(* with; the record it stands for has at least the variable's type.        *)
LEMMA DesignatorTyped ==
    ASSUME TypeTestsInv, NEW d \in Designator, Accepted(d)
    PROVE  /\ DeclaredType(d) \in RecordType
           /\ GuardedType(d) \in RecordType
           /\ Type(d) \in RecordType
           /\ ObjectOf(d) /= NIL =>
                 /\ ObjectOf(d) \in Record
                 /\ DynamicType(ObjectOf(d)) \in RecordType
                 /\ Extends(DeclaredType(d), DynamicType(ObjectOf(d)))
<1>1. /\ DeclaredType(d) \in RecordType
      /\ ObjectOf(d) /= NIL =>
            /\ ObjectOf(d) \in Record
            /\ DynamicType(ObjectOf(d)) \in RecordType
            /\ Extends(DeclaredType(d), DynamicType(ObjectOf(d)))
    <2>1. CASE d.base = "r"
        <3>1. DeclaredType(d) = Top.formal /\ ObjectOf(d) = Top.object /\ frames /= <<>>
            BY <2>1 DEF DeclaredType, ObjectOf, Accepted
        <3>2. Top \in Frame /\ DynamicType(Top.object) \in RecordType
              /\ Extends(Top.formal, Top.td) /\ Extends(Top.td, DynamicType(Top.object))
            BY <3>1, TopTyped
        <3>3. Top.formal \in RecordType /\ Top.td \in RecordType /\ Top.object \in Record
            BY <3>2 DEF Frame
        <3> QED
            BY <3>1, <3>2, <3>3, ExtendsTransitive
    <2>2. CASE d.base \in Pointer
        BY <2>2, TypeTestsAssumption
        DEF DeclaredType, ObjectOf, TypeTestsInv, TypeTestsOK, PointersTyped, DynamicType, Record
    <2>3. CASE d.base \in RecordVar
        <3>1. DeclaredType(d) = RecordVarType[d.base] /\ ObjectOf(d) = d.base
            BY <2>3, TypeTestsAssumption DEF DeclaredType, ObjectOf
        <3>2. d.base \notin Heap /\ RecordVarType[d.base] \in RecordType
            BY <2>3, TypeTestsAssumption
        <3> QED
            BY <2>3, <3>1, <3>2, ExtendsReflexive DEF DynamicType, Record
    <2> QED
        BY <2>1, <2>2, <2>3 DEF Designator, LateGuard
<1> QED
    BY <1>1 DEF GuardedType, Type, Designator, LateGuard

(* The descriptor that is generated for an accepted designator without     *)
(* late guard lies between its type and the dynamic type, and is that of   *)
(* the dynamic type unless the designator is a value parameter.            *)
LEMMA DescriptorTyped ==
    ASSUME TypeTestsInv, NEW d \in Designator, Accepted(d), Passes(d), d.late = NoType
    PROVE  /\ TypeDesc(d) \in RecordType
           /\ Extends(Type(d), TypeDesc(d))
           /\ Extends(TypeDesc(d), DynamicType(ObjectOf(d)))
           /\ Writable(d) => TypeDesc(d) = DynamicType(ObjectOf(d))
<1> DEFINE dyn == DynamicType(ObjectOf(d))
<1>1. /\ DeclaredType(d) \in RecordType /\ GuardedType(d) \in RecordType
      /\ Type(d) = GuardedType(d) /\ dyn \in RecordType /\ Extends(DeclaredType(d), dyn)
    BY DesignatorTyped DEF Passes, Type
<1>2. CASE d.base = "r"
    <2>1. frames /= <<>> /\ d.base \notin Pointer /\ d.base \notin RecordVar
        BY <1>2, TypeTestsAssumption DEF Accepted
    <2>2. /\ Top \in Frame /\ Extends(Top.formal, Top.td)
          /\ Extends(Top.td, DynamicType(Top.object))
          /\ Top.kind = "var" => Top.td = DynamicType(Top.object)
        BY <2>1, TopTyped
    <2>3. Top.td \in RecordType /\ Top.formal \in RecordType
        BY <2>2 DEF Frame
    <2>4. /\ ObjectOf(d) = Top.object
          /\ GuardDescriptor(d) = Descriptor(Top.td)
          /\ DeclaredType(d) = Top.formal /\ TypeDesc(d) = Top.td
        BY <1>2, <2>1 DEF ObjectOf, GuardDescriptor, DeclaredType, TypeDesc
    <2>5. Extends(GuardedType(d), Top.td)
        BY <2>2, <2>3, <2>4, <1>1, IsExtends DEF GuardedType, Passes
    <2> QED
        BY <1>1, <1>2, <2>2, <2>3, <2>4, <2>5 DEF Writable
<1>3. CASE d.base \in Pointer
    <2>1. d.base /= "r" /\ GuardDescriptor(d) = Descriptor(dyn) /\ d.base \notin RecordVar
        BY <1>3, TypeTestsAssumption DEF GuardDescriptor
    <2>2. Extends(GuardedType(d), dyn)
        BY <2>1, <1>1, IsExtends DEF GuardedType, Passes
    <2>3. TypeDesc(d) = dyn
        BY <2>1 DEF TypeDesc
    <2> QED
        BY <2>2, <2>3, <1>1, ExtendsReflexive
<1>4. CASE d.base \in RecordVar
    <2>1. d.base \notin Pointer /\ d.base /= "r" /\ d.base \notin Heap
        BY <1>4, TypeTestsAssumption
    <2>2. d.guard = NoType
        BY <2>1 DEF Accepted
    <2>3. /\ TypeDesc(d) = RecordVarType[d.base] /\ Type(d) = RecordVarType[d.base]
          /\ dyn = RecordVarType[d.base]
        BY <1>1, <1>4, <2>1, <2>2
        DEF TypeDesc, GuardedType, DeclaredType, DynamicType, ObjectOf
    <2> QED
        BY <2>3, <1>1, ExtendsReflexive
<1> QED
    BY <1>2, <1>3, <1>4 DEF Designator, LateGuard
-----------------------------------------------------------------------------
LEMMA InitTyped == TypeTestsInit => TypeTestsInv
<1> SUFFICES ASSUME TypeTestsInit PROVE TypeTestsInv
    OBVIOUS
<1>1. TypeTestsOK
    <2>1. <<>> \in Seq(Frame)
        OBVIOUS
    <2> QED
        BY <2>1 DEF TypeTestsInit, TypeTestsOK
<1>2. PointersTyped
    BY DEF TypeTestsInit, PointersTyped
<1>3. FramesTyped
    BY DEF TypeTestsInit, FramesTyped
<1> QED
    BY <1>1, <1>2, <1>3 DEF TypeTestsInv

(* A step that leaves the heap alone keeps dynamic types.                  *)
LEMMA NewKeeps ==
    ASSUME TypeTestsInv, NEW p \in Pointer, New(p) PROVE TypeTestsInv'
<1> USE TypeTestsAssumption
<1>1. TypeTestsOK'
    BY DEF New, Go, TypeTestsInv, TypeTestsOK
<1>2. \A o \in Record : DynamicType(o) \in RecordType => DynamicType(o)' = DynamicType(o)
    BY DEF New, DynamicType, TypeTestsInv, TypeTestsOK, Record
<1>3. PointersTyped'
    <2>1. CASE UNCHANGED heapType
        BY <2>1 DEF New, PointersTyped, TypeTestsInv, TypeTestsOK
    <2>2. ASSUME NEW o \in Heap, heapType[o] = NoType,
                 heapType' = [heapType EXCEPT ![o] = PointerType[p]],
                 pointsTo' = [pointsTo EXCEPT ![p] = o]
          PROVE  PointersTyped'
        <3> SUFFICES ASSUME NEW x \in Pointer, pointsTo'[x] /= NIL
                     PROVE  /\ heapType'[pointsTo'[x]] \in RecordType
                            /\ Extends(PointerType[x], heapType'[pointsTo'[x]])
            BY DEF PointersTyped
        <3>1. CASE x = p
            BY <2>2, <3>1, ExtendsReflexive DEF TypeTestsInv, TypeTestsOK
        <3>2. CASE x /= p
            BY <2>2, <3>2 DEF TypeTestsInv, TypeTestsOK, PointersTyped
        <3> QED
            BY <3>1, <3>2
    <2> QED
        BY <2>1, <2>2 DEF New
<1>4. FramesTyped'
    <2>1. frames' = frames
        BY DEF New
    <2>2. \A k \in DOMAIN frames : frames[k].object \in Record
        <3> TAKE k \in DOMAIN frames
        <3>1. frames[k] \in Frame
            BY DEF TypeTestsInv, TypeTestsOK
        <3> QED
            BY <3>1 DEF Frame
    <2> QED
        BY <1>2, <2>1, <2>2 DEF FramesTyped, TypeTestsInv
<1> QED
    BY <1>1, <1>3, <1>4 DEF TypeTestsInv

LEMMA TrapKeeps == ASSUME TypeTestsInv, Trap PROVE TypeTestsInv'
BY DEF Trap, TypeTestsInv, TypeTestsOK, PointersTyped, FramesTyped, DynamicType

LEMMA AssignPointerKeeps ==
    ASSUME TypeTestsInv, NEW p \in Pointer, NEW q \in Pointer,
           NEW guard \in RecordType \union {NoType}, AssignPointer(p, q, guard)
    PROVE  TypeTestsInv'
<1> DEFINE d == [base |-> q, guard |-> guard, late |-> NoType]
<1>1. d \in Designator /\ Accepted(d) /\ Extends(PointerType[p], Type(d))
    BY DEF AssignPointer, Designator, LateGuard
<1>2. CASE guard /= NoType /\ ~Passes(d)
    BY <1>2, TrapKeeps DEF AssignPointer
<1>3. CASE ~(guard /= NoType /\ ~Passes(d))
    <2>1. /\ pointsTo' = [pointsTo EXCEPT ![p] = pointsTo[q]]
          /\ UNCHANGED <<heapType, frames, trapped>>
        BY <1>3 DEF AssignPointer, Go
    <2>2. ObjectOf(d) = pointsTo[q]
        BY TypeTestsAssumption DEF ObjectOf
    <2>3. pointsTo[q] /= NIL => /\ heapType[pointsTo[q]] \in RecordType
                                /\ Extends(PointerType[p], heapType[pointsTo[q]])
        <3> SUFFICES ASSUME pointsTo[q] /= NIL PROVE Extends(PointerType[p], heapType[pointsTo[q]])
            BY DEF TypeTestsInv, PointersTyped
        <3>1. Passes(d)
            BY <1>3, <2>2 DEF Passes
        <3>2. TypeDesc(d) \in RecordType /\ Extends(Type(d), TypeDesc(d))
              /\ Extends(TypeDesc(d), DynamicType(ObjectOf(d)))
            BY <1>1, <3>1, d.late = NoType, DescriptorTyped
        <3>3. Type(d) \in RecordType /\ DynamicType(ObjectOf(d)) \in RecordType
            BY <1>1, <2>2, DesignatorTyped
        <3>4. DynamicType(ObjectOf(d)) = heapType[pointsTo[q]]
            BY <2>2 DEF DynamicType, TypeTestsInv, TypeTestsOK
        <3> QED
            BY <1>1, <3>2, <3>3, <3>4, ExtendsTransitive, TypeTestsAssumption
    <2>4. TypeTestsOK' /\ PointersTyped'
        BY <2>1, <2>3 DEF TypeTestsInv, TypeTestsOK, PointersTyped
    <2>5. FramesTyped'
        BY <2>1 DEF TypeTestsInv, FramesTyped, DynamicType
    <2> QED
        BY <2>4, <2>5 DEF TypeTestsInv
<1> QED
    BY <1>2, <1>3

LEMMA CallKeeps ==
    ASSUME ~LateGuards, TypeTestsInv, NEW d \in AcceptedOnes, NEW kind \in {"value", "var"},
           NEW formal \in RecordType, Call(d, kind, formal)
    PROVE  TypeTestsInv'
<1>1. /\ d \in Designator /\ Accepted(d) /\ d.late = NoType
      /\ Extends(formal, Type(d)) /\ (kind = "var" => Writable(d))
    BY DEF Call, AcceptedOnes, Accepted, Designator, LateGuard
<1>2. CASE ~Passes(d)
    BY <1>2, TrapKeeps DEF Call
<1>3. CASE Passes(d)
    <2> DEFINE f == [kind |-> kind, formal |-> formal, object |-> ObjectOf(d),
                     td |-> IF kind = "var" THEN TypeDesc(d) ELSE formal]
    <2>1. frames' = Append(frames, f) /\ UNCHANGED <<heapType, pointsTo, trapped>>
        BY <1>3 DEF Call, Go
    <2>2. /\ ObjectOf(d) \in Record /\ Type(d) \in RecordType
          /\ DynamicType(ObjectOf(d)) \in RecordType
        BY <1>1, <1>3, DesignatorTyped DEF Passes
    <2>3. /\ TypeDesc(d) \in RecordType /\ Extends(Type(d), TypeDesc(d))
          /\ Extends(TypeDesc(d), DynamicType(ObjectOf(d)))
          /\ Writable(d) => TypeDesc(d) = DynamicType(ObjectOf(d))
        BY <1>1, <1>3, DescriptorTyped
    <2>4. Extends(formal, TypeDesc(d)) /\ Extends(formal, DynamicType(ObjectOf(d)))
        BY <1>1, <2>2, <2>3, ExtendsTransitive
    <2>6. f \in Frame
        BY <2>2, <2>3 DEF Frame
    <2>7. /\ DynamicType(f.object) \in RecordType
          /\ Extends(f.formal, f.td) /\ Extends(f.td, DynamicType(f.object))
          /\ f.kind = "var" => f.td = DynamicType(f.object)
        BY <1>1, <2>2, <2>3, <2>4, ExtendsReflexive
    <2>8. TypeTestsOK' /\ PointersTyped'
        BY <2>1, <2>6 DEF TypeTestsInv, TypeTestsOK, PointersTyped
    <2>9. FramesTyped'
        <3> SUFFICES ASSUME NEW k \in DOMAIN frames'
                     PROVE  /\ DynamicType(frames'[k].object) \in RecordType
                            /\ Extends(frames'[k].formal, frames'[k].td)
                            /\ Extends(frames'[k].td, DynamicType(frames'[k].object))
                            /\ frames'[k].kind = "var" =>
                                  frames'[k].td = DynamicType(frames'[k].object)
            BY <2>1 DEF FramesTyped, DynamicType
        <3>1. frames \in Seq(Frame) /\ k \in 1 .. Len(frames) + 1
            BY <2>1, <2>6 DEF TypeTestsInv, TypeTestsOK
        <3>3. CASE k = Len(frames) + 1
            <4> HIDE DEF f
            <4>1. frames'[k] = f
                BY <2>1, <3>1, <3>3
            <4> QED
                BY <4>1, <2>7
        <3>4. CASE k \in 1 .. Len(frames)
            <4>1. frames'[k] = frames[k] /\ k \in DOMAIN frames
                BY <2>1, <3>1, <3>4
            <4> QED
                BY <4>1 DEF TypeTestsInv, FramesTyped
        <3> QED
            BY <3>1, <3>3, <3>4
    <2> QED
        BY <2>8, <2>9 DEF TypeTestsInv
<1> QED
    BY <1>2, <1>3

LEMMA ReturnKeeps == ASSUME TypeTestsInv, Return PROVE TypeTestsInv'
<1>1. /\ frames' = SubSeq(frames, 1, Len(frames) - 1)
      /\ UNCHANGED <<heapType, pointsTo, trapped>> /\ frames /= <<>> /\ frames \in Seq(Frame)
    BY DEF Return, Go, TypeTestsInv, TypeTestsOK
<1>2. /\ frames' \in Seq(Frame)
      /\ \A k \in DOMAIN frames' : k \in DOMAIN frames /\ frames'[k] = frames[k]
    BY <1>1
<1>3. TypeTestsOK' /\ PointersTyped'
    BY <1>1, <1>2 DEF TypeTestsInv, TypeTestsOK, PointersTyped
<1>4. FramesTyped'
    BY <1>1, <1>2 DEF TypeTestsInv, FramesTyped, DynamicType
<1> QED
    BY <1>3, <1>4 DEF TypeTestsInv

(* The descriptors of records and parameters are right in every state: a   *)
(* pointer points to a record of at least its base type, and a variable    *)
(* parameter's descriptor is that of the record it stands for.             *)
THEOREM DescriptorsInvariant == ASSUME ~LateGuards PROVE TypeTestsSpec => []TypeTestsInv
<1>1. TypeTestsInit => TypeTestsInv
    BY InitTyped
<1>2. TypeTestsInv /\ [TypeTestsNext]_typeTestVars => TypeTestsInv'
    <2> SUFFICES ASSUME TypeTestsInv, [TypeTestsNext]_typeTestVars PROVE TypeTestsInv'
        OBVIOUS
    <2>1. ASSUME NEW p \in Pointer, New(p) PROVE TypeTestsInv'
        BY <2>1, NewKeeps
    <2>2. ASSUME NEW p \in Pointer, NEW q \in Pointer, NEW guard \in RecordType \union {NoType},
                 AssignPointer(p, q, guard)
          PROVE  TypeTestsInv'
        BY <2>2, AssignPointerKeeps
    <2>3. ASSUME Return PROVE TypeTestsInv'
        BY <2>3, ReturnKeeps
    <2>4. ASSUME NEW d \in AcceptedOnes, NEW kind \in {"value", "var"}, NEW formal \in RecordType,
                 Call(d, kind, formal)
          PROVE  TypeTestsInv'
        BY <2>4, CallKeeps
    <2>5. ASSUME NEW dst \in AcceptedOnes, NEW src \in AcceptedOnes, AssignRecord(dst, src)
          PROVE  TypeTestsInv'
        BY <2>5, TrapKeeps DEF AssignRecord
    <2>6. CASE UNCHANGED typeTestVars
        BY <2>6 DEF typeTestVars, TypeTestsInv, TypeTestsOK, PointersTyped, FramesTyped, DynamicType
    <2> QED
        BY <2>1, <2>2, <2>3, <2>4, <2>5, <2>6 DEF TypeTestsNext
<1> QED
    BY <1>1, <1>2, PTL DEF TypeTestsSpec

(* No access behind passed guards is outside of the record that was        *)
(* allocated, for whatever chain of calls and guards.                      *)
THEOREM AccessSafe == ASSUME ~LateGuards PROVE TypeTestsSpec => []AccessWithinRecord
<1>1. TypeTestsInv => AccessWithinRecord
    <2> SUFFICES ASSUME TypeTestsInv, NEW d \in Designator, Accepted(d), Passes(d)
                 PROVE  Extends(Type(d), DynamicType(ObjectOf(d)))
        BY DEF AccessWithinRecord
    <2>1. Type(d) \in RecordType /\ DynamicType(ObjectOf(d)) \in RecordType
        BY DesignatorTyped DEF Passes
    <2>2. d.late = NoType
        BY DEF Accepted, Designator, LateGuard
    <2> QED
        BY <2>1, <2>2, DescriptorTyped, ExtendsTransitive
<1> QED
    BY <1>1, DescriptorsInvariant, PTL

(* A checked assignment to a variable parameter never stores a record in   *)
(* one of another type than its own or a base type of its own.             *)
THEOREM AssignmentSafe == ASSUME ~LateGuards PROVE TypeTestsSpec => []AssignedExtends
<1>1. TypeTestsInv => AssignedExtends
    <2> SUFFICES ASSUME TypeTestsInv, NEW dst \in AcceptedOnes, NEW src \in AcceptedOnes,
                        Writable(dst), Checked(dst), Assigns(dst, src)
                 PROVE  Extends(DynamicType(ObjectOf(dst)), DynamicType(ObjectOf(src)))
        BY DEF AssignedExtends
    <2>1. /\ dst \in Designator /\ Accepted(dst) /\ Passes(dst) /\ dst.late = NoType
          /\ src \in Designator /\ Accepted(src) /\ Passes(src) /\ src.late = NoType
        BY DEF AcceptedOnes, Assigns, Accepted, Designator, LateGuard
    <2>2. TypeDesc(dst) \in RecordType /\ TypeDesc(dst) = DynamicType(ObjectOf(dst))
        BY <2>1, DescriptorTyped
    <2>3. /\ TypeDesc(src) \in RecordType
          /\ Extends(TypeDesc(src), DynamicType(ObjectOf(src)))
        BY <2>1, DescriptorTyped
    <2>4. Extends(TypeDesc(dst), TypeDesc(src))
        BY <2>2, <2>3, AssignableExtends DEF Assigns
    <2>5. DynamicType(ObjectOf(src)) \in RecordType
        BY <2>1, DesignatorTyped DEF Passes
    <2> QED
        BY <2>2, <2>3, <2>4, <2>5, ExtendsTransitive
<1> QED
    BY <1>1, DescriptorsInvariant, PTL

(* Type tests and first guards decide as the language defines them.        *)
THEOREM TestsDecide == ASSUME ~LateGuards PROVE TypeTestsSpec => []TestsExact
<1>1. TypeTestsInv => TestsExact
    <2> DEFINE Guarded(d, t) == [base |-> d.base, guard |-> t, late |-> NoType]
    <2> SUFFICES ASSUME TypeTestsInv, NEW d \in Designator, NEW t \in RecordType,
                        Testable(d), Extends(DeclaredType(d), t)
                 PROVE  /\ IsExpression(d, t) = Extends(t, DynamicType(ObjectOf(d)))
                        /\ Passes(Guarded(d, t)) = Extends(t, DynamicType(ObjectOf(d)))
        BY DEF TestsExact
    <2>1. Accepted(d) /\ Passes(d) /\ d.late = NoType /\ Writable(d)
        BY TypeTestsAssumption DEF Testable, Accepted, Passes, Writable
    <2>2. TypeDesc(d) \in RecordType /\ TypeDesc(d) = DynamicType(ObjectOf(d))
        BY <2>1, DescriptorTyped
    <2>3. IsExpression(d, t) <=> Extends(t, DynamicType(ObjectOf(d)))
        BY <2>2, IsExtends DEF IsExpression
    <2>4. GuardDescriptor(d) = Descriptor(TypeDesc(d))
        BY <2>1, TypeTestsAssumption DEF GuardDescriptor, TypeDesc, Testable
    <2>5. Passes(Guarded(d, t)) <=> Is(GuardDescriptor(d), t)
        BY TypeTestsAssumption DEF Testable, Passes, ObjectOf, GuardDescriptor
    <2>6. Is(GuardDescriptor(d), t) <=> Extends(t, DynamicType(ObjectOf(d)))
        BY <2>2, <2>4, IsExtends
    <2>7. /\ IsExpression(d, t) \in BOOLEAN /\ Extends(t, DynamicType(ObjectOf(d))) \in BOOLEAN
          /\ Passes(Guarded(d, t)) \in BOOLEAN
        BY DEF IsExpression, Is, Extends, Passes
    <2> QED
        BY <2>3, <2>5, <2>6, <2>7
<1> QED
    BY <1>1, DescriptorsInvariant, PTL

-----------------------------------------------------------------------------
(* CASE statements.                                                        *)

(* A CASE statement that has begun: its label ranges exclude each other    *)
(* and are not longer than the compiler allows.                            *)
LabelledRange == [branch : Nat, min : Int, max : Int]
LongestRange(kind) == IF kind = "char" THEN 2 ^ CharBits ELSE RangeLenMax
RangesApart(c) ==
    \A a, b \in c.labels :
        /\ a /= b => a.min .. a.max \intersect b.min .. b.max = {}
        /\ a.max - a.min <= LongestRange(c.kind)

CaseStatement ==
    {c \in [kind : {"type", "integer", "char"}, variable : Variable \union {None},
            type : RecordType \union {None}, labels : SUBSET (RecordType \union LabelledRange),
            branch : Nat, statements : BOOLEAN, guard : RecordType \union {None}] :
        IF c.kind = "type" THEN c.variable \in Variable /\ c.type \in RecordType
        ELSE c.labels \subseteq LabelledRange /\ RangesApart(c)}

CaseTypeOK ==
    /\ symbolType \in [Variable -> RecordType]
    /\ cases \in Seq(CaseStatement)
    /\ caseVariable \in Variable \union {None}
    /\ caseLabelType \in RecordType \union {None}
    /\ rejected \in BOOLEAN

LEMMA InnermostCase ==
    ASSUME CaseTypeOK, cases /= <<>>
    PROVE  /\ Len(cases) \in Nat \ {0} /\ Len(cases) \in DOMAIN cases
           /\ DOMAIN cases = 1 .. Len(cases)
           /\ Innermost \in CaseStatement /\ Innermost = cases[Len(cases)]
  BY EmptySeq, LenProperties DEF CaseTypeOK, Innermost

(* What a step makes of the sequence of statements.                        *)
LEMMA ChangeInnermost ==
    ASSUME CaseTypeOK, cases /= <<>>, NEW c \in CaseStatement, Change(c)
    PROVE  /\ cases' \in Seq(CaseStatement) /\ Len(cases') = Len(cases)
           /\ DOMAIN cases' = DOMAIN cases
           /\ cases'[Len(cases)] = c
           /\ \A k \in DOMAIN cases : k /= Len(cases) => cases'[k] = cases[k]
  <1>1. Len(cases) \in Nat \ {0} /\ DOMAIN cases = 1 .. Len(cases) /\ cases \in Seq(CaseStatement)
    BY InnermostCase DEF CaseTypeOK
  <1>2. cases' = [cases EXCEPT ![Len(cases)] = c]
    BY DEF Change
  <1> QED
    BY <1>1, <1>2, ExceptSeq

LEMMA EndInnermost ==
    ASSUME CaseTypeOK, cases /= <<>>, cases' = SubSeq(cases, 1, Len(cases) - 1)
    PROVE  /\ cases' \in Seq(CaseStatement) /\ Len(cases') = Len(cases) - 1
           /\ DOMAIN cases' = 1 .. Len(cases) - 1
           /\ \A k \in 1 .. Len(cases) - 1 : cases'[k] = cases[k]
  <1>1. Len(cases) \in Nat \ {0} /\ cases \in Seq(CaseStatement)
    BY InnermostCase DEF CaseTypeOK
  <1>2. \A k \in 1 .. Len(cases) - 1 : cases[k] \in CaseStatement
    BY <1>1
  <1>3. PICK n \in Int : n = Len(cases) - 1 /\ n >= 0
    BY <1>1
  <1>4. /\ SubSeq(cases, 1, n) \in Seq(CaseStatement)
        /\ Len(SubSeq(cases, 1, n)) = IF 1 <= n THEN n - 1 + 1 ELSE 0
        /\ \A k \in 1 .. n - 1 + 1 : SubSeq(cases, 1, n)[k] = cases[1 + k - 1]
    BY <1>2, <1>3, SubSeqProperties
  <1>5. Len(cases') = n /\ \A k \in 1 .. n : cases'[k] = cases[k]
    BY <1>3, <1>4
  <1> QED
    BY <1>3, <1>4, <1>5

LEMMA BeginInnermost ==
    ASSUME CaseTypeOK, NEW c \in CaseStatement, cases' = Append(cases, c)
    PROVE  /\ cases' \in Seq(CaseStatement) /\ Len(cases') = Len(cases) + 1
           /\ Len(cases) \in Nat
           /\ DOMAIN cases' = 1 .. Len(cases) + 1 /\ DOMAIN cases = 1 .. Len(cases)
           /\ cases'[Len(cases) + 1] = c
           /\ \A k \in 1 .. Len(cases) : cases'[k] = cases[k]
  BY AppendProperties, LenProperties DEF CaseTypeOK

LEMMA PowersOfTwo == 2 ^ CharBits \in Int /\ 2 ^ (CharBits - 1) \in Int
  BY CharAssumption, SMT

(* A range of characters is shorter than the number of characters.         *)
LEMMA RangeLength ==
    ASSUME NEW kind \in {"integer", "char"}, NEW first \in Char, NEW last \in Char,
           Ordered(kind, RangeOf(kind, first, last), first = last)
    PROVE  /\ RangeOf(kind, first, last).min \in Int /\ RangeOf(kind, first, last).max \in Int
           /\ RangeOf(kind, first, last).max - RangeOf(kind, first, last).min <= LongestRange(kind)
  <1>1. first \in Int /\ last \in Int /\ 0 <= first /\ 0 <= last
        /\ first < 2 ^ CharBits /\ last < 2 ^ CharBits
    BY PowersOfTwo DEF Char, ByteMax
  <1>2. CASE kind = "char"
    BY <1>1, <1>2, PowersOfTwo DEF RangeOf, LongestRange, Signed
  <1>3. CASE kind = "integer"
    BY <1>1, <1>3 DEF RangeOf, LongestRange, Ordered
  <1> QED
    BY <1>2, <1>3

(* Disjoint does what it is called.                                        *)
LEMMA DisjointRanges ==
    ASSUME NEW a, NEW b, a.min \in Int, a.max \in Int, b.min \in Int, b.max \in Int, Disjoint(a, b)
    PROVE  a.min .. a.max \intersect b.min .. b.max = {}
  BY DEF Disjoint

LEMMA InitCase == CaseInit => CaseTypeOK
  <1>1. <<>> \in Seq(CaseStatement)
    OBVIOUS
  <1> QED
    BY <1>1, CaseAssumption DEF CaseInit, CaseTypeOK

(* A new label excludes those before it.                                   *)
LEMMA LabelAdded ==
    ASSUME NEW c \in CaseStatement, c.kind \in {"integer", "char"},
           NEW first \in Char, NEW last \in Char, NEW branch \in Nat, NEW d,
           Ordered(c.kind, RangeOf(c.kind, first, last), first = last),
           \A other \in c.labels : Disjoint(other, RangeOf(c.kind, first, last)),
           d = [c EXCEPT !.labels = @ \union {[branch |-> branch,
                                               min |-> RangeOf(c.kind, first, last).min,
                                               max |-> RangeOf(c.kind, first, last).max]},
                         !.branch = branch]
    PROVE  d \in CaseStatement
  <1> DEFINE range == RangeOf(c.kind, first, last)
             new == [branch |-> branch, min |-> range.min, max |-> range.max]
  <1>1. /\ range.min \in Int /\ range.max \in Int
        /\ range.max - range.min <= LongestRange(c.kind)
    BY RangeLength
  <1>2. new \in LabelledRange /\ new.min = range.min /\ new.max = range.max
    BY <1>1 DEF LabelledRange
  <1>3. c.labels \subseteq LabelledRange /\ RangesApart(c)
    BY DEF CaseStatement
  <1>4. /\ d.kind = c.kind /\ d.variable = c.variable /\ d.type = c.type /\ d.guard = c.guard
        /\ d.statements = c.statements /\ d.branch = branch /\ d.labels = c.labels \union {new}
        /\ d \in [kind : {"type", "integer", "char"}, variable : Variable \union {None},
                  type : RecordType \union {None}, labels : SUBSET (RecordType \union LabelledRange),
                  branch : Nat, statements : BOOLEAN, guard : RecordType \union {None}]
    BY <1>2 DEF CaseStatement
  <1>5. \A other \in c.labels : Disjoint(other, new) /\ other.min \in Int /\ other.max \in Int
    BY <1>2, <1>3 DEF Disjoint, LabelledRange
  <1> HIDE DEF new, range
  <1>6. \A other \in c.labels :
            /\ other.min .. other.max \intersect new.min .. new.max = {}
            /\ new.min .. new.max \intersect other.min .. other.max = {}
    <2> SUFFICES ASSUME NEW other \in c.labels
                 PROVE  other.min .. other.max \intersect new.min .. new.max = {}
      OBVIOUS
    <2> QED
      BY <1>1, <1>2, <1>5, DisjointRanges
  <1>7. RangesApart(d)
    BY <1>1, <1>2, <1>3, <1>4, <1>6 DEF RangesApart
  <1> QED
    BY <1>2, <1>3, <1>4, <1>7 DEF CaseStatement

LEMMA BeginCaseType ==
    ASSUME CaseTypeOK, NEW kind \in {"type", "integer", "char"}, NEW v,
           IF kind = "type" THEN v \in Variable ELSE v = None
    PROVE  /\ NewCase(kind, v) \in CaseStatement
           /\ BeginCase(kind, v) => CaseTypeOK'
  <1>1. NewCase(kind, v) \in CaseStatement
    BY DEF CaseTypeOK, NewCase, CaseStatement, RangesApart
  <1> QED
    BY <1>1, BeginInnermost DEF BeginCase, CaseTypeOK

LEMMA GuardType == ASSUME CaseTypeOK, NEW v PROVE GuardOf(v) \in RecordType \union {None}
  BY DEF GuardOf, CaseTypeOK

LEMMA TypeLabelType ==
    ASSUME CaseTypeOK, NEW t \in RecordType, TypeLabel(t) PROVE CaseTypeOK'
  <1>1. CASE ~(Extends(Innermost.type, t) /\ t \notin Innermost.labels)
    BY <1>1 DEF TypeLabel, CaseTypeOK
  <1>2. CASE Extends(Innermost.type, t) /\ t \notin Innermost.labels
    <2> DEFINE c == [Innermost EXCEPT !.labels = @ \union {t}, !.statements = TRUE,
                                      !.guard = TestGuard]
    <2>1. Innermost \in CaseStatement /\ cases /= <<>> /\ Innermost.kind = "type"
      BY InnermostCase DEF TypeLabel
    <2>2. TestGuard \in RecordType \union {None}
      BY <2>1, GuardType DEF TestGuard, CaseStatement
    <2>3. c \in CaseStatement
      BY <2>1, <2>2 DEF CaseStatement
    <2>4. /\ Change(c) /\ symbolType' = [symbolType EXCEPT ![Innermost.variable] = t]
          /\ caseLabelType' = t /\ UNCHANGED <<caseVariable, rejected>>
      BY <1>2 DEF TypeLabel
    <2> HIDE DEF c
    <2>5. cases' \in Seq(CaseStatement)
      BY <2>1, <2>3, <2>4, ChangeInnermost
    <2> QED
      BY <2>4, <2>5 DEF CaseTypeOK
  <1> QED
    BY <1>1, <1>2

LEMMA RangeLabelType ==
    ASSUME CaseTypeOK, NEW first \in Char, NEW last \in Char, NEW newBranch \in BOOLEAN,
           RangeLabel(first, last, newBranch)
    PROVE  /\ CaseTypeOK'
           /\ \/ UNCHANGED cases
              \/ \E c \in CaseStatement : c.kind = Innermost.kind /\ Change(c)
  <1>1. CASE UNCHANGED cases
    BY <1>1 DEF RangeLabel, CaseTypeOK
  <1>2. CASE ~UNCHANGED cases
    <2> DEFINE range == RangeOf(Innermost.kind, first, last)
               branch == Innermost.branch + (IF newBranch THEN 1 ELSE 0)
               c == [Innermost EXCEPT
                       !.labels = @ \union {[branch |-> branch, min |-> range.min,
                                             max |-> range.max]},
                       !.branch = branch]
    <2>1. Innermost \in CaseStatement /\ cases /= <<>> /\ Innermost.kind \in {"integer", "char"}
      BY InnermostCase DEF RangeLabel
    <2>2. /\ Change(c) /\ UNCHANGED <<symbolType, caseVariable, caseLabelType, rejected>>
          /\ Ordered(Innermost.kind, range, first = last)
          /\ \A other \in Innermost.labels : Disjoint(other, range)
      BY <1>2 DEF RangeLabel
    <2>3. branch \in Nat
      BY <2>1 DEF CaseStatement
    <2> HIDE DEF branch
    <2>4. c \in CaseStatement
      BY <2>1, <2>2, <2>3, LabelAdded
    <2>5. c.kind = Innermost.kind
      BY <2>1 DEF CaseStatement
    <2> HIDE DEF c
    <2> QED
      BY <2>1, <2>2, <2>4, <2>5, ChangeInnermost DEF CaseTypeOK
  <1> QED
    BY <1>1, <1>2

LEMMA StatementsType ==
    ASSUME CaseTypeOK, BeginStatements \/ EndBranch PROVE CaseTypeOK'
  <1>1. PICK there \in BOOLEAN : Change([Innermost EXCEPT !.statements = there])
    BY DEF BeginStatements, EndBranch
  <1>2. Innermost \in CaseStatement /\ cases /= <<>>
    BY InnermostCase DEF BeginStatements, EndBranch
  <1>3. [Innermost EXCEPT !.statements = there] \in CaseStatement
    BY <1>2 DEF CaseStatement, RangesApart
  <1>4. cases' \in Seq(CaseStatement)
    BY <1>1, <1>2, <1>3, ChangeInnermost
  <1> QED
    BY <1>4 DEF CaseTypeOK, BeginStatements, EndBranch

LEMMA EndCaseType == ASSUME CaseTypeOK, EndCase PROVE CaseTypeOK'
  <1>1. Innermost \in CaseStatement /\ cases /= <<>>
    BY InnermostCase DEF EndCase
  <1>2. cases' \in Seq(CaseStatement)
    BY <1>1, EndInnermost DEF EndCase
  <1> QED
    BY <1>1, <1>2 DEF EndCase, CaseTypeOK, CaseStatement

LEMMA NextCaseType == ASSUME CaseTypeOK, [CaseNext]_caseVars PROVE CaseTypeOK'
  <1>1. CASE UNCHANGED caseVars
    BY <1>1 DEF caseVars, CaseTypeOK
  <1>2. ASSUME NEW v \in Variable, BeginCase("type", v) PROVE CaseTypeOK'
    BY <1>2, BeginCaseType
  <1>3. ASSUME NEW kind \in {"integer", "char"}, BeginCase(kind, None) PROVE CaseTypeOK'
    BY <1>3, BeginCaseType
  <1> QED
    BY <1>1, <1>2, <1>3, TypeLabelType, RangeLabelType, StatementsType, EndCaseType DEF CaseNext

(* In every program that is accepted, a value selects at most one branch,  *)
(* however CASE statements are nested.                                     *)
THEOREM BranchesApart == CaseSpec => []OneBranch
  <1>1. CaseTypeOK => OneBranch
    <2> SUFFICES ASSUME CaseTypeOK, NEW k \in DOMAIN cases, cases[k].kind /= "type",
                        NEW a \in cases[k].labels, NEW b \in cases[k].labels
                 PROVE  /\ a /= b => a.min .. a.max \intersect b.min .. b.max = {}
                        /\ a.max - a.min <= IF cases[k].kind = "char" THEN 2 ^ CharBits
                                            ELSE RangeLenMax
      BY DEF OneBranch
    <2>1. cases[k] \in CaseStatement
      BY DEF CaseTypeOK
    <2>2. RangesApart(cases[k])
      BY <2>1 DEF CaseStatement
    <2> QED
      BY <2>2 DEF RangesApart, LongestRange
  <1> QED
    BY <1>1, InitCase, NextCaseType, PTL DEF CaseSpec

(* CASE statements with type labels that are not nested in each other.     *)
Unnested == MaxTypeCases \in 0 .. 1

TypeCases == {k \in DOMAIN cases : cases[k].kind = "type"}

(* The generator's variables while c is the one such statement.            *)
InStep(c) ==
    /\ caseVariable = c.variable /\ c.type = VariableType[c.variable] /\ c.guard = None
    /\ \A v \in Variable : v /= c.variable => symbolType[v] = VariableType[v]
    /\ IF c.statements THEN symbolType[c.variable] = caseLabelType ELSE caseLabelType = None

CaseInv ==
    /\ CaseTypeOK
    /\ \A j, k \in TypeCases : j = k
    /\ TypeCases = {} => caseVariable = None /\ caseLabelType = None /\ symbolType = VariableType
    /\ \A k \in TypeCases : InStep(cases[k])
    /\ \A k \in DOMAIN cases : k /= Len(cases) => cases[k].statements

(* The type of the case variable of a CASE statement is what it was taken  *)
(* for in each of its branches, and what it was before afterwards.         *)
LEMMA InStepSame ==
    ASSUME NEW c, InStep(c), UNCHANGED <<symbolType, caseVariable, caseLabelType>>
    PROVE  InStep(c)'
  BY DEF InStep

LEMMA BeginTyped ==
    ASSUME Unnested, CaseInv, NEW kind \in {"type", "integer", "char"}, NEW v,
           IF kind = "type" THEN v \in Variable ELSE v = None, BeginCase(kind, v)
    PROVE  CaseInv'
  <1> DEFINE c == NewCase(kind, v)
  <1>0. PICK n : n = Len(cases) + 1
    OBVIOUS
  <1>1. c \in CaseStatement /\ CaseTypeOK'
    BY BeginCaseType DEF CaseInv
  <1>2. c.kind = kind /\ c.statements = FALSE /\ c.guard = None /\ c.variable = v
        /\ (kind = "type" => c.type = symbolType[v])
    BY DEF NewCase
  <1>3. cases' = Append(cases, c) /\ UNCHANGED <<symbolType, caseLabelType>>
        /\ caseVariable' = (IF kind = "type" THEN v ELSE caseVariable) /\ StatementsHere
    BY DEF BeginCase
  <1> HIDE DEF c
  <1>4. /\ Len(cases') = n /\ Len(cases) \in Nat
        /\ DOMAIN cases' = 1 .. n /\ DOMAIN cases = 1 .. Len(cases)
        /\ cases'[n] = c
        /\ \A k \in 1 .. Len(cases) : cases'[k] = cases[k]
    BY <1>0, <1>1, <1>3, BeginInnermost DEF CaseInv
  <1>5. \A k \in DOMAIN cases' : k /= Len(cases') => cases'[k].statements
    <2> SUFFICES ASSUME NEW k \in DOMAIN cases', k /= n PROVE cases'[k].statements
      BY <1>4
    <2>1. k \in DOMAIN cases /\ cases'[k] = cases[k] /\ cases /= <<>>
      BY <1>0, <1>4
    <2>2. CASE k = Len(cases)
      BY <1>3, <2>1, <2>2 DEF StatementsHere, Innermost
    <2> QED
      BY <2>1, <2>2 DEF CaseInv
  <1>6. CASE kind = "type"
    <2>1. TypeCases = {}
      <3>1. Cardinality(TypeCases) < MaxTypeCases
        BY <1>6 DEF BeginCase, TypeCases
      <3>2. IsFiniteSet(DOMAIN cases) /\ TypeCases \subseteq DOMAIN cases
        BY <1>4, FS_Interval DEF TypeCases
      <3>3. IsFiniteSet(TypeCases)
        BY <3>2, FS_Subset
      <3>4. Cardinality(TypeCases) \in Nat /\ (Cardinality(TypeCases) = 0 <=> TypeCases = {})
        BY <3>3, FS_CardinalityType, FS_EmptySet
      <3> QED
        BY <3>1, <3>4 DEF Unnested
    <2>2. TypeCases' = {n}
      BY <1>0, <1>2, <1>4, <1>6, <2>1 DEF TypeCases
    <2>3. InStep(cases[n])'
      BY <1>2, <1>3, <1>4, <1>6, <2>1 DEF InStep, CaseInv
    <2> QED
      BY <1>1, <1>5, <2>2, <2>3 DEF CaseInv
  <1>7. CASE kind /= "type"
    <2>1. TypeCases' = TypeCases /\ UNCHANGED caseVariable
      BY <1>2, <1>3, <1>4, <1>7 DEF TypeCases
    <2>2. \A k \in TypeCases : cases'[k] = cases[k] /\ InStep(cases[k])
      BY <1>4 DEF CaseInv, TypeCases
    <2>3. \A k \in TypeCases' : InStep(cases[k])'
      <3>1. UNCHANGED <<symbolType, caseVariable, caseLabelType>>
        BY <1>3, <2>1
      <3> QED
        BY ONLY <2>1, <2>2, <3>1 DEF InStep
    <2> QED
      BY <1>1, <1>3, <1>5, <2>1, <2>3 DEF CaseInv
  <1> QED
    BY <1>6, <1>7

LEMMA LabelTyped ==
    ASSUME CaseInv, NEW t \in RecordType, TypeLabel(t) PROVE CaseInv'
  <1>1. CaseTypeOK'
    BY TypeLabelType DEF CaseInv
  <1>2. CASE UNCHANGED <<symbolType, cases, caseVariable, caseLabelType>>
    BY <1>1, <1>2 DEF CaseInv, TypeCases, InStep
  <1>3. CASE ~UNCHANGED <<symbolType, cases, caseVariable, caseLabelType>>
    <2> DEFINE n == Len(cases)
               c == [Innermost EXCEPT !.labels = @ \union {t}, !.statements = TRUE,
                                      !.guard = TestGuard]
    <2>1. /\ cases /= <<>> /\ Innermost.kind = "type" /\ ~Innermost.statements
          /\ Change(c) /\ symbolType' = [symbolType EXCEPT ![Innermost.variable] = t]
          /\ caseLabelType' = t /\ UNCHANGED caseVariable
      BY <1>3 DEF TypeLabel
    <2>2. /\ n \in DOMAIN cases /\ Innermost \in CaseStatement /\ Innermost = cases[n]
          /\ n \in TypeCases /\ InStep(Innermost) /\ Innermost.variable \in Variable
      BY <2>1, InnermostCase DEF CaseInv, TypeCases, CaseStatement
    <2>3. caseLabelType = None /\ TestGuard = None
      BY <2>1, <2>2 DEF InStep, TestGuard, GuardOf
    <2>4. /\ c \in CaseStatement /\ c.kind = "type" /\ c.statements /\ c.guard = None
          /\ c.variable = Innermost.variable /\ c.type = Innermost.type
      BY <2>1, <2>2, <2>3 DEF CaseStatement
    <2> HIDE DEF c
    <2>5. /\ Len(cases') = n /\ DOMAIN cases' = DOMAIN cases /\ cases'[n] = c
          /\ \A k \in DOMAIN cases : k /= n => cases'[k] = cases[k]
      BY <2>1, <2>4, ChangeInnermost DEF CaseInv
    <2>6. TypeCases' = {n} /\ TypeCases = {n}
      <3>1. TypeCases = {n}
        BY <2>2 DEF CaseInv
      <3> QED
        BY <2>4, <2>5, <3>1 DEF TypeCases
    <2>7. symbolType \in [Variable -> RecordType]
      BY DEF CaseInv, CaseTypeOK
    <2>8. \A k \in TypeCases' : InStep(cases[k])'
      BY <2>1, <2>2, <2>4, <2>5, <2>6, <2>7 DEF InStep
    <2>9. \A k \in DOMAIN cases' : k /= Len(cases') => cases'[k].statements
      BY <2>5 DEF CaseInv
    <2> QED
      BY <1>1, <2>6, <2>8, <2>9 DEF CaseInv
  <1> QED
    BY <1>2, <1>3

(* What happens to a statement without type labels does not matter.        *)
LEMMA OtherTyped ==
    ASSUME CaseInv, CaseTypeOK', cases /= <<>>, Innermost.kind /= "type",
           NEW c \in CaseStatement, c.kind /= "type", Change(c),
           UNCHANGED <<symbolType, caseVariable, caseLabelType>>
    PROVE  CaseInv'
  <1>1. /\ Len(cases') = Len(cases) /\ DOMAIN cases' = DOMAIN cases /\ cases'[Len(cases)] = c
        /\ \A k \in DOMAIN cases : k /= Len(cases) => cases'[k] = cases[k]
    BY ChangeInnermost DEF CaseInv
  <1>2. TypeCases' = TypeCases /\ \A k \in TypeCases : cases'[k] = cases[k]
    BY <1>1 DEF TypeCases, Innermost
  <1>3. \A k \in TypeCases' : InStep(cases[k])'
    BY <1>2 DEF InStep, CaseInv
  <1> QED
    BY <1>1, <1>2, <1>3 DEF CaseInv

LEMMA EndBranchTyped == ASSUME CaseInv, EndBranch PROVE CaseInv'
  <1> DEFINE n == Len(cases)
             c == [Innermost EXCEPT !.statements = FALSE]
  <1>1. CaseTypeOK'
    BY StatementsType DEF CaseInv
  <1>2. /\ n \in DOMAIN cases /\ Innermost \in CaseStatement /\ Innermost = cases[n]
        /\ cases /= <<>> /\ Innermost.statements /\ Change(c)
        /\ UNCHANGED <<symbolType, caseVariable>>
        /\ caseLabelType' = IF Innermost.kind = "type" THEN None ELSE caseLabelType
    BY InnermostCase DEF EndBranch, CaseInv
  <1>3. /\ c \in CaseStatement /\ c.kind = Innermost.kind /\ ~c.statements /\ c.guard = Innermost.guard
        /\ c.variable = Innermost.variable /\ c.type = Innermost.type
    BY <1>2 DEF CaseStatement, RangesApart
  <1> HIDE DEF c
  <1>4. CASE Innermost.kind /= "type"
    BY <1>1, <1>2, <1>3, <1>4, OtherTyped
  <1>5. CASE Innermost.kind = "type"
    <2>1. /\ Len(cases') = n /\ DOMAIN cases' = DOMAIN cases /\ cases'[n] = c
          /\ \A k \in DOMAIN cases : k /= n => cases'[k] = cases[k]
      BY <1>2, <1>3, ChangeInnermost DEF CaseInv
    <2>2. n \in TypeCases
      BY <1>2, <1>5 DEF TypeCases
    <2>3. TypeCases = {n} /\ InStep(Innermost)
      BY <1>2, <2>2 DEF CaseInv
    <2>4. TypeCases' = {n}
      BY <1>3, <1>5, <2>1, <2>3 DEF TypeCases
    <2>5. InStep(cases[n])'
      BY <1>2, <1>3, <1>5, <2>1, <2>3 DEF InStep
    <2> QED
      BY <1>1, <2>1, <2>4, <2>5 DEF CaseInv
  <1> QED
    BY <1>4, <1>5

LEMMA EndTyped == ASSUME CaseInv, EndCase PROVE CaseInv'
  <1> DEFINE n == Len(cases)
  <1>1. CaseTypeOK'
    BY EndCaseType DEF CaseInv
  <1>2. /\ n \in Nat \ {0} /\ DOMAIN cases = 1 .. n /\ n \in DOMAIN cases
        /\ Innermost \in CaseStatement /\ Innermost = cases[n]
        /\ cases /= <<>> /\ ~Innermost.statements
        /\ UNCHANGED caseLabelType
        /\ IF Innermost.kind = "type"
           THEN /\ symbolType' = [symbolType EXCEPT ![Innermost.variable] = Innermost.type]
                /\ caseVariable' = None
           ELSE UNCHANGED <<symbolType, caseVariable>>
    BY InnermostCase DEF EndCase, CaseInv
  <1>3. /\ Len(cases') = n - 1 /\ DOMAIN cases' = 1 .. n - 1
        /\ \A k \in 1 .. n - 1 : cases'[k] = cases[k]
    BY <1>2, EndInnermost DEF EndCase, CaseInv
  <1>4. \A k \in DOMAIN cases' : cases'[k].statements
    BY <1>2, <1>3 DEF CaseInv
  <1>5. CASE Innermost.kind /= "type"
    <2>1. TypeCases' = TypeCases /\ \A k \in TypeCases : cases'[k] = cases[k]
      BY <1>2, <1>3, <1>5 DEF TypeCases
    <2>2. \A k \in TypeCases' : InStep(cases[k])'
      BY <1>2, <1>5, <2>1 DEF InStep, CaseInv
    <2> QED
      BY <1>1, <1>2, <1>4, <1>5, <2>1, <2>2 DEF CaseInv
  <1>6. CASE Innermost.kind = "type"
    <2>1. n \in TypeCases
      BY <1>2, <1>6 DEF TypeCases
    <2>2. TypeCases = {n} /\ InStep(Innermost)
      BY <1>2, <2>1 DEF CaseInv
    <2>3. TypeCases' = {}
      BY <1>2, <1>3, <2>2 DEF TypeCases
    <2>4. symbolType \in [Variable -> RecordType] /\ VariableType \in [Variable -> RecordType]
          /\ Innermost.variable \in Variable
      BY <1>2, <1>6, CaseAssumption DEF CaseInv, CaseTypeOK, CaseStatement
    <2>5. symbolType' = VariableType /\ caseVariable' = None /\ caseLabelType' = None
      <3>1. /\ symbolType' \in [Variable -> RecordType]
            /\ \A v \in Variable : symbolType'[v] = VariableType[v]
        BY <1>2, <1>6, <2>2, <2>4, CaseAssumption DEF InStep
      <3>2. symbolType' = VariableType
        BY <2>4, <3>1
      <3> QED
        BY <1>2, <1>6, <2>2, <3>2 DEF InStep
    <2> QED
      BY <1>1, <1>4, <2>3, <2>5 DEF CaseInv
  <1> QED
    BY <1>5, <1>6

LEMMA NextCaseInv == ASSUME Unnested, CaseInv, [CaseNext]_caseVars PROVE CaseInv'
  <1>1. CaseTypeOK'
    BY NextCaseType DEF CaseInv
  <1>2. CASE UNCHANGED <<symbolType, cases, caseVariable, caseLabelType>>
    BY <1>1, <1>2 DEF CaseInv, TypeCases, InStep
  <1>3. ASSUME NEW first \in Char, NEW last \in Char, NEW newBranch \in BOOLEAN,
               RangeLabel(first, last, newBranch)
        PROVE  CaseInv'
    <2>1. CASE UNCHANGED cases
      BY <1>2, <1>3, <2>1 DEF RangeLabel
    <2>2. CASE ~UNCHANGED cases
      <3>1. PICK c \in CaseStatement : c.kind = Innermost.kind /\ Change(c)
        BY <1>3, <2>2, RangeLabelType DEF CaseInv
      <3>2. /\ cases /= <<>> /\ Innermost.kind /= "type"
            /\ UNCHANGED <<symbolType, caseVariable, caseLabelType>>
        BY <1>3 DEF RangeLabel
      <3> QED
        BY <1>1, <3>1, <3>2, OtherTyped
    <2> QED
      BY <2>1, <2>2
  <1>4. CASE BeginStatements
    <2> DEFINE c == [Innermost EXCEPT !.statements = TRUE]
    <2>1. cases /= <<>> /\ Innermost.kind /= "type" /\ Change(c) /\ Innermost \in CaseStatement
      BY <1>4, InnermostCase DEF BeginStatements, CaseInv
    <2>2. c \in CaseStatement /\ c.kind /= "type"
      BY <2>1 DEF CaseStatement, RangesApart
    <2> HIDE DEF c
    <2> QED
      BY <1>1, <1>4, <2>1, <2>2, OtherTyped DEF BeginStatements
  <1> QED
    BY <1>2, <1>3, <1>4, BeginTyped, LabelTyped, EndBranchTyped, EndTyped DEF CaseNext, caseVars

(* In a program whose CASE statements with type labels are not nested, a   *)
(* use of a case variable is generated with the type it was parsed with.   *)
THEOREM CasesInStep == ASSUME Unnested PROVE CaseSpec => []CaseVariablesTyped
  <1>1. CaseInit => CaseInv
    <2> SUFFICES ASSUME CaseInit PROVE CaseInv
      OBVIOUS
    <2>1. DOMAIN cases = {}
      BY DEF CaseInit
    <2> QED
      BY <2>1, InitCase DEF CaseInit, CaseInv, TypeCases
  <1>2. CaseInv => CaseVariablesTyped
    <2> SUFFICES ASSUME CaseInv PROVE UsesTyped /\ TestsTyped
      BY DEF CaseVariablesTyped
    <2>1. TestsTyped
      BY DEF TestsTyped, CaseInv, TypeCases, InStep
    <2>2. ASSUME StatementsHere, NEW v \in Variable
          PROVE  symbolType[v] = IF GuardOf(v) = None THEN VariableType[v] ELSE GuardOf(v)
      <3>1. None \notin RecordType /\ v /= None
        BY CaseAssumption
      <3>2. CASE TypeCases = {}
        BY <3>1, <3>2 DEF CaseInv, GuardOf
      <3>3. ASSUME NEW k \in TypeCases
            PROVE  symbolType[v] = IF GuardOf(v) = None THEN VariableType[v] ELSE GuardOf(v)
        <4>1. k \in DOMAIN cases /\ cases /= <<>> /\ InStep(cases[k])
          BY DEF TypeCases, CaseInv
        <4>2. cases[k].statements
          BY <2>2, <4>1 DEF CaseInv, StatementsHere, Innermost
        <4>3. symbolType[v] \in RecordType
          BY DEF CaseInv, CaseTypeOK
        <4> QED
          BY <3>1, <4>1, <4>2, <4>3 DEF InStep, GuardOf
      <3> QED
        BY <3>2, <3>3
    <2> QED
      BY <2>1, <2>2 DEF UsesTyped
  <1> QED
    BY <1>1, <1>2, NextCaseInv, PTL DEF CaseSpec

-----------------------------------------------------------------------------
(* Symbol files.                                                           *)

(* The identifiers that an export can come across.                         *)
IsNode(j, x) ==
    \/ \E t \in Declaring[j.module] : x = OwnNode(t)
    \/ \E q \in DOMAIN j.imports : \E n \in DOMAIN symFile[j.imports[q]] : x = <<q, n>>

Named(n) == n \in Name

GoodJob(j) ==
    /\ j.module \in Module
    /\ \A q \in DOMAIN j.imports : q /= Own /\ j.imports[q] \in Compiled
    /\ Resolved(j.imports)
    /\ j.text.exported \subseteq Declaring[j.module]

(* The lines ls, the names ws that were written and the list ps go         *)
(* together.                                                               *)
Covered(j, ls, ws, ps) ==
    /\ \A y \in ps : IsNode(j, y)
    /\ \A n \in DOMAIN ls : Named(n)
    /\ ~NamesClash(j.imports) =>
          /\ \A x : IsNode(j, x) /\ TableName(x) \in ws => FileName(j, x) \in DOMAIN ls
          /\ \A n \in DOMAIN ls : \A k \in ls[n].uses :
                k \in DOMAIN ls \/ \E y \in ps : FileName(j, y) = k

OwnWritten(j, ls) == \A t \in j.text.exported : <<Own, t>> \in DOMAIN ls

ExportInv ==
    export /= NoExport =>
        /\ GoodJob(export)
        /\ Covered(export, lines, written, pending)
        /\ OwnWritten(export, lines)

(* What was compiled was compiled after its imports.                       *)
ImportsKept ==
    /\ DOMAIN source = Module
    /\ export /= NoExport => /\ symFile[export.module] = NoSym
                             /\ source[export.module].imports = export.imports
    /\ \A m \in Compiled : \A q \in DOMAIN source[m].imports :
          source[m].imports[q] \in Compiled

AllNamed == \A m \in Compiled : \A n \in DOMAIN symFile[m] : Named(n)

CompleteInv ==
    /\ DOMAIN symFile = Module
    /\ ImportsComplete
    /\ AllNamed
    /\ ImportsKept
    /\ ExportInv

-----------------------------------------------------------------------------
(* Identifiers with one name in the symbol table have one name in the      *)
(* symbol file, if no alias makes names clash.                             *)
LEMMA NamesAgree ==
    ASSUME NEW j, NEW x, NEW y, GoodJob(j), AllNamed, ~NamesClash(j.imports),
           IsNode(j, x), IsNode(j, y), TableName(x) = TableName(y)
    PROVE  FileName(j, x) = FileName(j, y)
<1>1. CASE x[2][1] = Own /\ y[2][1] = Own
  BY <1>1 DEF IsNode, TableName, FileName, OwnNode, GoodJob
<1>2. CASE x[2][1] /= Own /\ y[2][1] /= Own
  BY <1>2 DEF TableName, FileName
<1>3. ASSUME NEW u, NEW w, IsNode(j, u), IsNode(j, w), TableName(u) = TableName(w),
             u[2][1] = Own, w[2][1] /= Own
      PROVE  FileName(j, u) = FileName(j, w)
  <2>1. <<u[1], u[2][2]>> = w[2]
    BY <1>3 DEF TableName
  <2>2. PICK q \in DOMAIN j.imports : \E n \in DOMAIN symFile[j.imports[q]] : w = <<q, n>>
    BY <1>3 DEF IsNode, OwnNode
  <2>3. w[2][1] \in Module
    BY <1>3, <2>2, SymbolFilesAssumption DEF AllNamed, Named, Name, GoodJob
  <2>4. u[1] \in Module /\ u[1] /= Own
    BY <2>1, <2>3, SymbolFilesAssumption
  <2>5. u[1] \in DOMAIN j.imports
    BY <1>3, <2>4 DEF IsNode, OwnNode
  <2>6. j.imports[u[1]] = u[1]
    <3>1. u[2] = <<Own, w[2][2]>> /\ u[2] \in DOMAIN symFile[j.imports[u[1]]]
      BY <1>3, <2>1, <2>4 DEF IsNode, OwnNode, AllNamed, Named, Name, GoodJob
    <3>2. w[2] = <<u[1], w[2][2]>> /\ w[2] \in DOMAIN symFile[j.imports[q]] /\ w[2][2] \in Symbol
      BY <2>1, <2>2 DEF AllNamed, Named, Name, GoodJob
    <3> QED BY <2>5, <3>1, <3>2 DEF NamesClash
  <2> QED BY <1>3, <2>1, <2>4, <2>6 DEF FileName
<1> QED BY <1>1, <1>2, <1>3

(* What an identifier is made with are identifiers again, since all that   *)
(* the symbol files mention was found when they were read.                 *)
LEMMA UsesAreNodes ==
    ASSUME NEW j, NEW x, GoodJob(j), IsNode(j, x), NEW y \in UsesOf(j, x)
    PROVE  IsNode(j, y)
<1>1. CASE x[1] = Own
  <2>1. y \in Mentionable(j)
    BY <1>1 DEF UsesOf, DeclaredUses
  <2> QED BY <2>1 DEF Mentionable, IsNode
<1>2. CASE x[1] /= Own
  <2>1. PICK q \in DOMAIN j.imports : \E n \in DOMAIN symFile[j.imports[q]] : x = <<q, n>>
    BY <1>2 DEF IsNode, OwnNode
  <2>n. PICK n \in DOMAIN symFile[j.imports[q]] : x = <<q, n>>
    BY <2>1
  <2>2. PICK k \in symFile[j.imports[q]][n].uses : y = <<q, k>>
    BY <1>2, <2>n DEF UsesOf, ReadUses
  <2>3. k \in DOMAIN symFile[j.imports[q]]
    BY <2>2 DEF Resolved, GoodJob
  <2> QED BY <2>2, <2>3 DEF IsNode
<1> QED BY <1>1, <1>2

LEMMA FileNamesNamed ==
    ASSUME NEW j, NEW x, GoodJob(j), AllNamed, IsNode(j, x)
    PROVE  Named(FileName(j, x))
<1>1. CASE \E t \in Declaring[j.module] : x = OwnNode(t)
  BY <1>1, SymbolFilesAssumption DEF OwnNode, FileName, Named, Name, GoodJob
<1>2. ASSUME NEW q \in DOMAIN j.imports, NEW n \in DOMAIN symFile[j.imports[q]], x = <<q, n>>
      PROVE  Named(FileName(j, x))
  BY <1>2 DEF FileName, Named, Name, GoodJob, AllNamed, Compiled
<1> QED BY <1>1, <1>2 DEF IsNode

(* One level: new has what is written of the list ps.                      *)
LEMMA LevelCovers ==
    ASSUME NEW j, NEW ls, NEW ws, NEW ps, NEW new, NEW next,
           GoodJob(j), AllNamed, Covered(j, ls, ws, ps),
           \A x \in new : IsNode(j, x),
           \A y \in ps : TableName(y) \in ws \/ y \in new,
           OwnWritten(j, WithLines(j, ls, new)),
           next \in OnePerName(Mentioned(j, new))
    PROVE  Covered(j, WithLines(j, ls, new), ws \union {TableName(x) : x \in new}, next)
<1> DEFINE ls2 == WithLines(j, ls, new)
           ws2 == ws \union {TableName(x) : x \in new}
<1>1. DOMAIN ls2 = DOMAIN ls \union {FileName(j, x) : x \in new}
  BY DEF WithLines
<1>2. \A y \in next : y \in Mentioned(j, new)
  BY DEF OnePerName
<1>3. \A y \in Mentioned(j, new) : IsNode(j, y)
  BY UsesAreNodes DEF Mentioned
<1>4. ASSUME ~NamesClash(j.imports), NEW x, IsNode(j, x), TableName(x) \in ws2
      PROVE  FileName(j, x) \in DOMAIN ls2
  <2>1. CASE TableName(x) \in ws
    BY <1>1, <1>4, <2>1 DEF Covered
  <2>2. ASSUME NEW z \in new, TableName(x) = TableName(z)
        PROVE  FileName(j, x) \in DOMAIN ls2
    BY <1>1, <1>4, <2>2, NamesAgree
  <2> QED BY <1>4, <2>1, <2>2
<1>5. \A n \in DOMAIN ls2 : Named(n)
  BY <1>1, FileNamesNamed DEF Covered
<1>6. ASSUME ~NamesClash(j.imports), NEW n \in DOMAIN ls2, NEW k \in ls2[n].uses
      PROVE  k \in DOMAIN ls2 \/ \E y \in next : FileName(j, y) = k
  <2>1. CASE \E x \in new : FileName(j, x) = n
    <3> DEFINE c == CHOOSE x \in new : FileName(j, x) = n
    <3>1. c \in new
      BY <2>1
    <3>2. ls2[n] = Entry(j, c)
      BY <2>1, <1>6, <1>1 DEF WithLines
    <3>3. PICK y \in UsesOf(j, c) : k = FileName(j, y)
      BY <1>6, <3>2 DEF Entry
    <3>4. IsNode(j, y)
      BY <3>1, <3>3, UsesAreNodes
    <3>5. CASE Exported(j, y)
      <4>1. k = <<Own, y[2][2]>> /\ y[2][2] \in j.text.exported
        BY <3>3, <3>4, <3>5 DEF Exported, IsNode, OwnNode, FileName, GoodJob
      <4> QED BY <4>1 DEF OwnWritten
    <3>6. CASE ~Exported(j, y)
      <4>1. y \in Mentioned(j, new)
        BY <3>1, <3>3, <3>6 DEF Mentioned
      <4>2. PICK z \in next : TableName(z) = TableName(y)
        BY <4>1 DEF OnePerName
      <4>3. FileName(j, z) = FileName(j, y)
        BY <1>6, <4>2, <3>4, <1>2, <1>3, NamesAgree
      <4> QED BY <4>2, <4>3, <3>3
    <3> QED BY <3>5, <3>6
  <2>2. CASE ~\E x \in new : FileName(j, x) = n
    <3>1. n \in DOMAIN ls /\ ls2[n] = ls[n]
      BY <2>2, <1>6, <1>1 DEF WithLines
    <3>2. CASE k \in DOMAIN ls
      BY <3>2, <1>1
    <3>3. ASSUME NEW y \in ps, FileName(j, y) = k
          PROVE  k \in DOMAIN ls2
      BY <1>6, <3>3, <1>1 DEF Covered
    <3> QED BY <3>1, <3>2, <3>3, <1>6 DEF Covered
  <2> QED BY <2>1, <2>2
<1> QED BY <1>2, <1>3, <1>4, <1>5, <1>6 DEF Covered

-----------------------------------------------------------------------------
LEMMA InitComplete == SymbolFilesInit => CompleteInv
  BY DEF SymbolFilesInit, CompleteInv, ImportsComplete, AllNamed, ImportsKept, ExportInv,
         Compiled

(* Symbol files that are there stay as complete as they were.              *)
LEMMA SymbolFilesKept ==
    ASSUME CompleteInv, symFile' = symFile, DOMAIN source' = Module,
           \A i \in Compiled : source'[i] = source[i]
    PROVE  /\ (DOMAIN symFile = Module /\ ImportsComplete /\ AllNamed)'
           /\ \A i \in Compiled' : \A q \in DOMAIN source'[i].imports :
                 source'[i].imports[q] \in Compiled'
<1>1. Compiled' = Compiled
  BY DEF Compiled
<1>2. ASSUME NEW i \in Compiled, ~NamesClash(source[i].imports)'
      PROVE  \A n \in DOMAIN symFile[i] : symFile[i][n].uses \subseteq DOMAIN symFile[i]
  <2>1. ~NamesClash(source[i].imports)
    BY <1>2 DEF NamesClash
  <2> QED BY <2>1 DEF CompleteInv, ImportsComplete
<1>3. ImportsComplete'
  BY <1>1, <1>2 DEF ImportsComplete
<1>4. AllNamed'
  BY <1>1 DEF CompleteInv, AllNamed, Named
<1> QED BY <1>1, <1>3, <1>4 DEF CompleteInv, ImportsKept

LEMMA CompileComplete ==
    ASSUME CompleteInv, NEW m \in Module, NEW imports \in ImportLists[m], Compile(m, imports)
    PROVE  CompleteInv'
<1>1. symFile' = symFile /\ symFile[m] = NoSym
  BY DEF Compile
<1>2. ASSUME DOMAIN source' = Module, \A i \in Module \ {m} : source'[i] = source[i]
      PROVE  /\ (DOMAIN symFile = Module /\ ImportsComplete /\ AllNamed)'
             /\ \A i \in Compiled' : \A q \in DOMAIN source'[i].imports :
                   source'[i].imports[q] \in Compiled'
  <2>1. \A i \in Compiled : source'[i] = source[i]
    BY <1>1, <1>2 DEF Compiled
  <2> QED BY <1>1, <1>2, <2>1, SymbolFilesKept
<1>3. CASE ~Resolved(imports)
  <2>1. source' = source /\ export' = NoExport
    BY <1>3 DEF Compile
  <2>2. DOMAIN source' = Module
    BY <2>1 DEF CompleteInv, ImportsKept
  <2> QED BY <1>2, <2>1, <2>2 DEF CompleteInv, ImportsKept, ExportInv
<1>4. CASE Resolved(imports)
  <2>1. PICK text \in Texts(m, imports) :
          LET j == [module |-> m, imports |-> imports, text |-> text]
              xs == {OwnNode(t) : t \in text.exported} IN
          /\ export' = j
          /\ source' = [source EXCEPT ![m] = SourceOf(j)]
          /\ lines' = WithLines(j, <<>>, xs)
          /\ written' = {TableName(x) : x \in xs}
          /\ pending' \in OnePerName(Mentioned(j, xs))
    BY <1>4 DEF Compile
  <2> DEFINE j == [module |-> m, imports |-> imports, text |-> text]
             xs == {OwnNode(t) : t \in text.exported}
  <2>2. j.module = m /\ j.imports = imports /\ j.text = text
    OBVIOUS
  <2>3. text.exported \subseteq Declaring[m]
    BY DEF Texts
  <2>4. GoodJob(j)
    BY <1>4, <2>2, <2>3, SymbolFilesAssumption DEF GoodJob, Compile
  <2>5. \A x \in xs : IsNode(j, x)
    BY <2>2, <2>3 DEF IsNode
  <2>6. OwnWritten(j, WithLines(j, <<>>, xs))
    <3> SUFFICES ASSUME NEW t \in text.exported
                 PROVE  <<Own, t>> \in DOMAIN WithLines(j, <<>>, xs)
      BY <2>2 DEF OwnWritten
    <3>1. FileName(j, OwnNode(t)) = <<Own, t>>
      BY DEF FileName, OwnNode
    <3> QED BY <3>1 DEF WithLines
  <2>7. Covered(j, <<>>, {}, {})
    BY DEF Covered
  <2> HIDE DEF j, xs
  <2>8. Covered(j, WithLines(j, <<>>, xs), {} \union {TableName(x) : x \in xs}, pending')
    BY <2>1, <2>4, <2>5, <2>6, <2>7, LevelCovers DEF CompleteInv, j, xs
  <2>9. Covered(j, lines', written', pending')
    BY <2>1, <2>8 DEF j, xs
  <2>10. OwnWritten(j, lines')
    BY <2>1, <2>6 DEF j, xs
  <2>11. export' = j
    BY <2>1 DEF j
  <2>12. GoodJob(export)' /\ Covered(export, lines, written, pending)' /\ OwnWritten(export, lines)'
    <3>1. GoodJob(export)'
      BY <1>1, <2>4, <2>11 DEF GoodJob, Compiled, Resolved
    <3>2. Covered(export, lines, written, pending)'
      BY <1>1, <2>9, <2>11 DEF Covered, IsNode, FileName, NamesClash, Named
    <3> QED BY <3>1, <3>2, <2>10, <2>11 DEF OwnWritten
  <2>13. /\ DOMAIN source' = Module /\ source'[m] = SourceOf(j)
         /\ \A i \in Module \ {m} : source'[i] = source[i]
    BY <2>1 DEF CompleteInv, ImportsKept, j
  <2>14. source'[m].imports = j.imports
    BY <2>13 DEF SourceOf
  <2>15. ImportsKept'
    BY <1>1, <1>2, <2>2, <2>11, <2>13, <2>14 DEF ImportsKept
  <2> QED BY <1>2, <2>12, <2>13, <2>15 DEF CompleteInv, ExportInv
<1> QED BY <1>3, <1>4

LEMMA WriteLevelComplete ==
    ASSUME CompleteInv, WriteLevel
    PROVE  CompleteInv'
<1> DEFINE new == {x \in pending : TableName(x) \notin written}
<1>1. /\ symFile' = symFile /\ source' = source /\ export' = export /\ export /= NoExport
      /\ lines' = WithLines(export, lines, new)
      /\ written' = written \union {TableName(x) : x \in new}
      /\ pending' \in OnePerName(Mentioned(export, new))
  BY DEF WriteLevel
<1>2. (DOMAIN symFile = Module /\ ImportsComplete /\ AllNamed /\ ImportsKept)'
  <2>1. DOMAIN source' = Module
    BY <1>1 DEF CompleteInv, ImportsKept
  <2>2. /\ (DOMAIN symFile = Module /\ ImportsComplete /\ AllNamed)'
        /\ \A i \in Compiled' : \A q \in DOMAIN source'[i].imports :
              source'[i].imports[q] \in Compiled'
    BY <1>1, <2>1, SymbolFilesKept
  <2> QED BY <1>1, <2>1, <2>2 DEF CompleteInv, ImportsKept
<1>3. GoodJob(export) /\ Covered(export, lines, written, pending) /\ OwnWritten(export, lines)
  BY <1>1 DEF CompleteInv, ExportInv
<1>4. \A x \in new : IsNode(export, x)
  BY <1>3 DEF Covered
<1>5. \A y \in pending : TableName(y) \in written \/ y \in new
  OBVIOUS
<1>6. OwnWritten(export, WithLines(export, lines, new))
  BY <1>3 DEF OwnWritten, WithLines
<1> HIDE DEF new
<1>7. Covered(export, lines', written', pending')
  BY <1>1, <1>3, <1>4, <1>5, <1>6, LevelCovers DEF CompleteInv
<1>8. GoodJob(export)' /\ Covered(export, lines, written, pending)' /\ OwnWritten(export, lines)'
  <2>1. GoodJob(export)'
    BY <1>1, <1>3 DEF GoodJob, Compiled, Resolved
  <2>2. Covered(export, lines, written, pending)'
    BY <1>1, <1>7 DEF Covered, IsNode, FileName, NamesClash, Named
  <2>3. OwnWritten(export, lines)'
    BY <1>1, <1>6 DEF OwnWritten
  <2> QED BY <2>1, <2>2, <2>3
<1> QED BY <1>2, <1>8 DEF CompleteInv, ExportInv

LEMMA CloseComplete ==
    ASSUME CompleteInv, CloseSymbolFile
    PROVE  CompleteInv'
<1>1. export' = NoExport /\ export /= NoExport /\ source' = source
  BY DEF CloseSymbolFile
<1>2. CASE ~(levels < MaxLevels)
  <2>1. symFile' = symFile
    BY <1>2 DEF CloseSymbolFile
  <2>2. DOMAIN source' = Module
    BY <1>1 DEF CompleteInv, ImportsKept
  <2>3. /\ (DOMAIN symFile = Module /\ ImportsComplete /\ AllNamed)'
        /\ \A i \in Compiled' : \A q \in DOMAIN source'[i].imports :
              source'[i].imports[q] \in Compiled'
    BY <1>1, <2>1, <2>2, SymbolFilesKept
  <2> QED BY <1>1, <2>2, <2>3 DEF CompleteInv, ImportsKept, ExportInv
<1>3. CASE levels < MaxLevels
  <2>1. GoodJob(export) /\ Covered(export, lines, written, pending)
    BY DEF CloseSymbolFile, CompleteInv, ExportInv
  <2>2. pending = {}
    BY <1>3, SymbolFilesAssumption DEF CloseSymbolFile
  <2>3. symFile' = [symFile EXCEPT ![export.module] = lines]
    BY <1>3 DEF CloseSymbolFile
  <2> DEFINE m == export.module
  <2>4. /\ m \in Module /\ DOMAIN symFile' = Module /\ symFile'[m] = lines
        /\ \A i \in Module \ {m} : symFile'[i] = symFile[i]
    BY <2>1, <2>3 DEF CompleteInv, GoodJob
  <2>5. m \notin Compiled /\ source[m].imports = export.imports /\ DOMAIN source = Module
    BY <1>1 DEF CompleteInv, ImportsKept, Compiled
  <2> HIDE DEF m, Named
  <2>6. /\ \A i \in Compiled : i /= m /\ symFile'[i] = symFile[i] /\ i \in Compiled'
        /\ \A i \in Compiled' : i = m \/ i \in Compiled
    BY <2>4, <2>5 DEF Compiled
  <2>7. \A i \in Compiled \union {m} : \A q \in DOMAIN source[i].imports :
           source[i].imports[q] \in Compiled
    BY <2>1, <2>5 DEF CompleteInv, ImportsKept, GoodJob
  <2>8. ImportsKept'
    BY <1>1, <2>5, <2>6, <2>7 DEF ImportsKept
  <2>9. ASSUME NEW i \in Compiled \union {m}, ~NamesClash(source[i].imports)'
        PROVE  ~NamesClash(source[i].imports)
    <3>1. \A q \in DOMAIN source[i].imports :
             symFile'[source[i].imports[q]] = symFile[source[i].imports[q]]
      BY <2>6, <2>7
    <3> QED BY <1>1, <2>9, <3>1 DEF NamesClash
  <2>10. ASSUME ~NamesClash(source[m].imports)
         PROVE  \A n \in DOMAIN lines : lines[n].uses \subseteq DOMAIN lines
    BY <2>1, <2>2, <2>5, <2>10 DEF Covered
  <2>11. ImportsComplete'
    <3> SUFFICES ASSUME NEW i \in Compiled', ~NamesClash(source[i].imports)'
                 PROVE  \A n \in DOMAIN symFile'[i] :
                           symFile'[i][n].uses \subseteq DOMAIN symFile'[i]
      BY DEF ImportsComplete
    <3>1. ~NamesClash(source[i].imports)
      BY <2>6, <2>9
    <3>2. CASE i = m
      BY <2>4, <2>10, <3>1, <3>2
    <3>3. CASE i /= m
      BY <2>6, <3>1, <3>3 DEF CompleteInv, ImportsComplete
    <3> QED BY <3>2, <3>3
  <2>12. AllNamed'
    <3>1. \A n \in DOMAIN lines : Named(n)
      BY <2>1 DEF Covered
    <3> QED BY <2>4, <2>6, <3>1 DEF CompleteInv, AllNamed, Named
  <2> QED BY <1>1, <2>4, <2>8, <2>11, <2>12 DEF CompleteInv, ExportInv
<1> QED BY <1>2, <1>3

(* While a symbol file is written, every name that is mentioned in it is   *)
(* written or about to be, unless names clash in the symbol table.         *)
THEOREM CompleteInvariant == SymbolFilesSpec => []CompleteInv
<1>1. SymbolFilesInit => CompleteInv
  BY InitComplete
<1>2. CompleteInv /\ [SymbolFilesNext]_symbolFileVars => CompleteInv'
  <2> SUFFICES ASSUME CompleteInv, [SymbolFilesNext]_symbolFileVars
               PROVE  CompleteInv'
    OBVIOUS
  <2>1. ASSUME NEW m \in Module, NEW imports \in ImportLists[m], Compile(m, imports)
        PROVE  CompleteInv'
    BY <2>1, CompileComplete
  <2>2. CASE WriteLevel
    BY <2>2, WriteLevelComplete
  <2>3. CASE CloseSymbolFile
    BY <2>3, CloseComplete
  <2>4. CASE UNCHANGED symbolFileVars
    <3>1. DOMAIN source' = Module /\ source' = source /\ symFile' = symFile
      BY <2>4 DEF symbolFileVars, CompleteInv, ImportsKept
    <3>2. /\ (DOMAIN symFile = Module /\ ImportsComplete /\ AllNamed)'
          /\ \A i \in Compiled' : \A q \in DOMAIN source'[i].imports :
                source'[i].imports[q] \in Compiled'
      BY <3>1, SymbolFilesKept
    <3>3. ImportsKept'
      BY <2>4, <3>1, <3>2 DEF symbolFileVars, CompleteInv, ImportsKept
    <3>4. ExportInv'
      BY <2>4 DEF symbolFileVars, CompleteInv, ExportInv, GoodJob, Covered, OwnWritten, IsNode,
                  FileName, Compiled, Resolved, NamesClash
    <3> QED BY <3>2, <3>3, <3>4 DEF CompleteInv
  <2> QED BY <2>1, <2>2, <2>3, <2>4 DEF SymbolFilesNext
<1> QED BY <1>1, <1>2, PTL DEF SymbolFilesSpec

(* Whatever a symbol file mentions is in it, whatever the modules, their   *)
(* imports and aliases: Table_Import fails with "missing type name in      *)
(* symbol file" for no symbol file but one of a module whose aliases make  *)
(* the names of two imported types the same (NamesClash).                  *)
THEOREM SymbolFilesSufficient == SymbolFilesSpec => []ImportsComplete
  BY CompleteInvariant, PTL DEF CompleteInv

-----------------------------------------------------------------------------
(* Names in a symbol file and what they stand for.                         *)
LEMMA GlobalNames ==
    ASSUME NEW j, NEW y, GoodJob(j), AllNamed, IsNode(j, y)
    PROVE  Global(j.module, FileName(j, y)) = GlobalName(j, y)
<1>1. CASE \E t \in Declaring[j.module] : y = OwnNode(t)
  BY <1>1 DEF OwnNode, FileName, Global, GlobalName
<1>2. ASSUME NEW q \in DOMAIN j.imports, NEW n \in DOMAIN symFile[j.imports[q]], y = <<q, n>>
      PROVE  Global(j.module, FileName(j, y)) = GlobalName(j, y)
  <2>1. q /= Own /\ j.imports[q] \in Module /\ j.imports[q] /= Own
    BY SymbolFilesAssumption DEF GoodJob, Compiled
  <2> QED BY <1>2, <2>1 DEF FileName, Global, GlobalName
<1> QED BY <1>1, <1>2 DEF IsNode

TrueEntry(m, n, entry, s) ==
    LET g == Global(m, n) IN
    /\ g[1] \in Compiled \union {m} /\ g[2] \in Declaring[g[1]]
    /\ {Global(m, k) : k \in entry.uses} =
          IF g[1] = m THEN s.uses[g[2]] ELSE source[g[1]].uses[g[2]]
    /\ entry.exported <=> (n[1] = Own /\ n[2] \in s.exported)

(* What is written for an identifier is what was declared.                 *)
LEMMA EntriesWritten ==
    ASSUME NEW j, NEW x, GoodJob(j), AllNamed, EntriesTrue, IsNode(j, x),
           j.module \notin Compiled
    PROVE  /\ TrueEntry(j.module, FileName(j, x), Entry(j, x), SourceOf(j))
           /\ Entry(j, x) \in Line
<1>1. \A y \in UsesOf(j, x) : IsNode(j, y) /\ Global(j.module, FileName(j, y)) = GlobalName(j, y)
  BY UsesAreNodes, GlobalNames
<1>2. {Global(j.module, k) : k \in Entry(j, x).uses} = {GlobalName(j, y) : y \in UsesOf(j, x)}
  BY <1>1 DEF Entry
<1>3. Entry(j, x) \in Line
  <2>1. Exported(j, x) \in BOOLEAN
    BY DEF Exported
  <2>2. \A y \in UsesOf(j, x) : FileName(j, y) \in Name
    BY <1>1, FileNamesNamed DEF Named
  <2> QED BY <2>1, <2>2 DEF Entry, Line
<1>4. Global(j.module, FileName(j, x)) = GlobalName(j, x)
  BY GlobalNames
<1>5. Entry(j, x).exported <=> Exported(j, x)
  BY DEF Entry
<1>6. SourceOf(j).exported = j.text.exported
  BY DEF SourceOf
<1>7. CASE \E t \in Declaring[j.module] : x = OwnNode(t)
  <2>1. PICK t \in Declaring[j.module] : x = OwnNode(t)
    BY <1>7
  <2>2. UsesOf(j, x) = {z \in Mentionable(j) : <<t, z, TRUE>> \in j.text.mentions}
    BY <2>1 DEF OwnNode, UsesOf, DeclaredUses
  <2>3. SourceOf(j).uses[t] = {GlobalName(j, y) : y \in UsesOf(j, x)}
    BY <2>2 DEF SourceOf
  <2>4. GlobalName(j, x) = <<j.module, t>>
    BY <2>1 DEF OwnNode, GlobalName
  <2>5. FileName(j, x) = <<Own, t>>
    BY <2>1 DEF OwnNode, FileName
  <2>6. Exported(j, x) <=> t \in j.text.exported
    BY <2>1 DEF OwnNode, Exported
  <2> HIDE DEF TrueEntry
  <2>7. TrueEntry(j.module, FileName(j, x), Entry(j, x), SourceOf(j))
    BY <1>2, <1>4, <1>5, <1>6, <2>3, <2>4, <2>5, <2>6 DEF TrueEntry
  <2> QED BY <1>3, <2>7
<1>8. ASSUME NEW q \in DOMAIN j.imports, NEW n \in DOMAIN symFile[j.imports[q]], x = <<q, n>>
      PROVE  TrueEntry(j.module, FileName(j, x), Entry(j, x), SourceOf(j))
  <2> DEFINE i == j.imports[q]
             g == Global(i, n)
  <2>1. q /= Own /\ i \in Compiled /\ i \in Module /\ i /= Own
    BY SymbolFilesAssumption DEF GoodJob, Compiled
  <2>2. GlobalName(j, x) = g
    BY <1>8, <2>1 DEF GlobalName
  <2>3. UsesOf(j, x) = {<<q, k>> : k \in symFile[i][n].uses}
    BY <1>8, <2>1 DEF UsesOf, ReadUses
  <2>4. \A k : GlobalName(j, <<q, k>>) = Global(i, k)
    BY <2>1 DEF GlobalName
  <2>5. {GlobalName(j, y) : y \in UsesOf(j, x)} = {Global(i, k) : k \in symFile[i][n].uses}
    BY <2>3, <2>4
  <2>6. /\ g[1] \in Compiled /\ g[2] \in Declaring[g[1]]
        /\ {Global(i, k) : k \in symFile[i][n].uses} = source[g[1]].uses[g[2]]
    BY <2>1, <1>8 DEF EntriesTrue
  <2>7. ~Exported(j, x)
    BY <1>8, <2>1 DEF Exported
  <2>8. FileName(j, x)[1] /= Own
    BY <1>8, <2>1 DEF FileName
  <2> HIDE DEF g
  <2>9. g[1] /= j.module
    BY <2>6
  <2> QED BY <1>2, <1>4, <1>5, <2>2, <2>5, <2>6, <2>7, <2>8, <2>9 DEF TrueEntry
<1> QED BY <1>3, <1>7, <1>8 DEF IsNode

(* Each line is that of an identifier.                                     *)
LinesWritten(j, ls) ==
    /\ ls = [n \in DOMAIN ls |-> ls[n]]
    /\ \A n \in DOMAIN ls : \E x :
          IsNode(j, x) /\ n = FileName(j, x) /\ ls[n] = Entry(j, x)

ExportTrue ==
    export /= NoExport =>
        /\ symFile[export.module] = NoSym
        /\ source[export.module] = SourceOf(export)
        /\ LinesWritten(export, lines)

TruthInv == DOMAIN source = Module /\ EntriesTrue /\ ExportTrue

LEMMA InitTrue == SymbolFilesInit => TruthInv
  BY DEF SymbolFilesInit, TruthInv, EntriesTrue, ExportTrue, Compiled

(* What is written for an identifier does not change while it is written.  *)
LEMMA SameSymbolFiles ==
    ASSUME symFile' = symFile, NEW CONSTANT x
    PROVE  /\ IsNode(export, x)' <=> IsNode(export', x)
           /\ FileName(export, x)' = FileName(export', x)
           /\ Entry(export, x)' = Entry(export', x)
<1>1. Mentionable(export)' = Mentionable(export')
  BY DEF Mentionable
<1>2. DeclaredUses(export, x)' = DeclaredUses(export', x)
  BY <1>1 DEF DeclaredUses
<1>3. ReadUses(export, x)' = ReadUses(export', x)
  BY DEF ReadUses
<1>4. UsesOf(export, x)' = UsesOf(export', x)
  BY <1>2, <1>3 DEF UsesOf
<1>5. Entry(export, x)' = Entry(export', x)
  BY <1>4 DEF Entry, Exported, FileName
<1> QED BY <1>5 DEF IsNode, FileName

LEMMA LevelWrites ==
    ASSUME NEW j, NEW ls, NEW new, LinesWritten(j, ls), \A x \in new : IsNode(j, x)
    PROVE  LinesWritten(j, WithLines(j, ls, new))
<1> DEFINE ls2 == WithLines(j, ls, new)
<1>1. DOMAIN ls2 = DOMAIN ls \union {FileName(j, x) : x \in new}
  BY DEF WithLines
<1>2. ls2 = [n \in DOMAIN ls2 |-> ls2[n]]
  BY DEF WithLines
<1>3. ASSUME NEW n \in DOMAIN ls2
      PROVE  \E x : IsNode(j, x) /\ n = FileName(j, x) /\ ls2[n] = Entry(j, x)
  <2>1. CASE \E x \in new : FileName(j, x) = n
    <3> DEFINE c == CHOOSE x \in new : FileName(j, x) = n
    <3>1. c \in new /\ FileName(j, c) = n
      BY <2>1
    <3>2. ls2[n] = Entry(j, c)
      BY <2>1, <1>3, <1>1 DEF WithLines
    <3> HIDE DEF c, ls2
    <3> QED BY <3>1, <3>2
  <2>2. CASE ~\E x \in new : FileName(j, x) = n
    <3>1. n \in DOMAIN ls /\ ls2[n] = ls[n]
      BY <2>2, <1>3, <1>1 DEF WithLines
    <3> QED BY <3>1 DEF LinesWritten
  <2> QED BY <2>1, <2>2
<1> HIDE DEF ls2
<1>4. LinesWritten(j, ls2)
  BY <1>2, <1>3 DEF LinesWritten
<1> QED BY <1>4 DEF ls2

LEMMA SameTruth ==
    ASSUME EntriesTrue, symFile' = symFile, source' = source
    PROVE  EntriesTrue'
  BY DEF EntriesTrue, Compiled, Global

LEMMA CompileTrue ==
    ASSUME CompleteInv, TruthInv,
           NEW m \in Module, NEW imports \in ImportLists[m], Compile(m, imports)
    PROVE  TruthInv'
<1>1. symFile' = symFile /\ symFile[m] = NoSym /\ export = NoExport
  BY DEF Compile
<1>2. CASE ~Resolved(imports)
  BY <1>1, <1>2, SameTruth DEF Compile, TruthInv, ExportTrue
<1>3. CASE Resolved(imports)
  <2>1. PICK text \in Texts(m, imports) :
          LET j == [module |-> m, imports |-> imports, text |-> text]
              xs == {OwnNode(t) : t \in text.exported} IN
          /\ export' = j
          /\ source' = [source EXCEPT ![m] = SourceOf(j)]
          /\ lines' = WithLines(j, <<>>, xs)
    BY <1>3 DEF Compile
  <2> DEFINE j == [module |-> m, imports |-> imports, text |-> text]
             xs == {OwnNode(t) : t \in text.exported}
  <2>2. j.module = m /\ j.imports = imports /\ j.text = text
    OBVIOUS
  <2>3. text.exported \subseteq Declaring[m]
    BY DEF Texts
  <2>4. \A x \in xs : IsNode(j, x)
    BY <2>2, <2>3 DEF IsNode
  <2>5. LinesWritten(j, <<>>)
    BY DEF LinesWritten
  <2> HIDE DEF j, xs
  <2>6. LinesWritten(j, lines')
    BY <2>1, <2>4, <2>5, LevelWrites DEF j, xs
  <2>7. /\ DOMAIN source' = Module
        /\ source'[m] = SourceOf(j)
        /\ \A i \in Module \ {m} : source'[i] = source[i]
    BY <2>1 DEF TruthInv, j
  <2>8. export' = j
    BY <2>1 DEF j
  <2>9. LinesWritten(export, lines)'
    BY <1>1, <2>6, <2>8, SameSymbolFiles DEF LinesWritten
  <2>10. SourceOf(export)' = SourceOf(j)
    BY <1>1, <2>8 DEF SourceOf, Mentionable, GlobalName
  <2>11. ExportTrue'
    BY <1>1, <2>2, <2>7, <2>8, <2>9, <2>10 DEF ExportTrue
  <2>12. Compiled' = Compiled /\ m \notin Compiled
    BY <1>1 DEF Compiled
  <2>13. EntriesTrue'
    <3> SUFFICES ASSUME NEW i \in Compiled, NEW n \in DOMAIN symFile[i]
                 PROVE  LET g == Global(i, n) IN
                        /\ g[1] \in Compiled /\ g[2] \in Declaring[g[1]]
                        /\ {Global(i, k) : k \in symFile[i][n].uses} = source'[g[1]].uses[g[2]]
                        /\ symFile[i][n].exported <=> (n[1] = Own /\ n[2] \in source'[i].exported)
      BY <1>1, <2>12 DEF EntriesTrue, Global
    <3>1. source'[i] = source[i]
      BY <2>7, <2>12 DEF Compiled
    <3>2. source'[Global(i, n)[1]] = source[Global(i, n)[1]]
      BY <2>7, <2>12 DEF TruthInv, EntriesTrue, Compiled
    <3> QED BY <3>1, <3>2 DEF TruthInv, EntriesTrue
  <2> QED BY <2>7, <2>11, <2>13 DEF TruthInv
<1> QED BY <1>2, <1>3

LEMMA WriteLevelTrue ==
    ASSUME CompleteInv, TruthInv, WriteLevel
    PROVE  TruthInv'
<1> DEFINE new == {x \in pending : TableName(x) \notin written}
<1>1. /\ symFile' = symFile /\ source' = source
      /\ export' = export /\ export /= NoExport
      /\ lines' = WithLines(export, lines, new)
  BY DEF WriteLevel
<1>2. \A x \in new : IsNode(export, x)
  BY <1>1 DEF CompleteInv, ExportInv, Covered
<1> HIDE DEF new
<1>3. LinesWritten(export, lines')
  BY <1>1, <1>2, LevelWrites DEF TruthInv, ExportTrue
<1>4. LinesWritten(export, lines)'
  BY <1>1, <1>3, SameSymbolFiles DEF LinesWritten
<1>5. SourceOf(export)' = SourceOf(export)
  BY <1>1 DEF SourceOf, Mentionable, GlobalName
<1>6. ExportTrue'
  BY <1>1, <1>4, <1>5 DEF TruthInv, ExportTrue
<1>7. EntriesTrue'
  BY <1>1, SameTruth DEF TruthInv
<1> QED BY <1>1, <1>6, <1>7 DEF TruthInv

LEMMA CloseTrue ==
    ASSUME CompleteInv, TruthInv, CloseSymbolFile
    PROVE  TruthInv'
<1>1. export' = NoExport /\ source' = source /\ export /= NoExport
  BY DEF CloseSymbolFile
<1>2. CASE ~(levels < MaxLevels)
  BY <1>1, <1>2, SameTruth DEF CloseSymbolFile, TruthInv, ExportTrue
<1>3. CASE levels < MaxLevels
  <2> DEFINE m == export.module
  <2>1. /\ GoodJob(export) /\ Covered(export, lines, written, pending)
        /\ DOMAIN symFile = Module /\ ImportsComplete /\ AllNamed
    BY <1>1 DEF CompleteInv, ExportInv
  <2>2. symFile' = [symFile EXCEPT ![m] = lines]
    BY <1>3 DEF CloseSymbolFile
  <2>3. /\ m \in Module /\ symFile'[m] = lines
        /\ \A i \in Module \ {m} : symFile'[i] = symFile[i]
    BY <2>1, <2>2 DEF GoodJob
  <2>4. /\ symFile[m] = NoSym /\ source[m] = SourceOf(export)
        /\ LinesWritten(export, lines)
    BY <1>1 DEF TruthInv, ExportTrue
  <2>5. m \notin Compiled
    BY <2>4 DEF Compiled
  <2> HIDE DEF m
  <2>6. ASSUME NEW n \in DOMAIN lines
        PROVE  TrueEntry(m, n, lines[n], source[m]) /\ lines[n] \in Line
    <3>1. PICK x : IsNode(export, x) /\ n = FileName(export, x) /\ lines[n] = Entry(export, x)
      BY <2>4 DEF LinesWritten
    <3> QED BY <2>1, <2>4, <2>5, <3>1, EntriesWritten DEF TruthInv, m
  <2>7. lines /= NoSym
    <3>1. DOMAIN lines \in SUBSET Name
      BY <2>1 DEF Covered, Named
    <3>2. lines \in [DOMAIN lines -> Line]
      BY <2>4, <2>6 DEF LinesWritten
    <3> QED BY <3>1, <3>2, SymbolFilesAssumption
  <2>8. Compiled' = Compiled \union {m}
    BY <2>3, <2>7 DEF Compiled
  <2>9. EntriesTrue'
    <3> SUFFICES ASSUME NEW i \in Compiled \union {m}, NEW n \in DOMAIN symFile'[i]
                 PROVE  LET g == Global(i, n) IN
                        /\ g[1] \in Compiled \union {m} /\ g[2] \in Declaring[g[1]]
                        /\ {Global(i, k) : k \in symFile'[i][n].uses} = source[g[1]].uses[g[2]]
                        /\ symFile'[i][n].exported <=> (n[1] = Own /\ n[2] \in source[i].exported)
      BY <1>1, <2>8 DEF EntriesTrue, Global
    <3>1. CASE i = m
      BY <3>1, <2>3, <2>6 DEF TrueEntry
    <3>2. CASE i /= m
      <4>1. i \in Compiled /\ symFile'[i] = symFile[i]
        BY <3>2, <2>3 DEF Compiled
      <4>2. LET g == Global(i, n) IN
            /\ g[1] \in Compiled /\ g[2] \in Declaring[g[1]]
            /\ {Global(i, k) : k \in symFile[i][n].uses} = source[g[1]].uses[g[2]]
            /\ symFile[i][n].exported <=> (n[1] = Own /\ n[2] \in source[i].exported)
        BY <4>1 DEF TruthInv, EntriesTrue
      <4> HIDE DEF Global
      <4> QED BY <4>1, <4>2
    <3> QED BY <3>1, <3>2
  <2> QED BY <1>1, <2>9 DEF TruthInv, ExportTrue
<1> QED BY <1>2, <1>3

(* The symbol file that is written has the lines of identifiers only.      *)
LEMMA TruthInvariant == SymbolFilesSpec => []TruthInv
<1>1. SymbolFilesInit => TruthInv
  BY InitTrue
<1>2. CompleteInv /\ TruthInv /\ [SymbolFilesNext]_symbolFileVars => TruthInv'
  <2> SUFFICES ASSUME CompleteInv, TruthInv, [SymbolFilesNext]_symbolFileVars
               PROVE  TruthInv'
    OBVIOUS
  <2>1. ASSUME NEW m \in Module, NEW imports \in ImportLists[m], Compile(m, imports)
        PROVE  TruthInv'
    BY <2>1, CompileTrue
  <2>2. CASE WriteLevel
    BY <2>2, WriteLevelTrue
  <2>3. CASE CloseSymbolFile
    BY <2>3, CloseTrue
  <2>4. CASE UNCHANGED symbolFileVars
    <3>1. LinesWritten(export, lines)' <=> LinesWritten(export, lines)
      BY <2>4, SameSymbolFiles DEF symbolFileVars, LinesWritten
    <3>2. SourceOf(export)' = SourceOf(export)
      BY <2>4 DEF symbolFileVars, SourceOf, Mentionable, GlobalName
    <3>3. EntriesTrue'
      BY <2>4, SameTruth DEF symbolFileVars, TruthInv
    <3> QED BY <2>4, <3>1, <3>2, <3>3 DEF symbolFileVars, TruthInv, ExportTrue
  <2> QED BY <2>1, <2>2, <2>3, <2>4 DEF SymbolFilesNext
<1> QED BY <1>1, <1>2, CompleteInvariant, PTL DEF SymbolFilesSpec

(* An entry of a symbol file, through any number of other symbol files and *)
(* under any aliases, is the declaration of the module that it names.      *)
THEOREM SymbolFilesTrue == SymbolFilesSpec => []EntriesTrue
  BY TruthInvariant, PTL DEF TruthInv

-----------------------------------------------------------------------------
(* The compiler gives up late. The types on the list were reached by a     *)
(* chain of types, one of each level, which all have lines of their own:   *)
(* a chain leaves the module once, by the import whose symbol file it      *)
(* keeps to, and under one qualifier a line has one name in the symbol     *)
(* table only.                                                             *)

NoSelf == \A m \in Compiled : \A n \in DOMAIN symFile[m] : n[1] /= m

(* The lines whose names are in C lead to the identifier y.                *)
LeadsTo(j, ls, ws, C, y) ==
    /\ C \subseteq DOMAIN ls
    /\ \A n \in C : ~ls[n].exported
    /\ \A n \in C : \E z : /\ IsNode(j, z) /\ z[1] \in {Own, y[1]}
                           /\ FileName(j, z) = n /\ TableName(z) \in ws
Reached(j, ls, ws, y, depth) ==
    /\ ~Exported(j, y)
    /\ \E C : IsFiniteSet(C) /\ Cardinality(C) = depth /\ LeadsTo(j, ls, ws, C, y)

Unexported(ls) == {n \in DOMAIN ls : ~ls[n].exported}

ExportDeep ==
    export /= NoExport =>
        /\ levels \in Nat
        /\ \A y \in pending : Reached(export, lines, written, y, levels)
        /\ levels > 0 => Cardinality(Unexported(lines)) >= levels - 1
DepthInv == NoSelf /\ ExportDeep

(* Under one qualifier an identifier has one name in either table.         *)
LEMMA NamesApart ==
    ASSUME NEW j, NEW x, NEW z, GoodJob(j), NoSelf, IsNode(j, x), IsNode(j, z),
           z[1] \in {Own, x[1]}, FileName(j, z) = FileName(j, x)
    PROVE  TableName(z) = TableName(x)
<1>1. ASSUME NEW t \in Declaring[j.module], x = OwnNode(t)
      PROVE  TableName(z) = TableName(x)
  <2>1. x[1] = Own /\ FileName(j, x) = <<Own, t>> /\ TableName(x) = <<Own, t>>
    BY <1>1 DEF OwnNode, FileName, TableName
  <2>2. PICK s \in Declaring[j.module] : z = OwnNode(s)
    BY <2>1 DEF IsNode, GoodJob
  <2> QED BY <2>1, <2>2 DEF OwnNode, FileName, TableName
<1>2. ASSUME NEW q \in DOMAIN j.imports, NEW n \in DOMAIN symFile[j.imports[q]], x = <<q, n>>
      PROVE  TableName(z) = TableName(x)
  <2> DEFINE i == j.imports[q]
  <2>1. q /= Own /\ i \in Compiled /\ i /= Own
    BY SymbolFilesAssumption DEF GoodJob, Compiled
  <2>2. FileName(j, x)[1] /= Own
    BY <1>2, <2>1 DEF FileName
  <2>3. \A t : z /= OwnNode(t)
    BY <2>2 DEF FileName, OwnNode
  <2>4. PICK k \in DOMAIN symFile[i] : z = <<q, k>>
    <3>1. PICK r \in DOMAIN j.imports : \E k \in DOMAIN symFile[j.imports[r]] : z = <<r, k>>
      BY <2>3 DEF IsNode
    <3>2. r = q
      BY <1>2, <3>1 DEF GoodJob
    <3> QED BY <3>1, <3>2
  <2>5. n[1] /= i /\ k[1] /= i
    BY <2>1, <2>4 DEF NoSelf
  <2> HIDE DEF i
  <2>6. /\ FileName(j, x) = IF n[1] = Own THEN <<i, n[2]>> ELSE n
        /\ FileName(j, z) = IF k[1] = Own THEN <<i, k[2]>> ELSE k
    BY <1>2, <2>1, <2>4 DEF FileName, i
  <2>7. /\ TableName(x) = IF n[1] = Own THEN <<q, n[2]>> ELSE n
        /\ TableName(z) = IF k[1] = Own THEN <<q, k[2]>> ELSE k
    BY <1>2, <2>4 DEF TableName
  <2> QED BY <2>5, <2>6, <2>7
<1> QED BY <1>1, <1>2 DEF IsNode

(* What an imported type is made with comes from the same import.          *)
LEMMA UsesKeepQualifier ==
    ASSUME NEW j, NEW x, NEW y \in UsesOf(j, x), x[1] /= Own
    PROVE  y[1] = x[1]
BY DEF UsesOf, ReadUses

LEMMA LevelDeepens ==
    ASSUME NEW j, NEW ls, NEW ws, NEW ps, NEW next, NEW depth \in Nat,
           GoodJob(j), NoSelf, Covered(j, ls, ws, ps),
           \A y \in ps : Reached(j, ls, ws, y, depth),
           NEW new, new = {x \in ps : TableName(x) \notin ws},
           next \in OnePerName(Mentioned(j, new)),
           NEW y \in next
    PROVE  Reached(j, WithLines(j, ls, new), ws \union {TableName(x) : x \in new}, y, depth + 1)
<1> DEFINE ls2 == WithLines(j, ls, new)
           ws2 == ws \union {TableName(x) : x \in new}
<1>1. y \in Mentioned(j, new)
  BY DEF OnePerName
<1>2. PICK x \in new : y \in UsesOf(j, x) /\ ~Exported(j, y)
  BY <1>1 DEF Mentioned
<1>3. /\ x \in ps /\ TableName(x) \notin ws /\ IsNode(j, x)
      /\ Reached(j, ls, ws, x, depth)
  BY <1>2 DEF Covered
<1>4. PICK C : IsFiniteSet(C) /\ Cardinality(C) = depth /\ LeadsTo(j, ls, ws, C, x)
  BY <1>3 DEF Reached
<1> DEFINE D == C \union {FileName(j, x)}
<1>5. FileName(j, x) \notin C
  <2> SUFFICES ASSUME FileName(j, x) \in C PROVE FALSE
    OBVIOUS
  <2>1. PICK z : /\ IsNode(j, z) /\ z[1] \in {Own, x[1]}
                 /\ FileName(j, z) = FileName(j, x) /\ TableName(z) \in ws
    BY <1>4 DEF LeadsTo
  <2> QED BY <1>3, <2>1, NamesApart
<1>6. IsFiniteSet(D) /\ Cardinality(D) = depth + 1
  BY <1>4, <1>5, FS_AddElement
<1>7. DOMAIN ls2 = DOMAIN ls \union {FileName(j, u) : u \in new}
  BY DEF WithLines
<1>8. \A u \in new : ~Exported(j, u)
  BY DEF Reached
<1>9. ASSUME NEW n \in D
      PROVE  n \in DOMAIN ls2 /\ ~ls2[n].exported
  <2>1. n \in DOMAIN ls2
    BY <1>4, <1>7 DEF LeadsTo
  <2>2. CASE \E u \in new : FileName(j, u) = n
    <3> DEFINE c == CHOOSE u \in new : FileName(j, u) = n
    <3>1. c \in new
      BY <2>2
    <3>2. ls2[n] = Entry(j, c)
      BY <2>1, <2>2, <1>7 DEF WithLines
    <3> QED BY <1>8, <2>1, <3>1, <3>2 DEF Entry
  <2>3. CASE ~\E u \in new : FileName(j, u) = n
    <3>1. n \in C /\ n \in DOMAIN ls /\ ~ls[n].exported
      BY <1>4, <2>3 DEF LeadsTo
    <3>2. ls2[n] = ls[n]
      BY <2>1, <2>3, <1>7 DEF WithLines
    <3> QED BY <2>1, <3>1, <3>2
  <2> QED BY <2>2, <2>3
<1>10. ASSUME NEW n \in D
       PROVE  \E z : /\ IsNode(j, z) /\ z[1] \in {Own, y[1]}
                     /\ FileName(j, z) = n /\ TableName(z) \in ws2
  <2>1. x[1] \in {Own, y[1]}
    BY <1>2, UsesKeepQualifier
  <2>2. CASE n = FileName(j, x)
    BY <1>3, <2>1, <2>2
  <2>3. CASE n \in C
    BY <1>4, <2>1, <2>3 DEF LeadsTo
  <2> QED BY <2>2, <2>3
<1> HIDE DEF ls2, ws2, D
<1>11. LeadsTo(j, ls2, ws2, D, y)
  BY <1>9, <1>10 DEF LeadsTo
<1>12. Reached(j, ls2, ws2, y, depth + 1)
  BY <1>2, <1>6, <1>11 DEF Reached
<1> QED BY <1>12 DEF ls2, ws2

(* Lines that are added leave the unexported ones unexported.              *)
LEMMA UnexportedGrow ==
    ASSUME NEW j, NEW ls, NEW new, \A u \in new : ~Exported(j, u)
    PROVE  Unexported(ls) \subseteq Unexported(WithLines(j, ls, new))
<1> SUFFICES ASSUME NEW n \in DOMAIN ls, ~ls[n].exported
             PROVE  /\ n \in DOMAIN WithLines(j, ls, new)
                    /\ ~WithLines(j, ls, new)[n].exported
  BY DEF Unexported
<1>1. n \in DOMAIN WithLines(j, ls, new)
  BY DEF WithLines
<1>2. CASE \E u \in new : FileName(j, u) = n
  <2> DEFINE c == CHOOSE u \in new : FileName(j, u) = n
  <2>1. c \in new
    BY <1>2
  <2>2. WithLines(j, ls, new)[n] = Entry(j, c)
    BY <1>1, <1>2 DEF WithLines
  <2> QED BY <1>1, <2>1, <2>2 DEF Entry
<1>3. CASE ~\E u \in new : FileName(j, u) = n
  <2>1. WithLines(j, ls, new)[n] = ls[n]
    BY <1>1, <1>3 DEF WithLines
  <2> QED BY <1>1, <2>1
<1> QED BY <1>2, <1>3

LEMMA NamesFinite ==
    ASSUME NEW S, \A n \in S : Named(n)
    PROVE  IsFiniteSet(S)
<1>1. IsFiniteSet({Own} \union Module)
  BY SymbolFilesAssumption, FS_AddElement
<1>2. IsFiniteSet(Name)
  BY <1>1, SymbolFilesAssumption, FS_Product DEF Name
<1>3. S \subseteq Name
  BY DEF Named
<1> QED BY <1>2, <1>3, FS_Subset

LEMMA InitDeep == SymbolFilesInit => DepthInv
BY DEF SymbolFilesInit, DepthInv, NoSelf, ExportDeep, Compiled

LEMMA CompileDeep ==
    ASSUME DepthInv, NEW m \in Module, NEW imports \in ImportLists[m], Compile(m, imports)
    PROVE  DepthInv'
<1>1. symFile' = symFile /\ export = NoExport
  BY DEF Compile
<1>2. NoSelf'
  BY <1>1 DEF DepthInv, NoSelf, Compiled
<1>3. CASE ~Resolved(imports)
  BY <1>1, <1>2, <1>3 DEF Compile, DepthInv, ExportDeep
<1>4. CASE Resolved(imports)
  <2>1. PICK text \in Texts(m, imports) :
          LET j == [module |-> m, imports |-> imports, text |-> text]
              xs == {OwnNode(t) : t \in text.exported} IN
          /\ export' = j
          /\ pending' \in OnePerName(Mentioned(j, xs))
          /\ levels' = 0
    BY <1>4 DEF Compile
  <2>2. ASSUME NEW y \in pending'
        PROVE  Reached(export, lines, written, y, levels)'
    <3>1. ~Exported(export', y)
      BY <2>1 DEF OnePerName, Mentioned
    <3>2. IsFiniteSet({}) /\ Cardinality({}) = 0
      BY FS_EmptySet
    <3>3. LeadsTo(export, lines, written, {}, y)'
      BY DEF LeadsTo
    <3>4. ~Exported(export, y)'
      BY <3>1 DEF Exported
    <3>5. levels' = 0
      BY <2>1
    <3> QED BY <3>2, <3>3, <3>4, <3>5 DEF Reached
  <2>3. ExportDeep'
    BY <2>1, <2>2 DEF ExportDeep
  <2> QED BY <1>2, <2>3 DEF DepthInv
<1> QED BY <1>3, <1>4

LEMMA WriteLevelDeep ==
    ASSUME CompleteInv, DepthInv, WriteLevel
    PROVE  DepthInv'
<1> DEFINE new == {x \in pending : TableName(x) \notin written}
<1>1. /\ symFile' = symFile /\ export' = export /\ export /= NoExport /\ pending /= {}
      /\ lines' = WithLines(export, lines, new)
      /\ written' = written \union {TableName(x) : x \in new}
      /\ pending' \in OnePerName(Mentioned(export, new))
      /\ levels' = levels + 1
  BY DEF WriteLevel
<1>2. NoSelf'
  BY <1>1 DEF DepthInv, NoSelf, Compiled
<1>3. /\ GoodJob(export) /\ Covered(export, lines, written, pending)
      /\ levels \in Nat
      /\ \A y \in pending : Reached(export, lines, written, y, levels)
  BY <1>1 DEF CompleteInv, ExportInv, DepthInv, ExportDeep
<1>4. ASSUME NEW y \in pending'
      PROVE  Reached(export, lines', written', y, levels')
  BY <1>1, <1>3, LevelDeepens DEF DepthInv
<1>5. ASSUME NEW y \in pending'
      PROVE  Reached(export, lines, written, y, levels)'
  BY <1>1, <1>4 DEF Reached, LeadsTo, Exported, IsNode, FileName
<1>6. Cardinality(Unexported(lines')) >= levels
  <2>1. PICK y \in pending : Reached(export, lines, written, y, levels)
    BY <1>1, <1>3
  <2>2. PICK C : /\ IsFiniteSet(C) /\ Cardinality(C) = levels
                 /\ LeadsTo(export, lines, written, C, y)
    BY <2>1 DEF Reached
  <2>3. C \subseteq Unexported(lines)
    BY <2>2 DEF LeadsTo, Unexported
  <2>4. Unexported(lines) \subseteq Unexported(lines')
    <3>1. \A u \in new : ~Exported(export, u)
      BY <1>3 DEF Reached
    <3> HIDE DEF new
    <3> QED BY <1>1, <3>1, UnexportedGrow
  <2>5. \A n \in DOMAIN lines' : Named(n)
    <3>1. CompleteInv'
      BY WriteLevelComplete
    <3> QED BY <1>1, <3>1 DEF CompleteInv, ExportInv, Covered
  <2>6. IsFiniteSet(Unexported(lines'))
    BY <2>5, NamesFinite DEF Unexported
  <2>7. Cardinality(C) <= Cardinality(Unexported(lines'))
    BY <2>3, <2>4, <2>6, FS_Subset
  <2>8. Cardinality(Unexported(lines')) \in Nat
    BY <2>6, FS_CardinalityType
  <2> QED BY <1>3, <2>2, <2>7, <2>8
<1>7. ExportDeep'
  <2>1. levels' \in Nat /\ levels' - 1 = levels
    BY <1>1, <1>3
  <2>2. Unexported(lines)' = Unexported(lines')
    BY DEF Unexported
  <2> HIDE DEF new
  <2> QED BY <1>5, <1>6, <2>1, <2>2 DEF ExportDeep
<1> QED BY <1>2, <1>7 DEF DepthInv

LEMMA CloseDeep ==
    ASSUME CompleteInv, TruthInv, DepthInv, CloseSymbolFile
    PROVE  DepthInv'
<1>1. export' = NoExport /\ export /= NoExport
  BY DEF CloseSymbolFile
<1>2. CASE ~(levels < MaxLevels)
  BY <1>1, <1>2 DEF CloseSymbolFile, DepthInv, NoSelf, ExportDeep, Compiled
<1>3. CASE levels < MaxLevels
  <2> DEFINE m == export.module
  <2>1. GoodJob(export) /\ DOMAIN symFile = Module /\ AllNamed
    BY <1>1 DEF CompleteInv, ExportInv
  <2>2. symFile' = [symFile EXCEPT ![m] = lines]
    BY <1>3 DEF CloseSymbolFile
  <2>3. /\ m \in Module /\ symFile'[m] = lines
        /\ \A i \in Module \ {m} : symFile'[i] = symFile[i]
    BY <2>1, <2>2 DEF GoodJob
  <2>4. m \notin Compiled /\ LinesWritten(export, lines)
    BY <1>1 DEF TruthInv, ExportTrue, Compiled
  <2>5. ASSUME NEW n \in DOMAIN lines PROVE n[1] /= m
    <3>1. PICK x : IsNode(export, x) /\ n = FileName(export, x)
      BY <2>4 DEF LinesWritten
    <3>2. CASE \E t \in Declaring[m] : x = OwnNode(t)
      BY <2>3, <3>1, <3>2, SymbolFilesAssumption DEF FileName, OwnNode
    <3>3. ASSUME NEW q \in DOMAIN export.imports,
                 NEW k \in DOMAIN symFile[export.imports[q]], x = <<q, k>>
          PROVE  n[1] /= m
      <4>1. q /= Own /\ export.imports[q] \in Compiled
        BY <2>1 DEF GoodJob
      <4>2. n[1] = IF k[1] = Own THEN export.imports[q] ELSE k[1]
        BY <3>1, <3>3, <4>1 DEF FileName
      <4>3. Global(export.imports[q], k)[1] \in Compiled
        BY <4>1 DEF TruthInv, EntriesTrue
      <4>4. Global(export.imports[q], k)[1] = n[1]
        BY <4>2 DEF Global
      <4> QED BY <2>4, <4>3, <4>4
    <3> QED BY <3>1, <3>2, <3>3 DEF IsNode
  <2>6. NoSelf'
    <3> SUFFICES ASSUME NEW i \in Module, symFile'[i] /= NoSym, NEW n \in DOMAIN symFile'[i]
                 PROVE  n[1] /= i
      BY DEF NoSelf, Compiled
    <3>1. CASE i = m
      BY <2>3, <2>5, <3>1
    <3>2. CASE i /= m
      <4> HIDE DEF m
      <4> QED BY <2>3, <3>2 DEF DepthInv, NoSelf, Compiled
    <3> QED BY <3>1, <3>2
  <2> QED BY <1>1, <2>6 DEF DepthInv, ExportDeep
<1> QED BY <1>2, <1>3

(* The compiler gives up only on a chain of types that are not exported    *)
(* with nearly as many links as there are levels, whatever the modules and *)
(* however the types are named on the way (indirectlyExportedTypes,        *)
(* Table_Export).                                                          *)
THEOREM GivesUpNotBefore == SymbolFilesSpec => []GivesUpLate
<1>1. SymbolFilesInit => TruthInv /\ DepthInv
  BY InitTrue, InitDeep
<1>2. CompleteInv /\ TruthInv /\ DepthInv /\ [SymbolFilesNext]_symbolFileVars => DepthInv'
  <2> SUFFICES ASSUME CompleteInv, TruthInv, DepthInv, [SymbolFilesNext]_symbolFileVars
               PROVE  DepthInv'
    OBVIOUS
  <2>1. ASSUME NEW m \in Module, NEW imports \in ImportLists[m], Compile(m, imports)
        PROVE  DepthInv'
    BY <2>1, CompileDeep
  <2>2. CASE WriteLevel
    BY <2>2, WriteLevelDeep
  <2>3. CASE CloseSymbolFile
    BY <2>3, CloseDeep
  <2>4. CASE UNCHANGED symbolFileVars
    BY <2>4 DEF symbolFileVars, DepthInv, NoSelf, ExportDeep, Compiled, Reached, LeadsTo,
                Exported, IsNode, FileName, Unexported
  <2> QED BY <2>1, <2>2, <2>3, <2>4 DEF SymbolFilesNext
<1>3. DepthInv => GivesUpLate
  BY SymbolFilesAssumption DEF DepthInv, ExportDeep, GivesUpLate, Unexported
<1> QED BY <1>1, <1>2, <1>3, CompleteInvariant, TruthInvariant, PTL DEF SymbolFilesSpec

================================================================================
