--------------------------------- MODULE Arrays ---------------------------------
(***************************************************************************)
(* Arrays in a generated program (src/Generate.c, src/Types.c, the checks  *)
(* of src/Oberon.y and the macros of OBNC.h). All dimensions of an array   *)
(* are laid out in one C array. An open array parameter is passed as a     *)
(* pointer to the first element, followed by the length of each dimension; *)
(* a row of it can be passed on, indexed, copied and compared.             *)
(*                                                                         *)
(* A type is the sequence of its dimensions; the elements are characters,  *)
(* of type <<>>. A dimension is [id, name, len]: the node of the array     *)
(* type, its name or "", and the length or Open. What arrays contain is    *)
(* left out: access is the set of the elements that the statement being    *)
(* run touches, and meant the set that the language means it to touch,     *)
(* {} when it means a trap.                                                *)
(***************************************************************************)
EXTENDS Integers, Sequences

CONSTANTS
    ArrayVar,        \* array variables of the module
    ArrayVarType,    \* ArrayVarType[x]: the type of x
    Literal,         \* string constants
    LiteralLength,   \* LiteralLength[s]: the number of characters of s
    Procedure,       \* procedures with array parameters
    Formals,         \* Formals[f]: its parameters, records [kind, type]
    ProcedureVar,    \* procedure variables
    VarFormals,      \* VarFormals[g]: the parameters of the type of g
    IndexValue,      \* bound: the values of index expressions
    MaxCalls,        \* bound: how deep calls are nested
    ArrayUsage,      \* which of "short values", "open rows" programs contain
    Open, NoProcedure

Dimension == [id : STRING, name : STRING, len : {Open} \union Nat]
FormalParameter == [kind : {"value", "var"}, type : Seq(Dimension) \ {<<>>}]

(* Only the type of a parameter is open, and only its first dimensions.    *)
OpenFirst(formals) ==
    \A i \in DOMAIN formals : \A j, k \in DOMAIN formals[i].type :
        j < k /\ formals[i].type[k].len = Open => formals[i].type[j].len = Open

ASSUME ArraysAssumption ==
    /\ IndexValue \subseteq Int /\ MaxCalls \in Nat
    /\ ArrayUsage \subseteq {"short values", "open rows"}
    /\ ArrayVar \cap Literal = {} /\ NoProcedure \notin Procedure
    /\ Open \notin Nat
    /\ ArrayVarType \in [ArrayVar -> Seq(Dimension)]
    /\ \A x \in ArrayVar : \A k \in DOMAIN ArrayVarType[x] : ArrayVarType[x][k].len \in Nat \ {0}
    /\ LiteralLength \in [Literal -> Nat]
    /\ Formals \in [Procedure -> Seq(FormalParameter)]
    /\ VarFormals \in [ProcedureVar -> Seq(FormalParameter)]
    /\ \A f \in Procedure : OpenFirst(Formals[f])
    /\ \A g \in ProcedureVar : OpenFirst(VarFormals[g])

VARIABLES
    calls,      \* the arguments of the calls in progress, the outermost first
    procValue,  \* procValue[g]: the procedure that g holds
    access, meant,
    arrayTrap   \* the trap that ended the program, or "none"

arrayVars == <<calls, procValue, access, meant, arrayTrap>>

Rest(s, k) == SubSeq(s, k + 1, Len(s))
Product(s) == LET product[k \in 0..Len(s)] == IF k = 0 THEN 1 ELSE product[k - 1] * s[k] IN product[Len(s)]

-----------------------------------------------------------------------------
(* Types (Types_Same, TypesEqual, Types_ArrayCompatible).                  *)

IsOpenArray(type) == type /= <<>> /\ type[1].len = Open

Same(t, u) ==
    \/ t = u
    \/ t /= <<>> /\ u /= <<>> /\ t[1].name /= "" /\ t[1].name = u[1].name

(* What Types_Same takes for granted: no two types have the same name.     *)
FormalTypes(formals) == {formals[i].type : i \in DOMAIN formals}
DeclaredTypes ==
    {ArrayVarType[x] : x \in ArrayVar}
        \union (UNION {FormalTypes(Formals[f]) : f \in Procedure})
        \union (UNION {FormalTypes(VarFormals[g]) : g \in ProcedureVar})
NamesDistinct ==
    \A t, u \in DeclaredTypes : \A j \in 1..Len(t), k \in 1..Len(u) :
        t[j].name /= "" /\ t[j].name = u[k].name => Rest(t, j - 1) = Rest(u, k - 1)

TypesEqual(t, u) ==
    \E k \in 0..Len(t) :
        /\ k <= Len(u)
        /\ \A i \in 1..k : t[i].len = Open /\ u[i].len = Open
        /\ Same(Rest(t, k), Rest(u, k))

ArrayCompatible(actual, formal) ==
    \E k \in 0..Len(formal) :
        /\ k <= Len(actual)
        /\ \A i \in 1..k : formal[i].len = Open
        /\ Same(Rest(actual, k), Rest(formal, k))

FormalParametersMatch(fs, gs) ==
    /\ Len(fs) = Len(gs)
    /\ \A i \in DOMAIN fs : fs[i].kind = gs[i].kind /\ TypesEqual(fs[i].type, gs[i].type)

-----------------------------------------------------------------------------
(* Designators. base says what is known of the variable, the string or the *)
(* parameter: its kind and type, the object and the element of it that the *)
(* C pointer points to, and the lengths that were passed. path is where    *)
(* the array that is meant lies in the object.                             *)

Base(kind, type, object) ==
    [kind |-> kind, type |-> type, object |-> object, offset |-> 0, lens |-> <<>>, path |-> <<>>]

Parameters ==
    IF calls = <<>> THEN {}
    ELSE {calls[Len(calls)][i] : i \in DOMAIN calls[Len(calls)]}
Bases == {Base("variable", ArrayVarType[x], x) : x \in ArrayVar} \union Parameters

(* SetSelectorTypes: a constant index is checked when the length is known. *)
IndexAccepted(base, index) ==
    \A k \in DOMAIN index : base.type[k].len /= Open => index[k] \in 0..(base.type[k].len - 1)

(* The designators with n indices. const: all of them are constants, which *)
(* (bound) is considered where an element is designated.                   *)
Selected(base, n) == [base : {base}, index : [1..n -> IndexValue], const : {FALSE}]
Constant(base) ==
    [base : {base}, const : {TRUE},
     index : {x \in [1..Len(base.type) -> IndexValue] : IndexAccepted(base, x)}]

Elements == UNION {Selected(b, Len(b.type)) \union Constant(b) : b \in Bases}
ArraysOf(base) == UNION {Selected(base, n) : n \in 0..(Len(base.type) - 1)}
ArrayDesignators == UNION {ArraysOf(b) : b \in Bases}
Strings == UNION {Selected(Base("string", <<>>, s), 0) : s \in Literal}

IsString(e) == e.base.kind = "string"
WritableArray(e) == e.base.kind \in {"variable", "var"}
TypeOf(d) == Rest(d.base.type, Len(d.index))
IsCharacterArray(type) == Len(type) = 1

AssignmentCompatible(e, type) ==
    \/ ~IsString(e) /\ Same(TypeOf(e), type)
    \/ /\ IsString(e) /\ IsCharacterArray(type)
       /\ ~IsOpenArray(type) => LiteralLength[e.base.object] < type[1].len
    \/ /\ IsOpenArray(TypeOf(e)) /\ type /= <<>> /\ ~IsOpenArray(type)
       /\ TypesEqual(Tail(TypeOf(e)), Tail(type))

(* ValidateActualParameter. "short values": strings and open arrays for    *)
(* value parameters of a fixed length, which may be longer.                *)
ArgumentAccepted(e, formal) ==
    /\ formal.kind = "var" => WritableArray(e)
    /\ \/ /\ IsOpenArray(formal.type)
          /\ IF IsString(e) THEN IsCharacterArray(formal.type)
                            ELSE ArrayCompatible(TypeOf(e), formal.type)
       \/ /\ ~IsOpenArray(formal.type) /\ formal.kind = "value"
          /\ AssignmentCompatible(e, formal.type)
          /\ "short values" \in ArrayUsage \/ Same(TypeOf(e), formal.type)
       \/ ~IsOpenArray(formal.type) /\ formal.kind = "var" /\ Same(TypeOf(e), formal.type)

-----------------------------------------------------------------------------
(* What is generated: lengths, elements and checks.                        *)

(* Mutant of ArrayDimension: the length of the first dimension is taken.   *)
FirstDimension(d) == 0
ArrayDimension(d) == Len(d.index)

(* GenerateArrayLength: of the i-th of the dimensions that are left.       *)
ArrayLength(d, i) ==
    LET dimension == TypeOf(d)[i]
    IN IF dimension.len = Open THEN d.base.lens[ArrayDimension(d) + i] ELSE dimension.len

Lengths(e) ==
    IF IsString(e) THEN <<LiteralLength[e.base.object] + 1>>
    ELSE [i \in 1..Len(TypeOf(e)) |-> ArrayLength(e, i)]
FlattenedArrayLength(e) == Product(Lengths(e))

Entire(d) == [d EXCEPT !.index = <<>>]

(* Mutant of ArrayIndex: an index skips the next dimension only.           *)
ArrayIndexNext(d) ==
    LET lengths == Lengths(Entire(d))
        sum[k \in 0..Len(d.index)] ==
            IF k = 0 THEN 0
            ELSE sum[k - 1] + d.index[k] * (IF k = Len(lengths) THEN 1 ELSE lengths[k + 1])
    IN sum[Len(d.index)]
ArrayIndex(d) ==
    LET lengths == Lengths(Entire(d))
        sum[k \in 0..Len(d.index)] ==
            IF k = 0 THEN 0 ELSE sum[k - 1] + d.index[k] * Product(Rest(lengths, k))
    IN sum[Len(d.index)]

(* Mutant of IndexTraps: the numbers are compared as signed ones.          *)
IndexTrapsAbove(e) ==
    /\ e.index /= <<>>
    /\ IsOpenArray(e.base.type) \/ ~e.const
    /\ \E k \in DOMAIN e.index : e.index[k] >= Lengths(Entire(e))[k]

(* OBNC_IT compares unsigned numbers, so that a negative index traps.      *)
IndexTraps(e) ==
    /\ e.index /= <<>>
    /\ IsOpenArray(e.base.type) \/ ~e.const
    /\ \E k \in DOMAIN e.index : e.index[k] \notin 0..(Lengths(Entire(e))[k] - 1)

Address(e) == <<e.base.object, e.base.offset + ArrayIndex(e)>>
Beyond(e, i) == <<Address(e)[1], Address(e)[2] + i>>

(* GenerateArrayAssignment, OBNC_AAT.                                      *)
AssignmentTraps(source, target) ==
    /\ IsOpenArray(TypeOf(source)) \/ IsOpenArray(TypeOf(target))
    /\ Lengths(source)[1] > Lengths(target)[1]

(* GenerateProcedureCall, for the parameter formal of the procedure that   *)
(* is called; passed is the one that the designator's type has.            *)
Argument(e, passed, formal) ==
    [kind |-> formal.kind, type |-> formal.type,
     object |-> e.base.object, offset |-> Address(e)[2],
     lens |-> IF IsOpenArray(passed.type) THEN Lengths(e) ELSE <<>>,
     path |-> e.base.path \o e.index]

-----------------------------------------------------------------------------
(* What the language means: an element is reached by the indices from the  *)
(* object on.                                                              *)

Extents(object) ==
    IF object \in Literal THEN <<LiteralLength[object] + 1>>
    ELSE [k \in DOMAIN ArrayVarType[object] |-> ArrayVarType[object][k].len]

Path(e) == e.base.path \o e.index
Exists(e) == \A k \in DOMAIN Path(e) : Path(e)[k] \in 0..(Extents(e.base.object)[k] - 1)
ExtentsOf(e) == Rest(Extents(e.base.object), Len(Path(e)))
Inside(extents) ==
    {x \in [DOMAIN extents -> UNION {0..(extents[k] - 1) : k \in DOMAIN extents}] :
        \A k \in DOMAIN extents : x[k] < extents[k]}

(* Row by row, as the code lays the elements out.                          *)
Place(object, path) ==
    LET place[k \in 0..Len(path)] ==
            IF k = 0 THEN 0 ELSE place[k - 1] * Extents(object)[k] + path[k]
    IN <<object, place[Len(path)]>>
Part(e, x) == Place(e.base.object, Path(e) \o x)

-----------------------------------------------------------------------------
ArraysInit ==
    /\ calls = <<>>
    /\ procValue = [g \in ProcedureVar |-> NoProcedure]
    /\ access = {} /\ meant = {}
    /\ arrayTrap = "none"

(* The actions up to ReturnFromCall are statements: they are taken when    *)
(* the statement before is done and no trap has ended the program.         *)
Statement == arrayTrap = "none" /\ access = {} /\ meant = {}

Trapped(trap, touched) ==
    /\ arrayTrap' = trap
    /\ access' = IF trap = "none" THEN touched ELSE {}

(* An element is read or written.                                          *)
IndexElement(d) ==
    /\ Trapped(IF IndexTraps(d) THEN "index" ELSE "none", {Address(d)})
    /\ meant' = IF Exists(d) THEN {Part(d, <<>>)} ELSE {}
    /\ UNCHANGED <<calls, procValue>>

(* "open rows": both are parameters of one list whose rows are open, too.  *)
AssignArray(source, target) ==
    /\ WritableArray(target) /\ AssignmentCompatible(source, TypeOf(target))
    /\ "open rows" \in ArrayUsage \/ ~IsOpenArray(Tail(TypeOf(target)))
    /\ Trapped(IF AssignmentTraps(source, target) THEN "assignment"
               ELSE IF IndexTraps(source) \/ IndexTraps(target) THEN "index" ELSE "none",
               {<<Beyond(source, i), Beyond(target, i)>> : i \in 0..(FlattenedArrayLength(source) - 1)})
    /\ meant' = IF /\ Exists(source) /\ Exists(target)
                   /\ Inside(ExtentsOf(source)) \subseteq Inside(ExtentsOf(target))
                THEN {<<Part(source, x), Part(target, x)>> : x \in Inside(ExtentsOf(source))}
                ELSE {}
    /\ UNCHANGED <<calls, procValue>>

(* GenerateNonScalarOperation, OBNC_CMP.                                   *)
CompareArrays(x, y) ==
    /\ \A e \in {x, y} : IsString(e) \/ IsCharacterArray(TypeOf(e))
    /\ ~(IsString(x) /\ IsString(y))
    /\ LET n == IF Lengths(x)[1] < Lengths(y)[1] THEN Lengths(x)[1] ELSE Lengths(y)[1]
       IN Trapped(IF IndexTraps(x) \/ IndexTraps(y) THEN "index" ELSE "none",
                  {<<Beyond(x, i), Beyond(y, i)>> : i \in 0..(n - 1)})
    /\ meant' = IF Exists(x) /\ Exists(y)
                THEN {<<Part(x, i), Part(y, i)>> : i \in Inside(ExtentsOf(x)) \cap Inside(ExtentsOf(y))}
                ELSE {}
    /\ UNCHANGED <<calls, procValue>>

(* A call of f by a designator whose type has the parameters passed.       *)
Enter(f, passed, args) ==
    /\ Len(calls) < MaxCalls
    /\ \A i \in DOMAIN args : ArgumentAccepted(args[i], passed[i])
    /\ Trapped(IF \E i \in DOMAIN args : IndexTraps(args[i]) THEN "index" ELSE "none",
               {<<i, Address(args[i])>> : i \in DOMAIN args})
    /\ meant' = IF \A i \in DOMAIN args : Exists(args[i])
                THEN {<<i, Part(args[i], [k \in DOMAIN ExtentsOf(args[i]) |-> 0])>> : i \in DOMAIN args}
                ELSE {}
    /\ calls' = IF access' = {} THEN calls
                ELSE Append(calls, [i \in DOMAIN args |-> Argument(args[i], passed[i], Formals[f][i])])
    /\ UNCHANGED procValue

Arguments(passed) ==
    {args \in [DOMAIN passed ->
                   {e \in ArrayDesignators \union Strings :
                       \E i \in DOMAIN passed : ArgumentAccepted(e, passed[i])}] :
        \A i \in DOMAIN passed : ArgumentAccepted(args[i], passed[i])}

CallProcedure(f) == \E args \in Arguments(Formals[f]) : Enter(f, Formals[f], args)

CallNil(g) ==
    /\ procValue[g] = NoProcedure
    /\ Trapped("nil", {})
    /\ UNCHANGED <<calls, procValue, meant>>

CallVariable(g) ==
    \/ CallNil(g)
    \/ /\ procValue[g] /= NoProcedure
       /\ \E args \in Arguments(VarFormals[g]) : Enter(procValue[g], VarFormals[g], args)

AssignProcedure(g, f) ==
    /\ f /= NoProcedure => FormalParametersMatch(Formals[f], VarFormals[g])
    /\ procValue' = [procValue EXCEPT ![g] = f]
    /\ UNCHANGED <<calls, access, meant, arrayTrap>>

ReturnFromCall ==
    /\ calls /= <<>>
    /\ calls' = SubSeq(calls, 1, Len(calls) - 1)
    /\ UNCHANGED <<procValue, access, meant, arrayTrap>>

NextStatement ==
    /\ arrayTrap = "none" /\ access /= {}
    /\ access' = {} /\ meant' = {}
    /\ UNCHANGED <<calls, procValue, arrayTrap>>

ArraysNext ==
    \/ /\ Statement
       /\ \/ \E d \in Elements : IndexElement(d)
          \/ \E s, t \in ArrayDesignators \union Strings : AssignArray(s, t)
          \/ \E x, y \in ArrayDesignators \union Strings : CompareArrays(x, y)
          \/ \E f \in Procedure : CallProcedure(f)
          \/ \E g \in ProcedureVar : CallVariable(g)
          \/ \E g \in ProcedureVar, f \in Procedure \union {NoProcedure} : AssignProcedure(g, f)
          \/ ReturnFromCall
    \/ NextStatement

ArraysSpec == ArraysInit /\ [][ArraysNext]_arrayVars

-----------------------------------------------------------------------------
(* Type invariant: the arguments of calls point into objects, never before *)
(* them, and procedure variables hold procedures (GenerateProcedureCall).  *)
ArraysTypeOK ==
    /\ Len(calls) <= MaxCalls
    /\ \A c \in DOMAIN calls : \A i \in DOMAIN calls[c] :
          /\ calls[c][i].object \in ArrayVar \union Literal
          /\ calls[c][i].kind \in {"value", "var"}
          /\ calls[c][i].offset \in Nat
    /\ procValue \in [ProcedureVar -> Procedure \union {NoProcedure}]
    /\ arrayTrap \in {"none", "index", "assignment", "nil"}

(* LEN of an array parameter, open or not, or of a row of it is the length *)
(* of what is meant, however often that was passed on, row by row or       *)
(* through procedure variables (GenerateArrayLength).                      *)
LengthsTrue ==
    \A b \in Parameters : \A d \in ArraysOf(b) : Lengths(d) = ExtentsOf(d)

(* A statement touches the elements that it is meant to touch, and no      *)
(* others; it traps when an index is out of bounds or the target of an     *)
(* assignment is too short, and never else.                                *)
AccessExact == access = meant
================================================================================
