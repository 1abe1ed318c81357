----------------------------- MODULE Declarations -----------------------------
(***************************************************************************)
(* How obnc-compile reads declarations (src/Oberon.y): constants, types,   *)
(* variables and procedures, one action per grammar rule, in the order in  *)
(* which the parser reduces them. A pointer type may name a record type    *)
(* that is declared after it in the same section: until then it is on the  *)
(* list unresolvedPointerTypes.                                            *)
(*                                                                         *)
(* Trees are abstracted to what the rules look at: the form of a type, the *)
(* base type of a record or a pointer. Fields, element types, lengths,     *)
(* signatures, values of constants, statements and export marks are left   *)
(* out.                                                                    *)
(***************************************************************************)
EXTENDS SymbolTable

CONSTANTS
    MaxNode,   \* bound: the number of type nodes
    MaxOpen    \* bound: how deep type constructors are nested

ASSUME BoundsAssumption == MaxNode \in Nat /\ MaxOpen \in Nat

VARIABLES
    section,      \* the section of the current block being read
    declaring,    \* the type or variable being declared, {} or {x}
    current,      \* currentTypeIdentdef: {} or {x}
    open,         \* the type constructors begun and not finished, outermost first
    value,        \* the type just read, or Nothing
    node,         \* node[n]: a record or pointer type, in the order of creation
    unresolved,   \* unresolvedPointerTypes: a list, the latest node first
    records,      \* the length of recordDeclarationStack
    outcome       \* what obnc-compile has made of the source

typeVars == <<declaring, current, open, value, node, unresolved, records>>
vars == <<tableVars, section, typeVars, outcome>>

Node(n) == <<"node", n>>                 \* a record or pointer type
Array == <<"array">>
Procedure == <<"procedure">>
Forward(x) == <<"forward", x>>           \* a base type not yet declared
Incomplete(form) == <<"incomplete", form>>
QualIdent(x) == <<"name", x>>            \* an identifier as it is in the source
NewNode(form, base) == Append(node, [form |-> form, base |-> base, level |-> level])

Kind(r) == IF r[1] = "ident" THEN scope[r[2]][r[3]].kind ELSE "type"

(* Types_UnaliasedIdent, Types_Structure: an alias refers to the type that *)
(* it was declared equal to. Before it is declared, the type that a base   *)
(* type name stands for is an empty record.                                *)
TypeOf(r) == IF r[1] = "ident" THEN scope[r[2]][r[3]].type ELSE r
Unaliased(r) == IF TypeOf(r)[1] = "ident" THEN TypeOf(r) ELSE r
Structure(r) == TypeOf(TypeOf(r))
Form(r) ==
    LET s == Structure(r) IN
    CASE s[1] = "node" -> node[s[2]].form
      [] s[1] = "incomplete" -> s[2]
      [] s[1] = "forward" -> "record"
      [] OTHER -> s[1]

IdentName(r) == r[Len(r)]

(* Types_Same of the base type of a pointer type and the type x that is    *)
(* being declared: equal structures, or equal names at whatever level.     *)
SameAsCurrent(base, x) ==
    \/ Structure(base) = Structure(Ident(level, x))
    \/ base[1] \in {"ident", "forward"} /\ IdentName(Unaliased(base)) = x

(* The type that a tree stands for; Nothing after an error message: an     *)
(* identifier undeclared, not a type, or without a structure yet.          *)
ResolvedType(t) ==
    IF t[1] /= "name" THEN t
    ELSE LET r == At(t[2]) IN
         IF Kind(r) = "type" /\ Structure(r) /= Nothing THEN r ELSE Nothing

Init ==
    /\ TableInit
    /\ section = "const"
    /\ declaring = {} /\ current = {}
    /\ open = <<>> /\ value = Nothing
    /\ node = <<>> /\ unresolved = {}
    /\ records = 0
    /\ outcome = "reading"

GoOn == outcome = "reading" /\ UNCHANGED outcome
Stop(result) ==
    /\ outcome = "reading" /\ outcome' = result
    /\ UNCHANGED <<tableVars, section, typeVars>>
Reject == Stop("error")

(* Names of parameters; no step depends on two of them.                    *)
AtMostOne == {{}} \union {{x} : x \in Name}

(* identdef: field names may be equal to names declared in the scope.      *)
Redeclared(x) == LocallyDeclared(x) /\ records = 0

-----------------------------------------------------------------------------
ConstDeclaration(x) ==
    /\ section = "const"
    /\ IF Redeclared(x) THEN Reject
       ELSE Put(x, "constant", Nothing) /\ GoOn /\ UNCHANGED <<level, section, typeVars>>

TypeKeyword ==
    /\ section = "const"
    /\ section' = "type"
    /\ unresolved' = {}
    /\ UNCHANGED <<tableVars, declaring, current, open, value, node, records>> /\ GoOn

NoTypeSection ==
    /\ section = "const"
    /\ section' = "var"
    /\ UNCHANGED <<tableVars, typeVars>> /\ GoOn

TypeIdentDef(x) ==
    /\ section = "type" /\ declaring = {}
    /\ IF Redeclared(x) THEN Reject
       ELSE /\ declaring' = {x} /\ current' = {x}
            /\ Put(x, "type", Nothing)
            /\ UNCHANGED <<level, section, open, value, node, unresolved, records>> /\ GoOn

VariableIdentDef(x) ==
    /\ section = "var" /\ declaring = {}
    /\ IF Redeclared(x) THEN Reject
       ELSE /\ declaring' = {x}
            /\ UNCHANGED <<tableVars, section, current, open, value, node, unresolved, records>>
            /\ GoOn

-----------------------------------------------------------------------------
(* A type is read from outside to inside and reduced from inside to        *)
(* outside. The first constructor of a declared type decides what an       *)
(* identifier referring to it inside of it is taken for.                   *)
TypeExpected == declaring /= {} /\ value = Nothing
Within(form) == open /= <<>> /\ open[Len(open)].form = form

QualidentType(x) ==
    /\ TypeExpected
    /\ value' = QualIdent(x)
    /\ UNCHANGED <<tableVars, section, declaring, current, open, node, unresolved, records>> /\ GoOn

Begin(form, base) ==
    /\ Len(open) < MaxOpen
    /\ open' = Append(open, [form |-> form, base |-> base])
    /\ scope' = [scope EXCEPT ![level] = [x \in Name |->
           IF x \in current /\ @[x].type = Nothing
           THEN [kind |-> "type", type |-> Incomplete(form)] ELSE @[x]]]
    /\ UNCHANGED <<level, section, declaring, current, value, node, unresolved>> /\ GoOn

Reduce(type) == value' = type /\ open' = SubSeq(open, 1, Len(open) - 1)

ArrayLengthOf == TypeExpected /\ Begin("array", Nothing) /\ UNCHANGED records

ArrayType ==
    /\ Within("array") /\ value /= Nothing
    /\ IF ResolvedType(value) = Nothing THEN Reject
       ELSE /\ Reduce(Array)
            /\ UNCHANGED <<tableVars, section, declaring, current, node, unresolved, records>> /\ GoOn

(* Mutant of RecordType: recordDeclarationStack is not popped.             *)
RecordTypeKeepingStack ==
    /\ Within("record") /\ value = Nothing
    /\ Len(node) < MaxNode
    /\ node' = NewNode("record", open[Len(open)].base)
    /\ Reduce(Node(Len(node) + 1))
    /\ UNCHANGED <<tableVars, section, declaring, current, unresolved, records>> /\ GoOn

(* BaseType: a record type other than the one being declared, or a pointer *)
(* type to such a one. Types_Same is called with currentTypeIdentdef,      *)
(* which is NULL for the anonymous type of a variable: an assertion fails. *)
SelfReferring(r) ==
    \E x \in current :
        \/ r = Ident(level, x)
        \/ Form(r) = "pointer" /\ SameAsCurrent(node[Structure(r)[2]].base, x)
RecordHeading(base) ==
    /\ TypeExpected
    /\ CASE base = Nothing ->
              Begin("record", Nothing) /\ records' = records + 1
         [] base /= Nothing /\ At(IdentName(base)) = Nothing -> Reject
         [] OTHER ->
              LET r == At(IdentName(base)) IN
              IF Kind(r) /= "type" \/ SelfReferring(r) \/ Form(r) \notin {"record", "pointer"}
              THEN Reject
              ELSE IF Form(r) = "pointer" /\ current = {}
              THEN Stop("assertion failed")
              ELSE Begin("record", r) /\ records' = records + 1

FieldList ==
    /\ Within("record") /\ value /= Nothing
    /\ LET r == ResolvedType(value) IN
       IF r = Nothing \/ \E x \in current : r = Ident(level, x) /\ Form(r) /= "pointer"
       THEN Reject
       ELSE /\ value' = Nothing
            /\ UNCHANGED <<tableVars, section, declaring, current, open, node, unresolved, records>>
            /\ GoOn

RecordType ==
    /\ Within("record") /\ value = Nothing
    /\ Len(node) < MaxNode
    /\ records' = records - 1
    /\ node' = NewNode("record", open[Len(open)].base)
    /\ Reduce(Node(Len(node) + 1))
    /\ UNCHANGED <<tableVars, section, declaring, current, unresolved>> /\ GoOn

PointerTo == TypeExpected /\ Begin("pointer", Nothing) /\ UNCHANGED records

NewPointer(base) ==
    /\ Len(node) < MaxNode
    /\ node' = NewNode("pointer", base)
    /\ Reduce(Node(Len(node) + 1))
    /\ UNCHANGED <<tableVars, section, declaring, current, records>> /\ GoOn

(* Types_IsRecord asserts that the identifier it is given is a type.       *)
PointerType ==
    /\ Within("pointer") /\ value /= Nothing
    /\ LET r == IF value[1] = "name" THEN At(value[2]) ELSE value IN
       CASE r = Nothing /\ current /= {} ->
              NewPointer(Forward(value[2])) /\ unresolved' = unresolved \union {Len(node) + 1}
         [] r /= Nothing /\ Kind(r) /= "type" -> Stop("assertion failed")
         [] r /= Nothing /\ Kind(r) = "type" /\ Form(r) = "record" ->
              NewPointer(r) /\ UNCHANGED unresolved
         [] OTHER -> Reject

(* The parameters of a procedure type have named types.                    *)
ProcedureType(names) ==
    /\ TypeExpected
    /\ IF \E x \in names : ResolvedType(QualIdent(x)) = Nothing THEN Reject
       ELSE /\ value' = Procedure
            /\ UNCHANGED <<tableVars, section, declaring, current, open, node, unresolved, records>> /\ GoOn

-----------------------------------------------------------------------------
(* ResolvePointerTypes binds the pointer types that wait for x and deletes *)
(* them from the list. prev is set to the deleted node, too, so that the   *)
(* next one, if it also matches, is unlinked from a node that is not in    *)
(* the list any more, and stays: of the matching nodes in a row, behind a  *)
(* node that does not match, every second one stays.                       *)
Waiting(x) == {p \in unresolved : IdentName(node[p].base) = x}
NotDeleted(x) ==
    {p \in Waiting(x) :
        \E q \in unresolved \ Waiting(x) :
            LET between == {r \in unresolved : p < r /\ r < q} IN
            p < q /\ between \subseteq Waiting(x) /\ Cardinality(between) % 2 = 1}

(* Mutant of TypeDeclaration: currentTypeIdentdef is not reset.            *)
TypeDeclarationKeepingCurrent ==
    /\ section = "type" /\ open = <<>> /\ value /= Nothing
    /\ LET r == ResolvedType(value) IN
       \E x \in declaring :
           IF r = Nothing \/ (Waiting(x) /= {} /\ Form(r) /= "record") THEN Reject
           ELSE /\ Put(x, "type", Unaliased(r))
                /\ node' = [n \in DOMAIN node |->
                              IF n \in Waiting(x) THEN [node[n] EXCEPT !.base = Ident(level, x)]
                              ELSE node[n]]
                /\ unresolved' = (unresolved \ Waiting(x)) \union NotDeleted(x)
                /\ declaring' = {} /\ value' = Nothing
                /\ UNCHANGED <<level, section, current, open, records>> /\ GoOn

TypeDeclaration ==
    /\ section = "type" /\ open = <<>> /\ value /= Nothing
    /\ LET r == ResolvedType(value) IN
       \E x \in declaring :
           IF r = Nothing \/ (Waiting(x) /= {} /\ Form(r) /= "record") THEN Reject
           ELSE /\ Put(x, "type", Unaliased(r))
                /\ node' = [n \in DOMAIN node |->
                              IF n \in Waiting(x) THEN [node[n] EXCEPT !.base = Ident(level, x)]
                              ELSE node[n]]
                /\ unresolved' = (unresolved \ Waiting(x)) \union NotDeleted(x)
                /\ current' = {} /\ declaring' = {} /\ value' = Nothing
                /\ UNCHANGED <<level, section, open, records>> /\ GoOn

TypeSection ==
    /\ section = "type" /\ declaring = {}
    /\ IF unresolved /= {} THEN Stop("undeclared pointer base type")
       ELSE section' = "var" /\ UNCHANGED <<tableVars, typeVars>> /\ GoOn

VariableDeclaration ==
    /\ section = "var" /\ open = <<>> /\ value /= Nothing
    /\ \E x \in declaring :
           IF ResolvedType(value) = Nothing \/ LocallyDeclared(x) THEN Reject
           ELSE /\ Put(x, "variable", Nothing)
                /\ declaring' = {} /\ value' = Nothing
                /\ UNCHANGED <<level, section, current, open, node, unresolved, records>> /\ GoOn

ProcedureHeading(x, params) ==
    /\ section \in {"var", "procedure"} /\ declaring = {}
    /\ level < MaxLevel
    /\ IF Redeclared(x) THEN Reject
       ELSE PutProcedure(x, params) /\ section' = "const" /\ UNCHANGED typeVars /\ GoOn

(* The types of a closed scope are forgotten: nothing refers to them.      *)
ProcedureDeclaration ==
    /\ section \in {"var", "procedure"} /\ declaring = {} /\ level > 0
    /\ CloseScope
    /\ section' = "procedure"
    /\ \E k \in 0 .. Len(node) :
          /\ \A n \in DOMAIN node : n <= k <=> node[n].level < level
          /\ node' = SubSeq(node, 1, k)
    /\ UNCHANGED <<declaring, current, open, value, unresolved, records>> /\ GoOn

ModuleEnd ==
    /\ section \in {"var", "procedure"} /\ declaring = {} /\ level = 0
    /\ Stop("accepted")

Next ==
    \/ TypeKeyword \/ NoTypeSection
    \/ \E x \in Name : ConstDeclaration(x) \/ TypeIdentDef(x) \/ VariableIdentDef(x)
    \/ \E x \in Name : QualidentType(x) \/ RecordHeading(QualIdent(x))
    \/ RecordHeading(Nothing) \/ FieldList \/ RecordType
    \/ ArrayLengthOf \/ ArrayType \/ PointerTo \/ PointerType
    \/ \E names \in AtMostOne : ProcedureType(names)
    \/ TypeDeclaration \/ TypeSection \/ VariableDeclaration
    \/ \E x \in Name, params \in AtMostOne : ProcedureHeading(x, params)
    \/ ProcedureDeclaration \/ ModuleEnd

Spec == Init /\ [][Next]_vars

-----------------------------------------------------------------------------
Pointers == {n \in DOMAIN node : node[n].form = "pointer"}

Ref ==
    {Nothing, Basic, Array, Procedure} \union {Ident(l, x) : l \in Level, x \in Name}
    \union {Forward(x) : x \in Name} \union {Node(n) : n \in DOMAIN node}
    \union {Incomplete(form) : form \in {"array", "record", "pointer"}}

TypeOK ==
    /\ level \in Level
    /\ \A l \in Level, x \in Name : scope[l][x].type \in Ref
    /\ declaring \in SUBSET Name /\ current \subseteq Name
    /\ value \in Ref \union {QualIdent(x) : x \in Name}
    /\ \A n \in DOMAIN node : node[n].base \in Ref
    /\ unresolved \subseteq Pointers
    /\ records \in Nat

(* Oberon report, 6.4: "It must be a record type", and if it is declared   *)
(* after the pointer type "it must lie within the same scope": behind a    *)
(* type section no pointer type waits for its base type.                   *)
BoundToRecord ==
    section /= "type" =>
        \A n \in Pointers :
            LET base == node[n].base IN
            /\ base[1] \in {"ident", "node"} /\ Form(base) = "record"
            /\ base[1] = "ident" => Kind(base) = "type" /\ base[2] \in {0, node[n].level}

DeclarationsInv == TypeOK /\ BoundToRecord

(* Oberon report, 4: "No identifier may denote more than one object within *)
(* a given scope": nothing is put in the table twice, and a type stays     *)
(* what it was declared to be as long as its scope is open.                *)
DeclaredOnce ==
    [][\A l \in Level, x \in Name :
          /\ l <= level /\ l <= level' /\ scope[l][x] /= Undeclared
          /\ ~(l = level /\ x \in current)
          => scope'[l][x] = scope[l][x]]_vars
==============================================================================
