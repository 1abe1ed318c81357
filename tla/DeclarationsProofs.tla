--------------------------- MODULE DeclarationsProofs ---------------------------
(***************************************************************************)
(* Proof that declarations are read as the Oberon report means it, for any *)
(* names, any nesting of procedures and type constructors and any number   *)
(* of types: every pointer type gets a record type of its own scope or of  *)
(* the module, and an identifier stays what it was declared to be.         *)
(*                                                                         *)
(* The argument: an entry of the symbol table is built, an alias of a      *)
(* built type, or belongs to the type being declared, whose form is that   *)
(* of the outermost constructor from the moment it is begun; a pointer     *)
(* type that does not wait for its base type is bound to a record type,    *)
(* and the entries that its base type leads to are not changed but by the  *)
(* end of that very declaration, which keeps their form.                   *)
(***************************************************************************)
EXTENDS Declarations, FiniteSetTheorems, SequenceTheorems, TLAPS

TypeForm == {"array", "record", "pointer"}
EntryKind == {"none", "constant", "type", "variable", "procedure", "parameter"}
Idents == {Ident(l, x) : l \in Level, x \in Name}
Tree ==
    {Nothing, Basic, Array, Procedure} \union Idents \union {Forward(x) : x \in Name}
        \union {Node(n) : n \in Nat} \union {Incomplete(form) : form \in TypeForm}
Constructor == [form : TypeForm, base : {Nothing} \union Idents]
TypeNode == [form : {"record", "pointer"}, base : Tree, level : Level]

(* What the parser works on, as far as one thing does not depend on        *)
(* another.                                                                *)
ShapeInv ==
    /\ level \in Level
    /\ scope \in [Level -> [Name -> [kind : EntryKind, type : Tree]]]
    /\ section \in {"const", "type", "var", "procedure"}
    /\ declaring \in SUBSET Name /\ current \in SUBSET Name
    /\ open \in Seq(Constructor)
    /\ node \in Seq(TypeNode)
    /\ unresolved \in SUBSET DOMAIN node

(* A type that is complete and was declared at level l or further outside. *)
Built(t, l) ==
    \/ t \in {Basic, Array, Procedure}
    \/ \E n \in DOMAIN node : t = Node(n) /\ node[n].level <= l
Alias(t, l) ==
    \E m \in {0, l}, y \in Name :
        /\ t = Ident(m, y)
        /\ scope[m][y].kind = "type" /\ Built(scope[m][y].type, m)
EntryTrue(l, x) ==
    LET t == scope[l][x].type IN
    /\ l > level => scope[l][x] = Undeclared
    /\ \/ t = Nothing /\ (scope[l][x].kind = "type" => l = level /\ x \in current)
       \/ Built(t, l)
       \/ scope[l][x].kind = "type" /\ Alias(t, l)
       \/ l = level /\ x \in current /\ \E form \in TypeForm : t = Incomplete(form)
TableInv == \A l \in Level, x \in Name : EntryTrue(l, x)

(* The form that a type has that was just read.                            *)
HasForm(t, form) ==
    \/ t = Array /\ form = "array"
    \/ \E n \in DOMAIN node : t = Node(n) /\ node[n].form = form

CurrentTrue(x) ==
    LET t == scope[level][x].type IN
    /\ scope[level][x].kind = "type"
    /\ open /= <<>> => t = Incomplete(open[1].form)
    /\ open = <<>> /\ value = Nothing => t = Nothing
    /\ open = <<>> /\ value /= Nothing =>
          t = Nothing \/ \E form \in TypeForm : t = Incomplete(form) /\ HasForm(value, form)

ValueTrue ==
    \/ value \in {Nothing, Array, Procedure}
    \/ \E x \in Name : value = QualIdent(x)
    \/ \E n \in DOMAIN node : value = Node(n)

Records(o) == {i \in DOMAIN o : o[i].form = "record"}

ReadingInv ==
    /\ declaring = {} => open = <<>> /\ value = Nothing
    /\ declaring /= {} => section \in {"type", "var"} /\ \E x \in Name : declaring = {x}
    /\ section = "type" => current = declaring
    /\ section /= "type" => current = {} /\ unresolved = {}
    /\ records = Cardinality(Records(open))
    /\ ValueTrue
    /\ \A x \in current : CurrentTrue(x)

RecordNode(t) == \E n \in DOMAIN node : t = Node(n) /\ node[n].form = "record"
RecordEntry(l, y) ==
    LET t == scope[l][y].type IN
    /\ scope[l][y].kind = "type"
    /\ \/ RecordNode(t)
       \/ t = Incomplete("record")
       \/ \E m \in {0, l}, z \in Name : t = Ident(m, z) /\ RecordNode(scope[m][z].type)

(* The base type of a pointer type is a record type.                       *)
Bound(n) ==
    \/ \E m \in 1..(n - 1) : node[n].base = Node(m) /\ node[m].form = "record"
    \/ \E l \in {0, node[n].level}, y \in Name : node[n].base = Ident(l, y) /\ RecordEntry(l, y)

NodesInv ==
    /\ \A n \in DOMAIN node : node[n].level <= level
    /\ \A m, n \in DOMAIN node : m <= n => node[m].level <= node[n].level
    /\ \A n \in DOMAIN node, m \in Nat : node[n].base = Node(m) => m \in 1..(n - 1)
    /\ \A n \in unresolved : node[n].form = "pointer" /\ node[n].level = level
    /\ \A n \in Pointers \ unresolved : Bound(n)

DeclInv == ShapeInv /\ TableInv /\ ReadingInv /\ NodesInv

-----------------------------------------------------------------------------
(* Trees are told apart by their tags.                                     *)
LEMMA Tags ==
    /\ Nothing[1] = "none" /\ Basic[1] = "basic" /\ Array[1] = "array" /\ Procedure[1] = "procedure"
    /\ \A n : Node(n)[1] = "node" /\ Node(n)[2] = n
    /\ \A l, x : Ident(l, x)[1] = "ident" /\ Ident(l, x)[2] = l /\ Ident(l, x)[3] = x
                 /\ IdentName(Ident(l, x)) = x
    /\ \A x : Forward(x)[1] = "forward" /\ IdentName(Forward(x)) = x
    /\ \A x : QualIdent(x)[1] = "name" /\ QualIdent(x)[2] = x /\ IdentName(QualIdent(x)) = x
    /\ \A form : Incomplete(form)[1] = "incomplete" /\ Incomplete(form)[2] = form
BY DEF Nothing, Basic, Array, Procedure, Node, Ident, Forward, QualIdent, Incomplete, IdentName

(* Trees of different kinds, or with different parts, are different.       *)
LEMMA Apart ==
    /\ \A n, m : Node(n) = Node(m) => n = m
    /\ \A l, x, m, y : Ident(l, x) = Ident(m, y) => l = m /\ x = y
    /\ \A f, g : Incomplete(f) = Incomplete(g) => f = g
    /\ \A x, y : QualIdent(x) = QualIdent(y) => x = y
    /\ \A l, x, n : Ident(l, x) /= Node(n)
    /\ \A l, x, f : Ident(l, x) /= Incomplete(f)
    /\ \A n, f : Node(n) /= Incomplete(f)
    /\ \A n : Node(n) \notin {Nothing, Basic, Array, Procedure}
    /\ \A l, x : Ident(l, x) \notin {Nothing, Basic, Array, Procedure}
    /\ \A f : Incomplete(f) \notin {Nothing, Basic, Array, Procedure}
    /\ \A x : QualIdent(x) \notin {Nothing, Basic, Array, Procedure}
    /\ \A x, n : QualIdent(x) /= Node(n)
    /\ \A x, n : Forward(x) /= Node(n)
    /\ Nothing \notin {Basic, Array, Procedure}
    /\ Array \notin {Basic, Procedure}
<1>1. \A n, m : Node(n) = Node(m) => n = m
    BY Tags
<1>2. \A l, x, m, y : Ident(l, x) = Ident(m, y) => l = m /\ x = y
    BY Tags
<1>3. \A f, g : Incomplete(f) = Incomplete(g) => f = g
    BY Tags
<1>4. \A x, y : QualIdent(x) = QualIdent(y) => x = y
    BY Tags
<1>5. /\ \A l, x, n : Ident(l, x) /= Node(n)
      /\ \A l, x, f : Ident(l, x) /= Incomplete(f)
      /\ \A n, f : Node(n) /= Incomplete(f)
      /\ \A x, n : QualIdent(x) /= Node(n)
      /\ \A x, n : Forward(x) /= Node(n)
    BY Tags
<1>6. /\ \A n : Node(n) \notin {Nothing, Basic, Array, Procedure}
      /\ \A l, x : Ident(l, x) \notin {Nothing, Basic, Array, Procedure}
      /\ \A f : Incomplete(f) \notin {Nothing, Basic, Array, Procedure}
      /\ \A x : QualIdent(x) \notin {Nothing, Basic, Array, Procedure}
    BY Tags
<1>7. Nothing \notin {Basic, Array, Procedure} /\ Array \notin {Basic, Procedure}
    BY Tags
<1> QED
    BY <1>1, <1>2, <1>3, <1>4, <1>5, <1>6, <1>7

(* What a type is, that an identifier of the symbol table stands for.      *)
LEMMA IdentForm ==
    ASSUME NEW l, NEW y
    PROVE  LET t == scope[l][y].type IN
           /\ Kind(Ident(l, y)) = scope[l][y].kind /\ TypeOf(Ident(l, y)) = t
           /\ Structure(Ident(l, y)) = TypeOf(t)
           /\ t[1] /= "ident" => Unaliased(Ident(l, y)) = Ident(l, y) /\ TypeOf(t) = t
           /\ t[1] = "ident" => Unaliased(Ident(l, y)) = t
<1>1. /\ Kind(Ident(l, y)) = scope[l][y].kind
      /\ TypeOf(Ident(l, y)) = scope[l][y].type
    BY Tags DEF Kind, TypeOf
<1>2. Structure(Ident(l, y)) = TypeOf(scope[l][y].type)
    BY <1>1 DEF Structure
<1>3. /\ scope[l][y].type[1] /= "ident" => Unaliased(Ident(l, y)) = Ident(l, y)
      /\ scope[l][y].type[1] = "ident" => Unaliased(Ident(l, y)) = scope[l][y].type
    BY <1>1 DEF Unaliased
<1>4. scope[l][y].type[1] /= "ident" => TypeOf(scope[l][y].type) = scope[l][y].type
    BY DEF TypeOf
<1> QED
    BY <1>1, <1>2, <1>3, <1>4

(* The form of a structured type is that of its outermost constructor.     *)
LEMMA StructureForm ==
    ASSUME NEW r, NEW s, Structure(r) = s
    PROVE  /\ \A n : s = Node(n) => Form(r) = node[n].form
           /\ \A form : s = Incomplete(form) => Form(r) = form
           /\ s = Array => Form(r) = "array"
           /\ s = Basic => Form(r) = "basic"
           /\ s = Procedure => Form(r) = "procedure"
           /\ s = Nothing => Form(r) = "none"
<1> DEFINE F == CASE s[1] = "node" -> node[s[2]].form
                  [] s[1] = "incomplete" -> s[2]
                  [] s[1] = "forward" -> "record"
                  [] OTHER -> s[1]
<1>1. Form(r) = F
    BY DEF Form
<1>2. \A n : s = Node(n) => F = node[n].form
    BY Tags
<1>3. \A form : s = Incomplete(form) => F = form
    BY Tags
<1>4. s = Array => F = "array"
    BY Tags
<1>5. s = Basic => F = "basic"
    BY Tags
<1>6. s = Procedure => F = "procedure"
    BY Tags
<1>7. s = Nothing => F = "none"
    BY Tags
<1> QED
    BY <1>1, <1>2, <1>3, <1>4, <1>5, <1>6, <1>7

(* The form of a record or pointer type is the one it was created with.    *)
LEMMA NodeForm ==
    ASSUME NEW n
    PROVE  Structure(Node(n)) = Node(n) /\ Form(Node(n)) = node[n].form /\ Kind(Node(n)) = "type"
           /\ Unaliased(Node(n)) = Node(n)
<1>1. Structure(Node(n)) = Node(n) /\ Kind(Node(n)) = "type" /\ Unaliased(Node(n)) = Node(n)
    BY Tags DEF Structure, TypeOf, Kind, Unaliased
<1> QED
    BY <1>1, StructureForm

(* A complete type stands for itself.                                      *)
LEMMA BuiltForm ==
    ASSUME NEW l, NEW t, Built(t, l)
    PROVE  TypeOf(t) = t /\ t[1] /= "ident" /\ t /= Nothing /\ \A form : t /= Incomplete(form)
<1>1. t[1] \in {"basic", "array", "procedure", "node"}
    BY Tags DEF Built
<1> QED
    BY <1>1, Tags DEF TypeOf

(* A complete type of record form is one of the record types.              *)
LEMMA BuiltRecord ==
    ASSUME NEW r, NEW b, NEW m, Built(b, m), Structure(r) = b
    PROVE  Form(r) = "record" <=> RecordNode(b)
<1>1. CASE b \in {Basic, Array, Procedure}
    BY <1>1, StructureForm, Apart DEF RecordNode
<1>2. ASSUME NEW n \in DOMAIN node, b = Node(n) PROVE Form(r) = "record" <=> RecordNode(b)
    BY <1>2, StructureForm, Apart DEF RecordNode
<1> QED
    BY <1>1, <1>2 DEF Built

(* An identifier that stands for a record type leads to one.               *)
LEMMA RecordEntryIs ==
    ASSUME ShapeInv, TableInv, NEW l \in Level, NEW y \in Name, scope[l][y].kind = "type"
    PROVE  Form(Ident(l, y)) = "record" <=> RecordEntry(l, y)
<1> DEFINE t == scope[l][y].type
           s == Structure(Ident(l, y))
<1>1. /\ s = TypeOf(t)
      /\ t[1] /= "ident" => TypeOf(t) = t
      /\ t[1] = "ident" => Unaliased(Ident(l, y)) = t
    BY IdentForm
<1>2. EntryTrue(l, y)
    BY DEF TableInv
<1>3. CASE t = Nothing
    <2>1. s = Nothing
        BY <1>1, <1>3, Tags
    <2>2. Form(Ident(l, y)) = "none"
        BY <2>1, StructureForm
    <2>3. ~RecordEntry(l, y)
        BY <1>3, Apart DEF RecordEntry, RecordNode
    <2> QED
        BY <2>2, <2>3
<1>4. ASSUME NEW f, t = Incomplete(f) PROVE Form(Ident(l, y)) = "record" <=> RecordEntry(l, y)
    <2>1. s = Incomplete(f)
        BY <1>1, <1>4, Tags
    <2>2. Form(Ident(l, y)) = f
        BY <2>1, StructureForm
    <2>3. RecordEntry(l, y) <=> f = "record"
        BY <1>4, Apart DEF RecordEntry, RecordNode
    <2> QED
        BY <2>2, <2>3
<1>5. ASSUME NEW b, NEW m, Built(b, m), s = b
      PROVE  Form(Ident(l, y)) = "record" <=> RecordNode(b)
    BY <1>5, BuiltRecord
<1>6. CASE Built(t, l)
    <2>1. s = t /\ t[1] /= "ident" /\ \A form : t /= Incomplete(form)
        BY <1>1, <1>6, BuiltForm
    <2>2. RecordEntry(l, y) <=> RecordNode(t)
        BY <2>1, Tags DEF RecordEntry
    <2> QED
        BY <1>5, <1>6, <2>1, <2>2
<1>7. CASE Alias(t, l)
    <2>1. PICK m \in {0, l}, z \in Name : t = Ident(m, z) /\ Built(scope[m][z].type, m)
        BY <1>7 DEF Alias
    <2>2. s = scope[m][z].type
        BY <1>1, <2>1, IdentForm
    <2>3. RecordEntry(l, y) <=> RecordNode(scope[m][z].type)
        BY <2>1, Apart DEF RecordEntry, RecordNode
    <2> QED
        BY <1>5, <2>1, <2>2, <2>3
<1> QED
    BY <1>2, <1>3, <1>4, <1>6, <1>7 DEF EntryTrue

-----------------------------------------------------------------------------
(* What a step leaves as it is: the entries of open scopes, but for the    *)
(* type being declared, and types of open scopes. The type being declared  *)
(* stays a record type if it is one.                                       *)
Kept ==
    \A l \in Level, x \in Name :
        l <= level /\ l <= level' /\ scope[l][x] /= Undeclared /\ ~(l = level /\ x \in current)
        => scope'[l][x] = scope[l][x]
NodesKept ==
    \A n \in DOMAIN node :
        node[n].level <= level' =>
            /\ n \in DOMAIN node'
            /\ node'[n].form = node[n].form /\ node'[n].level = node[n].level
CurrentKept ==
    \A x \in current : level' = level /\ (RecordEntry(level, x) => RecordEntry(level, x)')
Stable == Kept /\ NodesKept /\ CurrentKept

(* A complete type stays complete.                                         *)
LEMMA BuiltStays ==
    ASSUME ShapeInv, NodesKept, NEW l \in Level, l <= level', level' \in Level, NEW t, Built(t, l)
    PROVE  Built(t, l)' /\ (RecordNode(t) => RecordNode(t)')
<1>1. CASE t \in {Basic, Array, Procedure}
    <2>1. ~RecordNode(t)
        BY <1>1, Apart DEF RecordNode
    <2> QED
        BY <1>1, <2>1 DEF Built
<1>2. ASSUME NEW n \in DOMAIN node, t = Node(n), node[n].level <= l
      PROVE  Built(t, l)' /\ (RecordNode(t) => RecordNode(t)')
    <2>1. node[n].level \in Level
        <3>1. node \in Seq(TypeNode)
            BY DEF ShapeInv
        <3>2. node[n] \in TypeNode
            BY <1>2, <3>1
        <3> QED
            BY <3>2 DEF TypeNode
    <2>2. node[n].level <= level'
        BY <1>2, <2>1, MaxLevelAssumption DEF Level
    <2>3. /\ n \in DOMAIN node'
          /\ node'[n].form = node[n].form /\ node'[n].level = node[n].level
        BY <1>2, <2>2 DEF NodesKept
    <2>4. Built(t, l)'
        BY <1>2, <2>3 DEF Built, Node
    <2>5. RecordNode(t) => node[n].form = "record"
        BY <1>2, Apart DEF RecordNode
    <2>6. node[n].form = "record" => RecordNode(t)'
        BY <1>2, <2>3 DEF RecordNode, Node
    <2> QED
        BY <2>4, <2>5, <2>6
<1> QED
    BY <1>1, <1>2 DEF Built

(* An entry of kind type is not undeclared.                                *)
LEMMA TypesDeclared == \A l, x : scope[l][x].kind = "type" => scope[l][x] /= Undeclared
    BY DEF Undeclared

(* The entry behind an alias is complete.                                  *)
LEMMA AliasStays ==
    ASSUME ShapeInv, TableInv, ReadingInv, Stable, level' \in Level,
           NEW l \in Level, l <= level, l <= level', NEW m \in {0, l}, NEW y \in Name,
           scope[m][y].kind = "type", Built(scope[m][y].type, m)
    PROVE  scope'[m][y] = scope[m][y] /\ Built(scope[m][y].type, m)'
<1>1. m \in Level /\ m <= level /\ m <= level'
    BY MaxLevelAssumption DEF Level, ShapeInv
<1>2. ~(m = level /\ y \in current)
    <2>1. ASSUME m = level, y \in current PROVE FALSE
        <3>1. CurrentTrue(y)
            BY <2>1 DEF ReadingInv
        <3>2. scope[level][y].type = Nothing \/ \E form : scope[level][y].type = Incomplete(form)
            BY <3>1 DEF CurrentTrue
        <3> QED
            BY <2>1, <3>2, BuiltForm
    <2> QED
        BY <2>1
<1>3. scope[m][y] /= Undeclared
    BY TypesDeclared
<1>4. scope'[m][y] = scope[m][y]
    BY <1>1, <1>2, <1>3 DEF Stable, Kept
<1> QED
    BY <1>1, <1>4, BuiltStays DEF Stable

(* A record type that is declared stays one.                               *)
LEMMA RecordsStay ==
    ASSUME ShapeInv, TableInv, ReadingInv, Stable, level' \in Level,
           NEW l \in Level, l <= level, l <= level', NEW y \in Name, RecordEntry(l, y)
    PROVE  RecordEntry(l, y)'
<1>1. CASE l = level /\ y \in current
    BY <1>1 DEF Stable, CurrentKept
<1>2. CASE ~(l = level /\ y \in current)
    <2> DEFINE t == scope[l][y].type
    <2>1. scope[l][y].kind = "type"
        BY DEF RecordEntry
    <2>2. scope[l][y] /= Undeclared
        BY <2>1, TypesDeclared
    <2>3. scope'[l][y] = scope[l][y]
        BY <1>2, <2>2 DEF Stable, Kept
    <2>4. EntryTrue(l, y)
        BY DEF TableInv
    <2>5. CASE RecordNode(t)
        <3>1. Built(t, l)
            BY <2>4, <2>5, Apart DEF RecordNode, EntryTrue, Alias
        <3>2. RecordNode(t)'
            BY <2>3, <2>5, <3>1, BuiltStays DEF Stable
        <3> QED
            BY <2>1, <2>3, <3>2 DEF RecordEntry
    <2>6. CASE t = Incomplete("record")
        BY <2>1, <2>3, <2>6 DEF RecordEntry, Incomplete
    <2>7. ASSUME NEW m \in {0, l}, NEW z \in Name, t = Ident(m, z), RecordNode(scope[m][z].type)
          PROVE  RecordEntry(l, y)'
        <3>1. Alias(t, l)
            BY <2>4, <2>7, Tags, BuiltForm DEF EntryTrue
        <3>2. scope[m][z].kind = "type" /\ Built(scope[m][z].type, m)
            <4>1. PICK p \in {0, l}, q \in Name :
                      /\ t = Ident(p, q)
                      /\ scope[p][q].kind = "type" /\ Built(scope[p][q].type, p)
                BY <3>1 DEF Alias
            <4>2. p = m /\ q = z
                <5>1. Ident(p, q) = Ident(m, z)
                    BY <2>7, <4>1
                <5> QED
                    BY <5>1, Tags
            <4> QED
                BY <4>1, <4>2
        <3>3. scope'[m][z] = scope[m][z]
            BY <2>7, <3>2, AliasStays
        <3>4. m \in Level /\ m <= level'
            BY <2>7, MaxLevelAssumption DEF Level
        <3>5. RecordNode(scope[m][z].type)'
            BY <2>7, <3>2, <3>3, <3>4, BuiltStays DEF Stable
        <3> QED
            BY <2>1, <2>3, <2>7, <3>5 DEF RecordEntry, Ident
    <2> QED
        BY <2>5, <2>6, <2>7 DEF RecordEntry
<1> QED
    BY <1>1, <1>2

(* An entry that a step leaves as it is.                                   *)
LEMMA EntryStays ==
    ASSUME ShapeInv, TableInv, ReadingInv, Stable, level' \in Level,
           NEW l \in Level, l <= level, l <= level', NEW x \in Name,
           scope'[l][x] = scope[l][x], ~(l = level /\ x \in current)
    PROVE  EntryTrue(l, x)'
<1> DEFINE t == scope[l][x].type
<1>1. EntryTrue(l, x)
    BY DEF TableInv
<1>2. CASE t = Nothing /\ scope[l][x].kind /= "type"
    BY <1>2 DEF EntryTrue, ShapeInv, Level, Nothing
<1>3. CASE Built(t, l)
    <2>1. Built(t, l)'
        BY <1>3, BuiltStays DEF Stable
    <2> QED
        BY <2>1 DEF EntryTrue, ShapeInv, Level
<1>4. CASE scope[l][x].kind = "type" /\ Alias(t, l)
    <2>1. PICK m \in {0, l}, y \in Name :
              /\ t = Ident(m, y)
              /\ scope[m][y].kind = "type" /\ Built(scope[m][y].type, m)
        BY <1>4 DEF Alias
    <2>2. scope'[m][y] = scope[m][y] /\ Built(scope[m][y].type, m)'
        BY <2>1, AliasStays
    <2>3. Alias(t, l)'
        BY <2>1, <2>2 DEF Alias, Ident
    <2> QED
        BY <1>4, <2>3 DEF EntryTrue, ShapeInv, Level
<1> QED
    BY <1>1, <1>2, <1>3, <1>4 DEF EntryTrue

(* The symbol table stays true when the entries that a step changes, and   *)
(* those of the types being declared, are.                                 *)
LEMMA TableStays ==
    ASSUME ShapeInv, TableInv, ReadingInv, Stable, level' \in Level,
           \A l \in Level, x \in Name :
               \/ EntryTrue(l, x)'
               \/ /\ l <= level /\ l <= level' /\ ~(l = level /\ x \in current)
                  /\ scope'[l][x] = scope[l][x]
    PROVE  TableInv'
BY EntryStays DEF TableInv

(* A pointer type that is bound stays bound.                               *)
LEMMA BoundStays ==
    ASSUME DeclInv, Stable, level' \in Level, NEW n \in DOMAIN node, Bound(n),
           n \in DOMAIN node', node'[n].base = node[n].base, node[n].level <= level'
    PROVE  Bound(n)'
<1>1. /\ DOMAIN node = 1..Len(node) /\ Len(node) \in Nat
      /\ \A m \in DOMAIN node : node[m].level \in Level
    <2>1. node \in Seq(TypeNode)
        BY DEF DeclInv, ShapeInv
    <2>2. \A m \in DOMAIN node : node[m] \in TypeNode
        BY <2>1
    <2> QED
        BY <2>1, <2>2, LenProperties DEF TypeNode
<1>2. node'[n].level = node[n].level
    BY DEF Stable, NodesKept
<1>3. ASSUME NEW m \in 1..(n - 1), node[n].base = Node(m), node[m].form = "record"
      PROVE  Bound(n)'
    <2>1. m \in DOMAIN node /\ m <= n
        BY <1>1, <1>3
    <2>2. node[m].level <= node[n].level
        BY <2>1 DEF DeclInv, NodesInv
    <2>3. node[m].level <= level'
        BY <1>1, <2>1, <2>2, MaxLevelAssumption DEF Level
    <2>4. node'[m].form = "record"
        BY <1>3, <2>1, <2>3 DEF Stable, NodesKept
    <2> QED
        BY <1>3, <2>4 DEF Bound, Node
<1>4. ASSUME NEW l \in {0, node[n].level}, NEW y \in Name, node[n].base = Ident(l, y), RecordEntry(l, y)
      PROVE  Bound(n)'
    <2>1. node[n].level \in Level /\ node[n].level <= level
        BY <1>1 DEF DeclInv, NodesInv
    <2>2. l \in Level /\ l <= level /\ l <= level'
        BY <1>4, <2>1, MaxLevelAssumption DEF Level, DeclInv, ShapeInv
    <2>3. RecordEntry(l, y)'
        BY <1>4, <2>2, RecordsStay DEF DeclInv
    <2> QED
        BY <1>2, <1>4, <2>3 DEF Bound, Ident
<1> QED
    BY <1>3, <1>4 DEF Bound

-----------------------------------------------------------------------------
(* The steps.                                                              *)

(* What At returns.                                                        *)
LEMMA AtFact ==
    ASSUME ShapeInv, NEW x \in Name
    PROVE  \/ At(x) = Nothing
           \/ At(x) = Basic
           \/ \E l \in {0, level} : l \in Level /\ At(x) = Ident(l, x) /\ scope[l][x] /= Undeclared
BY MaxLevelAssumption DEF At, LocallyDeclared, ShapeInv, Level

(* The type that a tree stands for, and what is put in the table for it.   *)
LEMMA ResolvedFact ==
    ASSUME DeclInv, value /= Nothing, ResolvedType(value) /= Nothing,
           NEW r, r = ResolvedType(value)
    PROVE  /\ Kind(r) = "type"
           /\ \/ r = value /\ value \in {Array, Procedure}
              \/ \E n \in DOMAIN node : r = Node(n) /\ value = r
              \/ r = Basic
              \/ \E l \in {0, level}, x \in Name :
                    /\ l \in Level /\ r = Ident(l, x) /\ scope[l][x].kind = "type"
                    /\ Structure(r) /= Nothing
<1>1. CASE value \in {Array, Procedure}
    <2>1. value[1] /= "name" /\ value[1] /= "ident"
        BY <1>1, Tags
    <2> QED
        BY <1>1, <2>1 DEF ResolvedType, Kind
<1>2. ASSUME NEW n \in DOMAIN node, value = Node(n)
      PROVE  r = value /\ Kind(r) = "type"
    <2>1. value[1] /= "name"
        BY <1>2, Tags
    <2> QED
        BY <1>2, <2>1, NodeForm DEF ResolvedType
<1>3. ASSUME NEW x \in Name, value = QualIdent(x)
      PROVE  /\ Kind(r) = "type"
             /\ \/ r = Basic
                \/ \E l \in {0, level} : l \in Level /\ r = Ident(l, x) /\ scope[l][x].kind = "type"
                                         /\ Structure(r) /= Nothing
    <2>1. value[1] = "name" /\ value[2] = x
        BY <1>3, Tags
    <2>2. r = At(x) /\ Kind(r) = "type" /\ Structure(r) /= Nothing /\ r /= Nothing
        BY <2>1 DEF ResolvedType
    <2>3. ASSUME NEW l \in {0, level}, At(x) = Ident(l, x) PROVE scope[l][x].kind = "type"
        BY <2>2, <2>3, IdentForm
    <2> QED
        BY <2>2, <2>3, AtFact DEF DeclInv
<1> QED
    BY <1>1, <1>2, <1>3 DEF DeclInv, ReadingInv, ValueTrue

(* The entry that a type gets that is another name of a declared one.      *)
LEMMA UnaliasedFact ==
    ASSUME DeclInv, NEW l \in {0, level}, l \in Level, NEW x \in Name, scope[l][x].kind = "type",
           Structure(Ident(l, x)) /= Nothing, ~(l = level /\ x \in current)
    PROVE  \E m \in {0, level}, y \in Name :
              /\ m \in Level
              /\ Unaliased(Ident(l, x)) = Ident(m, y) /\ Structure(Ident(l, x)) = scope[m][y].type
              /\ scope[m][y].kind = "type" /\ Built(scope[m][y].type, m)
              /\ ~(m = level /\ y \in current)
<1> DEFINE t == scope[l][x].type
<1>1. /\ Structure(Ident(l, x)) = TypeOf(t)
      /\ t[1] /= "ident" => Unaliased(Ident(l, x)) = Ident(l, x) /\ TypeOf(t) = t
      /\ t[1] = "ident" => Unaliased(Ident(l, x)) = t
    BY IdentForm
<1>2. EntryTrue(l, x)
    BY DEF DeclInv, TableInv
<1>3. t /= Nothing
    BY <1>1, Tags
<1>4. CASE Built(t, l)
    BY <1>1, <1>4, BuiltForm
<1>5. CASE Alias(t, l)
    <2>1. PICK m \in {0, l}, y \in Name :
              /\ t = Ident(m, y)
              /\ scope[m][y].kind = "type" /\ Built(scope[m][y].type, m)
        BY <1>5 DEF Alias
    <2>2. Unaliased(Ident(l, x)) = Ident(m, y) /\ Structure(Ident(l, x)) = scope[m][y].type
        <3>1. Structure(Ident(l, x)) = TypeOf(Ident(m, y)) /\ TypeOf(Ident(m, y)) = scope[m][y].type
            BY <1>1, <2>1, IdentForm
        <3>2. Unaliased(Ident(l, x)) = Ident(m, y)
            BY <1>1, <2>1, Tags
        <3> QED
            BY <3>1, <3>2
    <2>3. m \in {0, level} /\ m \in Level
        BY <2>1, MaxLevelAssumption DEF Level
    <2>4. ASSUME m = level, y \in current PROVE FALSE
        <3>1. CurrentTrue(y)
            BY <2>4 DEF DeclInv, ReadingInv
        <3>2. scope[level][y].type = Nothing \/ \E form : scope[level][y].type = Incomplete(form)
            BY <3>1 DEF CurrentTrue
        <3> QED
            BY <2>1, <2>4, <3>2, BuiltForm
    <2> QED
        BY <2>1, <2>2, <2>3, <2>4
<1> QED
    BY <1>2, <1>3, <1>4, <1>5 DEF EntryTrue

(* A step that changes neither the symbol table nor the types.             *)
LEMMA Untouched ==
    ASSUME DeclInv, scope' = scope, level' = level, node' = node, current' = current,
           unresolved' = unresolved
    PROVE  Kept /\ TableInv' /\ NodesInv'
<1>1. Kept
    BY DEF Kept
<1>2. TableInv'
    BY DEF DeclInv, TableInv, EntryTrue, Built, Alias
<1>3. Pointers' = Pointers
    BY DEF Pointers
<1>4. \A n : Bound(n) <=> Bound(n)'
    BY DEF Bound, RecordEntry, RecordNode
<1>5. NodesInv'
    BY <1>3, <1>4 DEF DeclInv, NodesInv
<1> QED
    BY <1>1, <1>2, <1>5

(* A step that leaves the table and all that is read of types as they are. *)
LEMMA Unread ==
    ASSUME DeclInv, UNCHANGED <<tableVars, section, typeVars>>
    PROVE  DeclInv' /\ Kept
<1> USE DEF tableVars, typeVars
<1>1. ShapeInv'
    BY DEF DeclInv, ShapeInv
<1>2. ReadingInv'
    BY DEF DeclInv, ReadingInv, ValueTrue, CurrentTrue, HasForm
<1> QED
    BY <1>1, <1>2, Untouched DEF DeclInv

(* An error ends the translation.                                          *)
LEMMA StopStep ==
    ASSUME DeclInv, NEW result, Stop(result)
    PROVE  DeclInv' /\ Kept
BY Unread DEF Stop

(* Before and behind a declaration nothing is left of it.                  *)
LEMMA Between ==
    ASSUME DeclInv, declaring = {}
    PROVE  open = <<>> /\ value = Nothing /\ current = {}
           /\ records = Cardinality(Records(open))
BY DEF DeclInv, ReadingInv

(* The next section of a block begins.                                     *)
LEMMA SectionStep ==
    ASSUME DeclInv, TypeKeyword \/ NoTypeSection \/ TypeSection
    PROVE  DeclInv' /\ Kept
<1>1. CASE Stop("undeclared pointer base type")
    BY <1>1, StopStep
<1>2. CASE ~Stop("undeclared pointer base type")
    <2>1. /\ scope' = scope /\ level' = level /\ node' = node /\ current' = current
          /\ declaring' = declaring /\ open' = open /\ value' = value /\ records' = records
          /\ declaring = {} /\ unresolved' = {} /\ unresolved = {}
          /\ section' \in {"type", "var"}
        BY <1>2 DEF TypeKeyword, NoTypeSection, TypeSection, tableVars, typeVars, DeclInv, ReadingInv
    <2>2. open = <<>> /\ value = Nothing /\ current = {} /\ records = Cardinality(Records(open))
        BY <2>1, Between
    <2>3. ShapeInv'
        BY <2>1 DEF DeclInv, ShapeInv
    <2>4. ReadingInv'
        BY <2>1, <2>2 DEF ReadingInv, ValueTrue
    <2> QED
        BY <2>1, <2>3, <2>4, Untouched DEF DeclInv
<1> QED
    BY <1>1, <1>2

(* The identifier list of a variable declaration is read.                  *)
LEMMA VariableIdentStep ==
    ASSUME DeclInv, NEW x \in Name, VariableIdentDef(x)
    PROVE  DeclInv' /\ Kept
<1>1. CASE Reject
    BY <1>1, StopStep DEF Reject
<1>2. CASE ~Reject
    <2>1. /\ scope' = scope /\ level' = level /\ node' = node /\ current' = current
          /\ open' = open /\ value' = value /\ records' = records /\ section' = section
          /\ unresolved' = unresolved
          /\ declaring = {} /\ declaring' = {x} /\ section = "var"
        BY <1>2 DEF VariableIdentDef, tableVars
    <2>2. open = <<>> /\ value = Nothing /\ current = {} /\ records = Cardinality(Records(open))
        BY <2>1, Between
    <2>3. ShapeInv'
        BY <2>1 DEF DeclInv, ShapeInv
    <2>4. ReadingInv'
        BY <2>1, <2>2 DEF DeclInv, ReadingInv, ValueTrue
    <2> QED
        BY <2>1, <2>3, <2>4, Untouched DEF DeclInv
<1> QED
    BY <1>1, <1>2

(* A step that only reads a type, or is done with one.                     *)
LEMMA ValueStep ==
    ASSUME DeclInv, UNCHANGED <<tableVars, section, declaring, current, open, node, unresolved, records>>,
           declaring /= {},
           \/ open = <<>> /\ value = Nothing
           \/ open /= <<>>,
           ValueTrue'
    PROVE  DeclInv' /\ Kept
<1> USE DEF tableVars
<1>1. ShapeInv'
    BY DEF DeclInv, ShapeInv
<1>2. ASSUME NEW x \in current PROVE CurrentTrue(x)'
    <2>1. CurrentTrue(x)
        BY DEF DeclInv, ReadingInv
    <2> QED
        BY <2>1 DEF CurrentTrue
<1>3. ReadingInv'
    BY <1>2 DEF DeclInv, ReadingInv
<1> QED
    BY <1>1, <1>3, Untouched DEF DeclInv

(* A type is given by its name.                                            *)
LEMMA NamedStep ==
    ASSUME DeclInv, NEW x \in Name, QualidentType(x)
    PROVE  DeclInv' /\ Kept
BY ValueStep DEF QualidentType, TypeExpected, ValueTrue, QualIdent

(* A procedure type is read.                                               *)
LEMMA ProcedureTypeStep ==
    ASSUME DeclInv, NEW names, ProcedureType(names)
    PROVE  DeclInv' /\ Kept
BY ValueStep, StopStep DEF ProcedureType, TypeExpected, ValueTrue, Reject, Procedure

(* A field list of a record type ends.                                     *)
LEMMA FieldListStep ==
    ASSUME DeclInv, FieldList
    PROVE  DeclInv' /\ Kept
<1>1. CASE Reject
    BY <1>1, StopStep DEF Reject
<1>2. CASE ~Reject
    <2>1. /\ UNCHANGED <<tableVars, section, declaring, current, open, node, unresolved, records>>
          /\ open /= <<>> /\ value' = Nothing
        BY <1>2 DEF FieldList, Within
    <2>2. declaring /= {}
        BY <2>1, Between
    <2> QED
        BY <2>1, <2>2, ValueStep DEF ValueTrue, Nothing
<1> QED
    BY <1>1, <1>2

-----------------------------------------------------------------------------
(* Constructors that are begun and finished.                               *)

(* The record types being read can be counted.                             *)
LEMMA RecordsFinite ==
    ASSUME NEW o \in Seq(Constructor)
    PROVE  IsFiniteSet(Records(o)) /\ Cardinality(Records(o)) \in Nat
<1>1. DOMAIN o = 1..Len(o) /\ Len(o) \in Nat
    BY LenProperties
<1>2. IsFiniteSet(1..Len(o))
    BY <1>1, FS_Interval
<1>3. Records(o) \subseteq 1..Len(o)
    BY <1>1 DEF Records
<1>4. IsFiniteSet(Records(o))
    BY <1>2, <1>3, FS_Subset
<1> QED
    BY <1>4, FS_CardinalityType

(* What a constructor that begins does to the types being read.            *)
LEMMA BegunFact ==
    ASSUME NEW o \in Seq(Constructor), NEW c \in Constructor
    PROVE  /\ Append(o, c) \in Seq(Constructor) /\ Append(o, c) /= <<>>
           /\ o = <<>> => Append(o, c)[1] = c
           /\ o /= <<>> => Append(o, c)[1] = o[1]
           /\ Cardinality(Records(Append(o, c)))
                  = Cardinality(Records(o)) + (IF c.form = "record" THEN 1 ELSE 0)
<1> DEFINE p == Append(o, c)
           n == Len(o)
<1>1. /\ n \in Nat /\ DOMAIN o = 1..n /\ p \in Seq(Constructor) /\ Len(p) = n + 1
      /\ DOMAIN p = 1..(n + 1) /\ p[n + 1] = c /\ \A i \in 1..n : p[i] = o[i]
    BY LenProperties, AppendProperties
<1>2. p /= <<>> /\ (o = <<>> <=> n = 0)
    BY <1>1, EmptySeq
<1>3. (o = <<>> => p[1] = c) /\ (o /= <<>> => p[1] = o[1])
    <2> HIDE DEF p, n
    <2> QED
        BY <1>1, <1>2
<1>4. n + 1 \notin Records(o)
    BY <1>1 DEF Records
<1>5. CASE c.form = "record"
    <2>1. Records(p) = Records(o) \cup {n + 1}
        <3> HIDE DEF p, n
        <3> QED
            BY <1>1, <1>5 DEF Records
    <2> QED
        <3>1. IsFiniteSet(Records(o)) /\ Cardinality(Records(o)) \in Nat
            BY RecordsFinite
        <3> HIDE DEF p, n
        <3>2. Cardinality(Records(p)) = Cardinality(Records(o)) + 1
            BY <1>4, <2>1, <3>1, FS_AddElement
        <3> QED
            BY <1>1, <1>2, <1>3, <1>5, <3>2 DEF p
<1>6. CASE c.form /= "record"
    <2>1. Records(p) = Records(o)
        <3> HIDE DEF p, n
        <3> QED
            BY <1>1, <1>6 DEF Records
    <2> QED
        BY <1>1, <1>2, <1>3, <1>6, <2>1, RecordsFinite
<1> QED
    BY <1>5, <1>6

(* What a constructor that ends does to the types being read.              *)
LEMMA FinishedFact ==
    ASSUME NEW o \in Seq(Constructor), o /= <<>>, NEW p, p = SubSeq(o, 1, Len(o) - 1)
    PROVE  /\ p \in Seq(Constructor)
           /\ o[Len(o)] \in Constructor
           /\ p /= <<>> => p[1] = o[1]
           /\ p = <<>> => Len(o) = 1
           /\ Cardinality(Records(p))
                  = Cardinality(Records(o)) - (IF o[Len(o)].form = "record" THEN 1 ELSE 0)
<1>1. PICK n \in Nat : Len(o) = n + 1 /\ Len(o) - 1 = n /\ n + 1 \in Nat
    <2>1. Len(o) \in Nat \ {0}
        BY EmptySeq, LenProperties
    <2>2. Len(o) - 1 \in Nat /\ Len(o) = (Len(o) - 1) + 1
        BY <2>1
    <2> QED
        BY <2>1, <2>2
<1>2. DOMAIN o = 1..(n + 1) /\ \A i \in 1..(n + 1) : o[i] \in Constructor
    BY <1>1, LenProperties
<1>3. p = SubSeq(o, 1, n)
    BY <1>1
<1>4. p \in Seq(Constructor) /\ Len(p) = n /\ \A i \in 1..n : p[i] = o[i]
    <2>1. /\ Len(SubSeq(o, 1, n)) = n
          /\ \A i \in 1..n : SubSeq(o, 1, n)[i] = o[1 + i - 1]
          /\ SubSeq(o, 1, n) \in Seq(Constructor)
        <3>1. n - 1 + 1 = n /\ (IF 1 <= n THEN n - 1 + 1 ELSE 0) = n /\ \A i \in 1..n : i \in 1..(n + 1)
            OBVIOUS
        <3> QED
            BY <1>1, <1>2, <3>1, SubSeqProperties
    <2>2. \A i \in 1..n : 1 + i - 1 = i
        OBVIOUS
    <2> QED
        BY <1>3, <2>1, <2>2
<1>5. DOMAIN p = 1..n /\ (p = <<>> <=> n = 0)
    BY <1>4, LenProperties, EmptySeq
<1>6. p /= <<>> => p[1] = o[1]
    BY <1>4, <1>5
<1>7. o[n + 1] \in Constructor
    BY <1>2
<1>8. CASE o[n + 1].form = "record"
    <2>1. Records(p) = Records(o) \ {n + 1} /\ n + 1 \in Records(o)
        BY <1>2, <1>4, <1>5, <1>8 DEF Records
    <2>2. Cardinality(Records(p)) = Cardinality(Records(o)) - 1
        BY <2>1, RecordsFinite, FS_RemoveElement
    <2> QED
        BY <1>1, <1>4, <1>5, <1>6, <1>7, <1>8, <2>2
<1>9. CASE o[n + 1].form /= "record"
    <2>1. Records(p) = Records(o)
        BY <1>2, <1>4, <1>5, <1>9 DEF Records
    <2> QED
        BY <1>1, <1>4, <1>5, <1>6, <1>7, <1>9, <2>1, RecordsFinite
<1> QED
    BY <1>8, <1>9

(* The forms and base types that constructors have.                        *)
LEMMA Constructors ==
    ASSUME DeclInv
    PROVE  /\ open \in Seq(Constructor) /\ node \in Seq(TypeNode)
           /\ DOMAIN node = 1..Len(node) /\ Len(node) \in Nat
           /\ \A n \in 1..Len(node) : node[n] \in TypeNode
           /\ \A x \in Name : scope[level][x] \in [kind : EntryKind, type : Tree]
           /\ level \in Level /\ declaring \subseteq Name /\ current \subseteq Name
           /\ \A x \in current : level \in Level /\ x \in Name
<1>1. open \in Seq(Constructor) /\ node \in Seq(TypeNode) /\ level \in Level
      /\ scope \in [Level -> [Name -> [kind : EntryKind, type : Tree]]]
      /\ declaring \subseteq Name /\ current \subseteq Name
    BY DEF DeclInv, ShapeInv
<1>2. \A n \in 1..Len(node) : node[n] \in TypeNode
    BY <1>1, LenProperties
<1> QED
    BY <1>1, <1>2, LenProperties

(* The type being declared, behind a constructor of it.                    *)
LEMMA ReducedCurrent ==
    ASSUME DeclInv, NEW form \in TypeForm, Within(form), NEW v, v \notin {Nothing},
           value' = v, open' = SubSeq(open, 1, Len(open) - 1),
           scope' = scope, level' = level, HasForm(v, form)',
           NEW x \in current
    PROVE  CurrentTrue(x)'
<1>1. CurrentTrue(x)
    BY DEF DeclInv, ReadingInv
<1>2. open /= <<>> /\ open[Len(open)].form = form
    BY DEF Within
<1>3. (open' /= <<>> => open'[1] = open[1]) /\ (open' = <<>> => Len(open) = 1)
    BY <1>2, Constructors, FinishedFact
<1>4. scope'[level'][x].kind = "type" /\ scope'[level'][x].type = Incomplete(open[1].form)
    BY <1>1, <1>2 DEF CurrentTrue
<1>5. CASE open' /= <<>>
    <2>1. open'[1].form = open[1].form
        BY <1>3, <1>5
    <2> QED
        BY <1>4, <1>5, <2>1 DEF CurrentTrue, Incomplete
<1>6. CASE open' = <<>>
    <2>1. open[1].form = form
        BY <1>2, <1>3, <1>6
    <2>2. scope'[level'][x].type = Incomplete(form) /\ HasForm(value, form)'
        BY <1>4, <2>1
    <2>3. value' /= Nothing /\ Nothing' = Nothing
        BY DEF Nothing
    <2> QED
        BY <1>4, <1>6, <2>2, <2>3 DEF CurrentTrue, Incomplete
<1> QED
    BY <1>5, <1>6

(* An array type is complete.                                              *)
LEMMA ArrayTypeStep ==
    ASSUME DeclInv, ArrayType
    PROVE  DeclInv' /\ Kept
<1>1. CASE Reject
    BY <1>1, StopStep DEF Reject
<1>2. CASE ~Reject
    <2>1. /\ UNCHANGED <<tableVars, section, declaring, current, node, unresolved, records>>
          /\ value' = Array /\ open' = SubSeq(open, 1, Len(open) - 1)
          /\ Within("array")
        BY <1>2 DEF ArrayType, Reduce
    <2>2. open /= <<>> /\ open[Len(open)].form = "array"
        BY <2>1 DEF Within
    <2>3. declaring /= {}
        BY <2>2, Between
    <2>4. /\ open' \in Seq(Constructor)
          /\ Cardinality(Records(open')) = Cardinality(Records(open)) - 0
        BY <2>1, <2>2, Constructors, FinishedFact
    <2>5. Cardinality(Records(open')) = Cardinality(Records(open))
        BY <2>4, Constructors, RecordsFinite
    <2>6. ASSUME NEW x \in current PROVE CurrentTrue(x)'
        <3>1. HasForm(Array, "array")'
            BY DEF HasForm, Array
        <3> QED
            BY <2>1, <3>1, ReducedCurrent, Apart DEF tableVars, TypeForm
    <2>7. ShapeInv'
        BY <2>1, <2>4 DEF DeclInv, ShapeInv, tableVars
    <2>8. ValueTrue'
        BY <2>1 DEF ValueTrue, Array
    <2>9. ReadingInv'
        BY <2>1, <2>3, <2>5, <2>6, <2>8 DEF DeclInv, ReadingInv, tableVars, Records
    <2> QED
        BY <2>1, <2>7, <2>9, Untouched DEF DeclInv, tableVars
<1> QED
    BY <1>1, <1>2

(* The type being declared has no structure yet.                           *)
LEMMA CurrentEntry ==
    ASSUME DeclInv, NEW x \in current
    PROVE  /\ x \in Name /\ scope[level][x].kind = "type"
           /\ scope[level][x].type = Nothing \/ \E form \in TypeForm : scope[level][x].type = Incomplete(form)
           /\ RecordEntry(level, x) => scope[level][x].type = Incomplete("record")
<1>1. CurrentTrue(x) /\ x \in Name
    BY DEF DeclInv, ReadingInv, ShapeInv
<1>2. open \in Seq(Constructor)
    BY Constructors
<1>3. open /= <<>> => open[1].form \in TypeForm
    <2>1. ASSUME open /= <<>> PROVE open[1] \in Constructor
        <3>1. 1 \in 1..Len(open)
            BY <1>2, <2>1, EmptySeq, LenProperties
        <3> QED
            BY <1>2, <3>1, ElementOfSeq
    <2> QED
        BY <2>1 DEF Constructor
<1>4. scope[level][x].type = Nothing \/ \E form \in TypeForm : scope[level][x].type = Incomplete(form)
    BY <1>1, <1>3 DEF CurrentTrue
<1>5. RecordEntry(level, x) => scope[level][x].type = Incomplete("record")
    BY <1>4, Apart DEF RecordEntry, RecordNode
<1> QED
    BY <1>1, <1>4, <1>5 DEF CurrentTrue

(* What is true of the types stays true where neither they nor the table change.*)
LEMMA NodesSame ==
    ASSUME DeclInv, Stable, level' = level, node' = node, unresolved' = unresolved
    PROVE  NodesInv'
<1>1. level' \in Level
    BY DEF DeclInv, ShapeInv
<1>2. Pointers' = Pointers
    BY DEF Pointers
<1>3. ASSUME NEW n \in Pointers \ unresolved PROVE Bound(n)'
    <2>1. n \in DOMAIN node /\ Bound(n) /\ node[n].level <= level
        BY <1>3 DEF DeclInv, NodesInv, Pointers
    <2> QED
        BY <1>1, <2>1, BoundStays
<1> QED
    BY <1>2, <1>3 DEF DeclInv, NodesInv

(* A type constructor begins, of any form.                                 *)
LEMMA BeginStep ==
    ASSUME DeclInv, NEW form \in TypeForm, NEW base \in {Nothing} \union Idents,
           TypeExpected, Begin(form, base),
           records' = records + (IF form = "record" THEN 1 ELSE 0)
    PROVE  DeclInv' /\ Kept
<1> DEFINE c == [form |-> form, base |-> base]
           Begun(x) == x \in current /\ scope[level][x].type = Nothing
<1>1. /\ open' = Append(open, c) /\ value' = value /\ value = Nothing
      /\ level' = level /\ section' = section /\ declaring' = declaring /\ current' = current
      /\ node' = node /\ unresolved' = unresolved /\ declaring /= {}
    BY DEF Begin, TypeExpected
<1>2. /\ c \in Constructor /\ open \in Seq(Constructor) /\ level \in Level
      /\ scope \in [Level -> [Name -> [kind : EntryKind, type : Tree]]]
    BY DEF Constructor, DeclInv, ShapeInv
<1>3. /\ open' \in Seq(Constructor) /\ open' /= <<>>
      /\ open = <<>> => open'[1].form = form
      /\ open /= <<>> => open'[1].form = open[1].form
      /\ Cardinality(Records(open')) = Cardinality(Records(open)) + (IF form = "record" THEN 1 ELSE 0)
    <2>1. /\ open' \in Seq(Constructor) /\ open' /= <<>>
          /\ open = <<>> => open'[1] = c
          /\ open /= <<>> => open'[1] = open[1]
          /\ Cardinality(Records(open')) = Cardinality(Records(open)) + (IF c.form = "record" THEN 1 ELSE 0)
        BY <1>1, <1>2, BegunFact
    <2> QED
        BY <2>1
<1>4. scope' = [scope EXCEPT ![level] = [x \in Name |->
          IF Begun(x) THEN [kind |-> "type", type |-> Incomplete(form)] ELSE scope[level][x]]]
    BY DEF Begin
<1>5. /\ \A l \in Level, x \in Name : ~(l = level /\ Begun(x)) => scope'[l][x] = scope[l][x]
      /\ \A x \in Name : Begun(x) => scope'[level][x] = [kind |-> "type", type |-> Incomplete(form)]
    BY <1>2, <1>4
<1>6. scope' \in [Level -> [Name -> [kind : EntryKind, type : Tree]]]
    <2>1. [kind |-> "type", type |-> Incomplete(form)] \in [kind : EntryKind, type : Tree]
        BY DEF EntryKind, Tree
    <2> HIDE DEF Begun
    <2> QED
        BY <1>2, <1>4, <2>1
<1>7. Stable
    <2>1. Kept
        BY <1>1, <1>5 DEF Kept
    <2>2. NodesKept
        BY <1>1 DEF NodesKept
    <2>3. ASSUME NEW x \in current, RecordEntry(level, x) PROVE RecordEntry(level, x)'
        <3>1. /\ x \in Name /\ scope[level][x].kind = "type"
              /\ scope[level][x].type = Incomplete("record")
            BY <2>3, CurrentEntry
        <3>2. ~Begun(x)
            BY <3>1, Apart
        <3>3. scope'[level'][x] = scope[level][x]
            BY <1>1, <1>2, <1>5, <3>1, <3>2
        <3> QED
            BY <3>1, <3>3 DEF RecordEntry, Incomplete
    <2> QED
        BY <1>1, <2>1, <2>2, <2>3 DEF Stable, CurrentKept
<1>8. TableInv'
    <2>1. ASSUME NEW l \in Level, l = level, NEW x \in current PROVE EntryTrue(l, x)'
        <3>1. x \in Name
            BY <2>1, CurrentEntry
        <3>2. ASSUME Begun(x) PROVE \E f \in TypeForm : scope'[level][x].type = Incomplete(f)
            <4>1. scope'[level][x] = [kind |-> "type", type |-> Incomplete(form)]
                BY <1>5, <3>1, <3>2
            <4> QED
                BY <4>1
        <3>3. ASSUME ~Begun(x) PROVE \E f \in TypeForm : scope'[level][x].type = Incomplete(f)
            <4>1. scope[level][x].type /= Nothing
                BY <2>1, <3>3
            <4>2. scope'[level][x] = scope[level][x]
                BY <1>2, <1>5, <3>1, <3>3
            <4> QED
                BY <2>1, <4>1, <4>2, CurrentEntry
        <3>4. \E f \in TypeForm : scope'[level][x].type = Incomplete(f)
            BY <3>2, <3>3
        <3> QED
            BY <1>1, <1>2, <2>1, <3>4, MaxLevelAssumption DEF EntryTrue, Incomplete, Level
    <2>2. ASSUME NEW l \in Level, NEW x \in Name
          PROVE  \/ EntryTrue(l, x)'
                 \/ /\ l <= level /\ l <= level' /\ ~(l = level /\ x \in current)
                    /\ scope'[l][x] = scope[l][x]
        <3>1. CASE l = level /\ x \in current
            BY <2>1, <3>1
        <3>2. CASE ~(l = level /\ x \in current) /\ l <= level
            BY <1>1, <1>5, <3>2
        <3>3. CASE l > level
            <4>1. EntryTrue(l, x)
                BY DEF DeclInv, TableInv
            <4>2. scope'[l][x] = Undeclared
                BY <1>2, <1>5, <3>3, <4>1, MaxLevelAssumption DEF EntryTrue, Level
            <4> QED
                BY <4>2 DEF EntryTrue, Undeclared, Nothing
        <3> QED
            BY <1>2, <3>1, <3>2, <3>3, MaxLevelAssumption DEF Level
    <2> QED
        BY <1>1, <1>2, <1>7, <2>2, TableStays DEF DeclInv
<1>9. ShapeInv'
    BY <1>1, <1>3, <1>6 DEF DeclInv, ShapeInv
<1>10. ASSUME NEW x \in current PROVE CurrentTrue(x)'
    <2>1. CurrentTrue(x) /\ x \in Name
        BY CurrentEntry DEF DeclInv, ReadingInv
    <2>2. CASE open = <<>>
        <3>1. scope[level][x].type = Nothing
            BY <1>1, <2>1, <2>2 DEF CurrentTrue
        <3>2. scope'[level'][x] = [kind |-> "type", type |-> Incomplete(form)]
            BY <1>1, <1>5, <2>1, <3>1
        <3> QED
            BY <1>3, <2>2, <3>2 DEF CurrentTrue, Incomplete
    <2>3. CASE open /= <<>>
        <3>1. scope[level][x].type = Incomplete(open[1].form) /\ scope[level][x].kind = "type"
            BY <2>1, <2>3 DEF CurrentTrue
        <3>2. scope'[level'][x] = scope[level][x]
            BY <1>1, <1>2, <1>5, <2>1, <3>1, Apart
        <3>3. scope'[level'][x].type = Incomplete(open'[1].form) /\ scope'[level'][x].kind = "type"
            BY <1>3, <2>3, <3>1, <3>2
        <3> QED
            BY <1>3, <3>3 DEF CurrentTrue, Incomplete
    <2> QED
        BY <2>2, <2>3
<1>11. ReadingInv'
    <2>1. records = Cardinality(Records(open))
        BY DEF DeclInv, ReadingInv
    <2>2. records' = Cardinality(Records(open'))
        BY <1>3, <2>1
    <2>3. ValueTrue'
        BY <1>1 DEF ValueTrue, Nothing
    <2> QED
        BY <1>1, <1>10, <2>2, <2>3 DEF DeclInv, ReadingInv, Records
<1> QED
    BY <1>1, <1>7, <1>8, <1>9, <1>11, NodesSame DEF DeclInv, Stable

(* An array or a pointer type begins.                                      *)
LEMMA ConstructorStep ==
    ASSUME DeclInv, ArrayLengthOf \/ PointerTo
    PROVE  DeclInv' /\ Kept
<1>1. PICK form \in {"array", "pointer"} : TypeExpected /\ Begin(form, Nothing) /\ records' = records
    BY DEF ArrayLengthOf, PointerTo
<1>2. records \in Nat
    BY Constructors, RecordsFinite DEF DeclInv, ReadingInv
<1>3. records' = records + (IF form = "record" THEN 1 ELSE 0)
    BY <1>1, <1>2
<1> QED
    BY <1>1, <1>3, BeginStep DEF TypeForm

(* A record type begins.                                                   *)
LEMMA RecordHeadingStep ==
    ASSUME DeclInv, NEW base, base = Nothing \/ \E x \in Name : base = QualIdent(x), RecordHeading(base)
    PROVE  DeclInv' /\ Kept
<1>1. CASE Reject \/ Stop("assertion failed")
    BY <1>1, StopStep DEF Reject
<1>2. CASE Begin("record", Nothing) /\ records' = records + 1
    <2>1. records' = records + (IF "record" = "record" THEN 1 ELSE 0)
        BY <1>2
    <2> QED
        BY <1>2, <2>1, BeginStep DEF RecordHeading, TypeForm
<1>3. ASSUME base /= Nothing, NEW r, r = At(IdentName(base)), r /= Nothing, Form(r) \in {"record", "pointer"},
             Begin("record", r), records' = records + 1
      PROVE  DeclInv' /\ Kept
    <2>1. PICK x \in Name : base = QualIdent(x)
        BY <1>3
    <2>2. r = At(x)
        BY <1>3, <2>1, Tags
    <2>3. r /= Basic
        <3>1. Structure(Basic) = Basic
            BY Tags DEF Structure, TypeOf
        <3>2. Form(Basic) = "basic"
            BY <3>1, StructureForm
        <3> QED
            BY <1>3, <3>2
    <2>4. r \in Idents
        BY <1>3, <2>2, <2>3, AtFact DEF DeclInv, Idents
    <2>5. records' = records + (IF "record" = "record" THEN 1 ELSE 0)
        BY <1>3
    <2>6. TypeExpected
        BY DEF RecordHeading
    <2> QED
        BY <1>3, <2>4, <2>5, <2>6, BeginStep DEF TypeForm
<1>4. CASE base = Nothing
    BY <1>2, <1>4 DEF RecordHeading
<1>5. CASE base /= Nothing
    <2> DEFINE r == At(IdentName(base))
    <2>1. CASE r = Nothing
        BY <1>1, <1>5, <2>1 DEF RecordHeading
    <2>2. CASE r /= Nothing
        <3>1. \/ Reject
              \/ Stop("assertion failed")
              \/ Form(r) \in {"record", "pointer"} /\ Begin("record", r) /\ records' = records + 1
            BY <1>5, <2>2 DEF RecordHeading
        <3> HIDE DEF r
        <3> QED
            BY <1>1, <1>3, <1>5, <2>2, <3>1 DEF r
    <2> QED
        BY <2>1, <2>2
<1> QED
    BY <1>4, <1>5

-----------------------------------------------------------------------------
(* Declarations of names.                                                  *)

(* No entry is changed, where no type is being declared.                   *)
LEMMA PutStep ==
    ASSUME DeclInv, current = {}, NEW x \in Name, NEW kind \in EntryKind, ~LocallyDeclared(x),
           Put(x, kind, Nothing), level' = level, node' = node, unresolved' = unresolved,
           kind = "type" => x \in current'
    PROVE  /\ Kept /\ TableInv' /\ NodesInv'
           /\ scope' \in [Level -> [Name -> [kind : EntryKind, type : Tree]]]
           /\ scope'[level][x] = [kind |-> kind, type |-> Nothing]
<1>1. /\ level \in Level /\ scope \in [Level -> [Name -> [kind : EntryKind, type : Tree]]]
      /\ scope[level][x] = Undeclared
    BY DEF DeclInv, ShapeInv, LocallyDeclared
<1>2. scope' = [scope EXCEPT ![level][x] = [kind |-> kind, type |-> Nothing]]
    BY DEF Put
<1>3. [kind |-> kind, type |-> Nothing] \in [kind : EntryKind, type : Tree]
    BY DEF Tree
<1>4. /\ scope' \in [Level -> [Name -> [kind : EntryKind, type : Tree]]]
      /\ scope'[level][x] = [kind |-> kind, type |-> Nothing]
      /\ \A l \in Level, y \in Name : ~(l = level /\ y = x) => scope'[l][y] = scope[l][y]
    BY <1>1, <1>2, <1>3
<1>5. Stable
    <2>1. Kept
        BY <1>1, <1>4 DEF Kept
    <2> QED
        BY <2>1 DEF Stable, NodesKept, CurrentKept
<1>6. TableInv'
    <2>1. ASSUME NEW l \in Level, NEW y \in Name
          PROVE  \/ EntryTrue(l, y)'
                 \/ /\ l <= level /\ l <= level' /\ ~(l = level /\ y \in current)
                    /\ scope'[l][y] = scope[l][y]
        <3>1. CASE l = level /\ y = x
            <4>1. scope'[l][y] = [kind |-> kind, type |-> Nothing]
                BY <1>4, <3>1
            <4> QED
                BY <1>1, <3>1, <4>1, MaxLevelAssumption DEF EntryTrue, Nothing, Level
        <3>2. CASE ~(l = level /\ y = x) /\ l <= level
            BY <1>4, <3>2
        <3>3. CASE l > level
            <4>1. EntryTrue(l, y)
                BY DEF DeclInv, TableInv
            <4>2. scope'[l][y] = Undeclared
                BY <1>1, <1>4, <3>3, <4>1, MaxLevelAssumption DEF EntryTrue, Level
            <4> QED
                BY <4>2 DEF EntryTrue, Undeclared, Nothing
        <3> QED
            BY <1>1, <3>1, <3>2, <3>3, MaxLevelAssumption DEF Level
    <2> QED
        BY <1>1, <1>5, <2>1, TableStays DEF DeclInv
<1> QED
    BY <1>4, <1>5, <1>6, NodesSame DEF Stable

(* Field names are read in a record type only.                             *)
LEMMA RecordsNone ==
    ASSUME DeclInv, open = <<>>
    PROVE  records = 0
<1>1. Records(<<>>) = {}
    BY DEF Records
<1> QED
    BY <1>1, FS_EmptySet DEF DeclInv, ReadingInv

(* A constant is declared.                                                 *)
LEMMA ConstStep ==
    ASSUME DeclInv, NEW x \in Name, ConstDeclaration(x)
    PROVE  DeclInv' /\ Kept
<1>1. CASE Reject
    BY <1>1, StopStep DEF Reject
<1>2. CASE ~Reject
    <2>1. /\ section = "const" /\ section' = section /\ Put(x, "constant", Nothing) /\ ~Redeclared(x)
          /\ level' = level /\ UNCHANGED typeVars
        BY <1>2 DEF ConstDeclaration
    <2>2. current = {} /\ declaring = {}
        BY <2>1 DEF DeclInv, ReadingInv
    <2>3. open = <<>> /\ value = Nothing /\ records = Cardinality(Records(open)) /\ records = 0
        BY <2>2, Between, RecordsNone
    <2>4. ~LocallyDeclared(x)
        BY <2>1, <2>3 DEF Redeclared
    <2>5. /\ Kept /\ TableInv' /\ NodesInv'
          /\ scope' \in [Level -> [Name -> [kind : EntryKind, type : Tree]]]
        BY <2>1, <2>2, <2>4, PutStep DEF typeVars, EntryKind
    <2>6. ShapeInv'
        BY <2>1, <2>5 DEF DeclInv, ShapeInv, typeVars
    <2>7. ReadingInv'
        BY <2>1, <2>2, <2>3 DEF DeclInv, ReadingInv, ValueTrue, typeVars
    <2> QED
        BY <2>5, <2>6, <2>7 DEF DeclInv
<1> QED
    BY <1>1, <1>2

(* The name of a type declaration is read.                                 *)
LEMMA TypeIdentStep ==
    ASSUME DeclInv, NEW x \in Name, TypeIdentDef(x)
    PROVE  DeclInv' /\ Kept
<1>1. CASE Reject
    BY <1>1, StopStep DEF Reject
<1>2. CASE ~Reject
    <2>1. /\ section = "type" /\ declaring = {} /\ ~Redeclared(x)
          /\ declaring' = {x} /\ current' = {x} /\ Put(x, "type", Nothing)
          /\ UNCHANGED <<level, section, open, value, node, unresolved, records>>
        BY <1>2 DEF TypeIdentDef
    <2>2. open = <<>> /\ value = Nothing /\ current = {} /\ records = Cardinality(Records(open)) /\ records = 0
        BY <2>1, Between, RecordsNone
    <2>3. ~LocallyDeclared(x)
        BY <2>1, <2>2 DEF Redeclared
    <2>4. /\ Kept /\ TableInv' /\ NodesInv'
          /\ scope' \in [Level -> [Name -> [kind : EntryKind, type : Tree]]]
          /\ scope'[level][x] = [kind |-> "type", type |-> Nothing]
        BY <2>1, <2>2, <2>3, PutStep DEF EntryKind
    <2>5. ShapeInv'
        BY <2>1, <2>4 DEF DeclInv, ShapeInv
    <2>6. CurrentTrue(x)'
        BY <2>1, <2>2, <2>4 DEF CurrentTrue, Nothing
    <2>7. ReadingInv'
        BY <2>1, <2>2, <2>6 DEF DeclInv, ReadingInv, ValueTrue
    <2> QED
        BY <2>4, <2>5, <2>7 DEF DeclInv
<1> QED
    BY <1>1, <1>2

(* A variable is declared.                                                 *)
LEMMA VariableStep ==
    ASSUME DeclInv, VariableDeclaration
    PROVE  DeclInv' /\ Kept
<1>1. CASE Reject
    BY <1>1, StopStep DEF Reject
<1>2. CASE ~Reject
    <2>1. /\ section = "var" /\ open = <<>> /\ value /= Nothing
          /\ declaring' = {} /\ value' = Nothing
          /\ UNCHANGED <<level, section, current, open, node, unresolved, records>>
          /\ \E x \in declaring : ~LocallyDeclared(x) /\ Put(x, "variable", Nothing)
        BY <1>2 DEF VariableDeclaration
    <2>2. PICK x \in declaring : ~LocallyDeclared(x) /\ Put(x, "variable", Nothing)
        BY <2>1
    <2>3. x \in Name /\ current = {}
        BY <2>1, <2>2 DEF DeclInv, ShapeInv, ReadingInv
    <2>4. /\ Kept /\ TableInv' /\ NodesInv'
          /\ scope' \in [Level -> [Name -> [kind : EntryKind, type : Tree]]]
        BY <2>1, <2>2, <2>3, PutStep DEF EntryKind
    <2>5. ShapeInv'
        BY <2>1, <2>4 DEF DeclInv, ShapeInv
    <2>6. ReadingInv'
        BY <2>1, <2>3 DEF DeclInv, ReadingInv, ValueTrue, Nothing
    <2> QED
        BY <2>4, <2>5, <2>6 DEF DeclInv
<1> QED
    BY <1>1, <1>2

-----------------------------------------------------------------------------
(* New record and pointer types.                                           *)
RecordBase(base) ==
    \/ \E m \in DOMAIN node : base = Node(m) /\ node[m].form = "record"
    \/ \E l \in {0, level}, y \in Name : base = Ident(l, y) /\ RecordEntry(l, y)

(* A record or pointer type is complete, and is the newest one.            *)
LEMMA NewNodeStep ==
    ASSUME DeclInv, NEW form \in {"record", "pointer"}, NEW base \in Tree, Within(form),
           node' = NewNode(form, base), Reduce(Node(Len(node) + 1)),
           UNCHANGED <<tableVars, section, declaring, current>>,
           records' = records - (IF form = "record" THEN 1 ELSE 0),
           \A m \in Nat : base = Node(m) => m \in DOMAIN node,
           \/ unresolved' = unresolved /\ (form = "pointer" => RecordBase(base))
           \/ unresolved' = unresolved \union {Len(node) + 1} /\ form = "pointer" /\ section = "type"
    PROVE  DeclInv' /\ Kept
<1>1. /\ node \in Seq(TypeNode) /\ DOMAIN node = 1..Len(node) /\ Len(node) \in Nat
      /\ open \in Seq(Constructor) /\ level \in Level
    BY Constructors
<1>2. PICK k \in Nat \ {0} : k = Len(node) + 1 /\ k - 1 = Len(node)
    BY <1>1
<1> DEFINE c == [form |-> form, base |-> base, level |-> level]
<1>3. /\ scope' = scope /\ level' = level /\ section' = section /\ declaring' = declaring
      /\ current' = current /\ value' = Node(k) /\ open' = SubSeq(open, 1, Len(open) - 1)
      /\ node' = Append(node, c)
    BY <1>2 DEF tableVars, Reduce, NewNode
<1>4. c \in TypeNode
    BY <1>1 DEF TypeNode
<1>5. /\ node' \in Seq(TypeNode) /\ Len(node') = k /\ DOMAIN node' = 1..k /\ DOMAIN node = 1..(k - 1)
      /\ node'[k] = c /\ \A i \in 1..(k - 1) : node'[i] = node[i]
    <2>1. Append(node, c) \in Seq(TypeNode) /\ Len(Append(node, c)) = Len(node) + 1
          /\ Append(node, c)[Len(node) + 1] = c
          /\ \A i \in 1..Len(node) : Append(node, c)[i] = node[i]
        BY <1>1, <1>4, AppendProperties
    <2> HIDE DEF c
    <2> QED
        BY <1>1, <1>2, <1>3, <2>1, LenProperties
<1>6. Stable
    <2>1. NodesKept
        BY <1>5 DEF NodesKept
    <2>2. ASSUME NEW x \in current, RecordEntry(level, x) PROVE RecordEntry(level, x)'
        BY <1>3, <2>2, CurrentEntry DEF RecordEntry, Incomplete
    <2> QED
        BY <1>3, <2>1, <2>2 DEF Stable, Kept, CurrentKept
<1>7. TableInv'
    <2>1. ASSUME NEW l \in Level, NEW x \in Name
          PROVE  \/ EntryTrue(l, x)'
                 \/ /\ l <= level /\ l <= level' /\ ~(l = level /\ x \in current)
                    /\ scope'[l][x] = scope[l][x]
        <3>1. CASE l = level /\ x \in current
            <4>1. scope[l][x].type = Nothing \/ \E f \in TypeForm : scope[l][x].type = Incomplete(f)
                BY <3>1, CurrentEntry
            <4> QED
                BY <1>1, <1>3, <3>1, <4>1, MaxLevelAssumption DEF EntryTrue, Incomplete, Nothing, Level
        <3>2. CASE ~(l = level /\ x \in current) /\ l <= level
            BY <1>3, <3>2
        <3>3. CASE l > level
            <4>1. EntryTrue(l, x)
                BY DEF DeclInv, TableInv
            <4>2. scope'[l][x] = Undeclared
                BY <1>3, <3>3, <4>1 DEF EntryTrue
            <4> QED
                BY <4>2 DEF EntryTrue, Undeclared, Nothing
        <3> QED
            BY <1>1, <3>1, <3>2, <3>3, MaxLevelAssumption DEF Level
    <2> QED
        BY <1>1, <1>3, <1>6, <2>1, TableStays DEF DeclInv
<1>8. unresolved \subseteq 1..(k - 1) /\ unresolved' \subseteq unresolved \union {k} /\ unresolved \subseteq unresolved'
      /\ (k \in unresolved' => form = "pointer" /\ section = "type")
      /\ (k \notin unresolved' /\ form = "pointer" => RecordBase(base))
    <2>1. unresolved \subseteq 1..(k - 1)
        BY <1>5 DEF DeclInv, ShapeInv
    <2>2. k \notin 1..(k - 1)
        OBVIOUS
    <2> QED
        BY <1>2, <2>1, <2>2
<1>9. ShapeInv'
    <2>1. open \in Seq(Constructor) /\ open /= <<>>
        BY <1>1 DEF Within
    <2>2. open' \in Seq(Constructor)
        BY <1>3, <2>1, FinishedFact
    <2>3. unresolved' \in SUBSET DOMAIN node'
        BY <1>5, <1>8
    <2> QED
        BY <1>3, <1>5, <2>2, <2>3 DEF DeclInv, ShapeInv
<1>10. ReadingInv'
    <2>1. open /= <<>> /\ open[Len(open)].form = form
        BY DEF Within
    <2>2. declaring /= {}
        BY <2>1, Between
    <2>3. Cardinality(Records(open')) = Cardinality(Records(open)) - (IF form = "record" THEN 1 ELSE 0)
        BY <1>1, <1>3, <2>1, FinishedFact
    <2>4. records' = Cardinality(Records(open'))
        BY <2>3 DEF DeclInv, ReadingInv
    <2>5. ValueTrue'
        <3>1. k \in DOMAIN node'
            BY <1>5
        <3> QED
            BY <1>3, <3>1 DEF ValueTrue, Node
    <2>6. ASSUME NEW x \in current PROVE CurrentTrue(x)'
        <3>1. node'[k].form = form /\ k \in DOMAIN node'
            BY <1>5
        <3>2. HasForm(Node(k), form)'
            BY <3>1 DEF HasForm, Node
        <3>3. PICK v : v = Node(k)
            OBVIOUS
        <3>4. HasForm(v, form)' /\ v \notin {Nothing} /\ value' = v
            BY <1>3, <3>2, <3>3, Apart DEF Node
        <3>5. form \in TypeForm
            BY DEF TypeForm
        <3> QED
            BY <1>3, <3>4, <3>5, ReducedCurrent
    <2>7. section /= "type" => unresolved' = {}
        BY <1>8 DEF DeclInv, ReadingInv
    <2> QED
        BY <1>3, <2>2, <2>4, <2>5, <2>6, <2>7 DEF DeclInv, ReadingInv, Records
<1>11. \A n \in DOMAIN node' : node'[n].level <= level'
    <2>1. ASSUME NEW n \in 1..k PROVE node'[n].level <= level
        <3>1. CASE n = k
            BY <1>1, <1>5, <3>1, MaxLevelAssumption DEF Level
        <3>2. CASE n \in 1..(k - 1)
            BY <1>5, <3>2 DEF DeclInv, NodesInv
        <3> QED
            BY <3>1, <3>2
    <2> QED
        BY <1>3, <1>5, <2>1
<1>12. \A m, n \in DOMAIN node' : m <= n => node'[m].level <= node'[n].level
    <2>1. ASSUME NEW m \in 1..k, NEW n \in 1..k, m <= n PROVE node'[m].level <= node'[n].level
        <3>1. CASE n = k
            BY <1>3, <1>5, <1>11, <3>1
        <3>2. CASE n \in 1..(k - 1)
            <4>1. m \in 1..(k - 1)
                BY <2>1, <3>2
            <4> QED
                BY <1>5, <2>1, <3>2, <4>1 DEF DeclInv, NodesInv
        <3> QED
            BY <3>1, <3>2
    <2> QED
        BY <1>5, <2>1
<1>13. \A n \in DOMAIN node', m \in Nat : node'[n].base = Node(m) => m \in 1..(n - 1)
    <2>1. ASSUME NEW n \in 1..k, NEW m \in Nat, node'[n].base = Node(m) PROVE m \in 1..(n - 1)
        <3>1. CASE n = k
            BY <1>5, <2>1, <3>1
        <3>2. CASE n \in 1..(k - 1)
            BY <1>5, <2>1, <3>2 DEF DeclInv, NodesInv
        <3> QED
            BY <3>1, <3>2
    <2> QED
        BY <1>5, <2>1 DEF Node
<1>14. \A n \in unresolved' : node'[n].form = "pointer" /\ node'[n].level = level'
    <2>1. ASSUME NEW n \in unresolved' PROVE node'[n].form = "pointer" /\ node'[n].level = level
        <3>1. CASE n = k
            BY <1>5, <1>8, <2>1, <3>1
        <3>2. CASE n \in unresolved
            BY <1>5, <1>8, <3>2 DEF DeclInv, NodesInv
        <3> QED
            BY <1>8, <2>1, <3>1, <3>2
    <2> QED
        BY <1>3, <2>1
<1>15. \A n \in Pointers' \ unresolved' : Bound(n)'
    <2>1. ASSUME NEW n \in 1..k, node'[n].form = "pointer", n \notin unresolved' PROVE Bound(n)'
        <3>1. CASE n \in 1..(k - 1)
            <4>1. n \in Pointers \ unresolved
                BY <1>5, <1>8, <2>1, <3>1 DEF Pointers
            <4>2. n \in DOMAIN node /\ Bound(n) /\ node[n].level <= level /\ n \in DOMAIN node' /\ node'[n].base = node[n].base
                BY <1>5, <2>1, <3>1, <4>1 DEF DeclInv, NodesInv
            <4> QED
                BY <1>1, <1>3, <1>6, <4>2, BoundStays
        <3>2. CASE n = k
            <4>1. node'[k].base = base /\ node'[k].level = level /\ RecordBase(base)
                BY <1>5, <1>8, <2>1, <3>2
            <4>2. ASSUME NEW m \in DOMAIN node, base = Node(m), node[m].form = "record" PROVE Bound(n)'
                <5>1. m \in 1..(n - 1) /\ node'[m].form = "record"
                    BY <1>5, <3>2, <4>2
                <5> QED
                    BY <3>2, <4>1, <4>2, <5>1 DEF Bound, Node
            <4>3. ASSUME NEW l \in {0, level}, NEW y \in Name, base = Ident(l, y), RecordEntry(l, y)
                  PROVE  Bound(n)'
                <5>1. l \in Level /\ l <= level
                    BY <1>1, <4>3, MaxLevelAssumption DEF Level
                <5>2. RecordEntry(l, y)'
                    BY <1>1, <1>3, <1>6, <4>3, <5>1, RecordsStay DEF DeclInv
                <5> QED
                    BY <3>2, <4>1, <4>3, <5>2 DEF Bound, Ident
            <4> QED
                BY <4>1, <4>2, <4>3 DEF RecordBase
        <3> QED
            BY <3>1, <3>2
    <2> QED
        BY <1>5, <2>1 DEF Pointers
<1>16. NodesInv'
    BY <1>11, <1>12, <1>13, <1>14, <1>15 DEF NodesInv
<1> QED
    BY <1>6, <1>7, <1>9, <1>10, <1>16 DEF DeclInv, Stable

(* A record type is complete.                                              *)
LEMMA RecordTypeStep ==
    ASSUME DeclInv, RecordType
    PROVE  DeclInv' /\ Kept
<1> DEFINE base == open[Len(open)].base
<1>1. /\ Within("record") /\ records' = records - 1
      /\ node' = NewNode("record", base) /\ Reduce(Node(Len(node) + 1))
      /\ UNCHANGED <<tableVars, section, declaring, current>> /\ unresolved' = unresolved
    BY DEF RecordType
<1>2. open \in Seq(Constructor) /\ open /= <<>>
    BY <1>1, Constructors DEF Within
<1>3. base \in {Nothing} \union Idents
    BY <1>2, FinishedFact DEF Constructor
<1> HIDE DEF base
<1>4. base \in Tree
    BY <1>3 DEF Tree
<1>5. \A m \in Nat : base /= Node(m)
    BY <1>3, Tags DEF Idents
<1>6. records' = records - (IF "record" = "record" THEN 1 ELSE 0)
    BY <1>1
<1> QED
    BY <1>1, <1>4, <1>5, <1>6, NewNodeStep

(* A pointer type is complete, bound or waiting for its base type.         *)
LEMMA PointerTypeStep ==
    ASSUME DeclInv, PointerType
    PROVE  DeclInv' /\ Kept
<1> DEFINE r == IF value[1] = "name" THEN At(value[2]) ELSE value
<1>1. CASE Reject \/ Stop("assertion failed")
    BY <1>1, StopStep DEF Reject
<1>2. ASSUME NEW base \in Tree, NewPointer(base),
             \A m \in Nat : base = Node(m) => m \in DOMAIN node,
             \/ unresolved' = unresolved /\ RecordBase(base)
             \/ unresolved' = unresolved \union {Len(node) + 1} /\ section = "type"
      PROVE  DeclInv' /\ Kept
    <2>1. /\ Within("pointer") /\ node' = NewNode("pointer", base) /\ Reduce(Node(Len(node) + 1))
          /\ UNCHANGED <<tableVars, section, declaring, current>> /\ records' = records
        BY <1>2 DEF PointerType, NewPointer
    <2>2. records' = records - (IF "pointer" = "record" THEN 1 ELSE 0)
        <3>1. records \in Nat
            BY Constructors, RecordsFinite DEF DeclInv, ReadingInv
        <3> QED
            BY <2>1, <3>1
    <2>3. \/ unresolved' = unresolved /\ ("pointer" = "pointer" => RecordBase(base))
          \/ unresolved' = unresolved \union {Len(node) + 1} /\ "pointer" = "pointer" /\ section = "type"
        BY <1>2
    <2> QED
        BY <1>2, <2>1, <2>2, <2>3, NewNodeStep
<1>3. ASSUME r = Nothing, current /= {}, NewPointer(Forward(value[2])),
             unresolved' = unresolved \union {Len(node) + 1}
      PROVE  DeclInv' /\ Kept
    <2>1. value /= Nothing
        BY DEF PointerType
    <2>2. value[1] = "name"
        BY <1>3, <2>1
    <2>3. PICK x \in Name : value = QualIdent(x)
        BY <2>1, <2>2, Tags DEF DeclInv, ReadingInv, ValueTrue
    <2>4. Forward(value[2]) = Forward(x) /\ Forward(x) \in Tree /\ \A m \in Nat : Forward(x) /= Node(m)
        BY <2>3, Tags DEF Tree
    <2>5. section = "type"
        BY <1>3 DEF DeclInv, ReadingInv
    <2> QED
        BY <1>2, <1>3, <2>4, <2>5
<1>4. ASSUME r /= Nothing, Kind(r) = "type", Form(r) = "record", NewPointer(r), unresolved' = unresolved
      PROVE  DeclInv' /\ Kept
    <2>1. ASSUME NEW n \in DOMAIN node, value = Node(n) PROVE DeclInv' /\ Kept
        <3>1. r = Node(n)
            BY <2>1, Tags
        <3>2. node[n].form = "record"
            BY <1>4, <3>1, NodeForm
        <3>3. RecordBase(r) /\ \A m \in Nat : r = Node(m) => m \in DOMAIN node
            BY <2>1, <3>1, <3>2, Tags DEF RecordBase
        <3>4. r \in Tree
            BY <2>1, <3>1, Constructors DEF Tree
        <3> HIDE DEF r
        <3> QED
            BY <1>2, <1>4, <3>3, <3>4
    <2>2. ASSUME NEW x \in Name, value = QualIdent(x) PROVE DeclInv' /\ Kept
        <3>1. r = At(x)
            BY <2>2, Tags
        <3>2. r /= Basic
            <4>1. Structure(Basic) = Basic
                BY Tags DEF Structure, TypeOf
            <4>2. Form(Basic) = "basic"
                BY <4>1, StructureForm
            <4> QED
                BY <1>4, <4>2
        <3>3. PICK l \in {0, level} : l \in Level /\ r = Ident(l, x)
            BY <1>4, <3>1, <3>2, AtFact DEF DeclInv
        <3>4. scope[l][x].kind = "type"
            BY <1>4, <3>3, IdentForm
        <3>5. RecordEntry(l, x)
            BY <1>4, <3>3, <3>4, RecordEntryIs DEF DeclInv
        <3>6. RecordBase(r) /\ \A m \in Nat : r /= Node(m)
            BY <3>3, <3>5, Tags DEF RecordBase
        <3>7. r \in Tree
            BY <3>3 DEF Tree, Idents
        <3> HIDE DEF r
        <3> QED
            BY <1>2, <1>4, <3>6, <3>7
    <2>3. CASE value \in {Array, Procedure}
        <3>1. r = value
            BY <2>3, Tags
        <3>2. Structure(r) = value
            BY <2>3, <3>1, Tags DEF Structure, TypeOf
        <3>3. Form(r) \in {"array", "procedure"}
            BY <2>3, <3>2, StructureForm
        <3> QED
            BY <1>4, <3>3
    <2>4. value /= Nothing
        BY DEF PointerType
    <2> QED
        BY <2>1, <2>2, <2>3, <2>4 DEF DeclInv, ReadingInv, ValueTrue
<1>5. \/ r = Nothing /\ current /= {} /\ NewPointer(Forward(value[2]))
                     /\ unresolved' = unresolved \union {Len(node) + 1}
      \/ Stop("assertion failed")
      \/ r /= Nothing /\ Kind(r) = "type" /\ Form(r) = "record" /\ NewPointer(r) /\ unresolved' = unresolved
      \/ Reject
    BY DEF PointerType
<1> HIDE DEF r
<1> QED
    BY <1>1, <1>3, <1>4, <1>5

-----------------------------------------------------------------------------
(* The end of the declaration of a type.                                   *)

(* What the name is declared to be.                                        *)
LEMMA DeclaredType ==
    ASSUME DeclInv, section = "type", open = <<>>, value /= Nothing, NEW x \in declaring,
           NEW r, r = ResolvedType(value), r /= Nothing
    PROVE  /\ \/ Built(Unaliased(r), level) /\ Structure(r) = Unaliased(r)
              \/ \E m \in {0, level}, y \in Name :
                    /\ m \in Level /\ Unaliased(r) = Ident(m, y) /\ Structure(r) = scope[m][y].type
                    /\ scope[m][y].kind = "type" /\ Built(scope[m][y].type, m)
                    /\ ~(m = level /\ y \in current)
           /\ \A n \in DOMAIN node : value = Node(n) => Unaliased(r) = Node(n)
<1>1. /\ Kind(r) = "type"
      /\ \/ r = value /\ value \in {Array, Procedure}
         \/ \E n \in DOMAIN node : r = Node(n) /\ value = r
         \/ r = Basic
         \/ \E l \in {0, level}, y \in Name :
               /\ l \in Level /\ r = Ident(l, y) /\ scope[l][y].kind = "type"
               /\ Structure(r) /= Nothing
    BY ResolvedFact
<1>2. ASSUME r \in {Basic, Array, Procedure}
      PROVE  Built(Unaliased(r), level) /\ Structure(r) = Unaliased(r)
    <2>1. Unaliased(r) = r /\ Structure(r) = r
        BY <1>2, Tags DEF Unaliased, Structure, TypeOf
    <2> QED
        BY <1>2, <2>1 DEF Built
<1>3. ASSUME NEW n \in DOMAIN node, r = Node(n)
      PROVE  Built(Unaliased(r), level) /\ Structure(r) = Unaliased(r) /\ Unaliased(r) = Node(n)
    <2>1. Unaliased(r) = Node(n) /\ Structure(r) = Node(n)
        BY <1>3, NodeForm
    <2>2. node[n].level <= level
        BY DEF DeclInv, NodesInv
    <2> QED
        BY <2>1, <2>2 DEF Built
<1>4. ASSUME NEW n \in DOMAIN node, value = Node(n) PROVE r = Node(n)
    <2>1. value[1] /= "name"
        BY <1>4, Tags
    <2> QED
        BY <1>4, <2>1 DEF ResolvedType
<1>5. ASSUME NEW l \in {0, level}, NEW y \in Name, l \in Level, r = Ident(l, y), scope[l][y].kind = "type",
             Structure(r) /= Nothing
      PROVE  \E m \in {0, level}, z \in Name :
                /\ m \in Level /\ Unaliased(r) = Ident(m, z) /\ Structure(r) = scope[m][z].type
                /\ scope[m][z].kind = "type" /\ Built(scope[m][z].type, m)
                /\ ~(m = level /\ z \in current)
    <2>1. ASSUME l = level, y \in current PROVE FALSE
        <3>1. CurrentTrue(y)
            BY <2>1 DEF DeclInv, ReadingInv
        <3>2. ASSUME NEW form \in TypeForm, HasForm(value, form) PROVE FALSE
            <4>1. value \in {Array, Procedure} \/ \E n \in DOMAIN node : value = Node(n)
                BY <3>2 DEF HasForm
            <4>2. value[1] \in {"array", "procedure", "node"}
                BY <4>1, Tags
            <4>3. r = value
                BY <4>2 DEF ResolvedType
            <4>4. r[1] = "ident"
                BY <1>5, Tags
            <4> QED
                BY <4>2, <4>3, <4>4
        <3>3. scope[level][y].type = Nothing
            BY <3>1, <3>2 DEF CurrentTrue
        <3>4. Structure(r) = TypeOf(Nothing)
            BY <1>5, <2>1, <3>3, IdentForm
        <3>5. TypeOf(Nothing) = Nothing
            BY Tags DEF TypeOf
        <3> QED
            BY <1>5, <3>4, <3>5
    <2> QED
        BY <1>5, <2>1, UnaliasedFact
<1>6. \A n \in DOMAIN node : value = Node(n) => Unaliased(r) = Node(n)
    BY <1>3, <1>4
<1> QED
    BY <1>1, <1>2, <1>3, <1>5, <1>6

(* A type declaration ends: what waited for the name is bound to it.       *)
LEMMA DeclaredStep ==
    ASSUME DeclInv, section = "type", open = <<>>, value /= Nothing, NEW x \in declaring,
           NEW r, r = ResolvedType(value), r /= Nothing, Waiting(x) = {} \/ Form(r) = "record",
           NEW u, u = Unaliased(r), Put(x, "type", u),
           node' = [n \in DOMAIN node |->
                      IF n \in Waiting(x) THEN [node[n] EXCEPT !.base = Ident(level, x)]
                      ELSE node[n]],
           unresolved' = (unresolved \ Waiting(x)) \union NotDeleted(x),
           current' = {}, declaring' = {}, value' = Nothing,
           UNCHANGED <<level, section, open, records>>
    PROVE  DeclInv' /\ Kept
<1> DEFINE W == Waiting(x)
           e == [kind |-> "type", type |-> u]
<1>1. /\ current = {x} /\ declaring = {x} /\ x \in Name /\ level \in Level
      /\ scope \in [Level -> [Name -> [kind : EntryKind, type : Tree]]]
      /\ node \in Seq(TypeNode) /\ DOMAIN node = 1..Len(node) /\ Len(node) \in Nat
      /\ \A n \in DOMAIN node : node[n] \in TypeNode
    <2>1. current = {x} /\ declaring = {x} /\ x \in Name
        BY DEF DeclInv, ReadingInv
    <2> QED
        BY <2>1, Constructors DEF DeclInv, ShapeInv
<1>2. /\ \/ Built(u, level) /\ Structure(r) = u
         \/ \E m \in {0, level}, y \in Name :
               /\ m \in Level /\ u = Ident(m, y) /\ Structure(r) = scope[m][y].type
               /\ scope[m][y].kind = "type" /\ Built(scope[m][y].type, m)
               /\ ~(m = level /\ y \in current)
      /\ \A n \in DOMAIN node : value = Node(n) => u = Node(n)
    BY DeclaredType
<1>3. e \in [kind : EntryKind, type : Tree]
    <2>1. u \in Tree
        BY <1>1, <1>2 DEF Built, Tree, Idents
    <2> QED
        BY <2>1 DEF EntryKind
<1>4. /\ scope' \in [Level -> [Name -> [kind : EntryKind, type : Tree]]]
      /\ scope'[level][x] = e
      /\ \A l \in Level, y \in Name : ~(l = level /\ y = x) => scope'[l][y] = scope[l][y]
    <2>1. scope' = [scope EXCEPT ![level][x] = e]
        BY DEF Put
    <2> HIDE DEF e
    <2> QED
        BY <1>1, <1>3, <2>1
<1>5. W \subseteq unresolved /\ W \subseteq DOMAIN node /\ unresolved' \subseteq unresolved
      /\ \A n \in unresolved : n \notin W => n \in unresolved'
    BY DEF Waiting, NotDeleted, DeclInv, ShapeInv
<1>6. /\ node' \in Seq(TypeNode) /\ DOMAIN node' = DOMAIN node
      /\ \A n \in DOMAIN node : node'[n].form = node[n].form /\ node'[n].level = node[n].level
      /\ \A n \in DOMAIN node \ W : node'[n] = node[n]
      /\ \A n \in W : node'[n].base = Ident(level, x)
    <2>1. Ident(level, x) \in Tree
        BY <1>1 DEF Tree, Idents
    <2>2. ASSUME NEW n \in DOMAIN node
          PROVE  /\ node'[n] \in TypeNode
                 /\ node'[n].form = node[n].form /\ node'[n].level = node[n].level
                 /\ n \notin W => node'[n] = node[n]
                 /\ n \in W => node'[n].base = Ident(level, x)
        <3>1. node[n] \in TypeNode
            BY <1>1
        <3> HIDE DEF W
        <3>2. node'[n] = IF n \in W THEN [node[n] EXCEPT !.base = Ident(level, x)] ELSE node[n]
            BY DEF W
        <3> QED
            BY <2>1, <3>1, <3>2 DEF TypeNode
    <2>3. DOMAIN node' = 1..Len(node)
        BY <1>1
    <2>4. node' = [n \in 1..Len(node) |-> node'[n]]
        BY <1>1
    <2>5. node' \in Seq(TypeNode)
        BY <1>1, <2>2, <2>4
    <2> QED
        BY <1>1, <1>5, <2>2, <2>3, <2>5
<1> HIDE DEF e
<1>7. /\ level' = level /\ e.kind = "type" /\ e.type = u /\ scope'[level'][x] = e
    BY <1>4 DEF e
<1>8. ASSUME NEW n \in DOMAIN node, node[n].form = "record", u = Node(n)
      PROVE  RecordEntry(level, x)'
    <2>1. RecordNode(u)'
        BY <1>6, <1>8 DEF RecordNode, Node
    <2> QED
        BY <1>7, <2>1 DEF RecordEntry
<1>9. ASSUME RecordEntry(level, x) PROVE RecordEntry(level, x)'
    <2>1. scope[level][x].type = Incomplete("record")
        BY <1>1, <1>9, CurrentEntry
    <2>2. CurrentTrue(x)
        BY <1>1 DEF DeclInv, ReadingInv
    <2>3. PICK form \in TypeForm : scope[level][x].type = Incomplete(form) /\ HasForm(value, form)
        BY <2>1, <2>2, Apart DEF CurrentTrue
    <2>4. form = "record"
        BY <2>1, <2>3, Tags
    <2>5. PICK n \in DOMAIN node : value = Node(n) /\ node[n].form = "record"
        BY <2>3, <2>4 DEF HasForm
    <2> QED
        BY <1>2, <1>8, <2>5
<1>10. Stable
    <2>1. Kept
        BY <1>1, <1>4 DEF Kept
    <2>2. NodesKept
        BY <1>6 DEF NodesKept
    <2> QED
        BY <1>1, <1>9, <2>1, <2>2 DEF Stable, CurrentKept
<1>11. ASSUME NEW m \in {0, level}, m \in Level, NEW y \in Name, scope[m][y].kind = "type",
              Built(scope[m][y].type, m), ~(m = level /\ y \in current)
       PROVE  /\ scope'[m][y] = scope[m][y] /\ Built(scope[m][y].type, m)'
              /\ RecordNode(scope[m][y].type) => RecordNode(scope[m][y].type)'
    <2>1. scope'[m][y] = scope[m][y]
        BY <1>1, <1>4, <1>11
    <2>2. m <= level'
        BY <1>1, <1>7, <1>11, MaxLevelAssumption DEF Level
    <2> QED
        BY <1>1, <1>7, <1>10, <1>11, <2>1, <2>2, BuiltStays DEF DeclInv, Stable
<1>12. ASSUME NEW l \in Level, l = level PROVE EntryTrue(l, x)'
    <2>1. CASE Built(u, level)
        <3>1. level <= level'
            BY <1>1, <1>7, MaxLevelAssumption DEF Level
        <3>2. Built(u, level)'
            BY <1>1, <1>7, <1>10, <2>1, <3>1, BuiltStays DEF DeclInv, Stable
        <3> QED
            BY <1>1, <1>7, <1>12, <3>2, MaxLevelAssumption DEF EntryTrue, Level
    <2>2. ASSUME NEW m \in {0, level}, NEW y \in Name, m \in Level, u = Ident(m, y),
                 scope[m][y].kind = "type", Built(scope[m][y].type, m), ~(m = level /\ y \in current)
          PROVE  EntryTrue(l, x)'
        <3>1. scope'[m][y] = scope[m][y] /\ Built(scope[m][y].type, m)'
            BY <1>11, <2>2
        <3>2. Alias(u, level)'
            BY <1>7, <2>2, <3>1 DEF Alias, Ident
        <3> QED
            BY <1>1, <1>7, <1>12, <3>2, MaxLevelAssumption DEF EntryTrue, Level
    <2> QED
        BY <1>2, <2>1, <2>2
<1>13. TableInv'
    <2>1. ASSUME NEW l \in Level, NEW y \in Name
          PROVE  \/ EntryTrue(l, y)'
                 \/ /\ l <= level /\ l <= level' /\ ~(l = level /\ y \in current)
                    /\ scope'[l][y] = scope[l][y]
        <3>1. CASE l = level /\ y = x
            BY <1>12, <3>1
        <3>2. CASE ~(l = level /\ y = x) /\ l <= level
            BY <1>1, <1>4, <1>7, <3>2
        <3>3. CASE l > level
            <4>1. EntryTrue(l, y)
                BY DEF DeclInv, TableInv
            <4>2. scope'[l][y] = Undeclared
                BY <1>1, <1>4, <3>3, <4>1, MaxLevelAssumption DEF EntryTrue, Level
            <4> QED
                BY <4>2 DEF EntryTrue, Undeclared, Nothing
        <3> QED
            BY <1>1, <3>1, <3>2, <3>3, MaxLevelAssumption DEF Level
    <2> QED
        BY <1>1, <1>7, <1>10, <2>1, TableStays DEF DeclInv
<1>14. ASSUME W /= {} PROVE RecordEntry(level, x)'
    <2>1. Form(r) = "record"
        BY <1>14
    <2>2. CASE Built(u, level) /\ Structure(r) = u
        <3>1. RecordNode(u)
            BY <2>1, <2>2, BuiltRecord
        <3> QED
            BY <1>8, <3>1 DEF RecordNode
    <2>3. ASSUME NEW m \in {0, level}, NEW y \in Name, m \in Level, u = Ident(m, y),
                 Structure(r) = scope[m][y].type,
                 scope[m][y].kind = "type", Built(scope[m][y].type, m), ~(m = level /\ y \in current)
          PROVE  RecordEntry(level, x)'
        <3>1. RecordNode(scope[m][y].type)
            BY <2>1, <2>3, BuiltRecord
        <3>2. scope'[m][y] = scope[m][y] /\ RecordNode(scope[m][y].type)'
            BY <1>11, <2>3, <3>1
        <3> QED
            BY <1>7, <2>3, <3>2 DEF RecordEntry, Ident
    <2> QED
        BY <1>2, <2>2, <2>3
<1>15. \A n \in Pointers' \ unresolved' : Bound(n)'
    <2>1. ASSUME NEW n \in DOMAIN node, node'[n].form = "pointer", n \notin unresolved' PROVE Bound(n)'
        <3>1. CASE n \in W
            <4>1. node'[n].base = Ident(level, x) /\ node'[n].level = level
                BY <1>5, <1>6, <3>1 DEF DeclInv, NodesInv
            <4>2. RecordEntry(level, x)'
                BY <1>14, <3>1
            <4> QED
                BY <1>1, <1>7, <4>1, <4>2 DEF Bound, Ident
        <3>2. CASE n \notin W
            <4>1. n \in Pointers \ unresolved
                BY <1>5, <1>6, <2>1, <3>2 DEF Pointers
            <4>2. Bound(n) /\ node[n].level <= level
                BY <4>1 DEF DeclInv, NodesInv
            <4>3. n \in DOMAIN node' /\ node'[n].base = node[n].base
                BY <1>6, <3>2
            <4> QED
                BY <1>1, <1>7, <1>10, <4>2, <4>3, BoundStays
        <3> QED
            BY <3>1, <3>2
    <2> QED
        BY <1>6, <2>1 DEF Pointers
<1>16. \A n \in DOMAIN node, m \in Nat : node'[n].base = Node(m) => m \in 1..(n - 1)
    <2>1. ASSUME NEW n \in DOMAIN node, NEW m \in Nat, node'[n].base = Node(m) PROVE m \in 1..(n - 1)
        <3>1. n \notin W
            BY <1>6, <2>1, Tags
        <3>2. node[n].base = Node(m)
            BY <1>6, <2>1, <3>1
        <3> QED
            BY <3>2 DEF DeclInv, NodesInv
    <2> QED
        BY <2>1
<1>17. NodesInv'
    <2>1. \A n \in DOMAIN node' : node'[n].level <= level'
        BY <1>6, <1>7 DEF DeclInv, NodesInv
    <2>2. \A m, n \in DOMAIN node' : m <= n => node'[m].level <= node'[n].level
        BY <1>6 DEF DeclInv, NodesInv
    <2>3. \A n \in unresolved' : node'[n].form = "pointer" /\ node'[n].level = level'
        BY <1>5, <1>6, <1>7 DEF DeclInv, NodesInv, ShapeInv
    <2>4. \A n \in DOMAIN node', m \in Nat : node'[n].base = Node(m)' => m \in 1..(n - 1)
        BY <1>6, <1>16 DEF Node
    <2> QED
        BY <1>15, <2>1, <2>2, <2>3, <2>4 DEF NodesInv
<1>18. ShapeInv'
    BY <1>4, <1>5, <1>6, <1>7 DEF DeclInv, ShapeInv
<1>19. ReadingInv'
    BY <1>7 DEF DeclInv, ReadingInv, ValueTrue, Nothing
<1> QED
    BY <1>10, <1>13, <1>17, <1>18, <1>19 DEF DeclInv, Stable

(* A type declaration ends, with an error or without.                      *)
LEMMA TypeDeclarationStep ==
    ASSUME DeclInv, TypeDeclaration
    PROVE  DeclInv' /\ Kept
<1> DEFINE r == ResolvedType(value)
<1>1. CASE Reject
    BY <1>1, StopStep DEF Reject
<1>2. CASE ~Reject
    <2>1. PICK x \in declaring :
              /\ r /= Nothing /\ (Waiting(x) = {} \/ Form(r) = "record")
              /\ Put(x, "type", Unaliased(r))
              /\ node' = [n \in DOMAIN node |->
                            IF n \in Waiting(x) THEN [node[n] EXCEPT !.base = Ident(level, x)]
                            ELSE node[n]]
              /\ unresolved' = (unresolved \ Waiting(x)) \union NotDeleted(x)
              /\ current' = {} /\ declaring' = {} /\ value' = Nothing
              /\ UNCHANGED <<level, section, open, records>>
        BY <1>2 DEF TypeDeclaration
    <2>2. section = "type" /\ open = <<>> /\ value /= Nothing
        BY DEF TypeDeclaration
    <2> HIDE DEF r
    <2> QED
        BY <2>1, <2>2, DeclaredStep DEF r
<1> QED
    BY <1>1, <1>2

-----------------------------------------------------------------------------
(* Scopes.                                                                 *)

(* A procedure heading opens a scope with its parameters.                  *)
LEMMA HeadingStep ==
    ASSUME DeclInv, NEW x \in Name, NEW params \in AtMostOne, ProcedureHeading(x, params)
    PROVE  DeclInv' /\ Kept
<1>1. CASE Reject
    BY <1>1, StopStep DEF Reject
<1>2. CASE ~Reject
    <2> DEFINE p == [kind |-> "procedure", type |-> Nothing]
               q == [y \in Name |-> IF y \in params THEN [kind |-> "parameter", type |-> Basic] ELSE Undeclared]
    <2>1. /\ section \in {"var", "procedure"} /\ declaring = {} /\ level < MaxLevel /\ ~Redeclared(x)
          /\ level' = level + 1 /\ section' = "const"
          /\ scope' = [[scope EXCEPT ![level][x] = p] EXCEPT ![level + 1] = q]
          /\ UNCHANGED <<declaring, current, open, value, node, unresolved, records>>
        BY <1>2 DEF ProcedureHeading, PutProcedure, typeVars
    <2>2. open = <<>> /\ value = Nothing /\ current = {} /\ unresolved = {}
          /\ records = Cardinality(Records(open)) /\ records = 0
        BY <2>1, Between, RecordsNone DEF DeclInv, ReadingInv
    <2>3. scope[level][x] = Undeclared
        BY <2>1, <2>2 DEF Redeclared, LocallyDeclared
    <2>4. /\ level \in Level /\ level' \in Level /\ level' = level + 1 /\ level \in Nat
          /\ scope \in [Level -> [Name -> [kind : EntryKind, type : Tree]]]
        BY <2>1, MaxLevelAssumption DEF DeclInv, ShapeInv, Level
    <2>5. p \in [kind : EntryKind, type : Tree] /\ q \in [Name -> [kind : EntryKind, type : Tree]]
        BY DEF EntryKind, Tree, Undeclared
    <2>6. /\ scope' \in [Level -> [Name -> [kind : EntryKind, type : Tree]]]
          /\ scope'[level][x] = p
          /\ \A y \in Name : scope'[level + 1][y] = q[y]
          /\ \A l \in Level, y \in Name : l /= level + 1 /\ ~(l = level /\ y = x) => scope'[l][y] = scope[l][y]
        <3> HIDE DEF p, q
        <3>1. level + 1 \in Level /\ level + 1 /= level
            BY <2>4
        <3> QED
            BY <2>1, <2>4, <2>5, <3>1
    <2>7. Stable
        <3>1. Kept
            BY <2>3, <2>4, <2>6 DEF Kept, Level
        <3>2. NodesKept
            BY <2>1 DEF NodesKept
        <3> QED
            BY <2>2, <3>1, <3>2 DEF Stable, CurrentKept
    <2>8. TableInv'
        <3>1. ASSUME NEW l \in Level, NEW y \in Name
              PROVE  \/ EntryTrue(l, y)'
                     \/ /\ l <= level /\ l <= level' /\ ~(l = level /\ y \in current)
                        /\ scope'[l][y] = scope[l][y]
            <4>1. CASE l = level /\ y = x
                BY <2>4, <2>6, <4>1 DEF EntryTrue, Nothing
            <4>2. CASE l = level + 1 /\ y \in params
                BY <2>4, <2>6, <4>2 DEF EntryTrue, Built, Basic
            <4>3. CASE l = level + 1 /\ y \notin params
                BY <2>4, <2>6, <4>3 DEF EntryTrue, Undeclared, Nothing
            <4>4. CASE l > level + 1
                <5>1. EntryTrue(l, y)
                    BY DEF DeclInv, TableInv
                <5>2. l > level /\ l /= level + 1
                    BY <2>4, <4>4, MaxLevelAssumption DEF Level
                <5>3. scope'[l][y] = Undeclared
                    BY <2>4, <2>6, <5>1, <5>2 DEF EntryTrue
                <5> QED
                    BY <5>3 DEF EntryTrue, Undeclared, Nothing
            <4>5. CASE l <= level /\ ~(l = level /\ y = x)
                BY <2>2, <2>4, <2>6, <4>5 DEF Level
            <4> QED
                BY <2>4, <4>1, <4>2, <4>3, <4>4, <4>5, MaxLevelAssumption DEF Level
        <3> QED
            BY <2>4, <2>7, <3>1, TableStays DEF DeclInv
    <2>9. \A n \in DOMAIN node : node[n].level \in Level /\ node[n].level <= level /\ node[n].level <= level'
        <3>1. \A n \in DOMAIN node : node[n].level \in Level /\ node[n].level <= level
            BY Constructors DEF TypeNode, DeclInv, NodesInv
        <3> QED
            BY <2>4, <3>1, MaxLevelAssumption DEF Level
    <2>10. NodesInv'
        <3>1. \A n \in Pointers' \ unresolved' : Bound(n)'
            <4>1. \A n \in Pointers \ unresolved : Bound(n) /\ n \in DOMAIN node
                BY DEF DeclInv, NodesInv, Pointers
            <4>2. \A n \in Pointers \ unresolved : Bound(n)'
                BY <2>1, <2>4, <2>7, <2>9, <4>1, BoundStays
            <4> QED
                BY <2>1, <4>2 DEF Pointers
        <3>2. \A n \in DOMAIN node', m \in Nat : node'[n].base = Node(m)' => m \in 1..(n - 1)
            BY <2>1 DEF DeclInv, NodesInv, Node
        <3> QED
            BY <2>1, <2>2, <2>9, <3>1, <3>2 DEF DeclInv, NodesInv
    <2>11. ShapeInv'
        BY <2>1, <2>4, <2>6 DEF DeclInv, ShapeInv
    <2>12. ReadingInv'
        BY <2>1, <2>2 DEF DeclInv, ReadingInv, ValueTrue, Nothing
    <2> QED
        BY <2>7, <2>8, <2>10, <2>11, <2>12 DEF DeclInv, Stable
<1> QED
    BY <1>1, <1>2

(* The scope of a procedure is closed, or the module ends.                 *)
LEMMA CloseStep ==
    ASSUME DeclInv, ProcedureDeclaration
    PROVE  DeclInv' /\ Kept
<1>1. PICK k \in 0..Len(node) :
          /\ \A n \in DOMAIN node : n <= k <=> node[n].level < level
          /\ node' = SubSeq(node, 1, k)
    BY DEF ProcedureDeclaration
<1>2. /\ section \in {"var", "procedure"} /\ declaring = {} /\ level > 0
      /\ level' = level - 1 /\ scope' = [scope EXCEPT ![level] = Empty]
      /\ section' = "procedure"
      /\ UNCHANGED <<declaring, current, open, value, unresolved, records>>
    BY DEF ProcedureDeclaration, CloseScope
<1>3. open = <<>> /\ value = Nothing /\ current = {} /\ unresolved = {}
      /\ records = Cardinality(Records(open))
    BY <1>2, Between DEF DeclInv, ReadingInv
<1>4. /\ level \in Level /\ level' \in Level /\ level \in Nat
      /\ scope \in [Level -> [Name -> [kind : EntryKind, type : Tree]]]
    BY <1>2, MaxLevelAssumption DEF DeclInv, ShapeInv, Level
<1>5. /\ scope' \in [Level -> [Name -> [kind : EntryKind, type : Tree]]]
      /\ \A y \in Name : scope'[level][y] = Undeclared
      /\ \A l \in Level, y \in Name : l /= level => scope'[l][y] = scope[l][y]
    <2>1. Empty \in [Name -> [kind : EntryKind, type : Tree]] /\ \A y \in Name : Empty[y] = Undeclared
        BY DEF Empty, Undeclared, EntryKind, Tree
    <2> QED
        BY <1>2, <1>4, <2>1
<1>6. /\ node \in Seq(TypeNode) /\ DOMAIN node = 1..Len(node) /\ Len(node) \in Nat
      /\ \A n \in DOMAIN node : node[n] \in TypeNode
    BY Constructors
<1>7. /\ node' \in Seq(TypeNode) /\ DOMAIN node' = 1..k /\ k \in Nat /\ k <= Len(node)
      /\ \A n \in 1..k : n \in DOMAIN node /\ node'[n] = node[n] /\ node[n].level < level
    <2>1. k \in Nat /\ k <= Len(node) /\ \A i \in 1..k : i \in 1..Len(node) /\ node[i] \in TypeNode
        BY <1>6
    <2>2. /\ Len(SubSeq(node, 1, k)) = k
          /\ \A i \in 1..k : SubSeq(node, 1, k)[i] = node[1 + i - 1]
          /\ SubSeq(node, 1, k) \in Seq(TypeNode)
        <3>1. k - 1 + 1 = k /\ (IF 1 <= k THEN k - 1 + 1 ELSE 0) = k
            BY <2>1
        <3> QED
            BY <1>6, <2>1, <3>1, SubSeqProperties
    <2>3. \A i \in 1..k : 1 + i - 1 = i
        OBVIOUS
    <2>4. DOMAIN node' = 1..k
        BY <1>1, <2>2, LenProperties
    <2> QED
        BY <1>1, <1>6, <2>1, <2>2, <2>3, <2>4
<1>8. \A n \in DOMAIN node : node[n].level \in Level
    BY <1>6 DEF TypeNode
<1>9. Stable
    <2>1. Kept
        BY <1>2, <1>4, <1>5 DEF Kept, Level
    <2>2. ASSUME NEW n \in DOMAIN node, node[n].level <= level'
          PROVE  n \in DOMAIN node' /\ node'[n].form = node[n].form /\ node'[n].level = node[n].level
        <3>1. node[n].level < level
            BY <1>2, <1>4, <1>8, <2>2, MaxLevelAssumption DEF Level
        <3>2. n \in 1..k
            BY <1>1, <1>6, <1>7, <3>1
        <3> QED
            BY <1>7, <3>2
    <2> QED
        BY <1>3, <2>1, <2>2 DEF Stable, NodesKept, CurrentKept
<1>10. TableInv'
    <2>1. ASSUME NEW l \in Level, NEW y \in Name
          PROVE  \/ EntryTrue(l, y)'
                 \/ /\ l <= level /\ l <= level' /\ ~(l = level /\ y \in current)
                    /\ scope'[l][y] = scope[l][y]
        <3>1. CASE l < level
            BY <1>2, <1>3, <1>4, <1>5, <3>1, MaxLevelAssumption DEF Level
        <3>2. CASE l = level
            BY <1>5, <3>2 DEF EntryTrue, Undeclared, Nothing
        <3>3. CASE l > level
            <4>1. EntryTrue(l, y)
                BY DEF DeclInv, TableInv
            <4>2. scope'[l][y] = Undeclared
                BY <1>4, <1>5, <3>3, <4>1, MaxLevelAssumption DEF EntryTrue, Level
            <4> QED
                BY <4>2 DEF EntryTrue, Undeclared, Nothing
        <3> QED
            BY <1>4, <3>1, <3>2, <3>3, MaxLevelAssumption DEF Level
    <2> QED
        BY <1>4, <1>9, <2>1, TableStays DEF DeclInv
<1>11. \A n \in 1..k : node[n].level <= level'
    BY <1>2, <1>4, <1>7, <1>8, MaxLevelAssumption DEF Level
<1>12. NodesInv'
    <2>1. ASSUME NEW n \in 1..k, node'[n].form = "pointer" PROVE Bound(n)'
        <3>1. n \in Pointers \ unresolved /\ n \in DOMAIN node /\ n \in DOMAIN node'
            BY <1>3, <1>7, <2>1 DEF Pointers
        <3>2. Bound(n) /\ node'[n].base = node[n].base /\ node[n].level <= level'
            BY <1>7, <1>11, <3>1 DEF DeclInv, NodesInv
        <3> QED
            BY <1>4, <1>9, <3>1, <3>2, BoundStays
    <2>2. \A n \in Pointers' \ unresolved' : Bound(n)'
        BY <1>7, <2>1 DEF Pointers
    <2>3. \A n \in DOMAIN node' : node'[n].level <= level'
        BY <1>7, <1>11
    <2>4. \A m, n \in DOMAIN node' : m <= n => node'[m].level <= node'[n].level
        BY <1>7 DEF DeclInv, NodesInv
    <2>5. \A n \in DOMAIN node', m \in Nat : node'[n].base = Node(m)' => m \in 1..(n - 1)
        BY <1>7 DEF DeclInv, NodesInv, Node
    <2> QED
        BY <1>2, <1>3, <2>2, <2>3, <2>4, <2>5 DEF NodesInv
<1>13. ShapeInv'
    BY <1>2, <1>3, <1>4, <1>5, <1>7 DEF DeclInv, ShapeInv
<1>14. ReadingInv'
    BY <1>2, <1>3 DEF DeclInv, ReadingInv, ValueTrue, Nothing
<1> QED
    BY <1>9, <1>10, <1>12, <1>13, <1>14 DEF DeclInv, Stable

-----------------------------------------------------------------------------
(* The invariant holds before the module is read.                          *)
LEMMA DeclInit == Init => DeclInv
<1> SUFFICES ASSUME Init PROVE DeclInv
    OBVIOUS
<1>1. /\ scope = [l \in Level |-> Empty] /\ level = 0 /\ section = "const"
      /\ declaring = {} /\ current = {} /\ open = <<>> /\ value = Nothing
      /\ node = <<>> /\ unresolved = {} /\ records = 0
    BY DEF Init, TableInit
<1>2. 0 \in Level /\ \A l \in Level : l >= 0
    BY MaxLevelAssumption DEF Level
<1>3. Empty \in [Name -> [kind : EntryKind, type : Tree]] /\ \A y \in Name : Empty[y] = Undeclared
    BY DEF Empty, Undeclared, EntryKind, Tree
<1>4. ShapeInv
    BY <1>1, <1>2, <1>3 DEF ShapeInv
<1>5. TableInv
    <2>1. ASSUME NEW l \in Level, NEW x \in Name PROVE scope[l][x] = Undeclared
        BY <1>1, <1>3
    <2> QED
        BY <2>1 DEF TableInv, EntryTrue, Undeclared
<1>6. ReadingInv
    <2>1. Records(<<>>) = {}
        BY DEF Records
    <2> QED
        BY <1>1, <2>1, FS_EmptySet DEF ReadingInv, ValueTrue
<1>7. NodesInv
    BY <1>1 DEF NodesInv, Pointers
<1> QED
    BY <1>4, <1>5, <1>6, <1>7 DEF DeclInv

(* Every step keeps the invariant and what was declared.                   *)
LEMMA DeclStep ==
    ASSUME DeclInv, [Next]_vars
    PROVE  DeclInv' /\ Kept
<1>1. CASE UNCHANGED vars
    BY <1>1, Unread DEF vars
<1>2. CASE TypeKeyword \/ NoTypeSection \/ TypeSection
    BY <1>2, SectionStep
<1>3. ASSUME NEW x \in Name, ConstDeclaration(x) \/ TypeIdentDef(x) \/ VariableIdentDef(x) \/ QualidentType(x)
      PROVE  DeclInv' /\ Kept
    BY <1>3, ConstStep, TypeIdentStep, VariableIdentStep, NamedStep
<1>4. ASSUME NEW x \in Name, RecordHeading(QualIdent(x)) PROVE DeclInv' /\ Kept
    BY <1>4, RecordHeadingStep
<1>5. CASE RecordHeading(Nothing)
    BY <1>5, RecordHeadingStep
<1>6. CASE FieldList \/ RecordType \/ ArrayType \/ PointerType \/ TypeDeclaration \/ VariableDeclaration
    BY <1>6, FieldListStep, RecordTypeStep, ArrayTypeStep, PointerTypeStep, TypeDeclarationStep, VariableStep
<1>7. CASE ArrayLengthOf \/ PointerTo
    BY <1>7, ConstructorStep
<1>8. ASSUME NEW names \in AtMostOne, ProcedureType(names) PROVE DeclInv' /\ Kept
    BY <1>8, ProcedureTypeStep
<1>9. ASSUME NEW x \in Name, NEW params \in AtMostOne, ProcedureHeading(x, params) PROVE DeclInv' /\ Kept
    BY <1>9, HeadingStep
<1>10. CASE ProcedureDeclaration
    BY <1>10, CloseStep
<1>11. CASE ModuleEnd
    BY <1>11, StopStep DEF ModuleEnd
<1> QED
    BY <1>1, <1>2, <1>3, <1>4, <1>5, <1>6, <1>7, <1>8, <1>9, <1>10, <1>11, Zenon DEF Next

(* What the invariant says of the types of the variables.                  *)
LEMMA DeclTyped == DeclInv => TypeOK
<1> SUFFICES ASSUME DeclInv PROVE TypeOK
    OBVIOUS
<1>1. level \in Level /\ declaring \in SUBSET Name /\ current \subseteq Name /\ unresolved \subseteq Pointers
    BY DEF DeclInv, ShapeInv, NodesInv, Pointers
<1>2. ASSUME NEW l \in Level, NEW x \in Name PROVE scope[l][x].type \in Ref
    <2> DEFINE t == scope[l][x].type
    <2>1. EntryTrue(l, x)
        BY DEF DeclInv, TableInv
    <2>2. CASE t = Nothing
        BY <2>2 DEF Ref
    <2>3. CASE Built(t, l)
        BY <2>3 DEF Built, Ref
    <2>4. CASE Alias(t, l)
        <3>1. PICK m \in {0, l}, y \in Name : t = Ident(m, y)
            BY <2>4 DEF Alias
        <3>2. m \in Level
            BY MaxLevelAssumption DEF Level
        <3> QED
            BY <3>1, <3>2 DEF Ref
    <2>5. ASSUME NEW form \in TypeForm, t = Incomplete(form) PROVE t \in Ref
        BY <2>5 DEF Ref, TypeForm
    <2> QED
        BY <2>1, <2>2, <2>3, <2>4, <2>5 DEF EntryTrue
<1>3. value \in Ref \union {QualIdent(x) : x \in Name}
    BY DEF DeclInv, ReadingInv, ValueTrue, Ref
<1>4. ASSUME NEW n \in DOMAIN node PROVE node[n].base \in Ref
    <2>1. node[n].base \in Tree /\ DOMAIN node = 1..Len(node) /\ Len(node) \in Nat
        BY Constructors DEF TypeNode
    <2>2. ASSUME NEW m \in Nat, node[n].base = Node(m) PROVE node[n].base \in Ref
        <3>1. m \in 1..(n - 1)
            BY <2>2 DEF DeclInv, NodesInv
        <3>2. m \in DOMAIN node
            BY <2>1, <3>1
        <3> QED
            BY <2>2, <3>2 DEF Ref
    <2>3. ASSUME node[n].base \in Idents PROVE node[n].base \in Ref
        BY <2>3 DEF Ref, Idents
    <2> QED
        BY <2>1, <2>2, <2>3 DEF Tree, Ref, TypeForm
<1>5. records \in Nat
    BY Constructors, RecordsFinite DEF DeclInv, ReadingInv
<1> QED
    BY <1>1, <1>2, <1>3, <1>4, <1>5 DEF TypeOK

(* What the invariant says of pointer types behind a type section.         *)
LEMMA DeclBound == DeclInv => BoundToRecord
<1> SUFFICES ASSUME DeclInv, section /= "type", NEW n \in Pointers,
                    NEW base, base = node[n].base
             PROVE  /\ base[1] \in {"ident", "node"} /\ Form(base) = "record"
                    /\ base[1] = "ident" => Kind(base) = "type" /\ base[2] \in {0, node[n].level}
    BY DEF BoundToRecord
<1>1. Bound(n) /\ n \in DOMAIN node
    BY DEF DeclInv, ReadingInv, NodesInv, Pointers
<1>2. ASSUME NEW m \in 1..(n - 1), base = Node(m), node[m].form = "record"
      PROVE  base[1] = "node" /\ Form(base) = "record"
    BY <1>2, NodeForm, Tags
<1>3. ASSUME NEW l \in {0, node[n].level}, NEW y \in Name, base = Ident(l, y), RecordEntry(l, y)
      PROVE  /\ base[1] = "ident" /\ Form(base) = "record"
             /\ Kind(base) = "type" /\ base[2] \in {0, node[n].level}
    <2>1. l \in Level
        <3>1. node[n].level \in Level
            BY <1>1, Constructors DEF TypeNode
        <3> QED
            BY <3>1, MaxLevelAssumption DEF Level
    <2>2. scope[l][y].kind = "type"
        BY <1>3 DEF RecordEntry
    <2>3. Form(base) = "record"
        BY <1>3, <2>1, <2>2, RecordEntryIs DEF DeclInv
    <2>4. Kind(base) = "type"
        BY <1>3, <2>2, IdentForm
    <2> QED
        BY <1>3, <2>3, <2>4, Tags
<1> QED
    BY <1>1, <1>2, <1>3 DEF Bound

(* Behind a type section every pointer type is bound to a record type, of  *)
(* its own scope or of the module, however many nodes wait for the same    *)
(* name in the list whose links ResolvePointerTypes loses (TypeSection,    *)
(* PointerType, ResolvePointerTypes).                                      *)
THEOREM PointersBound == Spec => []DeclarationsInv
<1>1. DeclInv /\ [Next]_vars => DeclInv'
    BY DeclStep
<1>2. DeclInv => DeclarationsInv
    BY DeclTyped, DeclBound DEF DeclarationsInv
<1> QED
    BY DeclInit, <1>1, <1>2, PTL DEF Spec

(* An identifier stays what it was declared to be until its scope is       *)
(* closed; only the type being declared is completed (Table_Put, identdef).*)
THEOREM DeclaredForGood == Spec => DeclaredOnce
<1>1. DeclInv /\ [Next]_vars => DeclInv'
    BY DeclStep
<1>2. DeclInv /\ [Next]_vars =>
          [\A l \in Level, x \in Name :
              /\ l <= level /\ l <= level' /\ scope[l][x] /= Undeclared
              /\ ~(l = level /\ x \in current)
              => scope'[l][x] = scope[l][x]]_vars
    BY DeclStep DEF Kept
<1> QED
    BY DeclInit, <1>1, <1>2, PTL DEF Spec, DeclaredOnce
================================================================================
