------------------------------ MODULE SymbolFiles ------------------------------
(***************************************************************************)
(* Symbol files (Table_Export and Table_Import in src/Table.c). The        *)
(* symbol file of a module has its exported declarations and all types     *)
(* that these are made with, whether exported or not, its own or imported, *)
(* so that a client needs no other symbol file.                            *)
(*                                                                         *)
(* A declaration is abstracted to the named types it is made with: the     *)
(* ones that an importer has to know, and those that only occur in fields  *)
(* that are not exported. Declarations of constants, variables and         *)
(* procedures differ from types in nothing but that no declaration is made *)
(* with them, and need no case of their own. Modules are compiled once,    *)
(* after their imports.                                                    *)
(***************************************************************************)
EXTENDS Integers, Sequences, FiniteSets

CONSTANTS
    Module,
    Symbol,       \* identifiers
    Declaring,    \* Declaring[m]: those that are declared in m
    ImportLists,  \* ImportLists[m]: functions from qualifiers to modules
    MaxMentions,  \* bound: MaxMentions[m]: mentions of types in m
    MaxLevels,    \* ten: how far indirectly exported types are followed
    Own,          \* instead of a qualifier: the module itself
    NoSym, NoExport

(* What is written for a symbol: its name, with the name of its module     *)
(* unless it is declared in the one whose symbol file this is.             *)
Name == ({Own} \union Module) \X Symbol
Line == [exported : BOOLEAN, uses : SUBSET Name]

ASSUME SymbolFilesAssumption ==
    /\ IsFiniteSet(Module) /\ IsFiniteSet(Symbol)
    /\ Own \notin Module
    /\ Declaring \in [Module -> SUBSET Symbol]
    /\ \A m \in Module : \A imports \in ImportLists[m] : \A q \in DOMAIN imports :
          q /= Own /\ imports[q] \in Module
    /\ \A names \in SUBSET Name : NoSym \notin [names -> Line]
    /\ MaxMentions \in [Module -> Nat]
    /\ MaxLevels \in Nat \ {0}

VARIABLES
    symFile,   \* symFile[m]: an entry for each name in M.sym, or NoSym
    source,    \* source[m]: the text that was compiled, or NoSym
    export,    \* the module whose symbol file is being written, or NoExport
    lines,     \* the lines written so far: an entry for each name
    written,   \* writtenSymbols: what was written, by names in the symbol table
    pending,   \* indirectlyExportedTypes
    levels,    \* how many times the list has been gone through
    failed     \* why a compilation stopped, or ""

symbolFileVars == <<symFile, source, export, lines, written, pending, levels, failed>>

Compiled == {m \in Module : symFile[m] /= NoSym}

(* An identifier in the symbol table: the qualifier it was imported with,  *)
(* and its name in the symbol file, which has the name of another module   *)
(* if the type is re-exported.                                             *)
OwnNode(t) == <<Own, <<Own, t>>>>

(* What a module can name: its own symbols and what its imports export.    *)
Mentionable(j) ==
    {OwnNode(t) : t \in Declaring[j.module]} \union
    UNION {{<<q, n>> : n \in {k \in DOMAIN symFile[j.imports[q]] :
                              symFile[j.imports[q]][k].exported}} : q \in DOMAIN j.imports}

(* A text has the symbols that are exported and, for each type that a      *)
(* symbol is made with, a mention: the symbol, the type, and whether it    *)
(* matters outside the module. An imported type is made with what was read *)
(* (ReadSymbol), each name resolved to the entry of the same symbol file.  *)
DeclaredUses(j, x) == {y \in Mentionable(j) : <<x[2][2], y, TRUE>> \in j.text.mentions}
ReadUses(j, x) == {<<x[1], n>> : n \in symFile[j.imports[x[1]]][x[2]].uses}
UsesOf(j, x) == IF x[1] = Own THEN DeclaredUses(j, x) ELSE ReadUses(j, x)
Exported(j, x) == x[1] = Own /\ x[2][2] \in j.text.exported

(* Trees_Name and Trees_UnaliasedName, as SetQualifiers leaves them.       *)
TableName(x) == IF x[2][1] = Own THEN <<x[1], x[2][2]>> ELSE x[2]

(* Mutant of FileName: the name in the symbol table is written.            *)
FileNameAliased(j, x) == IF x[2][1] = Own THEN <<x[1], x[2][2]>> ELSE x[2]
FileName(j, x) ==
    IF x[2][1] = Own /\ x[1] /= Own THEN <<j.imports[x[1]], x[2][2]>> ELSE x[2]

(* Mutant of Mentioned: imported types are taken for known.                *)
MentionedOwn(j, xs) == {y \in UNION {UsesOf(j, x) : x \in xs} : y[1] = Own /\ ~Exported(j, y)}

(* The types that Write puts on the list of indirectly exported ones while *)
(* it writes xs. The list has one entry for each name.                     *)
Mentioned(j, xs) == {y \in UNION {UsesOf(j, x) : x \in xs} : ~Exported(j, y)}
OnePerName(xs) ==
    {ys \in SUBSET xs :
        /\ \A x \in xs : \E y \in ys : TableName(y) = TableName(x)
        /\ \A x, y \in ys : TableName(y) = TableName(x) => y = x}

(* A line of a symbol file, and the lines with those for xs added.         *)
Entry(j, x) == [exported |-> Exported(j, x), uses |-> {FileName(j, y) : y \in UsesOf(j, x)}]
WithLines(j, old, xs) ==
    [n \in DOMAIN old \union {FileName(j, x) : x \in xs} |->
        IF \E x \in xs : FileName(j, x) = n
        THEN Entry(j, CHOOSE x \in xs : FileName(j, x) = n)
        ELSE old[n]]

(* An alias may be the name of another module. Two identifiers then have   *)
(* one name in the symbol table if a type of that module, which one of the *)
(* imports re-exports, is called as one of the module the alias stands for.*)
NamesClash(imports) ==
    \E q, r \in DOMAIN imports : \E t \in Symbol :
        /\ imports[q] /= q
        /\ <<Own, t>> \in DOMAIN symFile[imports[q]]
        /\ <<q, t>> \in DOMAIN symFile[imports[r]]

(* What a text declares, in names that are the same everywhere.            *)
Global(m, n) == IF n[1] = Own THEN <<m, n[2]>> ELSE n
GlobalName(j, x) == IF x[1] = Own THEN <<j.module, x[2][2]>> ELSE Global(j.imports[x[1]], x[2])
SourceOf(j) ==
    [imports |-> j.imports,
     exported |-> j.text.exported,
     uses |-> [t \in Declaring[j.module] |->
         {GlobalName(j, y) : y \in {z \in Mentionable(j) : <<t, z, TRUE>> \in j.text.mentions}}]]

-----------------------------------------------------------------------------
SymbolFilesInit ==
    /\ symFile = [m \in Module |-> NoSym]
    /\ source = [m \in Module |-> NoSym]
    /\ export = NoExport
    /\ lines = <<>> /\ written = {} /\ pending = {} /\ levels = 0
    /\ failed = ""

(* ResolveTypes: all types that an imported symbol file mentions are in it. *)
Resolved(imports) ==
    \A q \in DOMAIN imports :
        \A n \in DOMAIN symFile[imports[q]] :
            symFile[imports[q]][n].uses \subseteq DOMAIN symFile[imports[q]]

(* Texts of m; the bound is on mentions that differ.                       *)
Texts(m, imports) ==
    {[exported |-> exported, mentions |-> mentions] :
        exported \in SUBSET Declaring[m],
        mentions \in {{mention[i] : i \in DOMAIN mention} : mention \in
            [1 .. MaxMentions[m] ->
                Declaring[m] \X Mentionable([module |-> m, imports |-> imports]) \X BOOLEAN]
            \union {<<>>}}}

(* m is compiled: its imports are read, and what it exports is written.    *)
Compile(m, imports) ==
    /\ export = NoExport /\ failed = ""
    /\ symFile[m] = NoSym
    /\ \A q \in DOMAIN imports : imports[q] \in Compiled
    /\ IF ~Resolved(imports)
       THEN /\ failed' = "missing type name"
            /\ UNCHANGED <<source, export, lines, written, pending, levels>>
       ELSE \E text \in Texts(m, imports) :
            LET j == [module |-> m, imports |-> imports, text |-> text]
                xs == {OwnNode(t) : t \in text.exported} IN
            /\ export' = j
            /\ source' = [source EXCEPT ![m] = SourceOf(j)]
            /\ lines' = WithLines(j, <<>>, xs)
            /\ written' = {TableName(x) : x \in xs}
            /\ pending' \in OnePerName(Mentioned(j, xs))
            /\ levels' = 0
            /\ UNCHANGED failed
    /\ UNCHANGED symFile

(* Mutant of WriteLevel: what was written is written again.                *)
WriteLevelAgain ==
    /\ export /= NoExport /\ pending /= {} /\ levels < MaxLevels
    /\ lines' = WithLines(export, lines, pending)
    /\ written' = written \union {TableName(x) : x \in pending}
    /\ pending' \in OnePerName(Mentioned(export, pending))
    /\ levels' = levels + 1
    /\ UNCHANGED <<symFile, source, export, failed>>

(* One level of indirectly exported types. Types that have been written    *)
(* are not written again, but the level counts.                            *)
WriteLevel ==
    /\ export /= NoExport /\ pending /= {} /\ levels < MaxLevels
    /\ LET new == {x \in pending : TableName(x) \notin written} IN
       /\ lines' = WithLines(export, lines, new)
       /\ written' = written \union {TableName(x) : x \in new}
       /\ pending' \in OnePerName(Mentioned(export, new))
    /\ levels' = levels + 1
    /\ UNCHANGED <<symFile, source, export, failed>>

CloseSymbolFile ==
    /\ export /= NoExport
    /\ pending = {} \/ levels = MaxLevels
    /\ IF levels < MaxLevels
       THEN symFile' = [symFile EXCEPT ![export.module] = lines] /\ UNCHANGED failed
       ELSE failed' = "too many levels" /\ UNCHANGED symFile
    /\ export' = NoExport /\ lines' = <<>> /\ written' = {} /\ pending' = {} /\ levels' = 0
    /\ UNCHANGED source

SymbolFilesNext ==
    \/ \E m \in Module : \E imports \in ImportLists[m] : Compile(m, imports)
    \/ WriteLevel
    \/ CloseSymbolFile

SymbolFilesSpec == SymbolFilesInit /\ [][SymbolFilesNext]_symbolFileVars

-----------------------------------------------------------------------------
(* A symbol file is sufficient: whatever it mentions is in it, so that no  *)
(* import fails for want of another symbol file. Only where an alias makes *)
(* two imported types share a name, the one that is written second is      *)
(* taken for written (writtenSymbols).                                     *)
ImportsComplete ==
    \A m \in Compiled : ~NamesClash(source[m].imports) =>
        \A n \in DOMAIN symFile[m] : symFile[m][n].uses \subseteq DOMAIN symFile[m]

(* A symbol file is true: an entry, be it for an own type or for one that  *)
(* came through any number of other symbol files under whatever alias, is  *)
(* the declaration of the module it names, without what that module hides, *)
(* and only a module's own exported symbols can be imported from it.       *)
EntriesTrue ==
    \A m \in Compiled : \A n \in DOMAIN symFile[m] :
        LET g == Global(m, n) IN
        /\ g[1] \in Compiled /\ g[2] \in Declaring[g[1]]
        /\ {Global(m, k) : k \in symFile[m][n].uses} = source[g[1]].uses[g[2]]
        /\ symFile[m][n].exported <=> (n[1] = Own /\ n[2] \in source[m].exported)

(* The compiler gives up on a chain of unexported types only if it has     *)
(* nearly as many links as there are levels. (The last level may be one    *)
(* where all types have been written before.)                              *)
GivesUpLate ==
    export /= NoExport /\ levels = MaxLevels =>
        Cardinality({n \in DOMAIN lines : ~lines[n].exported}) >= MaxLevels - 1
==============================================================================
