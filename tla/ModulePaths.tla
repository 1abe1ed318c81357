------------------------------- MODULE ModulePaths -------------------------------
(***************************************************************************)
(* A program whose modules lie in several directories (src/ModulePaths.c,  *)
(* Traverse1 in src/obnc.c, ImportList in src/Oberon.y,                    *)
(* Generate_ImportList in src/Generate.c). obnc and obnc-compile both      *)
(* search for an imported module, obnc from the directory in which it was  *)
(* started and obnc-compile from the directory of the importing module;    *)
(* the C compiler is told where the header is, and the linker which object *)
(* files there are.                                                        *)
(*                                                                         *)
(* A path is a sequence: 0 for "." or the number of an entry of the search *)
(* path, then names of subdirectories. A place is a pair of a directory    *)
(* and a module. The files made from a module appear in one step and are   *)
(* kept or made again as ObncBuild has it in detail; here it is modified   *)
(* that says whether they are older than the source.                       *)
(***************************************************************************)
EXTENDS Integers, FiniteSets, SequencesExt

CONSTANTS
    Directory, ModuleName,
    Home,        \* the directory in which obnc is started
    Below,       \* Below[d]: the first-level subdirectories of d, by name
    Prefix,      \* Prefix[m]: the module's prefix, or "" (ModulePrefix)
    SearchEntry, \* what the entries of OBNC_IMPORT_PATH and, last, the
                 \* installed library denote: functions of the directory
                 \* in which a process runs
    DirPrefix,   \* DirPrefix[d]: what names in object code of d begin with
    InstalledImports, \* the import lists of the modules installed without
                 \* their sources, by place
    Draft,       \* Draft[l]: import lists that the source at place l may have
    Root,        \* entry point modules, in Home
    PathUsage,   \* {"rebinding"}, or {} for owners who never add or remove
                 \* a module so that an import denotes another one
    Nowhere, NoFile

Location == Directory \X ModuleName
Installed == DOMAIN InstalledImports
InLibrary(l) == [i \in DOMAIN InstalledImports[l] |-> <<l[1], InstalledImports[l][i]>>]
Made == [imports : Seq(ModuleName), includes : Seq(Location),
         uses : Seq({DirPrefix[d] : d \in Directory} \X ModuleName)]

ASSUME PathsAssumption ==
    /\ IsFiniteSet(Directory) /\ IsFiniteSet(ModuleName)
    /\ Home \in Directory /\ Root \subseteq ModuleName
    /\ DOMAIN Below = Directory
    /\ \A d \in Directory : Range(Below[d]) \subseteq Directory
    /\ SearchEntry \in Seq([Directory -> Directory \union {Nowhere}])
    /\ \A l \in Location : Draft[l] \subseteq Seq(ModuleName)
    /\ PathUsage \subseteq {"rebinding"}
    /\ Nowhere \notin Directory
    /\ NoFile \notin Seq(ModuleName) /\ NoFile \notin Made

(* Modules are installed with those that they import, in one directory.    *)
ASSUME LibraryAssumption ==
    /\ Installed \subseteq Location
    /\ \A l \in Installed : /\ InstalledImports[l] \in Seq(ModuleName)
                            /\ Range(InLibrary(l)) \subseteq Installed

VARIABLES
    list,        \* list[l]: the import list of the source at l, or NoFile
    made,        \* made[l]: what was made of it, or NoFile
    modified,    \* the places of sources newer than what was made of them
    path,        \* the modules being traversed, the innermost last
    discovered,  \* the modules met: records [module, path]
    changed,     \* those whose symbol file has changed incompatibly
    phase

fileVars == <<list, made, modified>>
traversalVars == <<path, discovered, changed>>
pathVars == <<list, made, modified, path, discovered, changed, phase>>

-----------------------------------------------------------------------------
(* The search (ModulePaths_Directory).                                     *)

Subdirectory(d, name) ==
    IF d /= Nowhere /\ name \in DOMAIN Below[d] THEN Below[d][name] ELSE Nowhere

(* What the number x at the beginning of a path denotes in directory c.    *)
StartIn(x, c) == IF x = 0 THEN c ELSE SearchEntry[x][c]

(* The directory that the path p denotes for a process in directory c.     *)
At(p, c) ==
    LET at[k \in 1..Len(p)] ==
            IF k > 1 THEN Subdirectory(at[k - 1], p[k]) ELSE StartIn(p[1], c)
    IN at[Len(p)]

HasFiles(d, m) ==
    d /= Nowhere /\ (list[d, m] /= NoFile \/ made[d, m] /= NoFile \/ <<d, m>> \in Installed)

(* The directories searched: each entry, then its subdirectory that has    *)
(* the prefix of the module as its name (SearchPath). Mutant: the          *)
(* directory of the importing module is searched last.                     *)
CandidateLast(i, m, p) ==
    LET entry == IF i \div 2 = Len(SearchEntry) THEN p ELSE <<i \div 2 + 1>>
    IN IF i % 2 = 0 THEN entry ELSE Append(entry, Prefix[m])
Candidate(i, m, p) ==
    LET entry == IF i < 2 THEN p ELSE <<i \div 2>>
    IN IF i % 2 = 0 THEN entry ELSE Append(entry, Prefix[m])

(* <<>> when there is no such module.                                      *)
Found(m, p, c) ==
    LET present == {i \in 0..2 * Len(SearchEntry) + 1 : HasFiles(At(Candidate(i, m, p), c), m)}
    IN IF present = {} THEN <<>> ELSE Candidate(Min(present), m, p)

-----------------------------------------------------------------------------
(* What obnc knows of a module that it has met: its name and path.         *)

ModuleNode(m, p) == [module |-> m, path |-> p]
PlaceOf(n) == <<At(n.path, Home), n.module>>

ImportNames(l) ==
    CASE list[l] /= NoFile -> list[l]
      [] list[l] = NoFile /\ made[l] /= NoFile -> made[l].imports
      [] list[l] = NoFile /\ made[l] = NoFile /\ l \in Installed -> InstalledImports[l]
      [] OTHER -> <<>>

(* GetImportedFiles.                                                       *)
ImportedFiles(n) ==
    LET names == ImportNames(PlaceOf(n))
    IN [i \in DOMAIN names |-> ModuleNode(names[i], Found(names[i], n.path, Home))]

(* Mutant of MatchingModuleNode: directories are not compared.             *)
MatchingModule(n, nodes) == \E k \in nodes : k.module = n.module
MatchingModuleNode(n, nodes) == n \in nodes

Visit(n) == [node |-> n, imports |-> ImportedFiles(n), done |-> 0]
CurrentVisit == path[Len(path)]
Import == CurrentVisit.imports[CurrentVisit.done + 1]
NodePath == {path[i].node : i \in DOMAIN path}

(* The directory in which obnc-compile runs. Mutant: obnc's own.           *)
CompileDirHome(n) == Home
CompileDir(n) == At(n.path, Home)

-----------------------------------------------------------------------------
(* What obnc-compile and the C compiler make of an import.                 *)

(* The import in Oberon.y: where there is a directory .obnc, the symbol    *)
(* file has to be in there.                                                *)
SymbolFileFound(p) ==
    IF \E k \in ModuleName : made[p[1], k] /= NoFile THEN made[p] /= NoFile ELSE p \in Installed

(* The places of the headers that the C compiler reads for a sequence of   *)
(* #include directives: the text of a header, which begins with those of   *)
(* its own imports, takes the place of its directive, unless one with the  *)
(* same module name was read before.                                       *)
Includes(l) ==
    CASE made[l] /= NoFile -> made[l].includes
      [] made[l] = NoFile /\ l \in Installed -> InLibrary(l)
      [] OTHER -> <<>>
Headers(read, includes) ==
    LET headers[text \in (SUBSET Location) \X Seq(Location)] ==
            LET r == text[1]
                ls == text[2]
            IN IF ls = <<>> THEN r
               ELSE IF \E k \in r : k[2] = Head(ls)[2] THEN headers[<<r, Tail(ls)>>]
               ELSE headers[<<r \union {Head(ls)}, Includes(Head(ls)) \o Tail(ls)>>]
    IN headers[<<read, includes>>]

(* The places that imports of names denote for a process in directory c.   *)
Denoted(names, c) == [i \in DOMAIN names |-> <<At(Found(names[i], <<0>>, c), c), names[i]>>]

ObjectName(l) == <<DirPrefix[l[1]], l[2]>>

(* What the names of an import m stand for in the code of l: the header    *)
(* that was read defines them, with the prefix of its own directory. The   *)
(* header of an entry point is not included (Generate_ModuleHeading).      *)
UsedName(l, includes, m) ==
    LET own == IF l[2] \in Root THEN {} ELSE {l}
        header == CHOOSE k \in Headers(own, includes) : k[2] = m
    IN ObjectName(header)

MadeFrom(l, includes) ==
    [imports |-> list[l], includes |-> includes,
     uses |-> [i \in DOMAIN includes |-> UsedName(l, includes, includes[i][2])]]

-----------------------------------------------------------------------------
PathsInit ==
    /\ list = [l \in Location |-> NoFile]
    /\ made = [l \in Location |-> NoFile]
    /\ modified = {}
    /\ path = <<>> /\ discovered = {} /\ changed = {}
    /\ phase = "idle"

(* The owner acts between builds. Unless "rebinding" is in PathUsage, a    *)
(* module appears or disappears only where no module that imports one of    *)
(* its name keeps what was made of it.                                      *)
MayRebind(names, cleaned) ==
    LET importers == {l \in Location : made[l] /= NoFile /\ Range(made[l].imports) \cap names /= {}}
    IN "rebinding" \in PathUsage \/ \A l \in importers : l[1] \in cleaned

OwnerStep ==
    /\ phase /= "traversing"
    /\ phase' = "idle" /\ discovered' = {} /\ changed' = {} /\ path' = <<>>

Save(l, names) ==
    /\ OwnerStep
    /\ HasFiles(l[1], l[2]) \/ MayRebind({l[2]}, {})
    /\ list' = [list EXCEPT ![l] = names]
    /\ modified' = modified \union {l}
    /\ UNCHANGED made

(* Of what was made of the module only a library remains.                  *)
RemoveSource(l) ==
    /\ OwnerStep
    /\ list[l] /= NoFile /\ (made[l] /= NoFile \/ MayRebind({l[2]}, {}))
    /\ list' = [list EXCEPT ![l] = NoFile]
    /\ modified' = modified \ {l}
    /\ UNCHANGED made

(* The directory .obnc of d is removed.                                    *)
Clean(d) ==
    /\ OwnerStep
    /\ \E m \in ModuleName : made[d, m] /= NoFile
    /\ MayRebind({m \in ModuleName : made[d, m] /= NoFile /\ list[d, m] = NoFile}, {d})
    /\ made' = [l \in Location |-> IF l[1] = d THEN NoFile ELSE made[l]]
    /\ UNCHANGED <<list, modified>>

(* Mutant of EnterModule: the module is not put among those discovered.    *)
EnterModuleUnseen(n, before, met) ==
    LET visit == Visit(n)
    IN /\ path' = Append(before, visit)
       /\ discovered' = met
       /\ phase' = IF \E i \in DOMAIN visit.imports : visit.imports[i].path = <<>>
                   THEN "module-not-found" ELSE "traversing"

(* obnc meets the module n: all of its imports must be found.              *)
EnterModule(n, before, met) ==
    LET visit == Visit(n)
    IN /\ path' = Append(before, visit)
       /\ discovered' = met \union {n}
       /\ phase' = IF \E i \in DOMAIN visit.imports : visit.imports[i].path = <<>>
                   THEN "module-not-found" ELSE "traversing"

Start(m) ==
    /\ phase /= "traversing" /\ list[Home, m] /= NoFile
    /\ EnterModule(ModuleNode(m, <<0>>), <<>>, {})
    /\ changed' = {}
    /\ UNCHANGED fileVars

Traverse ==
    /\ phase = "traversing" /\ path /= <<>>
    /\ CurrentVisit.done < Len(CurrentVisit.imports)
    /\ UNCHANGED <<fileVars, changed>>
    /\ LET after == [path EXCEPT ![Len(path)].done = @ + 1]
       IN \/ /\ MatchingModuleNode(Import, NodePath)
             /\ phase' = "import-cycle"
             /\ UNCHANGED <<path, discovered>>
          \/ /\ ~MatchingModuleNode(Import, NodePath)
             /\ ~MatchingModuleNode(Import, discovered)
             /\ EnterModule(Import, after, discovered)
          \/ /\ ~MatchingModuleNode(Import, NodePath)
             /\ MatchingModuleNode(Import, discovered)
             /\ path' = after
             /\ UNCHANGED <<discovered, phase>>

(* The imports of the innermost module are done.                           *)
ImportsDone ==
    /\ phase = "traversing" /\ path /= <<>>
    /\ CurrentVisit.done = Len(CurrentVisit.imports)

Leave == path' = SubSeq(path, 1, Len(path) - 1)

NeedsCompilation(l) ==
    \/ l \in modified \/ made[l] = NoFile
    \/ \E i \in DOMAIN CurrentVisit.imports : CurrentVisit.imports[i] \in changed

KeepObjectFile ==
    /\ ImportsDone
    /\ LET l == PlaceOf(CurrentVisit.node)
       IN list[l] = NoFile \/ ~NeedsCompilation(l)
    /\ Leave
    /\ UNCHANGED <<fileVars, discovered, changed, phase>>

(* What obnc-compile says of the module in directory c that imports names. *)
CompileOutcome(names, c) ==
    IF \E m \in Range(names) : Found(m, <<0>>, c) = <<>> THEN "imported-module-not-found"
    ELSE IF \E l \in Range(Denoted(names, c)) : ~SymbolFileFound(l) THEN "symbol-file-not-found"
    ELSE "traversing"

(* obnc-compile and the C compiler; incompatible: the symbol file that was *)
(* there before is not a subset of the new one.                            *)
UpdateObjectFile(incompatible) ==
    /\ ImportsDone
    /\ LET l == PlaceOf(CurrentVisit.node)
           c == CompileDir(CurrentVisit.node)
           made1 == MadeFrom(l, Denoted(list[l], c))
           compiled == CompileOutcome(list[l], c) = "traversing"
       IN /\ list[l] /= NoFile /\ NeedsCompilation(l)
          /\ incompatible => made[l] /= NoFile
          /\ phase' = CompileOutcome(list[l], c)
          /\ made' = IF compiled THEN [made EXCEPT ![l] = made1] ELSE made
          /\ modified' = IF compiled THEN modified \ {l} ELSE modified
          /\ changed' = IF compiled /\ incompatible THEN changed \union {CurrentVisit.node} ELSE changed
          /\ Leave
          /\ UNCHANGED <<list, discovered>>

Definers(name) == {n \in discovered : ObjectName(PlaceOf(n)) = name}
UsedBy(l) ==
    CASE made[l] /= NoFile -> Range(made[l].uses)
      [] made[l] = NoFile /\ l \in Installed -> {ObjectName(k) : k \in Range(InLibrary(l))}
      [] OTHER -> {}
UsedNames == UNION {UsedBy(PlaceOf(n)) : n \in discovered}

Link ==
    /\ phase = "traversing" /\ path = <<>>
    /\ phase' = IF /\ \A n \in discovered : Definers(ObjectName(PlaceOf(n))) = {n}
                   /\ \A name \in UsedNames : Definers(name) /= {}
                THEN "linked" ELSE "link-failed"
    /\ UNCHANGED <<fileVars, traversalVars>>

Build ==
    \/ Traverse \/ KeepObjectFile \/ Link
    \/ \E incompatible \in BOOLEAN : UpdateObjectFile(incompatible)

PathsNext ==
    \/ \E l \in Location : \E names \in Draft[l] : Save(l, names)
    \/ \E l \in Location : RemoveSource(l)
    \/ \E d \in Directory : Clean(d)
    \/ \E m \in Root : Start(m)
    \/ Build

PathsSpec == PathsInit /\ [][PathsNext]_pathVars

-----------------------------------------------------------------------------
(* Type invariant: the modules on the path are discovered, and what was    *)
(* made of a source that was not modified has its import list (Traverse1,  *)
(* GetImportedFiles).                                                      *)
PathsTypeOK ==
    /\ \A l \in Location : list[l] \in Draft[l] \union {NoFile}
    /\ \A l \in Location \ modified :
          list[l] /= NoFile /\ made[l] /= NoFile => made[l].imports = list[l]
    /\ modified \subseteq {l \in Location : list[l] /= NoFile}
    /\ NodePath \subseteq discovered /\ changed \subseteq discovered
    /\ \A n \in discovered : At(n.path, Home) \in Directory

(* What obnc finds, obnc-compile and the linker find too, in spite of      *)
(* their different current directories and notions of what a module is: no *)
(* build fails once all import lists are read and have no cycle.           *)
ToolsAgree ==
    phase \notin {"imported-module-not-found", "symbol-file-not-found", "link-failed"}

(* The module that an import of m in directory d denotes by the manual: it *)
(* is in d, in the entry of the path or in the library, whichever comes    *)
(* first, or else in the subdirectory of it named like the prefix of m.    *)
Meant(d, m) ==
    LET entries == <<d>> \o [i \in DOMAIN SearchEntry |-> SearchEntry[i][d]]
        sub(e) == Subdirectory(e, Prefix[m])
        e1 == entries[Min({i \in DOMAIN entries :
                              HasFiles(entries[i], m) \/ HasFiles(sub(entries[i]), m)})]
    IN <<IF HasFiles(e1, m) THEN e1 ELSE sub(e1), m>>
MeantImports(l) == LET names == ImportNames(l) IN [i \in DOMAIN names |-> Meant(l[1], names[i])]

(* What is linked are the modules in reach of the entry point, each import *)
(* being the first that the search meets, and none of them twice           *)
(* (MatchingModuleNode, ModulePaths_Directory).                            *)
Reach(l) ==
    LET within[k \in 0..Cardinality(Location)] ==
            IF k = 0 THEN {l}
            ELSE UNION {{j} \union Range(MeantImports(j)) : j \in within[k - 1]}
    IN within[Cardinality(Location)]
ReachLinked ==
    phase = "linked" =>
        \E m \in Root :
            /\ {PlaceOf(n) : n \in discovered} = Reach(<<Home, m>>)
            /\ Cardinality(discovered) = Cardinality(Reach(<<Home, m>>))

(* The code of a linked module uses the modules that its imports mean,     *)
(* also where modules of the same name in other directories are linked     *)
(* (Generate_ImportList, GenerateObjectFileSymbolDefinitions).             *)
BoundAsMeant ==
    phase = "linked" =>
        \A n \in discovered :
            LET l == PlaceOf(n) meant == MeantImports(l)
            IN made[l] /= NoFile =>
                   made[l].uses = [i \in DOMAIN meant |-> ObjectName(meant[i])]

-----------------------------------------------------------------------------
(* What the properties rest on, besides owners who rebind no import.       *)

(* Entries of the search path denote the same in every directory.          *)
AbsoluteEntries ==
    \A i \in DOMAIN SearchEntry : \A c, d \in Directory : SearchEntry[i][c] = SearchEntry[i][d]

(* No directory is reached in two ways: the entries of the search path and *)
(* the directory in which obnc is started are different, none of them is a *)
(* subdirectory that the search enters, and subdirectories have one name.  *)
SearchStart == 0..Len(SearchEntry)
OnePath ==
    /\ \A x \in SearchStart :
          StartIn(x, Home) \in Directory =>
             /\ \A y \in SearchStart : StartIn(y, Home) = StartIn(x, Home) => x = y
             /\ \A d \in Directory : \A k \in DOMAIN Below[d] : Below[d][k] /= StartIn(x, Home)
    /\ \A d, e \in Directory : \A j \in DOMAIN Below[d], k \in DOMAIN Below[e] :
          Below[d][j] = Below[e][k] => d = e /\ j = k

(* Names in the object code of different directories are different, and a  *)
(* directory with installed modules has no sources.                        *)
NamesApart == \A d, e \in Directory : DirPrefix[d] = DirPrefix[e] => d = e
LibraryApart == \A l \in Installed : \A k \in Location : k[1] = l[1] => Draft[k] = {}

(* A place is real when it may have a source or is installed. A name that  *)
(* modules of several places have is only the first of an import list, if  *)
(* it is in there: the C compiler reads that header before any other.      *)
Real == {l \in Location : Draft[l] /= {} \/ l \in Installed}
SharedNamesFirst ==
    \A l \in Location : \A names \in Draft[l] : \A i \in 2..Len(names) :
        \A j, k \in Real : j[2] = names[i] /\ k[2] = names[i] => j = k
================================================================================
